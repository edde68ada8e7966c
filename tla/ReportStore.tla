---------------------------- MODULE ReportStore ----------------------------
(***************************************************************************)
(* The report store on disk over the launches of the application           *)
(* (CrasheeCrashReportStore.c, the file operations of                      *)
(* CrasheeCrashReport.c, and their callers: crasheecrash_install, the      *)
(* upload code of CrashReporter.swift, the crash handler).                 *)
(*                                                                         *)
(* A launch prunes the directory and derives the first report ID from the  *)
(* wall clock; then client threads add, list, read and delete reports, two *)
(* of these operations without g_mutex, while the handler of a crash, which*)
(* never takes the mutex, writes its own report with every client stopped. *)
(* The process may be killed between any two steps; the files stay.        *)
(* A directory listing is one step.                                        *)
(***************************************************************************)
EXTENDS Integers, Sequences, FiniteSets, SequencesExt

CONSTANTS
    Clients,        \* threads that call the store's API
    Handler,        \* the thread that handles a crash
    None,           \* no thread
    MaxReportCount, \* g_maxReportCount
    Instants,       \* bound: the seconds the wall clock passes through, as UTC fields
    IDsPerSecond,   \* 2^23 in the code: the shift of the base ID
    SecondsPerSpan  \* 2^9 in the code: base IDs to one span of the low word

Threads == Clients \cup {Handler}

(* The low word holds LowSpan values (2^32 in the code).                     *)
LowSpan == IDsPerSecond * SecondsPerSpan

(* UTC time as gmtime_r breaks it down; years count from a fixed one, which *)
(* shifts all IDs by one amount.                                            *)
Time == [sec : 0..60, min : 0..59, hour : 0..23, yday : 0..365, year : Nat]

Before(f, g) ==
    \/ f.year < g.year
    \/ f.year = g.year /\ f.yday < g.yday
    \/ f.year = g.year /\ f.yday = g.yday /\ f.hour < g.hour
    \/ f.year = g.year /\ f.yday = g.yday /\ f.hour = g.hour /\ f.min < g.min
    \/ f.year = g.year /\ f.yday = g.yday /\ f.hour = g.hour /\ f.min = g.min
         /\ f.sec < g.sec

ASSUME StoreAssumption ==
    /\ Handler \notin Clients
    /\ None \notin Threads
    /\ MaxReportCount \in Nat
    /\ IDsPerSecond \in Nat \ {0}
    /\ SecondsPerSpan \in Nat \ {0}

ASSUME InstantsAssumption ==
    /\ Instants \in Seq(Time)
    /\ Instants # <<>>
    /\ \A i, j \in 1..Len(Instants) : i < j => Before(Instants[i], Instants[j])

-----------------------------------------------------------------------------
(* A report is empty from its creation to its first write, and stays short  *)
(* when the write fails or the process dies in it.                          *)
Report == {"empty", "short", "whole"}

(* The phases of a call.                                                    *)
Locked == {"addOpen", "addWrite", "deleting"}   \* holds g_mutex
Writing == {"claim", "open", "write"}           \* a captured event
Recrashing == {"rename", "reopen", "embed", "remove", "rewrite"}
Phases == {"idle", "counted", "reading", "die"}
            \cup Locked \cup Writing \cup Recrashing

VARIABLES
    clock,      \* index in Instants of the current second
    stage,      \* "down", "pruning" or "up"
    launchTime, \* clock of the last initializeIDs, 0 before the first
    doomed,     \* IDs pruneReports has still to delete
    high, low,  \* g_nextUniqueIDHigh, g_nextUniqueIDLow
    claims,     \* IDs handed out in this launch
    lastID,     \* the last ID handed out, over all launches
    reports,    \* the report files, by ID
    old,        \* IDs of the ".old" files a recrash leaves
    mutex,      \* the holder of g_mutex
    pc,         \* phase of each thread
    reportID,   \* the report a thread works on
    count,      \* the report count a client obtained
    array,      \* the ID array of a client, or what deleteAllReports listed
    placed      \* what crasheecrs_getReportIDs returned for that array

ids == <<launchTime, high, low, claims, lastID>>
disk == <<reports, old>>
locals == <<reportID, count, array, placed>>
vars == <<clock, stage, doomed, ids, disk, mutex, pc, locals>>

-----------------------------------------------------------------------------
(* initializeIDs: the fields in a mixed radix, a second may be a leap one.  *)
(* Mutant: a year of 365 days.                                              *)
TimeCodeShortYear(f) ==
    f.sec + f.min * 61 + f.hour * 61 * 60 + f.yday * 61 * 60 * 24
        + f.year * 61 * 60 * 24 * 365

TimeCode(f) ==
    f.sec + f.min * 61 + f.hour * 61 * 60 + f.yday * 61 * 60 * 24
        + f.year * 61 * 60 * 24 * 366

BaseID(c) == TimeCode(Instants[c]) * IDsPerSecond

NextID == high + low

(* getReportCount and getReportIDs see the ".old" files too: their names    *)
(* differ after the number only.                                            *)
Entries == {<<id, "json">> : id \in DOMAIN reports} \cup {<<id, "old">> : id \in old}

ListedIDs == {e[1] : e \in Entries}
Below(id) == {e \in Entries : e[1] < id}
UpTo(id) == {e \in Entries : e[1] <= id}

(* Mutant: qsort compares the wrong way around.                             *)
SortedDown ==
    LET n == Cardinality(Entries) IN
    [i \in 1..n |-> CHOOSE id \in ListedIDs :
        n - Cardinality(UpTo(id)) < i /\ i <= n - Cardinality(Below(id))]

(* The array of IDs that qsort leaves: in place i is the ID that fewer than *)
(* i entries precede and at least i entries do not exceed.                      *)
Sorted ==
    LET n == Cardinality(Entries) IN
    [i \in 1..n |-> CHOOSE id \in ListedIDs :
        Cardinality(Below(id)) < i /\ i <= Cardinality(UpTo(id))]

WithReport(id, r) == [x \in DOMAIN reports \cup {id} |-> IF x = id THEN r ELSE reports[x]]
WithoutReport(id) == [x \in DOMAIN reports \ {id} |-> reports[x]]
Rewritten(id, r) == IF id \in DOMAIN reports THEN WithReport(id, r) ELSE reports

(* A crash being handled stops every client where it is.                    *)
Running(t) == stage = "up" /\ (t = Handler \/ pc[Handler] = "idle")
At(t, p) == Running(t) /\ pc[t] = p
Goto(t, p) == pc' = [pc EXCEPT ![t] = p]

-----------------------------------------------------------------------------
(* Launches and deaths.                                                     *)

Init ==
    /\ clock = 1
    /\ stage = "down"
    /\ launchTime = 0
    /\ doomed = <<>>
    /\ high = 0 /\ low = 0
    /\ claims = 0
    /\ lastID = -1
    /\ reports = <<>>
    /\ old = {}
    /\ mutex = None
    /\ pc = [t \in Threads |-> "idle"]
    /\ reportID = [t \in Threads |-> 0]
    /\ count = [t \in Threads |-> 0]
    /\ array = [t \in Threads |-> <<>>]
    /\ placed = [t \in Threads |-> 0]

Tick ==
    /\ clock < Len(Instants)
    /\ clock' = clock + 1
    /\ UNCHANGED <<stage, doomed, ids, disk, mutex, pc, locals>>

(* Mutant: one report too many is left.                                     *)
LaunchOffByOne ==
    /\ stage = "down"
    /\ clock > launchTime
    /\ stage' = "pruning"
    /\ doomed' = SubSeq(Sorted, 1, Len(Sorted) - MaxReportCount - 1)
    /\ UNCHANGED <<clock, ids, disk, mutex, pc, locals>>

(* crasheecrs_initialize up to the loop of pruneReports.                    *)
(* Assumption: a second has passed since the last launch took its base ID,  *)
(* and the clock is not set back.                                           *)
Launch ==
    /\ stage = "down"
    /\ clock > launchTime
    /\ stage' = "pruning"
    /\ doomed' = SubSeq(Sorted, 1, Len(Sorted) - MaxReportCount)
    /\ UNCHANGED <<clock, ids, disk, mutex, pc, locals>>

PruneReport ==
    /\ stage = "pruning"
    /\ doomed # <<>>
    /\ reports' = WithoutReport(Head(doomed))
    /\ doomed' = Tail(doomed)
    /\ UNCHANGED <<clock, stage, ids, old, mutex, pc, locals>>

InitializeIDs ==
    /\ stage = "pruning"
    /\ doomed = <<>>
    /\ stage' = "up"
    /\ launchTime' = clock
    /\ high' = BaseID(clock) - (BaseID(clock) % LowSpan)
    /\ low' = BaseID(clock) % LowSpan
    /\ claims' = 0
    /\ UNCHANGED <<clock, doomed, lastID, disk, mutex, pc, locals>>

(* The end of the process: a kill from outside, or the crash.               *)
Stop ==
    /\ stage' = "down"
    /\ doomed' = <<>>
    /\ mutex' = None
    /\ pc' = [t \in Threads |-> "idle"]
    /\ reportID' = [t \in Threads |-> 0]
    /\ count' = [t \in Threads |-> 0]
    /\ array' = [t \in Threads |-> <<>>]
    /\ placed' = [t \in Threads |-> 0]
    /\ UNCHANGED <<clock, ids, disk>>

Kill == stage # "down" /\ Stop

-----------------------------------------------------------------------------
(* A captured event: crasheecrs_getNextCrashReport, without the mutex, and  *)
(* the file it names.  The handler of a crash runs it with every client     *)
(* stopped; a client runs it for a user report that suspends nothing.       *)

BeginReport(t) ==
    /\ At(t, "idle")
    /\ Goto(t, "claim")
    /\ UNCHANGED <<clock, stage, doomed, ids, disk, mutex, locals>>

(* Mutant: the counter is no atomic one, an increment may get lost.          *)
TakeIDRacing(t) ==
    /\ t = Handler \/ claims < IDsPerSecond - 1
    /\ claims' = claims + 1
    /\ reportID' = [reportID EXCEPT ![t] = NextID]
    /\ lastID' = NextID
    /\ low' \in {low, (low + 1) % LowSpan}

(* getNextUniqueID: the low word alone counts, and wraps.                   *)
(* Assumption: the clients take fewer than IDsPerSecond IDs in a launch.    *)
TakeID(t) ==
    /\ t = Handler \/ claims < IDsPerSecond - 1
    /\ claims' = claims + 1
    /\ reportID' = [reportID EXCEPT ![t] = NextID]
    /\ lastID' = NextID
    /\ low' = (low + 1) % LowSpan

(* Mutant: the handler of a crash waits for g_mutex as well.                *)
ClaimLocked(t) ==
    /\ At(t, "claim")
    /\ mutex = None
    /\ TakeID(t)
    /\ Goto(t, "open")
    /\ UNCHANGED <<clock, stage, doomed, launchTime, high, disk, mutex, count,
                   array, placed>>

ClaimID(t) ==
    /\ At(t, "claim")
    /\ TakeID(t)
    /\ Goto(t, "open")
    /\ UNCHANGED <<clock, stage, doomed, launchTime, high, disk, mutex, count,
                   array, placed>>

(* The event is done with: a crash ends the process, a client goes on.       *)
EndReport(t) ==
    /\ Goto(t, IF t = Handler THEN "die" ELSE "idle")
    /\ reportID' = [reportID EXCEPT ![t] = 0]

(* O_CREAT | O_EXCL: without a new file there is no report.                 *)
OpenReport(t) ==
    /\ At(t, "open")
    /\ \/ /\ reportID[t] \notin DOMAIN reports
          /\ reports' = WithReport(reportID[t], "empty")
          /\ Goto(t, "write")
          /\ UNCHANGED reportID
       \/ /\ EndReport(t)
          /\ UNCHANGED reports
    /\ UNCHANGED <<clock, stage, doomed, ids, old, mutex, count, array, placed>>

(* The report is written to the file, unless it has been deleted meanwhile. *)
WriteReport(t) ==
    /\ At(t, "write")
    /\ reports' = Rewritten(reportID[t], "whole")
    /\ EndReport(t)
    /\ UNCHANGED <<clock, stage, doomed, ids, old, mutex, count, array, placed>>

(* The handler faults in it, and the recrash report takes over: the file is *)
(* renamed, opened again, the old content embedded, the old file removed.   *)
Recrash(t) ==
    /\ t = Handler
    /\ At(t, "write")
    /\ Goto(t, "rename")
    /\ UNCHANGED <<clock, stage, doomed, ids, disk, mutex, locals>>

RenameReport(t) ==
    /\ At(t, "rename")
    /\ IF reportID[t] \in DOMAIN reports
       THEN old' = old \cup {reportID[t]}
       ELSE UNCHANGED old
    /\ reports' = WithoutReport(reportID[t])
    /\ Goto(t, "reopen")
    /\ UNCHANGED <<clock, stage, doomed, ids, mutex, locals>>

ReopenReport(t) ==
    /\ At(t, "reopen")
    /\ \/ /\ reports' = WithReport(reportID[t], "empty")
          /\ Goto(t, "embed")
          /\ UNCHANGED reportID
       \/ /\ EndReport(t)
          /\ UNCHANGED reports
    /\ UNCHANGED <<clock, stage, doomed, ids, old, mutex, count, array, placed>>

EmbedOld(t) ==
    /\ At(t, "embed")
    /\ reports' = Rewritten(reportID[t], "short")
    /\ Goto(t, "remove")
    /\ UNCHANGED <<clock, stage, doomed, ids, old, mutex, locals>>

RemoveOld(t) ==
    /\ At(t, "remove")
    /\ old' = old \ {reportID[t]}
    /\ Goto(t, "rewrite")
    /\ UNCHANGED <<clock, stage, doomed, ids, reports, mutex, locals>>

RewriteReport(t) ==
    /\ At(t, "rewrite")
    /\ reports' = Rewritten(reportID[t], "whole")
    /\ EndReport(t)
    /\ UNCHANGED <<clock, stage, doomed, ids, old, mutex, count, array, placed>>

Die(t) == At(t, "die") /\ Stop

-----------------------------------------------------------------------------
(* The API, on client threads.                                              *)

Acquire(t) == mutex = None /\ mutex' = t
Release(t) == mutex' = None

(* Mutant: the mutex is not taken.                                          *)
AddUnlocked(t) ==
    /\ At(t, "idle")
    /\ TakeID(t)
    /\ Goto(t, "addOpen")
    /\ UNCHANGED <<clock, stage, doomed, launchTime, high, disk, mutex, count,
                   array, placed>>

(* crasheecrs_addUserReport: the ID ...                                     *)
AddUserReport(t) ==
    /\ At(t, "idle")
    /\ Acquire(t)
    /\ TakeID(t)
    /\ Goto(t, "addOpen")
    /\ UNCHANGED <<clock, stage, doomed, launchTime, high, disk, count, array,
                   placed>>

(* Mutant: the failed open returns with the mutex locked.                   *)
AddOpenKeepsLock(t) ==
    /\ At(t, "addOpen")
    /\ \/ /\ reports' = WithReport(reportID[t], "empty")
          /\ Goto(t, "addWrite")
          /\ UNCHANGED reportID
       \/ /\ EndReport(t)
          /\ UNCHANGED reports
    /\ UNCHANGED <<clock, stage, doomed, ids, old, mutex, count, array, placed>>

(* ... the file, created or taken over as it is, or not to be had ...       *)
AddOpen(t) ==
    /\ At(t, "addOpen")
    /\ \/ /\ reports' = WithReport(reportID[t], "empty")
          /\ Goto(t, "addWrite")
          /\ UNCHANGED <<mutex, reportID>>
       \/ /\ EndReport(t)
          /\ Release(t)
          /\ UNCHANGED reports
    /\ UNCHANGED <<clock, stage, doomed, ids, old, count, array, placed>>

(* ... and one write, which may fail or stop short.                         *)
AddWrite(t) ==
    /\ At(t, "addWrite")
    /\ \E r \in Report : reports' = Rewritten(reportID[t], r)
    /\ EndReport(t)
    /\ Release(t)
    /\ UNCHANGED <<clock, stage, doomed, ids, old, count, array, placed>>

(* The upload: the count makes the array, of zeroes; then its IDs are asked *)
(* for; then each report is read.                                           *)
CountReports(t) ==
    /\ At(t, "idle")
    /\ mutex = None
    /\ count' = [count EXCEPT ![t] = Cardinality(Entries)]
    /\ Goto(t, "counted")
    /\ UNCHANGED <<clock, stage, doomed, ids, disk, mutex, reportID, array, placed>>

(* getReportIDs fills the array up to its size in the directory's order and *)
(* sorts the whole array, the places it did not fill included.              *)
Filled(c) ==
    LET n == IF Cardinality(Entries) < c THEN Cardinality(Entries) ELSE c
    IN {a \in [1..n -> ListedIDs] :
            \E f \in [1..n -> Entries] : /\ IsInjective(f)
                                         /\ \A i \in 1..n : f[i][1] = a[i]}

SortedArray(a, c) ==
    SortSeq(a \o [i \in 1..(c - Len(a)) |-> 0], LAMBDA x, y : x < y)

GetReportIDs(t) ==
    /\ At(t, "counted")
    /\ mutex = None
    /\ \E a \in Filled(count[t]) :
         /\ array' = [array EXCEPT ![t] = SortedArray(a, count[t])]
         /\ placed' = [placed EXCEPT ![t] = Len(a)]
    /\ Goto(t, "reading")
    /\ UNCHANGED <<clock, stage, doomed, ids, disk, mutex, reportID, count>>

ReadReport(t) ==
    /\ At(t, "reading")
    /\ IF array[t] = <<>>
       THEN /\ Goto(t, "idle")
            /\ count' = [count EXCEPT ![t] = 0]
            /\ placed' = [placed EXCEPT ![t] = 0]
            /\ UNCHANGED array
       ELSE /\ mutex = None
            /\ array' = [array EXCEPT ![t] = Tail(@)]
            /\ UNCHANGED <<pc, count, placed>>
    /\ UNCHANGED <<clock, stage, doomed, ids, disk, mutex, reportID>>

(* crasheecrs_deleteReportWithID does not take the mutex.                   *)
DeleteReport(t) ==
    /\ At(t, "idle")
    /\ \E id \in DOMAIN reports : reports' = WithoutReport(id)
    /\ UNCHANGED <<clock, stage, doomed, ids, old, mutex, pc, locals>>

(* crasheecrs_deleteAllReports lists the directory and deletes the files.   *)
DeleteAll(t) ==
    /\ At(t, "idle")
    /\ Acquire(t)
    /\ array' = [array EXCEPT ![t] = SetToSeq(Entries)]
    /\ Goto(t, "deleting")
    /\ UNCHANGED <<clock, stage, doomed, ids, disk, reportID, count, placed>>

DeleteNext(t) ==
    /\ At(t, "deleting")
    /\ IF array[t] = <<>>
       THEN /\ Goto(t, "idle")
            /\ Release(t)
            /\ UNCHANGED <<disk, array>>
       ELSE LET entry == Head(array[t]) IN
            /\ IF entry[2] = "json"
               THEN reports' = WithoutReport(entry[1]) /\ UNCHANGED old
               ELSE old' = old \ {entry[1]} /\ UNCHANGED reports
            /\ array' = [array EXCEPT ![t] = Tail(@)]
            /\ UNCHANGED <<pc, mutex>>
    /\ UNCHANGED <<clock, stage, doomed, ids, reportID, count, placed>>

-----------------------------------------------------------------------------
CaptureStep(t) ==
    \/ ClaimID(t) \/ OpenReport(t) \/ WriteReport(t) \/ RenameReport(t)
    \/ ReopenReport(t) \/ EmbedOld(t) \/ RemoveOld(t) \/ RewriteReport(t) \/ Die(t)

ClientStep(t) ==
    \/ AddOpen(t) \/ AddWrite(t) \/ GetReportIDs(t) \/ ReadReport(t) \/ DeleteNext(t)

ClientCall(t) ==
    \/ AddUserReport(t) \/ CountReports(t) \/ DeleteReport(t) \/ DeleteAll(t)

Next ==
    \/ Tick \/ Launch \/ PruneReport \/ InitializeIDs \/ Kill
    \/ \E t \in Threads : BeginReport(t) \/ CaptureStep(t) \/ Recrash(t)
    \/ \E t \in Clients : ClientStep(t) \/ ClientCall(t)

Spec == Init /\ [][Next]_vars

(* A call that has begun goes on whenever its thread runs.                  *)
FairSpec ==
    /\ Spec
    /\ \A t \in Threads : WF_vars(CaptureStep(t))
    /\ \A t \in Clients : WF_vars(ClientStep(t))

-----------------------------------------------------------------------------
(* Properties.                                                              *)

IDTypes ==
    /\ clock \in 1..Len(Instants)
    /\ stage \in {"down", "pruning", "up"}
    /\ launchTime \in 0..clock
    /\ high \in Nat
    /\ low \in 0..(LowSpan - 1)
    /\ claims \in 0..IDsPerSecond
    /\ lastID \in Int
    /\ DOMAIN reports \subseteq Nat
    /\ old \subseteq Nat
    /\ pc \in [Threads -> Phases]
    /\ reportID \in [Threads -> Nat]

TypeOK ==
    /\ IDTypes
    /\ doomed \in Seq(Nat)
    /\ \A id \in DOMAIN reports : reports[id] \in Report
    /\ mutex \in Clients \cup {None}
    /\ count \in [Threads -> Nat]
    /\ placed \in [Threads -> Nat]

(* Report IDs only ever grow, over all launches: so the order of the IDs is *)
(* the age of the reports, on which pruneReports relies.                    *)
IDsAscend == [][claims' > claims => lastID' > lastID]_vars

(* The file a thread is about to create does not exist: neither a report of *)
(* this launch nor one that an earlier launch left is overwritten, though   *)
(* crasheecrs_addUserReport opens without O_EXCL.                           *)
Opening == {"addOpen", "open", "reopen"}

OpensNewFile ==
    \A t \in Threads : pc[t] \in Opening => reportID[t] \notin DOMAIN reports

(* Two threads never work on one report file.                               *)
Working == {"addOpen", "addWrite", "open", "write"} \cup Recrashing

OwnReports ==
    \A t, u \in Threads :
        t # u /\ pc[t] \in Working /\ pc[u] \in Working => reportID[t] # reportID[u]

(* What makes these inductive: the two words stand for the base ID plus the *)
(* IDs handed out since, until the last one that the launch may hand out;   *)
(* and everything there is has an ID handed out before.                     *)
CountsFromBase ==
    stage = "up" =>
        /\ launchTime > 0
        /\ high = BaseID(launchTime) - (BaseID(launchTime) % LowSpan)
        /\ claims < IDsPerSecond => low = (BaseID(launchTime) % LowSpan) + claims
        /\ pc[Handler] \in {"idle", "claim"} => claims < IDsPerSecond

LaunchesApart ==
    /\ stage = "pruning" => clock > launchTime
    /\ launchTime = 0 => lastID = -1
    /\ launchTime > 0 => lastID < BaseID(launchTime) + claims

NothingAhead ==
    /\ \A id \in DOMAIN reports \cup old : id <= lastID
    /\ \A t \in Threads : pc[t] \in Working => reportID[t] <= lastID
    /\ stage # "up" => \A t \in Threads : pc[t] = "idle"

StoreInv ==
    /\ IDTypes /\ CountsFromBase /\ LaunchesApart /\ NothingAhead
    /\ OpensNewFile /\ OwnReports

(* A prune removes the oldest reports: whatever it deletes is older than    *)
(* everything it keeps, also when a prune before it was cut short.          *)
PruneTakesOldest ==
    [][stage = "pruning" =>
        \A gone \in DOMAIN reports \ DOMAIN reports', kept \in DOMAIN reports' :
            gone < kept]_vars

(* A completed prune leaves at most MaxReportCount report files.            *)
PruneSuffices ==
    [][stage = "pruning" /\ stage' = "up" =>
        Cardinality(DOMAIN reports) <= MaxReportCount]_vars

(* What makes the prune right: the IDs still to delete ascend, every other  *)
(* report is newer than all of them, and there are not too many others.     *)
PruneOrder ==
    stage = "pruning" =>
        /\ \A i, j \in 1..Len(doomed) : i <= j => doomed[i] <= doomed[j]
        /\ \A id \in DOMAIN reports, i \in 1..Len(doomed) :
               \/ id > doomed[i]
               \/ \E j \in 1..Len(doomed) : id = doomed[j]

Spared == {id \in DOMAIN reports : \A i \in 1..Len(doomed) : doomed[i] # id}

PruneEnough == stage = "pruning" => Cardinality(Spared) <= MaxReportCount

(* A thread in a call that takes the mutex is the one that holds it.        *)
LockHeld == \A t \in Clients : pc[t] \in Locked => mutex = t

CallInv == StoreInv /\ TypeOK /\ PruneOrder /\ PruneEnough /\ LockHeld

(* A report that crasheecrs_addUserReport is writing is not read meanwhile. *)
ReadsSettled ==
    [][\A t \in Clients :
        ReadReport(t) /\ array[t] # <<>> =>
            \A u \in Clients : pc[u] = "addWrite" => reportID[u] # Head(array[t])]_vars

(* A crash is always handled to its end, though a client it stopped may     *)
(* hold g_mutex for ever.                                                   *)
CaptureEnds == pc[Handler] # "idle" ~> stage = "down"

(* No call leaves the store locked, on any of its error paths.              *)
LockReleased == []<>(mutex = None)

(* What the header promises of crasheecrs_getReportIDs: as many IDs of      *)
(* reports as it returns are in the array.  The code does not keep to it    *)
(* when a report has gone since the count.                                  *)
ReturnedAreReports ==
    \A t \in Clients : pc[t] = "reading" /\ Len(array[t]) = count[t] =>
        \A i \in 1..placed[t] : array[t][i] # 0

(* What it promises of the maximum: a launch that has pruned leaves no more *)
(* reports, as crasheecrs_getReportCount counts them.  The code does not    *)
(* keep to it: it counts a '.old' file, and never deletes one.              *)
PrunedToMax ==
    [][stage = "pruning" /\ stage' = "up" => Cardinality(Entries) <= MaxReportCount]_vars

=============================================================================
