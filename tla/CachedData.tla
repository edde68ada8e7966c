----------------------------- MODULE CachedData -----------------------------
(***************************************************************************)
(* The cache of thread names (CrasheeCrashCachedData.c): one thread keeps  *)
(* replacing four parallel tables, and the handlers of events look threads *)
(* up in them without a lock.                                              *)
(*                                                                         *)
(* A handler of a fatal event has stopped every other thread, wherever it  *)
(* is; that of a user report may leave them running.  The semaphore keeps  *)
(* the next update from starting, not one under way from going on: the     *)
(* sleep of freeze is only a hope, and is no step here.  A table is known  *)
(* by the number of the update that made it, and 0 stands for NULL.        *)
(***************************************************************************)
EXTENDS Integers, Sequences, FiniteSets

CONSTANTS
    Threads,        \* the Mach threads of the application
    ThreadLists,    \* the lists of them that task_threads may return
    Handlers,       \* the threads that report an event, once each
    Suspending,     \* those of them that have stopped all other threads
    Target,         \* the thread a handler asks for
    MaxUpdates      \* bound: the updates that find a list of threads

ASSUME CachedDataAssumption ==
    /\ ThreadLists \subseteq Seq(Threads)
    /\ Suspending \subseteq Handlers
    /\ Target \in [Handlers -> Threads]
    /\ MaxUpdates \in Nat

(* The global tables in the order they are swapped, and freed.              *)
Kinds == <<"mach", "pthread", "name", "queue">>
Names == {"name", "queue"}

VARIABLES
    step,       \* what the cache thread does next
    at,         \* the kind of table that it has come to
    made,       \* the thread lists of the updates so far
    table,      \* g_allMachThreads, g_allPThreads, g_allThreadNames, g_allQueueNames
    old,        \* the tables that the swaps put into the local pointers
    count,      \* g_allThreadsCount
    oldCount,   \* oldThreadsCount
    live,       \* allocated: the tables <<kind, update, 0>> and their names
    semaphore,  \* g_semaphoreCount
    pc,         \* what each handler does next
    look        \* each handler's lookup: the names it wants, the index, the string

cache == <<step, at, made, table, old, count, oldCount, live>>
vars == <<step, at, made, table, old, count, oldCount, live, semaphore, pc, look>>

NoTables == [k \in 1 .. 4 |-> 0]

Init ==
    /\ step = "poll" /\ at = 1
    /\ made = <<>>
    /\ table = NoTables /\ old = NoTables
    /\ count = 0 /\ oldCount = 0
    /\ live = {}
    /\ semaphore = 0
    /\ pc = [h \in Handlers |-> "away"]
    /\ look = [h \in Handlers |-> [of |-> 3, i |-> 1, got |-> <<3, 0, 1>>]]

(* A handler's report runs from the suspension to the resumption.           *)
Reporting(h) == pc[h] \notin {"away", "done"}
Stopped(p) == \E h \in Suspending \ {p} : Reporting(h)

-----------------------------------------------------------------------------
(* The cache thread.                                                        *)

Length(n) == IF n = 0 THEN 0 ELSE Len(made[n])
Smaller(m, n) == IF m < n THEN m ELSE n

(* What one update allocates: a table of each kind, a string for each name. *)
Table(k, n) == {<<k, n, 0>>}
Strings(k, n, len) == IF Kinds[k] \in Names THEN {<<k, n, i>> : i \in 1 .. len} ELSE {}

Poll ==
    /\ step = "poll"
    /\ step' = IF semaphore <= 0 THEN "list" ELSE "sleep"
    /\ UNCHANGED <<at, made, table, old, count, oldCount, live>>

ListThreads ==
    /\ step = "list" /\ Len(made) < MaxUpdates
    /\ \E list \in ThreadLists :
         /\ made' = Append(made, list)
         /\ live' = live \cup UNION {Table(k, Len(made) + 1)
                       \cup Strings(k, Len(made) + 1, Len(list)) : k \in 1 .. 4}
    /\ oldCount' = count
    /\ step' = "clamp"
    /\ UNCHANGED <<at, table, old, count>>

(* task_threads may refuse.                                                 *)
ListFails ==
    /\ step = "list"
    /\ step' = "sleep"
    /\ UNCHANGED <<at, made, table, old, count, oldCount, live>>

(* The smaller count holds for the tables of both updates.                  *)
ClampCount ==
    /\ step = "clamp"
    /\ count' = Smaller(count, Length(Len(made)))
    /\ step' = "swap" /\ at' = 1
    /\ UNCHANGED <<made, table, old, oldCount, live>>

SwapTable ==
    /\ step = "swap"
    /\ old' = [old EXCEPT ![at] = table[at]]
    /\ table' = [table EXCEPT ![at] = Len(made)]
    /\ IF at < 4 THEN at' = at + 1 /\ step' = step
                 ELSE at' = 1 /\ step' = "count"
    /\ UNCHANGED <<made, count, oldCount, live>>

SetCount ==
    /\ step = "count"
    /\ count' = Length(Len(made))
    /\ step' = "free"
    /\ UNCHANGED <<at, made, table, old, oldCount, live>>

(* Mutant: the loop runs over the names of the new count.                   *)
MutFreeTable ==
    /\ step = "free"
    /\ live' = live \ (Table(at, old[at]) \cup Strings(at, old[at], count))
    /\ IF at < 4 THEN at' = at + 1 /\ step' = step
                 ELSE at' = 1 /\ step' = "sleep"
    /\ UNCHANGED <<made, table, old, count, oldCount>>

(* The names of the old table go with it, as many as there were threads.    *)
FreeTable ==
    /\ step = "free"
    /\ live' = live \ (Table(at, old[at]) \cup Strings(at, old[at], oldCount))
    /\ IF at < 4 THEN at' = at + 1 /\ step' = step
                 ELSE at' = 1 /\ step' = "sleep"
    /\ UNCHANGED <<made, table, old, count, oldCount>>

Wake ==
    /\ step = "sleep"
    /\ step' = "poll"
    /\ UNCHANGED <<at, made, table, old, count, oldCount, live>>

Refresh ==
    /\ ~\E h \in Suspending : Reporting(h)
    /\ \/ Poll \/ ListThreads \/ ListFails \/ ClampCount \/ SwapTable
       \/ SetCount \/ FreeTable \/ Wake
    /\ UNCHANGED <<semaphore, pc, look>>

-----------------------------------------------------------------------------
(* A handler: freeze, one lookup of a name of Target[h], unfreeze.          *)

Goto(h, from, to) == pc[h] = from /\ pc' = [pc EXCEPT ![h] = to]

Enter(h) == Goto(h, "away", "freeze") /\ UNCHANGED <<semaphore, look>>

Freeze(h) ==
    /\ Goto(h, "freeze", "test")
    /\ semaphore' = semaphore + 1
    /\ UNCHANGED look

(* getThreadName and getQueueName are alike: the tables of names must exist. *)
Ask(h) ==
    /\ \E k \in {3, 4} :
         /\ look' = [look EXCEPT ![h].of = k, ![h].i = 1]
         /\ Goto(h, "test", IF table[k] = 0 THEN "unfreeze" ELSE "bound")
    /\ UNCHANGED semaphore

(* Mutant: the loop goes one index too far.                                 *)
MutBound(h) ==
    /\ Goto(h, "bound", IF look[h].i <= count + 1 THEN "compare" ELSE "unfreeze")
    /\ UNCHANGED <<semaphore, look>>

Bound(h) ==
    /\ Goto(h, "bound", IF look[h].i <= count THEN "compare" ELSE "unfreeze")
    /\ UNCHANGED <<semaphore, look>>

(* Where a read leaves the table or the table is freed, it finds anything.  *)
Readable(k, i) == <<k, table[k], 0>> \in live /\ i <= Length(table[k])

Compare(h) ==
    LET i == look[h].i
        next == [look EXCEPT ![h].i = i + 1]
        Found == Goto(h, "compare", "take") /\ UNCHANGED look
        Other == Goto(h, "compare", "bound") /\ look' = next
    IN  /\ IF Readable(1, i)
           THEN IF made[table[1]][i] = Target[h] THEN Found ELSE Other
           ELSE Found \/ Other
        /\ UNCHANGED semaphore

Take(h) ==
    /\ Goto(h, "take", "use")
    /\ look' = [look EXCEPT ![h].got = <<look[h].of, table[look[h].of], look[h].i>>]
    /\ UNCHANGED semaphore

Use(h) == Goto(h, "use", "unfreeze") /\ UNCHANGED <<semaphore, look>>

(* Mutant: the semaphore is a flag.                                         *)
MutUnfreezeAll(h) ==
    /\ Goto(h, "unfreeze", "done")
    /\ semaphore' = 0
    /\ UNCHANGED look

(* Mutant: the report ends without unfreezing.                              *)
MutUnfreeze(h) == Goto(h, "unfreeze", "done") /\ UNCHANGED <<semaphore, look>>

(* One call too many would leave the semaphore as it was.                    *)
Unfreeze(h) ==
    /\ Goto(h, "unfreeze", "done")
    /\ semaphore' = IF semaphore - 1 < 0 THEN semaphore ELSE semaphore - 1
    /\ UNCHANGED look

Handle(h) ==
    /\ ~Stopped(h)
    /\ \/ Enter(h) \/ Freeze(h) \/ Ask(h) \/ Bound(h) \/ Compare(h) \/ Take(h)
       \/ Use(h) \/ Unfreeze(h)
    /\ UNCHANGED cache

-----------------------------------------------------------------------------
Next == Refresh \/ \E h \in Handlers : Handle(h)

Spec == Init /\ [][Next]_vars

(* The scheduler runs every thread that is not stopped, and task_threads    *)
(* does not refuse for ever.                                                *)
FairSpec ==
    /\ Spec
    /\ WF_vars(Refresh)
    /\ SF_vars(Refresh /\ step' = "clamp")
    /\ \A h \in Handlers : WF_vars(Handle(h))

-----------------------------------------------------------------------------
(* Properties.                                                              *)

Frozen == {"test", "bound", "compare", "take", "use", "unfreeze"}
Holders == {h \in Handlers : pc[h] \in Frozen}

TypeOK ==
    /\ step \in {"poll", "list", "clamp", "swap", "count", "free", "sleep"}
    /\ at \in 1 .. 4
    /\ made \in Seq(Seq(Threads)) /\ Len(made) <= MaxUpdates
    /\ table \in [1 .. 4 -> 0 .. Len(made)]
    /\ old \in [1 .. 4 -> 0 .. Len(made)]
    /\ count \in Nat /\ oldCount \in Nat
    /\ live \subseteq (1 .. 4) \X Nat \X Nat
    /\ semaphore \in Nat
    /\ pc \in [Handlers -> {"away", "freeze", "done"} \cup Frozen]
    /\ look \in [Handlers -> [of : {3, 4}, i : Nat, got : (1 .. 4) \X Nat \X Nat]]

(* Whatever point an update has come to, the count never exceeds the length *)
(* of a table that a lookup may index with it (updateThreadList publishes   *)
(* the smaller count before the swaps and the new count after them).        *)
CountFits == \A k \in 1 .. 4 : count <= Length(table[k])

(* A handler that has stopped the cache thread in the middle of an update   *)
(* reads allocated tables, within their bounds, and a string that has not   *)
(* been freed.                                                              *)
SafeLookup ==
    \A h \in Suspending :
        /\ pc[h] = "compare" => Readable(1, look[h].i)
        /\ pc[h] = "take" => Readable(look[h].of, look[h].i)
        /\ pc[h] = "use" => look[h].got \in live

(* Between updates exactly the current tables and their names are           *)
(* allocated: every update frees all of what it replaced, and no more.      *)
Current ==
    UNION {Table(k, table[k]) \cup Strings(k, table[k], Length(table[k])) :
             k \in {j \in 1 .. 4 : table[j] # 0}}
NothingLeaks == step \in {"poll", "list", "sleep"} => live = Current

(* No update begins while any handler is between freeze and unfreeze, of    *)
(* however many that overlap.                                               *)
FreezeHolds == [][step = "poll" /\ step' = "list" => Holders = {}]_vars

(* The handlers that come and go do not keep the cache from being updated.  *)
Refreshed == <>(Len(made) = MaxUpdates)

(* The name found is that of the thread asked for, which the comment in     *)
(* freeze supposes: the update under way has ended.  The code does not keep *)
(* to it: a handler may find tables of two updates.                         *)
NameFits ==
    \A h \in Suspending :
        pc[h] = "use" => LET g == look[h].got IN made[g[2]][g[3]] = Target[h]
=============================================================================
