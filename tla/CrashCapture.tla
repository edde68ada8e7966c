---------------------------- MODULE CrashCapture ----------------------------
(***************************************************************************)
(* How one process captures its own death.  Every thread of the process    *)
(* may fault; the Mach exception handler threads, the POSIX signal handler,*)
(* the C++ terminate handler and the user-report API all run the same      *)
(* pipeline, on the thread that meets the event:                           *)
(*                                                                         *)
(*   suspend every other thread -> note that a fatal event is in progress  *)
(*   -> fill a context -> write a report -> put the old handlers back      *)
(*   -> resume the threads -> let the original handler kill the process    *)
(*                                                                         *)
(* (CrasheeCrashMonitor*.c, CrasheeMachineContext.c, onCrash in            *)
(* CrasheeCrashC.c, the two report writers of CrasheeCrashReport.c.)       *)
(* A second event can reach the pipeline while the first is still in it:   *)
(* from a thread not yet suspended, from a thread created after the list   *)
(* was taken, from an exception already queued on the Mach port, or from   *)
(* the handler itself.  Shared C globals are separate variables and each   *)
(* access that another thread can fall between is a step of its own.       *)
(***************************************************************************)
EXTENDS Integers, Sequences, FiniteSets

CONSTANTS
    AppThreads,     \* threads of the application, the reporter's own excluded
    LateThreads,    \* those of them that do not exist yet at the start
    Primary,        \* the Mach exception thread g_primaryMachThread
    Secondary,      \* its stand-by g_secondaryMachThread
    None,           \* no thread
    Installed,      \* the monitors crasheecm_setActiveMonitors enabled
    ReportKinds,    \* the kinds of user report the application makes
    LongElements,   \* some element of a report is too long to be read back
    Budget          \* bound: how often each kind of event may happen

Handlers == {Primary, Secondary}
Threads == AppThreads \cup Handlers
EarlyThreads == AppThreads \ LateThreads

Monitors == {"mach", "signal", "cpp", "user", "state"}

EventKinds == {"crash", "report", "nested"}

ASSUME ThreadsAssumption ==
    /\ IsFiniteSet(AppThreads)
    /\ LateThreads \subseteq AppThreads
    /\ Primary \notin AppThreads
    /\ Secondary \notin AppThreads
    /\ Primary # Secondary
    /\ None \notin Threads

-----------------------------------------------------------------------------
(* What a thread is capturing.  A "note" is a user report that returns to   *)
(* its caller, a "fatalNote" one that ends in abort(); "All" means          *)
(* logAllThreads.  "nsexc" is an NSException that reaches the C++ terminate *)
(* handler, which steps aside for it.                                       *)
Notes == {"note", "noteAll", "fatalNote", "fatalNoteAll"}
ASSUME MonitorsAssumption ==
    /\ Installed \subseteq Monitors
    /\ ReportKinds \subseteq Notes
    /\ LongElements \in BOOLEAN
    /\ Budget \in [EventKinds -> Nat]

Captures == {"mach", "signal", "cpp", "nsexc"} \cup Notes

(* Mutant: the C++ monitor reports without suspending the others.           *)
SuspendsNotForCPP(k) == k \notin {"note", "fatalNote", "cpp"}

Suspends(k) == k \notin {"note", "fatalNote"}
Fatal(k) == k \notin {"note", "noteAll"}
StaticContext(k) == k \in {"mach", "signal", "cpp"}

(* The phases of a thread, in the order the code passes through them.       *)
Outside == {"unborn", "app", "blocked", "signaled", "starting", "waiting",
            "terminated"}
Suspending == {"suspending", "inSuspend"}
Noting == {"notify", "notified", "swap"}
Disarming == {"disarm", "unhook", "disarmRest"}
Reporting == {"fill", "handle", "claim", "publish", "open", "write", "announce",
              "recrash", "reopen", "embed", "unlink", "rewrite", "after"}
Phases == Outside \cup Suspending \cup Noting \cup Disarming \cup Reporting
            \cup {"resuming", "finish"}

(* The thread owns a fully suspended environment.                           *)
Window == Noting \cup Disarming \cup Reporting

(* Phases in which the handler dereferences the crashed program's memory.   *)
Dangerous == {"fill", "write", "rewrite"}

(* A report file: who opened it, whether its event is fatal, whether it is  *)
(* written to the end, and whether a finished standard report is in it.     *)
File == [writer : Threads, fatal : BOOLEAN, whole : BOOLEAN, saved : BOOLEAN]

VARIABLES
    pc,             \* phase of each thread
    capture,        \* what each thread is capturing, or "none"
    suspendCount,   \* Mach suspend count of each thread
    pending,        \* threads of its list a thread has yet to suspend
    held,           \* threads of its list a thread has suspended
    abandoned,      \* those held by a handler whose own thread faulted in it
    target,         \* thread named by the thread_suspend call in progress
    victim,         \* whose exception message a Mach handler thread took
    recorded,       \* this thread's event callback has returned
    reportID,       \* the report whose file a thread works on
    enabled,        \* monitors whose g_isEnabled is set
    ports,          \* whose exception ports the task has: "ours", "original"
    queue,          \* exception messages waiting on g_exceptionPort
    handling,       \* g_handlingFatalException
    crashedDuring,  \* g_crashedDuringExceptionHandling
    machBusy,       \* g_isHandlingCrash of the Mach monitor
    context,        \* whose event each static g_monitorContext describes
    nextID,         \* g_nextUniqueIDLow
    lastPath,       \* g_lastCrashReportFilePath: the ID in it, 0 when empty
    files,          \* report files, by ID
    old,            \* ".old" files left by a recrash, by ID
    announced,      \* IDs passed to g_reportWrittenCallback
    crashedThisLaunch, \* g_state.crashedThisLaunch, saved to disk
    fatalSeen,      \* some thread met an event that kills the process
    dead,           \* the process has ended
    budget          \* bound: events that may still happen

scheduling == <<suspendCount, pending, held, abandoned, target>>
frame == <<capture, victim, recorded, reportID>>
monitoring == <<enabled, ports, queue, handling, crashedDuring, machBusy>>
store == <<nextID, lastPath, files, old, announced>>
process == <<crashedThisLaunch, fatalSeen, dead, budget>>
vars == <<pc, scheduling, frame, monitoring, context, store, process>>

-----------------------------------------------------------------------------
Running(t) == ~dead /\ suspendCount[t] = 0

(* Thread t runs and leaves phase p.                                        *)
At(t, p) == Running(t) /\ pc[t] = p

Goto(t, p) == pc' = [pc EXCEPT ![t] = p]

(* A file system step: create or replace one entry, or remove it.           *)
WithFile(dir, id, f) ==
    [x \in DOMAIN dir \cup {id} |-> IF x = id THEN f ELSE dir[x]]
WithoutFile(dir, id) == [x \in DOMAIN dir \ {id} |-> dir[x]]

(* A crash or a report is one event of the bound.                           *)
Spend(kind) == /\ budget[kind] > 0
               /\ budget' = [budget EXCEPT ![kind] = @ - 1]

(* task_threads(): every thread that exists, less the caller and the        *)
(* reserved handler threads that the loop skips.  (The first form is the    *)
(* mutant that does not skip the caller.)                                   *)
SnapshotWithSelf(t) == {u \in AppThreads : pc[u] # "unborn"}

Snapshot(t) == {u \in AppThreads : pc[u] # "unborn"} \ {t}

(* Which phase follows the suspension, and which follows the notification.  *)
AfterSuspension(k) == IF k = "nsexc" THEN "resuming"
                      ELSE IF Fatal(k) THEN "notify" ELSE "fill"
AfterNotification(k) == IF k = "mach" THEN "swap" ELSE "fill"

(* Thread t starts to capture event k.                                      *)
Begin(t, k) ==
    /\ capture' = [capture EXCEPT ![t] = k]
    /\ recorded' = [recorded EXCEPT ![t] = FALSE]
    /\ IF Suspends(k)
       THEN /\ pending' = [pending EXCEPT ![t] = Snapshot(t)]
            /\ Goto(t, "suspending")
       ELSE /\ UNCHANGED pending
            /\ Goto(t, AfterSuspension(k))
    /\ UNCHANGED <<suspendCount, held, abandoned, target, reportID>>

-----------------------------------------------------------------------------
(* The application and the kernel.                                          *)

Init ==
    /\ pc = [t \in Threads |->
                IF t \in LateThreads THEN "unborn"
                ELSE IF t \in AppThreads THEN "app"
                ELSE IF "mach" \notin Installed THEN "terminated"
                ELSE IF t = Primary THEN "waiting" ELSE "starting"]
    /\ capture = [t \in Threads |-> "none"]
    /\ suspendCount = [t \in Threads |-> 0]
    /\ pending = [t \in Threads |-> {}]
    /\ held = [t \in Threads |-> {}]
    /\ abandoned = [t \in Threads |-> {}]
    /\ target = [t \in Threads |-> None]
    /\ victim = [t \in Threads |-> None]
    /\ recorded = [t \in Threads |-> FALSE]
    /\ reportID = [t \in Threads |-> 0]
    /\ enabled = Installed
    /\ ports = IF "mach" \in Installed THEN "ours" ELSE "original"
    /\ queue = <<>>
    /\ handling = FALSE
    /\ crashedDuring = FALSE
    /\ machBusy = FALSE
    /\ context = [m \in {"mach", "signal", "cpp"} |-> None]
    /\ nextID = 1
    /\ lastPath = 0
    /\ files = <<>>
    /\ old = <<>>
    /\ announced = {}
    /\ crashedThisLaunch = FALSE
    /\ fatalSeen = FALSE
    /\ dead = FALSE
    /\ budget = Budget

(* A running application thread creates another one.                        *)
CreateThread(t) ==
    /\ \E u \in AppThreads : At(u, "app")
    /\ pc[t] = "unborn"
    /\ Goto(t, "app")
    /\ UNCHANGED <<scheduling, frame, monitoring, context, store, process>>

(* The kernel turns a hardware fault into a message on the exception port   *)
(* and stops the thread until the reply; with the original ports it becomes *)
(* a signal at once.                                                        *)
Fault(t) ==
    IF ports = "ours"
    THEN /\ Goto(t, "blocked")
         /\ queue' = Append(queue, t)
    ELSE /\ Goto(t, "signaled")
         /\ UNCHANGED queue

CrashWithFault(t) ==
    /\ At(t, "app")
    /\ Spend("crash")
    /\ Fault(t)
    /\ fatalSeen' = TRUE
    /\ UNCHANGED <<scheduling, frame, enabled, ports, handling, crashedDuring,
                   machBusy, context, store, crashedThisLaunch, dead>>

(* abort(), SIGPIPE and the like: no Mach exception, only the signal.       *)
CrashWithSignal(t) ==
    /\ At(t, "app")
    /\ Spend("crash")
    /\ Goto(t, "signaled")
    /\ fatalSeen' = TRUE
    /\ UNCHANGED <<scheduling, frame, monitoring, context, store,
                   crashedThisLaunch, dead>>

(* An uncaught exception, of C++ or an NSException: std::terminate calls    *)
(* the handler set_terminate installed, else it aborts.                     *)
CrashWithException(t) ==
    /\ At(t, "app")
    /\ Spend("crash")
    /\ fatalSeen' = TRUE
    /\ IF "cpp" \in enabled
       THEN \E k \in {"cpp", "nsexc"} : Begin(t, k)
       ELSE /\ Goto(t, "signaled")
            /\ UNCHANGED <<scheduling, capture, recorded, reportID>>
    /\ UNCHANGED <<victim, monitoring, context, store, crashedThisLaunch, dead>>

(* crasheecm_reportUserException, from application code.                    *)
ReportUserException(t) ==
    /\ At(t, "app")
    /\ "user" \in enabled
    /\ Spend("report")
    /\ \E k \in ReportKinds : /\ Begin(t, k)
                              /\ fatalSeen' = (fatalSeen \/ Fatal(k))
    /\ UNCHANGED <<victim, monitoring, context, store, crashedThisLaunch, dead>>

(* The handler faults while it reads the crashed program.  Its frame is     *)
(* never resumed, so what it holds stays held.                              *)
(* Bound: a thread abandons one frame.                                      *)
CrashInHandler(t) ==
    /\ \E p \in Dangerous : At(t, p)
    /\ abandoned[t] = {}
    /\ Spend("nested")
    /\ Fault(t)
    /\ abandoned' = [abandoned EXCEPT ![t] = held[t]]
    /\ held' = [held EXCEPT ![t] = {}]
    /\ fatalSeen' = TRUE
    /\ UNCHANGED <<suspendCount, pending, target, frame, enabled, ports,
                   handling, crashedDuring, machBusy, context, store,
                   crashedThisLaunch, dead>>

(* A signal is delivered to the thread that raised it: to handleSignal,     *)
(* once the thread runs, while the signal monitor is enabled; else the      *)
(* kernel ends the process, whether the thread is suspended or not.  A      *)
(* fault whose signal the running handler already blocks ends it as well.   *)
TakeSignal(t) ==
    /\ At(t, "signaled")
    /\ "signal" \in enabled
    /\ Begin(t, "signal")
    /\ UNCHANGED <<victim, monitoring, context, store, process>>

DieOfSignal(t) ==
    /\ ~dead
    /\ pc[t] = "signaled"
    /\ "signal" \notin enabled \/ capture[t] = "signal"
    /\ dead' = TRUE
    /\ UNCHANGED <<pc, scheduling, frame, monitoring, context, store,
                   crashedThisLaunch, fatalSeen, budget>>

(* The secondary handler thread suspends itself before its first mach_msg.  *)
SuspendSelf(t) ==
    /\ t = Secondary
    /\ At(t, "starting")
    /\ Goto(t, "waiting")
    /\ suspendCount' = [suspendCount EXCEPT ![t] = @ + 1]
    /\ UNCHANGED <<pending, held, abandoned, target, frame, monitoring, context,
                   store, process>>

(* A handler thread returns from mach_msg with a message.  With the monitor *)
(* disabled it only replies.                                                *)
ReceiveException(t) ==
    /\ At(t, "waiting")
    /\ queue # <<>>
    /\ queue' = Tail(queue)
    /\ victim' = [victim EXCEPT ![t] = Head(queue)]
    /\ IF "mach" \in enabled
       THEN Begin(t, "mach")
       ELSE /\ capture' = [capture EXCEPT ![t] = "mach"]
            /\ Goto(t, "finish")
            /\ UNCHANGED <<scheduling, recorded, reportID>>
    /\ UNCHANGED <<enabled, ports, handling, crashedDuring, machBusy, context,
                   store, process>>

-----------------------------------------------------------------------------
(* Suspending the environment.                                              *)

(* thread_suspend is entered for one thread of the list ...                 *)
EnterSuspend(t) ==
    /\ At(t, "suspending")
    /\ \E u \in pending[t] : target' = [target EXCEPT ![t] = u]
    /\ Goto(t, "inSuspend")
    /\ UNCHANGED <<suspendCount, pending, held, abandoned, frame, monitoring,
                   context, store, process>>

(* ... and takes effect inside the kernel, even when another thread has     *)
(* suspended the caller in between.                                         *)
SuspendTarget(t) ==
    /\ ~dead
    /\ pc[t] = "inSuspend"
    /\ suspendCount' = [suspendCount EXCEPT ![target[t]] = @ + 1]
    /\ held' = [held EXCEPT ![t] = @ \cup {target[t]}]
    /\ pending' = [pending EXCEPT ![t] = @ \ {target[t]}]
    /\ target' = [target EXCEPT ![t] = None]
    /\ Goto(t, "suspending")
    /\ UNCHANGED <<abandoned, frame, monitoring, context, store, process>>

(* Mutant: the loop over the list may stop short.                           *)
SuspendSome(t) ==
    /\ At(t, "suspending")
    /\ Goto(t, AfterSuspension(capture[t]))
    /\ machBusy' = (machBusy \/ capture[t] = "mach")
    /\ UNCHANGED <<scheduling, frame, enabled, ports, queue, handling,
                   crashedDuring, context, store, process>>

SuspendComplete(t) ==
    /\ At(t, "suspending")
    /\ pending[t] = {}
    /\ Goto(t, AfterSuspension(capture[t]))
    /\ machBusy' = (machBusy \/ capture[t] = "mach")
    /\ UNCHANGED <<scheduling, frame, enabled, ports, queue, handling,
                   crashedDuring, context, store, process>>

(* Mutant: the loop ends one thread early.                                  *)
ResumeAllButOne(t) ==
    /\ At(t, "resuming")
    /\ IF Cardinality(held[t]) < 2
       THEN /\ Goto(t, "finish")
            /\ held' = [held EXCEPT ![t] = {}]
            /\ UNCHANGED suspendCount
       ELSE /\ \E u \in held[t] :
                 /\ suspendCount' = [suspendCount EXCEPT ![u] = @ - 1]
                 /\ held' = [held EXCEPT ![t] = @ \ {u}]
            /\ UNCHANGED pc
    /\ UNCHANGED <<pending, abandoned, target, frame, monitoring, context,
                   store, process>>

(* crasheemc_resumeEnvironment, one thread_resume at a time.  thread_resume *)
(* fails on a thread that is not suspended.                                 *)
Resume(t) ==
    /\ At(t, "resuming")
    /\ IF held[t] = {}
       THEN /\ Goto(t, "finish")
            /\ UNCHANGED <<suspendCount, held>>
       ELSE /\ \E u \in held[t] :
                 /\ suspendCount' = [suspendCount EXCEPT
                                        ![u] = IF @ > 0 THEN @ - 1 ELSE 0]
                 /\ held' = [held EXCEPT ![t] = @ \ {u}]
            /\ UNCHANGED pc
    /\ UNCHANGED <<pending, abandoned, target, frame, monitoring, context,
                   store, process>>

-----------------------------------------------------------------------------
(* crasheecm_notifyFatalExceptionCaptured and crasheecm_setActiveMonitors.  *)

(* The test of g_handlingFatalException ...                                 *)
NotifyTest(t) ==
    /\ At(t, "notify")
    /\ crashedDuring' = (crashedDuring \/ handling)
    /\ Goto(t, "notified")
    /\ UNCHANGED <<scheduling, frame, enabled, ports, queue, handling, machBusy,
                   context, store, process>>

(* ... and the rest of the function.                                        *)
NotifySet(t) ==
    /\ At(t, "notified")
    /\ handling' = TRUE
    /\ Goto(t, IF crashedDuring THEN "disarm" ELSE AfterNotification(capture[t]))
    /\ UNCHANGED <<scheduling, frame, enabled, ports, queue, crashedDuring,
                   machBusy, context, store, process>>

(* setActiveMonitors(None), first the Mach monitor: its setEnabled does     *)
(* nothing unless the flag changes.                                         *)
Disarm(t) ==
    /\ At(t, "disarm")
    /\ enabled' = enabled \ {"mach"}
    /\ Goto(t, IF "mach" \in enabled THEN "unhook" ELSE "disarmRest")
    /\ UNCHANGED <<scheduling, frame, ports, queue, handling, crashedDuring,
                   machBusy, context, store, process>>

(* uninstallExceptionHandler.  A handler thread that is not the caller is   *)
(* terminated when a Mach crash is being handled; otherwise it is cancelled,*)
(* which may or may not reach it.                                           *)
Unhook(t) ==
    LET others == Handlers \ {t} IN
    /\ At(t, "unhook")
    /\ ports' = "original"
    /\ \E stopped \in SUBSET others :
         /\ machBusy => stopped = others
         /\ pc' = [u \in Threads |-> IF u \in stopped THEN "terminated"
                                     ELSE IF u = t THEN "disarmRest"
                                     ELSE pc[u]]
    /\ UNCHANGED <<scheduling, frame, enabled, queue, handling, crashedDuring,
                   machBusy, context, store, process>>

(* The other monitors are switched off, and the caller goes on.             *)
DisarmRest(t) ==
    /\ At(t, "disarmRest")
    /\ enabled' = enabled \ {"signal", "cpp", "user", "state"}
    /\ IF recorded[t]
       THEN /\ Goto(t, "resuming")
            /\ machBusy' = (machBusy /\ capture[t] # "mach")
       ELSE /\ Goto(t, AfterNotification(capture[t]))
            /\ UNCHANGED machBusy
    /\ UNCHANGED <<scheduling, frame, ports, queue, handling, crashedDuring,
                   context, store, process>>

(* handleExceptions: the primary thread puts the original ports back and    *)
(* wakes its stand-by, unless an uninstall did away with both IDs before.   *)
(* A stand-by that has not suspended itself yet is not woken: it will       *)
(* suspend itself later.                                                    *)
SwapHandler(t) ==
    /\ At(t, "swap")
    /\ Goto(t, "fill")
    /\ IF t = Primary /\ ports = "ours"
       THEN /\ ports' = "original"
            /\ suspendCount' = [suspendCount EXCEPT
                                  ![Secondary] = IF @ > 0 THEN @ - 1 ELSE 0]
       ELSE UNCHANGED <<ports, suspendCount>>
    /\ UNCHANGED <<pending, held, abandoned, target, frame, enabled, queue,
                   handling, crashedDuring, machBusy, context, store, process>>

-----------------------------------------------------------------------------
(* crasheecm_handleException and onCrash.                                   *)

(* The event is described in the monitor's context; a user report has its   *)
(* own on the stack.                                                        *)
FillContext(t) ==
    /\ At(t, "fill")
    /\ Goto(t, "handle")
    /\ context' = IF StaticContext(capture[t])
                  THEN [context EXCEPT ![capture[t]] = t]
                  ELSE context
    /\ UNCHANGED <<scheduling, frame, monitoring, store, process>>

(* Mutant: any fatal event is taken for a crash of the handler.             *)
HandleAsRecrash(t) ==
    /\ At(t, "handle")
    /\ crashedThisLaunch' = (crashedThisLaunch \/ "state" \in enabled)
    /\ Goto(t, IF handling THEN "recrash" ELSE "claim")
    /\ UNCHANGED <<scheduling, frame, monitoring, context, store, fatalSeen,
                   dead, budget>>

(* The application state notes a crash, then the report is chosen.          *)
HandleException(t) ==
    /\ At(t, "handle")
    /\ crashedThisLaunch' = (crashedThisLaunch \/ "state" \in enabled)
    /\ Goto(t, IF crashedDuring THEN "recrash" ELSE "claim")
    /\ UNCHANGED <<scheduling, frame, monitoring, context, store, fatalSeen,
                   dead, budget>>

ClaimID(t) ==
    /\ At(t, "claim")
    /\ reportID' = [reportID EXCEPT ![t] = nextID]
    /\ nextID' = nextID + 1
    /\ Goto(t, "publish")
    /\ UNCHANGED <<scheduling, capture, victim, recorded, monitoring, context,
                   lastPath, files, old, announced, process>>

PublishPath(t) ==
    /\ At(t, "publish")
    /\ lastPath' = reportID[t]
    /\ Goto(t, "open")
    /\ UNCHANGED <<scheduling, frame, monitoring, context, nextID, files, old,
                   announced, process>>

NewFile(t) == [writer |-> t, fatal |-> Fatal(capture[t]),
               whole |-> FALSE, saved |-> FALSE]

(* A report file is created exclusively; when it cannot be, the writer      *)
(* returns and its caller goes on.                                          *)
OpenReport(t) ==
    /\ At(t, "open")
    /\ IF reportID[t] \in DOMAIN files
       THEN /\ Goto(t, "announce")
            /\ UNCHANGED files
       ELSE /\ Goto(t, "write")
            /\ files' = WithFile(files, reportID[t], NewFile(t))
    /\ UNCHANGED <<scheduling, frame, monitoring, context, nextID, lastPath,
                   old, announced, process>>

(* The file a thread has open, wherever a rename has put it.                *)
Completed(dir, t, keeps) ==
    [id \in DOMAIN dir |->
        IF id = reportID[t] /\ dir[id].writer = t
        THEN [dir[id] EXCEPT !.whole = TRUE, !.saved = @ \/ keeps]
        ELSE dir[id]]

WriteReport(t) ==
    /\ At(t, "write")
    /\ files' = Completed(files, t, TRUE)
    /\ old' = Completed(old, t, TRUE)
    /\ Goto(t, "announce")
    /\ UNCHANGED <<scheduling, frame, monitoring, context, nextID, lastPath,
                   announced, process>>

AnnounceReport(t) ==
    /\ At(t, "announce")
    /\ announced' = announced \cup {reportID[t]}
    /\ Goto(t, "after")
    /\ UNCHANGED <<scheduling, frame, monitoring, context, nextID, lastPath,
                   files, old, process>>

-----------------------------------------------------------------------------
(* crasheecrashreport_writeRecrashReport, on g_lastCrashReportFilePath.     *)

(* Mutant: the old report is overwritten instead of renamed.                *)
TruncateOld(t) ==
    /\ At(t, "recrash")
    /\ reportID' = [reportID EXCEPT ![t] = lastPath]
    /\ files' = WithoutFile(files, lastPath)
    /\ Goto(t, "reopen")
    /\ UNCHANGED <<scheduling, capture, victim, recorded, monitoring, context,
                   nextID, lastPath, old, announced, process>>

RenameToOld(t) ==
    /\ At(t, "recrash")
    /\ reportID' = [reportID EXCEPT ![t] = lastPath]
    /\ IF lastPath \in DOMAIN files
       THEN /\ old' = WithFile(old, lastPath, files[lastPath])
            /\ files' = WithoutFile(files, lastPath)
       ELSE UNCHANGED <<old, files>>
    /\ Goto(t, "reopen")
    /\ UNCHANGED <<scheduling, capture, victim, recorded, monitoring, context,
                   nextID, lastPath, announced, process>>

OpenRecrash(t) ==
    /\ At(t, "reopen")
    /\ IF lastPath = 0 \/ lastPath \in DOMAIN files
       THEN /\ Goto(t, "after")
            /\ UNCHANGED files
       ELSE /\ Goto(t, "embed")
            /\ files' = WithFile(files, lastPath, NewFile(t))
    /\ UNCHANGED <<scheduling, frame, monitoring, context, nextID, lastPath,
                   old, announced, process>>

(* The old report is copied into the new file and flushed; the copy breaks  *)
(* off at a string or a name that does not fit the decoder's buffers, or at *)
(* an element that its window cuts ...                                      *)
EmbedOld(t) ==
    LET id == reportID[t] IN
    /\ At(t, "embed")
    /\ \E complete \in {TRUE, ~LongElements} :
        files' = IF id \in DOMAIN files /\ id \in DOMAIN old
                        /\ files[id].writer = t
                 THEN [files EXCEPT ![id].saved = old[id].saved /\ complete]
                 ELSE files
    /\ Goto(t, "unlink")
    /\ UNCHANGED <<scheduling, frame, monitoring, context, nextID, lastPath,
                   old, announced, process>>

(* ... before its own file is removed, whatever became of the copy.         *)
RemoveOld(t) ==
    /\ At(t, "unlink")
    /\ old' = WithoutFile(old, reportID[t])
    /\ Goto(t, "rewrite")
    /\ UNCHANGED <<scheduling, frame, monitoring, context, nextID, lastPath,
                   files, announced, process>>

WriteRecrash(t) ==
    /\ At(t, "rewrite")
    /\ files' = Completed(files, t, FALSE)
    /\ Goto(t, "after")
    /\ UNCHANGED <<scheduling, frame, monitoring, context, nextID, lastPath,
                   old, announced, process>>

-----------------------------------------------------------------------------
(* Back in crasheecm_handleException: a fatal event that met no other puts  *)
(* the original handlers back.  (The first form is the mutant that forgets  *)
(* to.)                                                                     *)
AfterEventStayArmed(t) ==
    /\ At(t, "after")
    /\ recorded' = [recorded EXCEPT ![t] = TRUE]
    /\ Goto(t, "resuming")
    /\ machBusy' = (machBusy /\ capture[t] # "mach")
    /\ UNCHANGED <<scheduling, capture, victim, reportID, enabled, ports, queue,
                   handling, crashedDuring, context, store, process>>

AfterEvent(t) ==
    /\ At(t, "after")
    /\ recorded' = [recorded EXCEPT ![t] = TRUE]
    /\ IF handling /\ ~crashedDuring
       THEN /\ Goto(t, "disarm")
            /\ UNCHANGED machBusy
       ELSE /\ Goto(t, "resuming")
            /\ machBusy' = (machBusy /\ capture[t] # "mach")
    /\ UNCHANGED <<scheduling, capture, victim, reportID, enabled, ports, queue,
                   handling, crashedDuring, context, store, process>>

(* The end of each handler: reply to the exception message and let the      *)
(* thread end, raise the signal again, or return to the application.  The    *)
(* reply turns the fault of a thread that waits for it into a signal.       *)
Finish(t) ==
    /\ At(t, "finish")
    /\ pc' = CASE capture[t] = "mach" ->
                    [pc EXCEPT ![t] = "terminated",
                               ![victim[t]] = IF @ = "blocked" THEN "signaled" ELSE @]
               [] Fatal(capture[t]) /\ capture[t] # "mach" ->
                    [pc EXCEPT ![t] = "signaled"]
               [] OTHER -> [pc EXCEPT ![t] = "app"]
    /\ capture' = [capture EXCEPT ![t] = "none"]
    /\ UNCHANGED <<scheduling, victim, recorded, reportID, monitoring, context,
                   store, process>>

-----------------------------------------------------------------------------
Environment(t) ==
    \/ CreateThread(t) \/ CrashWithFault(t) \/ CrashWithSignal(t)
    \/ CrashWithException(t) \/ ReportUserException(t) \/ CrashInHandler(t)

Progress(t) ==
    \/ TakeSignal(t) \/ DieOfSignal(t) \/ SuspendSelf(t) \/ ReceiveException(t)
    \/ EnterSuspend(t) \/ SuspendTarget(t) \/ SuspendComplete(t) \/ Resume(t)
    \/ NotifyTest(t) \/ NotifySet(t) \/ Disarm(t) \/ Unhook(t) \/ DisarmRest(t)
    \/ SwapHandler(t) \/ FillContext(t) \/ HandleException(t) \/ ClaimID(t)
    \/ PublishPath(t) \/ OpenReport(t) \/ WriteReport(t) \/ AnnounceReport(t)
    \/ RenameToOld(t) \/ OpenRecrash(t) \/ EmbedOld(t) \/ RemoveOld(t)
    \/ WriteRecrash(t) \/ AfterEvent(t) \/ Finish(t)

Next == \E t \in Threads : Environment(t) \/ Progress(t)

Spec == Init /\ [][Next]_vars

(* The scheduler runs every thread that can run; nothing makes a program    *)
(* crash, report or create threads.                                         *)
FairSpec == Spec /\ \A t \in Threads : WF_vars(Progress(t))

-----------------------------------------------------------------------------
(* Properties.                                                              *)

TypeOK ==
    /\ pc \in [Threads -> Phases]
    /\ capture \in [Threads -> Captures \cup {"none"}]
    /\ suspendCount \in [Threads -> Nat]
    /\ pending \in [Threads -> SUBSET AppThreads]
    /\ held \in [Threads -> SUBSET AppThreads]
    /\ abandoned \in [Threads -> SUBSET AppThreads]
    /\ target \in [Threads -> AppThreads \cup {None}]
    /\ victim \in [Threads -> Threads \cup {None}]
    /\ recorded \in [Threads -> BOOLEAN]
    /\ reportID \in [Threads -> Nat]
    /\ enabled \subseteq Monitors
    /\ ports \in {"ours", "original"}
    /\ queue \in Seq(Threads)
    /\ handling \in BOOLEAN
    /\ crashedDuring \in BOOLEAN
    /\ machBusy \in BOOLEAN
    /\ context \in [{"mach", "signal", "cpp"} -> Threads \cup {None}]
    /\ nextID \in Nat
    /\ lastPath \in Nat
    /\ DOMAIN files \subseteq Nat /\ \A id \in DOMAIN files : files[id] \in File
    /\ DOMAIN old \subseteq Nat /\ \A id \in DOMAIN old : old[id] \in File
    /\ announced \subseteq Nat
    /\ crashedThisLaunch \in BOOLEAN
    /\ fatalSeen \in BOOLEAN
    /\ dead \in BOOLEAN
    /\ budget \in [EventKinds -> Nat]

(* The suspend count of an application thread is the number of handlers     *)
(* that hold it: every thread_resume undoes one thread_suspend of the same  *)
(* handler, whatever handlers overlap, and only a frame that never returns  *)
(* (its thread faulted in it, or was terminated) leaves a thread stopped.   *)
HoldersIn(lists, u) == {t \in Threads : u \in lists[t]}

SuspendsBalance ==
    \A u \in AppThreads :
        suspendCount[u] = Cardinality(HoldersIn(held, u))
                            + Cardinality(HoldersIn(abandoned, u))

(* Two threads that existed from the start are never both between the end   *)
(* of crasheemc_suspendEnvironment and its resume: the suspensions act as a *)
(* lock, though each handler takes them one thread at a time.               *)
InWindow(t) == pc[t] \in Window /\ Suspends(capture[t])

ExclusiveWindow ==
    \A t, u \in EarlyThreads : InWindow(t) /\ InWindow(u) => t = u

(* The suspensions implement a lock of those threads: its owner is the one  *)
(* in the window.                                                           *)
Owner == IF \E t \in EarlyThreads : InWindow(t)
         THEN CHOOSE t \in EarlyThreads : InWindow(t)
         ELSE None

Lock == INSTANCE SuspendLock WITH Owners <- EarlyThreads, owner <- Owner

ImplementsLock == Lock!Spec

(* While a handler that suspended the environment works on its report no    *)
(* other thread that existed from the start runs, whatever other handlers   *)
(* resume meanwhile: the memory it walks holds still.                       *)
EnvironmentFrozen ==
    \A t \in Threads : \A u \in EarlyThreads \ {t} :
        InWindow(t) => ~Running(u)

(* What makes these invariants inductive: the lists a handler works on    *)
(* fit its phase, and cover every thread that existed from the start.    *)
ListsFit ==
    \A t \in Threads :
        /\ pending[t] \cap held[t] = {}
        /\ pc[t] \in Suspending => Suspends(capture[t])
        /\ pc[t] = "inSuspend" => target[t] \in pending[t]
        /\ pc[t] \in Outside \cup {"finish"} => pc[t] = "terminated" \/ held[t] = {}

ListsCover ==
    \A t \in Threads :
        /\ t \in EarlyThreads => pc[t] # "unborn"
        /\ pc[t] \in Suspending => EarlyThreads \ {t} \subseteq pending[t] \cup held[t]
        /\ InWindow(t) => EarlyThreads \ {t} \subseteq held[t]

CaptureInv ==
    TypeOK /\ ListsFit /\ ListsCover /\ SuspendsBalance /\ ExclusiveWindow

(* A handler that is writing a report from a static context still finds its *)
(* own event there.  Only a thread born during a suspension can have filled *)
(* it meanwhile; or, when such a thread works on a report too, the handler  *)
(* thread it let through.                                                   *)
OwnContext ==
    \A t \in Threads :
        pc[t] \in Reporting \ {"fill"} /\ StaticContext(capture[t]) /\ Running(t)
            => \/ context[capture[t]] = t
               \/ /\ LateThreads # {}
                  /\ t \in EarlyThreads => context[capture[t]] \in LateThreads

(* What makes it inductive.  Only handler threads wait for exceptions; one  *)
(* that faulted in its handler left all others stopped for good.            *)
HandlerFits(h) ==
    /\ pc[h] \notin {"unborn", "app"}
    /\ capture[h] \in {"none", "mach", "signal"}
    /\ pc[h] \in {"starting", "waiting"} => capture[h] = "none"
    /\ pc[h] \notin Outside => capture[h] # "none"
    /\ pc[h] = "swap" => capture[h] = "mach"
    /\ capture[h] = "signal" \/ pc[h] \in {"blocked", "signaled"} =>
            EarlyThreads \subseteq abandoned[h]

AppFits(t) == pc[t] \notin {"starting", "waiting"} /\ capture[t] # "mach"

(* The stand-by sleeps until the primary thread has swapped the handlers;   *)
(* what it captures then is always the second event.                        *)
PastSwap ==
    /\ pc[Primary] \notin {"starting", "waiting"}
    /\ capture[Primary] = "mach" =>
            /\ pc[Primary] \notin Suspending \cup Noting
            /\ pc[Primary] \in Disarming => recorded[Primary]

Swapped == ports = "original" /\ handling /\ PastSwap

StandBy ==
    \/ pc[Secondary] \in {"starting", "terminated"}
    \/ pc[Secondary] = "waiting" /\ suspendCount[Secondary] > 0
    \/ Swapped

SecondaryFits ==
    /\ pc[Secondary] # "blocked"
    /\ capture[Secondary] # "signal"
    /\ pc[Secondary] = "notified" => crashedDuring
    /\ pc[Secondary] \in {"swap", "signaled"} \cup Reporting => "signal" \notin enabled

RolesInv ==
    /\ \A h \in Handlers : HandlerFits(h)
    /\ \A t \in AppThreads : AppFits(t)
    /\ StandBy
    /\ SecondaryFits

(* While the primary thread reports, the stand-by has not come to its own   *)
(* report: it stops the primary thread first.                               *)
PrimaryReports == capture[Primary] = "mach" /\ pc[Primary] \in Reporting

PrimaryIsBusy ==
    /\ capture[Primary] = "mach"
    /\ \/ pc[Primary] \in Noting \cup Reporting
       \/ pc[Primary] \in Disarming /\ ~recorded[Primary]
    => machBusy

SecondaryBehind ==
    PrimaryReports /\ capture[Secondary] = "mach" =>
        \/ /\ pc[Secondary] \in Suspending \cup {"notify", "notified", "disarm"}
           /\ "mach" \in enabled
        \/ pc[Secondary] \in {"unhook", "finish", "terminated"}

HandlerContext(h) ==
    pc[h] \in Reporting \ {"fill"} => context[capture[h]] = h

AllAbandoned == \E h \in Handlers : EarlyThreads \subseteq abandoned[h]

AppContext(t) ==
    pc[t] \in Reporting \ {"fill"} /\ StaticContext(capture[t]) =>
        context[capture[t]] \in {t} \cup LateThreads \/ AllAbandoned

ContextInv ==
    /\ RolesInv
    /\ \A t \in EarlyThreads : AppContext(t)
    /\ LateThreads = {} => /\ PrimaryIsBusy
                           /\ SecondaryBehind
                           /\ \A h \in Handlers : HandlerContext(h)

(* A finished report is never lost: it stays in its file, in the ".old"     *)
(* file, or embedded in the recrash report that takes its place.  Only a    *)
(* further recrash can do away with it, when the one before was cut off     *)
(* between its rename and its unlink: its unfinished file then takes the    *)
(* place of the ".old" file.  (With LongElements it is lost at the first:   *)
(* the embedding stops and the file is removed.  Recrashes that run side by *)
(* side can do away with it, too: with late threads, and when two reports   *)
(* that suspend nobody are being written.)                                  *)
Kept(id) == \/ id \in DOMAIN files /\ files[id].saved
            \/ id \in DOMAIN old /\ old[id].saved

OldReplaced(id) ==
    /\ id \in DOMAIN files \cap DOMAIN old
    /\ \E t \in Threads : pc[t] = "recrash" /\ pc'[t] = "reopen"
    /\ lastPath = id

ReportsKept ==
    [][\A id \in DOMAIN files \cup DOMAIN old :
            Kept(id) => Kept(id)' \/ OldReplaced(id)]_vars

(* A handler that has recorded a fatal event re-raises the signal, or       *)
(* replies to the exception message, only once the old handlers are back in *)
(* place or another live handler is busy putting them back, so that the     *)
(* event is not captured over and over.                                     *)
Restoring(u) == pc[u] \in {"notified"} \cup Disarming

HandlersRestored ==
    \A t \in Threads :
        pc[t] = "finish" /\ recorded[t] /\ Fatal(capture[t])
            => \/ ports = "original" /\ "signal" \notin enabled
               \/ \E u \in Threads \ {t} : Restoring(u)

(* What makes it inductive: the flags of a fatal event, and of the monitors *)
(* it switches off, are set before the phases that rely on them.            *)
FlagsPrecede(t) ==
    /\ pc[t] \in {"swap"} \cup Disarming \cup Reporting =>
            ~Fatal(capture[t]) \/ handling
    /\ pc[t] \in {"unhook", "disarmRest"} => "mach" \notin enabled
    /\ pc[t] \in Suspending \cup {"starting", "waiting"} => ~recorded[t]
    /\ pc[t] \in {"resuming", "finish"} /\ recorded[t] /\ Fatal(capture[t]) =>
            crashedDuring \/ {"signal", "mach"} \cap enabled = {}

PortsFollow ==
    "mach" \notin enabled => ports = "original" \/ \E u \in Threads : pc[u] = "unhook"

SomeoneRestores ==
    crashedDuring => \/ ports = "original" /\ "signal" \notin enabled
                     \/ \E u \in Threads : Restoring(u)

RestoreInv ==
    (\A t \in Threads : FlagsPrecede(t)) /\ PortsFollow /\ SomeoneRestores

Recorded == \E id \in DOMAIN files : files[id].saved /\ files[id].fatal

(* A process that dies without a second event having met the first leaves a *)
(* finished report of a fatal event.                                        *)
DeathRecorded ==
    dead /\ ~crashedDuring => Recorded

(* What makes it inductive, when no user report and no crash inside a       *)
(* handler mixes in: until a second event meets the first, every report has *)
(* a file of its own, and what the phases after the writing rely on is      *)
(* there.                                                                   *)
Idle == {"unborn", "app", "blocked", "signaled", "starting", "waiting"}

Claimed == {"publish", "open", "write"}

Recrashing == {"recrash", "reopen", "embed", "unlink", "rewrite"}

FilesNumbered == \A id \in DOMAIN files : id < nextID

ClaimsDiffer ==
    \A t, u \in Threads :
        pc[t] \in Claimed /\ pc[u] \in Claimed /\ reportID[t] = reportID[u] => t = u

OwnFile(t) ==
    /\ pc[t] \in Claimed => reportID[t] < nextID
    /\ pc[t] \in {"publish", "open"} => reportID[t] \notin DOMAIN files
    /\ pc[t] = "write" => /\ reportID[t] \in DOMAIN files
                          /\ files[reportID[t]].writer = t
                          /\ files[reportID[t]].fatal
    /\ pc[t] \in {"announce", "after"} \cup Disarming => Recorded
    /\ pc[t] \notin Recrashing

FirstFiles ==
    /\ FilesNumbered
    /\ ClaimsDiffer
    /\ \A t \in Threads : OwnFile(t)
    /\ "signal" \notin enabled => Recorded

QuietEvents == budget["report"] = 0 /\ budget["nested"] = 0

NoNotes(t) == capture[t] \notin Notes /\ (pc[t] \in Idle => capture[t] = "none")

CrashesOnly == QuietEvents /\ \A t \in Threads : NoNotes(t)

FirstCrashInv == CrashesOnly /\ (~crashedDuring => FirstFiles)

(* What makes ReportsKept hold, when strings are short, no thread is born   *)
(* late and at most one report suspends nobody: the recrashes of a report   *)
(* follow one another, each over what the one before left.                  *)
Quiet(t) == ~Suspends(capture[t])

QuietAlone ==
    /\ budget["report"] =< 1 \/ \A k \in ReportKinds : Suspends(k)
    /\ \A t \in Threads : Quiet(t) => budget["report"] = 0
    /\ \A t, u \in Threads : Quiet(t) /\ Quiet(u) => t = u

(* A second event is noted before it becomes a recrash, and by then nobody  *)
(* it has not stopped is at work on a report of its own.                    *)
Claiming == Claimed \cup {"claim"}

RecrashIsSecond ==
    \A t \in Threads : pc[t] \in Recrashing =>
        /\ crashedDuring
        /\ t \in AppThreads =>
              \A u \in Threads \ {t} : pc[u] \in Claiming => Quiet(u)

(* Once the primary thread has come to its report, it and its stand-by keep *)
(* apart even when it faults there and captures the signal: one of them is  *)
(* terminated before the other reports.                                     *)
PrimaryPast ==
    capture[Primary] = "signal" \/ pc[Primary] \in {"blocked", "signaled"} \cup Reporting

StillBusy ==
    PrimaryPast => \/ machBusy
                   \/ pc[Secondary] \in {"resuming", "finish", "terminated"}
                   \/ pc[Primary] = "terminated"

HandlersApart ==
    PrimaryPast /\ capture[Secondary] = "mach" =>
        \/ /\ pc[Secondary] \in Suspending \cup {"notify", "notified", "disarm"}
           /\ "mach" \in enabled
        \/ pc[Secondary] \in {"unhook", "resuming", "finish", "terminated"}
        \/ capture[Primary] = "signal" /\ pc[Primary] = "unhook" /\ "mach" \notin enabled
        \/ pc[Primary] = "terminated"

(* The last report is torn while only its ".old" file has all of it.  The   *)
(* thread that tore it mends it, or has overtaken all others for good.      *)
Torn ==
    /\ lastPath \in DOMAIN old /\ old[lastPath].saved
    /\ lastPath \in DOMAIN files => ~files[lastPath].saved

Rebuilding(u) == pc[u] \in {"reopen", "embed"} /\ ~Quiet(u)

Overtaken(t) ==
    /\ t \in AppThreads
    /\ \/ \E u \in Threads \ {t} : Rebuilding(u)
       \/ \E h \in Handlers : pc[h] = "terminated" /\ EarlyThreads \subseteq held[h]

RecrashFits(t) ==
    /\ pc[t] \in {"reopen", "embed", "unlink"} => reportID[t] = lastPath
    /\ /\ pc[t] = "embed"
       /\ reportID[t] \in DOMAIN files /\ files[reportID[t]].writer = t
       => ~files[reportID[t]].saved
    /\ Torn =>
          \/ Overtaken(t)
          \/ pc[t] \notin {"reopen", "embed", "unlink"}
          \/ pc[t] = "reopen" /\ lastPath \notin DOMAIN files
          \/ pc[t] = "embed" /\ lastPath \in DOMAIN files /\ files[lastPath].writer = t

NumbersFromOne ==
    /\ nextID > 0
    /\ 0 \notin DOMAIN files \cup DOMAIN old
    /\ \A t \in Threads : pc[t] \in {"publish", "open"} => reportID[t] > 0

KeptInv ==
    /\ QuietAlone
    /\ RecrashIsSecond
    /\ StillBusy
    /\ HandlersApart
    /\ NumbersFromOne
    /\ \A t \in Threads : RecrashFits(t)

(* The callback for a written report is only invoked with the ID of a       *)
(* finished report ("upon finishing writing a crash report").  The code     *)
(* does not keep to it: the exclusive open may have failed.                 *)
AnnouncedFinished == [][\A id \in announced' \ announced : Kept(id)]_vars

(* Every fatal event ends the process: no thread is left frozen and no      *)
(* handler waits for another.                                               *)
CrashTerminates == fatalSeen ~> dead

=============================================================================
