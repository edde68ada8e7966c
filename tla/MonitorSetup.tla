---------------------------- MODULE MonitorSetup ----------------------------
(***************************************************************************)
(* Installing and changing the monitors: crasheecrash_install and          *)
(* crasheecrash_setMonitoring, the loop of crasheecm_setActiveMonitors,    *)
(* and what each monitor's setEnabled does to the handlers of the process, *)
(* when the kernel refuses one of its calls as well                        *)
(* (CrasheeCrashC.c, CrasheeCrashMonitor.c and the monitors).  One fatal   *)
(* event may come at any point of this, is captured by what is installed   *)
(* by then, and passed on.                                                 *)
(*                                                                         *)
(* CrashCapture starts where a successful installation has ended, and has  *)
(* the capture of many events in detail; here it is a step that receives   *)
(* and a step that disarms.                                                *)
(***************************************************************************)
EXTENDS Naturals, Sequences

CONSTANTS
    SignalCount,    \* number of fatal signals in CrasheeSignalInfo.c
    Masks,          \* sets of monitors the client may ask for
    Calls           \* bound on the calls of crasheecrash_setMonitoring

(* g_monitors, in its order.  The API of the NSException monitor is a       *)
(* structure of NULL pointers.                                              *)
Order == <<"mach", "signal", "nsexc", "cpp", "user", "system", "appState">>
Monitors == {Order[i] : i \in 1..7}
DebuggerUnsafe == {"mach", "signal", "cpp", "nsexc"}
AsyncSafe == {"mach", "signal"}
Signals == 1..SignalCount

ASSUME SetupAssumption ==
    /\ SignalCount \in Nat \ {0}
    /\ Masks \subseteq SUBSET Monitors
    /\ Calls \in Nat

VARIABLES
    installed,      \* g_installed
    monitoring,     \* g_monitoring
    wanted,         \* monitorTypes of the running setActiveMonitors
    at,             \* its place in g_monitors, 0 when no call runs
    step,           \* the place inside installExceptionHandler, or "none"
    gathered,       \* its activeMonitors
    active,         \* g_activeMonitors
    enabled,        \* monitors whose g_isEnabled is set
    failed,         \* those whose last installation failed
    asyncSafety,    \* g_requiresAsyncSafety
    ports,          \* whose exception ports the task has: "ours", "original"
    savedPorts,     \* g_previousExceptionPorts.count is not 0
    primary,        \* the primary handler thread: "none", "waiting", "busy"
    primaryKnown,   \* g_primaryMachThread names it
    secondary,      \* the secondary one: "none", "asleep", "awake"
    handlerOf,      \* each signal's action: "original", "ours", "junk"
    savedHandler,   \* g_previousSignalHandlers, "unset" where never written
    allocated,      \* g_previousSignalHandlers is not NULL
    terminate,      \* the C++ terminate handler: "original", "ours"
    event,          \* the fatal event: "none", "queued", "raised", "handling", "dead"
    handler,        \* the monitor that is handling it, or "none"
    captures,       \* how often it was captured
    mixed,          \* a call of setActiveMonitors ran beside it
    calls           \* bound: calls made

loop == <<wanted, at, gathered, active>>
client == <<installed, monitoring, calls>>
mach == <<step, ports, savedPorts, primary, primaryKnown, secondary>>
signals == <<handlerOf, savedHandler, allocated>>
capture == <<event, handler, captures, mixed>>
vars == <<loop, client, mach, signals, capture, terminate, enabled, failed, asyncSafety>>

Init ==
    /\ installed = FALSE
    /\ monitoring = Monitors
    /\ wanted = {} /\ at = 0 /\ gathered = {} /\ active = {}
    /\ enabled = {} /\ failed = {}
    /\ asyncSafety = FALSE
    /\ step = "none"
    /\ ports = "original" /\ savedPorts = FALSE
    /\ primary = "none" /\ primaryKnown = FALSE /\ secondary = "none"
    /\ handlerOf = [s \in Signals |-> "original"]
    /\ savedHandler = [s \in Signals |-> "unset"]
    /\ allocated = FALSE
    /\ terminate = "original"
    /\ event = "none" /\ handler = "none" /\ captures = 0 /\ mixed = FALSE
    /\ calls = 0

(* The client's thread runs: no handler has suspended it, nor is it over.   *)
Free == event \notin {"handling", "dead"}

-----------------------------------------------------------------------------
(* The client, and the loop over the monitors.                              *)

(* What is left of the monitors asked for, in a debugger or once a Mach     *)
(* exception has been met.                                                  *)
Allowed(mask, traced) ==
    (mask \ (IF traced THEN DebuggerUnsafe ELSE {}))
        \cap (IF asyncSafety THEN AsyncSafe ELSE Monitors)

BeginLoop(mask) ==
    /\ mixed' = (mixed \/ event # "none")
    /\ \E traced \in BOOLEAN : wanted' = Allowed(mask, traced)
    /\ at' = 1
    /\ gathered' = {}
    /\ UNCHANGED <<active, event, handler, captures>>

Install ==
    /\ Free /\ at = 0 /\ ~installed
    /\ installed' = TRUE
    /\ BeginLoop(monitoring)
    /\ UNCHANGED <<monitoring, calls, mach, signals, terminate, enabled, failed,
                   asyncSafety>>

SetMonitoring ==
    /\ Free /\ at = 0 /\ calls < Calls
    /\ calls' = calls + 1
    /\ monitoring' \in Masks
    /\ IF installed THEN BeginLoop(monitoring') ELSE UNCHANGED <<loop, capture>>
    /\ UNCHANGED <<installed, mach, signals, terminate, enabled, failed, asyncSafety>>

(* The loop is at monitor m, and the client's thread runs.                  *)
Visiting(m) == Free /\ at > 0 /\ Order[at] = m /\ step = "none"

(* Mutant: isEnabled is asked before setEnabled is called.                  *)
GoOnStale(m) ==
    LET g == IF m \in enabled THEN gathered \cup {m} ELSE gathered \ {m} IN
    /\ IF at = Len(Order)
       THEN at' = 0 /\ active' = g
       ELSE at' = at + 1 /\ UNCHANGED active
    /\ gathered' = g
    /\ UNCHANGED <<wanted, client, capture, asyncSafety>>

(* setEnabled has returned: isEnabled decides what counts as active, and    *)
(* the loop goes on.                                                        *)
GoOn(m) ==
    LET g == IF m \in enabled' THEN gathered \cup {m} ELSE gathered \ {m} IN
    /\ IF at = Len(Order)
       THEN at' = 0 /\ active' = g
       ELSE at' = at + 1 /\ UNCHANGED active
    /\ gathered' = g
    /\ UNCHANGED <<wanted, client, capture, asyncSafety>>

(* A monitor that is asked for what it is already, or has no setEnabled.    *)
Skip(m) ==
    /\ Visiting(m)
    /\ m = "nsexc" \/ (m \in wanted <=> m \in enabled)
    /\ UNCHANGED <<enabled, failed, mach, signals, terminate>>
    /\ GoOn(m)

(* The monitors that only keep their flag.                                  *)
SetFlag(m) ==
    /\ m \in {"user", "system", "appState"}
    /\ Visiting(m)
    /\ ~(m \in wanted <=> m \in enabled)
    /\ enabled' = IF m \in wanted THEN enabled \cup {m} ELSE enabled \ {m}
    /\ UNCHANGED <<failed, mach, signals, terminate>>
    /\ GoOn(m)

-----------------------------------------------------------------------------
(* The C++ monitor.                                                         *)

EnableCPP ==
    /\ Visiting("cpp") /\ "cpp" \in wanted \ enabled
    /\ enabled' = enabled \cup {"cpp"}
    /\ terminate' = "ours"
    /\ UNCHANGED <<failed, mach, signals>>
    /\ GoOn("cpp")

DisableCPP ==
    /\ Visiting("cpp") /\ "cpp" \in enabled \ wanted
    /\ enabled' = enabled \ {"cpp"}
    /\ terminate' = "original"
    /\ UNCHANGED <<failed, mach, signals>>
    /\ GoOn("cpp")

-----------------------------------------------------------------------------
(* The signal monitor.                                                      *)

(* Mutant: the loop that puts them back ends one signal early.              *)
InstallUpToKeepsOne(n) ==
    /\ savedHandler' = [s \in Signals |-> IF s < n THEN handlerOf[s] ELSE savedHandler[s]]
    /\ handlerOf' = [s \in Signals |-> IF s = 1 /\ n > 1 THEN "ours" ELSE handlerOf[s]]

(* installSignalHandler stops at signal n: the actions saved before are put *)
(* back from the table, whose rest stays as it was.                         *)
InstallUpTo(n) ==
    /\ savedHandler' = [s \in Signals |-> IF s < n THEN handlerOf[s] ELSE savedHandler[s]]
    /\ handlerOf' = [s \in Signals |-> IF s < n THEN savedHandler'[s] ELSE handlerOf[s]]

InstallAll ==
    /\ savedHandler' = handlerOf
    /\ handlerOf' = [s \in Signals |-> "ours"]

(* sigaltstack may fail before the table is allocated, and each sigaction.  *)
EnableSignal ==
    /\ Visiting("signal") /\ "signal" \in wanted \ enabled
    /\ enabled' = enabled \cup {"signal"}
    /\ \/ InstallAll /\ allocated' = TRUE /\ failed' = failed \ {"signal"}
       \/ /\ failed' = failed \cup {"signal"}
          /\ \/ UNCHANGED signals
             \/ \E n \in Signals : InstallUpTo(n) /\ allocated' = TRUE
    /\ UNCHANGED <<mach, terminate>>
    /\ GoOn("signal")

(* uninstallSignalHandler puts back the whole table.  An entry that was     *)
(* never written is what malloc returned: the kernel takes it or refuses.   *)
(* With the table at NULL sigaction changes nothing.                        *)
RestoreSignals ==
    /\ handlerOf' \in [Signals -> {"original", "ours", "junk"}]
    /\ \A s \in Signals :
          IF ~allocated THEN handlerOf'[s] = handlerOf[s]
          ELSE IF savedHandler[s] = "unset" THEN handlerOf'[s] \in {handlerOf[s], "junk"}
          ELSE handlerOf'[s] = savedHandler[s]
    /\ UNCHANGED <<savedHandler, allocated>>

DisableSignal ==
    /\ Visiting("signal") /\ "signal" \in enabled \ wanted
    /\ enabled' = enabled \ {"signal"}
    /\ RestoreSignals
    /\ failed' = failed \ {"signal"}
    /\ UNCHANGED <<mach, terminate>>
    /\ GoOn("signal")

-----------------------------------------------------------------------------
(* The Mach monitor: installExceptionHandler call by call, since exceptions *)
(* are ours from the fourth on.                                             *)

Installing(p) == Free /\ step = p

RestorePorts ==
    /\ ports' = IF savedPorts THEN "original" ELSE ports
    /\ savedPorts' = FALSE

(* uninstallExceptionHandler: it cancels or terminates the handler threads; *)
(* one that calls it itself is about to end.                                *)
Uninstall ==
    /\ RestorePorts
    /\ primary' = "none"
    /\ primaryKnown' = FALSE
    /\ secondary' = "none"

(* A call has failed: the label failed of installExceptionHandler, whose    *)
(* caller leaves the flag set.                                              *)
GiveUp ==
    /\ Uninstall
    /\ step' = "none"
    /\ failed' = failed \cup {"mach"}
    /\ UNCHANGED <<enabled, signals, terminate>>
    /\ GoOn("mach")

(* The call at place p has succeeded.                                       *)
Proceed(p) ==
    /\ step' = p
    /\ UNCHANGED <<loop, client, signals, capture, terminate, enabled, failed, asyncSafety>>

EnableMach ==
    /\ Visiting("mach") /\ "mach" \in wanted \ enabled
    /\ enabled' = enabled \cup {"mach"}
    /\ step' = "save"
    /\ UNCHANGED <<loop, client, signals, capture, terminate, failed, asyncSafety,
                   ports, savedPorts, primary, primaryKnown, secondary>>

SavePorts ==
    /\ Installing("save")
    /\ \/ /\ savedPorts' = TRUE
          /\ Proceed("port")
          /\ UNCHANGED <<ports, primary, primaryKnown, secondary>>
       \/ GiveUp

(* uninstallExceptionHandler has forgotten the port of any earlier time.    *)
AllocatePort ==
    /\ Installing("port")
    /\ \/ /\ Proceed("set")
          /\ UNCHANGED <<ports, savedPorts, primary, primaryKnown, secondary>>
       \/ GiveUp

SetPorts ==
    /\ Installing("set")
    /\ \/ /\ ports' = "ours"
          /\ Proceed("secondary")
          /\ UNCHANGED <<savedPorts, primary, primaryKnown, secondary>>
       \/ GiveUp

(* The secondary thread suspends itself at once.                            *)
CreateSecondary ==
    /\ Installing("secondary")
    /\ \/ /\ secondary' = "asleep"
          /\ Proceed("primary")
          /\ UNCHANGED <<ports, savedPorts, primary, primaryKnown>>
       \/ GiveUp

CreatePrimary ==
    /\ Installing("primary")
    /\ \/ /\ primary' = "waiting"
          /\ Proceed("store")
          /\ UNCHANGED <<ports, savedPorts, primaryKnown, secondary>>
       \/ GiveUp

(* Mutant: the name of the thread is not kept.                              *)
StoreNoName ==
    /\ Installing("store")
    /\ step' = "none"
    /\ failed' = failed \ {"mach"}
    /\ UNCHANGED <<enabled, ports, savedPorts, primary, primaryKnown, secondary,
                   signals, terminate>>
    /\ GoOn("mach")

(* The primary thread runs already when its name is stored.                 *)
StorePrimary ==
    /\ Installing("store")
    /\ primaryKnown' = TRUE
    /\ step' = "none"
    /\ failed' = failed \ {"mach"}
    /\ UNCHANGED <<enabled, ports, savedPorts, primary, secondary, signals, terminate>>
    /\ GoOn("mach")

(* The flag is cleared first.                                               *)
DisableMach ==
    /\ Visiting("mach") /\ "mach" \in enabled \ wanted
    /\ enabled' = enabled \ {"mach"}
    /\ failed' = failed \ {"mach"}
    /\ step' = "unhook"
    /\ UNCHANGED <<loop, client, signals, capture, terminate, asyncSafety,
                   ports, savedPorts, primary, primaryKnown, secondary>>

Unhook ==
    /\ Installing("unhook")
    /\ Uninstall
    /\ step' = "none"
    /\ UNCHANGED <<enabled, failed, signals, terminate>>
    /\ GoOn("mach")

-----------------------------------------------------------------------------
(* A fatal event.                                                           *)

Begins ==
    /\ event = "none"
    /\ mixed' = (at > 0)

Captured(m) ==
    /\ event' = "handling"
    /\ handler' = m
    /\ captures' = captures + 1

(* A hardware fault: a message to our port, or at once a signal.            *)
Fault ==
    /\ Begins
    /\ event' = IF ports = "ours" THEN "queued" ELSE "raised"
    /\ UNCHANGED <<loop, client, mach, signals, handler, captures, terminate,
                   enabled, failed, asyncSafety>>

(* An uncaught exception: our terminate handler, or abort.                  *)
Throw ==
    /\ Begins
    /\ IF terminate = "ours"
       THEN Captured("cpp")
       ELSE event' = "raised" /\ UNCHANGED <<handler, captures>>
    /\ UNCHANGED <<loop, client, mach, signals, terminate, enabled, failed, asyncSafety>>

(* The primary handler thread receives the message and stops everybody      *)
(* else.  It gives the ports back and wakes the secondary thread if it      *)
(* finds its own name in g_primaryMachThread ...                            *)
Receive ==
    /\ event = "queued" /\ primary = "waiting" /\ "mach" \in enabled
    /\ primary' = "busy"
    /\ Captured("mach")
    /\ asyncSafety' = TRUE
    /\ IF primaryKnown
       THEN RestorePorts /\ secondary' = IF secondary = "asleep" THEN "awake" ELSE secondary
       ELSE UNCHANGED <<ports, savedPorts, secondary>>
    /\ UNCHANGED <<loop, client, step, primaryKnown, signals, mixed, terminate,
                   enabled, failed>>

(* ... and with the flag clear only replies.                                *)
ReplyOnly ==
    /\ event = "queued" /\ primary = "waiting" /\ "mach" \notin enabled
    /\ primary' = "none"
    /\ primaryKnown' = FALSE
    /\ event' = "raised"
    /\ UNCHANGED <<loop, client, step, ports, savedPorts, secondary, signals, handler,
                   captures, mixed, terminate, enabled, failed, asyncSafety>>

(* A signal is delivered: to us, or to the handler that was there before,   *)
(* or to no valid one, each of which ends the process.                      *)
TakeSignal ==
    /\ event = "raised"
    /\ \E s \in Signals :
          IF handlerOf[s] = "ours" /\ "signal" \in enabled
          THEN Captured("signal")
          ELSE /\ handlerOf[s] # "ours"
               /\ event' = "dead"
               /\ UNCHANGED <<handler, captures>>
    /\ UNCHANGED <<loop, client, mach, signals, mixed, terminate, enabled, failed,
                   asyncSafety>>

(* Mutant: the handler disables the Mach monitor only.                      *)
DisarmMach ==
    /\ enabled' = enabled \ {"mach"}
    /\ failed' = {}
    /\ active' = {}
    /\ IF "mach" \in enabled THEN Uninstall
       ELSE UNCHANGED <<ports, savedPorts, primary, primaryKnown, secondary>>
    /\ UNCHANGED <<signals, terminate, wanted, at, gathered, step, client, asyncSafety>>

(* crasheecm_setActiveMonitors(CrasheeCrashMonitorTypeNone), called by the  *)
(* handler while all others are suspended, perhaps in the same loop.        *)
DisarmAll ==
    /\ enabled' = {}
    /\ failed' = {}
    /\ active' = {}
    /\ IF "mach" \in enabled THEN Uninstall
       ELSE UNCHANGED <<ports, savedPorts, primary, primaryKnown, secondary>>
    /\ IF "signal" \in enabled THEN RestoreSignals ELSE UNCHANGED signals
    /\ terminate' = IF "cpp" \in enabled THEN "original" ELSE terminate
    /\ UNCHANGED <<wanted, at, gathered, step, client, asyncSafety>>

(* The handler has written its report, disarms, resumes the others and      *)
(* passes the event on: the reply to the exception, raise() and the         *)
(* original terminate handler all come out as a signal.                     *)
PassOn ==
    /\ event = "handling"
    /\ DisarmAll
    /\ event' = "raised"
    /\ handler' = "none"
    /\ UNCHANGED <<captures, mixed>>

-----------------------------------------------------------------------------
ClientStep ==
    \/ Install \/ SetMonitoring
    \/ \E m \in Monitors : Skip(m) \/ SetFlag(m)
    \/ EnableCPP \/ DisableCPP \/ EnableSignal \/ DisableSignal
    \/ EnableMach \/ SavePorts \/ AllocatePort \/ SetPorts
    \/ CreateSecondary \/ CreatePrimary \/ StorePrimary \/ DisableMach \/ Unhook

EventStep == Fault \/ Throw \/ Receive \/ ReplyOnly \/ TakeSignal \/ PassOn

Next == ClientStep \/ EventStep

Spec == Init /\ [][Next]_vars

-----------------------------------------------------------------------------
Places == {"none", "save", "port", "set", "secondary", "primary", "store", "unhook"}
Hooking == {"mach", "signal", "cpp"}

(* The types; installations fail only where the code calls the kernel.      *)
TypeOK ==
    /\ installed \in BOOLEAN /\ monitoring \subseteq Monitors /\ calls \in 0..Calls
    /\ wanted \subseteq Monitors /\ gathered \subseteq Monitors /\ active \subseteq Monitors
    /\ at \in 0..Len(Order)
    /\ enabled \subseteq Monitors \ {"nsexc"} /\ failed \subseteq {"mach", "signal"}
    /\ asyncSafety \in BOOLEAN /\ mixed \in BOOLEAN /\ allocated \in BOOLEAN
    /\ savedPorts \in BOOLEAN /\ primaryKnown \in BOOLEAN
    /\ step \in Places
    /\ ports \in {"original", "ours"} /\ terminate \in {"original", "ours"}
    /\ primary \in {"none", "waiting", "busy"}
    /\ secondary \in {"none", "asleep", "awake"}
    /\ handlerOf \in [Signals -> {"original", "ours", "junk"}]
    /\ savedHandler \in [Signals -> {"original", "ours", "junk", "unset"}]
    /\ event \in {"none", "queued", "raised", "handling", "dead"}
    /\ handler \in Hooking \cup {"none"}
    /\ captures \in Nat

Hooked(m) ==
    CASE m = "mach" -> ports = "ours"
      [] m = "signal" -> \A s \in Signals : handlerOf[s] = "ours"
      [] m = "cpp" -> terminate = "ours"

Untouched(m) ==
    CASE m = "mach" -> ports = "original" /\ ~savedPorts
      [] m = "signal" -> \A s \in Signals : handlerOf[s] # "ours"
      [] m = "cpp" -> terminate = "original"

(* Whatever sequence of calls the client makes and whichever of them the    *)
(* kernel refuses, a monitor that is disabled, or could not be installed,   *)
(* has left nothing of its own in the process, unless a handler has         *)
(* disarmed the monitors in the middle of a call.                           *)
HandlersPutBack ==
    ~mixed => \A m \in Hooking :
                 (m \notin enabled \/ m \in failed) /\ ~(m = "mach" /\ step = "unhook")
                     => Untouched(m)

(* When a call has returned, exactly the active monitors are installed, but *)
(* for those whose installation has failed.                                 *)
ActiveInstalled ==
    ~mixed /\ at = 0 /\ event # "handling"
        => \A m \in Hooking : IF m \in active THEN Hooked(m) \/ m \in failed
                                               ELSE Untouched(m)

(* While the handler of a Mach exception reads the crashed program, a fault *)
(* of its own finds a handler: the ports are given back, or the secondary   *)
(* thread is awake; unless the exception came before g_primaryMachThread    *)
(* was stored.                                                              *)
NestedFaultFound ==
    handler = "mach" /\ ~mixed => ports = "original" \/ secondary = "awake"

(* An event that meets no call of setActiveMonitors is captured by one      *)
(* monitor only, although it passes the hooks of several on its way.        *)
CapturedOnce == ~mixed => captures <= 1

(* The header promises that crasheecrash_setMonitoring returns the monitors *)
(* that were successfully installed.  A failed installation leaves the flag *)
(* set that it looks at.                                                    *)
ReturnsInstalled ==
    at = 0 /\ event = "none" => \A m \in active \cap Hooking : Hooked(m)

(* g_previousSignalHandlers holds the handlers installed before ours, says  *)
(* its comment.  After a failed installation it holds some, and all are put *)
(* back.                                                                    *)
OnlySavedRestored == \A s \in Signals : handlerOf[s] # "junk"

(* Once a handler is done the default handlers deal with the event, says    *)
(* the comment of handleSignal.  A call it interrupted goes on enabling     *)
(* monitors, which capture the same event again.                            *)
PassedOnOnce == captures <= 1

(* What makes these inductive.  The monitors before a place of the loop:    *)
Before(n) == {Order[j] : j \in 1..(n - 1)}

LoopFits ==
    /\ step # "none" => at = 1
    /\ event = "none" => ~mixed
    /\ ~mixed => /\ event # "none" => at = 0
                 /\ at = 0 => active = enabled
                 /\ at > 0 => gathered = Before(at) \cap enabled

(* The flag of the signal monitor says whose actions are in place, and the  *)
(* table never holds ours.                                                  *)
SignalFits ==
    /\ \A s \in Signals : savedHandler[s] # "ours"
    /\ IF "signal" \in enabled \ failed
       THEN allocated /\ \A s \in Signals : handlerOf[s] = "ours" /\ savedHandler[s] # "unset"
       ELSE \A s \in Signals : handlerOf[s] # "ours"

CPPFits == terminate = "ours" <=> "cpp" \in enabled

(* The ports are ours only with the original ones saved, and as far as the  *)
(* installation has come.                                                   *)
MachFits ==
    /\ step = "none" /\ "mach" \in enabled \ failed =>
          IF handler = "mach"
          THEN ports = "original" /\ ~savedPorts /\ secondary = "awake"
          ELSE ports = "ours" /\ savedPorts /\ primaryKnown /\ secondary = "asleep"
    /\ step \in {"none", "save"} /\ ("mach" \notin enabled \ failed \/ step = "save")
          => ports = "original" /\ ~savedPorts /\ primary = "none" /\ handler # "mach"
    /\ step \in {"port", "set"} => ports = "original" /\ savedPorts
    /\ step \in {"secondary", "primary", "store"} => ports = "ours" /\ savedPorts
    /\ step \in {"primary", "store"} => secondary = "asleep"
    /\ step = "unhook" => "mach" \notin enabled /\ (savedPorts \/ ports = "original")
    /\ step \notin {"none", "unhook"} => "mach" \in enabled \ failed
    /\ failed \subseteq enabled

CaptureFits ==
    /\ handler # "none" <=> event = "handling"
    /\ event \in {"none", "queued"} => captures = 0
    /\ event = "handling" => captures = 1
    /\ event \in {"raised", "dead"} => captures = 0 \/ (captures = 1 /\ enabled = {})

SetupInv ==
    /\ TypeOK /\ LoopFits /\ SignalFits /\ CPPFits
    /\ ~mixed => MachFits /\ CaptureFits

=============================================================================
