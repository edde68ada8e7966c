------------------------------ MODULE AppState ------------------------------
(***************************************************************************)
(* The application state monitor over the launches of the application      *)
(* (CrasheeCrashMonitor_AppState.c): the main thread's notifications and   *)
(* the thread that captures an event update one global g_state and write   *)
(* it to one file, without any lock.                                       *)
(*                                                                         *)
(* A capture that suspends the environment stops the main thread wherever  *)
(* it is, works on the state and the file, and lets it go on.  The process *)
(* may be killed between any two writes; what a launch loads is the part   *)
(* of the file that reads as JSON.  The order of the calls at a launch is  *)
(* that of CrashReporter.install.                                          *)
(***************************************************************************)
EXTENDS Integers, Sequences, FiniteSets

CONSTANTS
    Main,           \* the main thread
    Handler,        \* the thread that captures an event, one at a time
    Events,         \* the kinds of event it captures
    MaxTime,        \* bound: the last instant of the clock
    MaxLaunches,    \* bound: the number of launches
    MaxSessions,    \* bound: the returns to the foreground that a launch counts
    Gap             \* bytes of the file that do not read as JSON

Threads == {Main, Handler}

(* A fatal event, and user reports that return: the first two suspend the   *)
(* main thread.                                                             *)
EventKinds == {"crash", "noteAll", "note"}
Suspends(e) == e \in {"crash", "noteAll"}

ASSUME AppStateAssumption ==
    /\ Main # Handler
    /\ Events \subseteq EventKinds
    /\ MaxTime \in Nat
    /\ MaxLaunches \in Nat
    /\ MaxSessions \in Nat
    /\ Gap \notin Nat /\ Gap \notin BOOLEAN

(* The fields of the file, in the order they are written; the first one is  *)
(* saved from crashedThis and loaded into crashedLast.                      *)
Keys == <<"crashedThis", "active", "background", "launches", "sessions">>

State == [crashedThis : BOOLEAN, crashedLast : BOOLEAN,
          active : Nat, background : Nat, launches : Nat, sessions : Nat,
          activeHere : Nat, backgroundHere : Nat, sessionsHere : Nat,
          transition : Nat, isActive : BOOLEAN, inForeground : BOOLEAN]

Zero == [crashedThis |-> FALSE, crashedLast |-> FALSE,
         active |-> 0, background |-> 0, launches |-> 0, sessions |-> 0,
         activeHere |-> 0, backgroundHere |-> 0, sessionsHere |-> 0,
         transition |-> 0, isActive |-> FALSE, inForeground |-> FALSE]

(* What a thread does next, and in which call: of crasheecrashstate_reset,  *)
(* of a notification, or of the handling of an event.                       *)
Steps == {"idle", "enable", "reset", "clear", "time", "move", "add", "note", "mark",
          "open", "read", "write", "after", "die"}
Notices == {"active", "resign", "enterBackground", "enterForeground", "terminate"}
Calls == {"none", "reset", "context", "crash", "skipped"} \cup Notices
Idle == <<"idle", "none">>

VARIABLES
    clock,      \* the current instant
    up,         \* the process runs and has loaded its state
    launched,   \* launches so far
    life,       \* the application: "inactive", "active", "background"
    inBackground, \* time really spent in the background since the state was cleared
    cleared,    \* the instant of notifyObjCLoad
    state,      \* g_state
    enabled,    \* g_isEnabled
    file,       \* the elements of the state file
    pc,         \* <<step, call>> of each thread
    duration,   \* the local variable of updateAppState and the notifications
    position,   \* the element a saving thread writes next
    value,      \* the argument it has read for it
    stale,      \* its file has been truncated since it opened it
    event,      \* what the handler captures, or "none"
    frozen,     \* the main thread is suspended
    noted,      \* an event was noted in this launch
    unnoticed   \* an event was noted, and no launch after it has reset the file

world == <<clock, launched, life, inBackground, cleared>>
saving == <<file, position, value, stale>>
capture == <<event, frozen>>
vars == <<world, up, state, enabled, saving, pc, duration, capture, noted, unnoticed>>

Running(t) == up /\ (t = Main => ~frozen)
At(t, step) == Running(t) /\ pc[t][1] = step
Call(t) == pc[t][2]
Goto(t, step, call) == pc' = [pc EXCEPT ![t] = <<step, call>>]

-----------------------------------------------------------------------------
(* The file.                                                                *)

(* The decoder stops at the first thing that is no JSON; an element cut off *)
(* by the end of the file is not reported.                                  *)
Readable == {k \in 1..Len(file) : \A j \in 1..k : file[j] # Gap}
Loaded(k, default) == IF k \in Readable THEN file[k] ELSE default

(* Writing element k, behind the end as well: the bytes between stay zero.  *)
Written(k, v) ==
    [j \in 1..(IF k > Len(file) THEN k ELSE Len(file)) |->
        IF j = k THEN v ELSE IF j <= Len(file) THEN file[j] ELSE Gap]

-----------------------------------------------------------------------------
Init ==
    /\ clock = 0
    /\ up = FALSE
    /\ launched = 0
    /\ life = "inactive"
    /\ inBackground = 0
    /\ cleared = 0
    /\ state = Zero
    /\ enabled = FALSE
    /\ file = <<>>
    /\ pc = [t \in Threads |-> Idle]
    /\ duration = [t \in Threads |-> 0]
    /\ position = [t \in Threads |-> 0]
    /\ value = [t \in Threads |-> 0]
    /\ stale = [t \in Threads |-> FALSE]
    /\ event = "none"
    /\ frozen = FALSE
    /\ noted = FALSE
    /\ unnoticed = FALSE

Tick ==
    /\ clock < MaxTime
    /\ clock' = clock + 1
    /\ inBackground' = IF life = "background" THEN inBackground + 1 ELSE inBackground
    /\ UNCHANGED <<up, launched, life, cleared, state, enabled, saving, pc, duration,
                   capture, noted, unnoticed>>

(* crasheecrashstate_initialize; the application starts in the foreground.  *)
Launch ==
    /\ ~up
    /\ launched < MaxLaunches
    /\ up' = TRUE
    /\ launched' = launched + 1
    /\ life' = "inactive"
    /\ inBackground' = 0
    /\ cleared' = clock
    /\ state' = [Zero EXCEPT !.crashedLast = Loaded(1, FALSE), !.active = Loaded(2, 0),
                             !.background = Loaded(3, 0), !.launches = Loaded(4, 0),
                             !.sessions = Loaded(5, 0)]
    /\ Goto(Main, "enable", "reset")
    /\ UNCHANGED <<clock, enabled, saving, duration, capture, noted, unnoticed>>

(* The end of the process; the file stays.                                  *)
Stop ==
    /\ up' = FALSE
    /\ state' = Zero
    /\ enabled' = FALSE
    /\ pc' = [t \in Threads |-> Idle]
    /\ duration' = [t \in Threads |-> 0]
    /\ position' = [t \in Threads |-> 0]
    /\ value' = [t \in Threads |-> 0]
    /\ stale' = [t \in Threads |-> FALSE]
    /\ event' = "none"
    /\ frozen' = FALSE
    /\ noted' = FALSE
    /\ UNCHANGED <<world, file, unnoticed>>

Kill == up /\ Stop

(* crasheecm_setActiveMonitors enables the monitor: the flag is set first,  *)
(* and events are noted from then on; ...                                   *)
Enable ==
    /\ At(Main, "enable")
    /\ enabled' = TRUE
    /\ Goto(Main, "reset", "reset")
    /\ UNCHANGED <<world, up, state, saving, duration, capture, noted, unnoticed>>

(* ... crasheecrashstate_reset, up to its save, clears what was noted since. *)
Reset ==
    /\ At(Main, "reset")
    /\ LET since == IF state.crashedLast
                    THEN [state EXCEPT !.active = 0, !.background = 0,
                                       !.launches = 0, !.sessions = 0]
                    ELSE state
       IN state' = [since EXCEPT !.sessionsHere = 1, !.activeHere = 0,
                                 !.backgroundHere = 0, !.crashedThis = FALSE,
                                 !.launches = @ + 1, !.sessions = @ + 1,
                                 !.inForeground = TRUE]
    /\ Goto(Main, "open", "reset")
    /\ UNCHANGED <<world, up, enabled, saving, duration, capture, noted, unnoticed>>

(* crasheecrashstate_notifyObjCLoad, after the installation.  What           *)
(* notifyOfBeforeInstallationState would pass on before it is left out: the  *)
(* reporter is made and installed in one call of the main thread, so no      *)
(* notification has come before.                                             *)
NotifyObjCLoad ==
    /\ At(Main, "clear")
    /\ state' = [Zero EXCEPT !.isActive = TRUE, !.transition = clock]
    /\ cleared' = clock
    /\ inBackground' = 0
    /\ pc' = [pc EXCEPT ![Main] = Idle]
    /\ UNCHANGED <<clock, up, launched, life, enabled, saving, duration, capture,
                   noted, unnoticed>>

-----------------------------------------------------------------------------
(* Notifications, in the order UIKit posts them: the application moves, and *)
(* the monitor notes its flag.  A terminate notification goes to an         *)
(* application in the background.                                           *)
Moves == [active          |-> <<"inactive", "active">>,
          resign          |-> <<"active", "inactive">>,
          enterBackground |-> <<"inactive", "background">>,
          enterForeground |-> <<"background", "inactive">>,
          terminate       |-> <<"background", "background">>]

Flagged(n) ==
    CASE n = "active"          -> [state EXCEPT !.isActive = TRUE]
      [] n = "resign"          -> [state EXCEPT !.isActive = FALSE]
      [] n = "enterBackground" -> [state EXCEPT !.inForeground = FALSE]
      [] n = "enterForeground" -> [state EXCEPT !.inForeground = TRUE]
      [] n = "terminate"       -> state

Notify(n) ==
    /\ At(Main, "idle")
    /\ n = "enterForeground" => state.sessionsHere < MaxSessions
    /\ life = Moves[n][1]
    /\ life' = Moves[n][2]
    /\ IF enabled
       THEN /\ state' = Flagged(n)
            /\ Goto(Main, IF n \in {"active", "enterBackground"} THEN "move" ELSE "time", n)
       ELSE UNCHANGED <<state, pc>>
    /\ UNCHANGED <<clock, up, launched, inBackground, cleared, enabled, saving, duration,
                   capture, noted, unnoticed>>

(* The time since the last transition; updateAppState then moves it.        *)
TakeTime(t) ==
    /\ At(t, "time")
    /\ duration' = [duration EXCEPT ![t] = clock - state.transition]
    /\ Goto(t, IF Call(t) \in {"resign", "enterForeground"} THEN "add" ELSE "move", Call(t))
    /\ UNCHANGED <<world, up, state, enabled, saving, capture, noted, unnoticed>>

MoveTransition(t) ==
    /\ At(t, "move")
    /\ state' = [state EXCEPT !.transition = clock]
    /\ pc' = [pc EXCEPT ![t] = CASE Call(t) = "active" -> Idle
                                 [] Call(t) = "enterBackground" -> <<"open", Call(t)>>
                                 [] OTHER -> <<"add", Call(t)>>]
    /\ UNCHANGED <<world, up, enabled, saving, duration, capture, noted, unnoticed>>

Lengthened(t) ==
    LET d == duration[t] IN
    CASE Call(t) = "resign" \/ (Call(t) # "enterForeground" /\ state.isActive) ->
            [state EXCEPT !.active = @ + d, !.activeHere = @ + d]
      [] Call(t) = "enterForeground" ->
            [state EXCEPT !.background = @ + d, !.backgroundHere = @ + d,
                          !.sessions = @ + 1, !.sessionsHere = @ + 1]
      [] OTHER ->
            IF state.inForeground THEN state
            ELSE [state EXCEPT !.background = @ + d, !.backgroundHere = @ + d]

AddDuration(t) ==
    /\ At(t, "add")
    /\ state' = Lengthened(t)
    /\ duration' = [duration EXCEPT ![t] = 0]
    /\ pc' = [pc EXCEPT ![t] =
                CASE Call(t) \in {"resign", "enterForeground"} -> Idle
                  [] Call(t) = "terminate" -> <<"open", "terminate">>
                  [] Call(t) = "context" -> <<"note", "context">>
                  [] Call(t) = "crash" -> <<"mark", "crash">>]
    /\ UNCHANGED <<world, up, enabled, saving, capture, noted, unnoticed>>

-----------------------------------------------------------------------------
(* saveState.                                                               *)

(* Mutant: the file is opened without O_TRUNC.                              *)
OpenKept(t) ==
    /\ At(t, "open")
    /\ position' = [position EXCEPT ![t] = 1]
    /\ unnoticed' = IF Call(t) = "reset" THEN noted ELSE unnoticed
    /\ Goto(t, "read", Call(t))
    /\ UNCHANGED <<world, up, state, enabled, file, stale, value, duration, capture, noted>>

(* open(O_TRUNC): the offset of another thread's descriptor stays.          *)
OpenState(t) ==
    /\ At(t, "open")
    /\ file' = <<>>
    /\ position' = [position EXCEPT ![t] = 1]
    /\ stale' = [u \in Threads |-> u # t /\ position[u] > 0]
    /\ unnoticed' = IF Call(t) = "reset" THEN noted ELSE unnoticed
    /\ Goto(t, "read", Call(t))
    /\ UNCHANGED <<world, up, state, enabled, value, duration, capture, noted>>

ReadElement(t) ==
    /\ At(t, "read")
    /\ value' = [value EXCEPT ![t] = state[Keys[position[t]]]]
    /\ Goto(t, "write", Call(t))
    /\ UNCHANGED <<world, up, state, enabled, file, position, stale, duration, capture,
                   noted, unnoticed>>

(* Values differ in length: after a truncation the first element may not    *)
(* fit where it lands.                                                      *)
WriteElement(t) ==
    /\ At(t, "write")
    /\ \E v \in {value[t]} \cup (IF stale[t] THEN {Gap} ELSE {}) :
          file' = Written(position[t], v)
    /\ stale' = [stale EXCEPT ![t] = FALSE]
    /\ value' = [value EXCEPT ![t] = 0]
    /\ position' = [position EXCEPT ![t] = IF @ = Len(Keys) THEN 0 ELSE @ + 1]
    /\ pc' = [pc EXCEPT ![t] =
                CASE position[t] < Len(Keys) -> <<"read", Call(t)>>
                  [] position[t] = Len(Keys) /\ Call(t) = "reset" -> <<"clear", "reset">>
                  [] position[t] = Len(Keys) /\ Call(t) = "crash" -> <<"after", "crash">>
                  [] OTHER -> Idle]
    /\ UNCHANGED <<world, up, state, enabled, duration, capture, noted, unnoticed>>

-----------------------------------------------------------------------------
(* The capture of an event: the state's contribution to its context, and    *)
(* the note onCrash makes, of a user report as well.                        *)
BeginEvent ==
    /\ At(Handler, "idle")
    /\ event' \in Events
    /\ frozen' = Suspends(event')
    /\ Goto(Handler, IF enabled THEN "time" ELSE "note", "context")
    /\ UNCHANGED <<world, up, state, enabled, saving, duration, noted, unnoticed>>

NoteEvent ==
    /\ At(Handler, "note")
    /\ IF enabled THEN Goto(Handler, "time", "crash") ELSE Goto(Handler, "after", "skipped")
    /\ UNCHANGED <<world, up, state, enabled, saving, duration, capture, noted, unnoticed>>

(* Mutant: the mark is left to be set after the save.                       *)
MarkNothing(t) ==
    /\ At(t, "mark")
    /\ noted' = TRUE
    /\ unnoticed' = TRUE
    /\ Goto(t, "open", "crash")
    /\ UNCHANGED <<world, up, state, enabled, saving, duration, capture>>

MarkCrash(t) ==
    /\ At(t, "mark")
    /\ state' = [state EXCEPT !.crashedThis = TRUE]
    /\ noted' = TRUE
    /\ unnoticed' = TRUE
    /\ Goto(t, "open", "crash")
    /\ UNCHANGED <<world, up, enabled, saving, duration, capture>>

(* After the report: a fatal event disables all monitors, the main thread   *)
(* is resumed, and the process dies or goes on.                             *)
AfterEvent ==
    /\ At(Handler, "after")
    /\ enabled' = (enabled /\ event # "crash")
    /\ frozen' = FALSE
    /\ IF event = "crash"
       THEN Goto(Handler, "die", Call(Handler)) /\ UNCHANGED event
       ELSE pc' = [pc EXCEPT ![Handler] = Idle] /\ event' = "none"
    /\ UNCHANGED <<world, up, state, saving, duration, noted, unnoticed>>

Die == At(Handler, "die") /\ Stop

-----------------------------------------------------------------------------
Next ==
    \/ Tick \/ Launch \/ Kill \/ Enable \/ Reset \/ NotifyObjCLoad
    \/ BeginEvent \/ NoteEvent \/ AfterEvent \/ Die
    \/ \E n \in Notices : Notify(n)
    \/ \E t \in Threads :
          \/ TakeTime(t) \/ MoveTransition(t) \/ AddDuration(t)
          \/ OpenState(t) \/ ReadElement(t) \/ WriteElement(t) \/ MarkCrash(t)

Spec == Init /\ [][Next]_vars

-----------------------------------------------------------------------------
(* Properties.                                                              *)

TypeOK ==
    /\ clock \in Nat /\ launched \in Nat /\ inBackground \in Nat
    /\ cleared \in 0..clock
    /\ up \in BOOLEAN /\ enabled \in BOOLEAN /\ frozen \in BOOLEAN
    /\ noted \in BOOLEAN /\ unnoticed \in BOOLEAN
    /\ life \in {"inactive", "active", "background"}
    /\ state \in State /\ state.transition <= clock
    /\ Len(file) \in 0..Len(Keys) /\ file = [k \in 1..Len(file) |-> file[k]]
    /\ \A k \in 1..Len(file) :
          file[k] = Gap \/ IF k = 1 THEN file[k] \in BOOLEAN ELSE file[k] \in Nat
    /\ pc \in [Threads -> Steps \X Calls]
    /\ duration \in [Threads -> Nat]
    /\ position \in [Threads -> 0..Len(Keys)]
    /\ \A t \in Threads : pc[t][1] \in {"read", "write"} => position[t] > 0
    /\ \A t \in Threads : pc[t][1] = "write" =>
          IF position[t] = 1 THEN value[t] \in BOOLEAN ELSE value[t] \in Nat
    /\ stale \in [Threads -> BOOLEAN]
    /\ DOMAIN value = Threads
    /\ event \in Events \cup {"none"}

(* While the main thread stands still, a handler that has noted its event   *)
(* leaves a complete file that says so.                                     *)
NotedOnDisk ==
    frozen /\ pc[Handler] = <<"after", "crash">> =>
        Readable = DOMAIN Keys /\ file[1] = TRUE

(* A launch is told of a crash only if an event was noted in a launch after *)
(* which no other has begun to reset the file: a crash is never reported    *)
(* again and again.                                                         *)
NoFalseAlarm == [][~up /\ up' /\ state'.crashedLast => unnoticed]_vars

(* What makes these inductive: which thread is where in which call; ...     *)
MainAt ==
    \/ pc[Main] = Idle
    \/ Call(Main) = "reset" /\ pc[Main][1] \in {"enable", "reset", "open", "read", "write", "clear"}
    \/ Call(Main) = "active" /\ pc[Main][1] = "move"
    \/ Call(Main) \in {"resign", "enterForeground"} /\ pc[Main][1] \in {"time", "add"}
    \/ Call(Main) = "enterBackground" /\ pc[Main][1] \in {"move", "open", "read", "write"}
    \/ Call(Main) = "terminate"
         /\ pc[Main][1] \in {"time", "move", "add", "open", "read", "write"}

HandlerAt ==
    \/ pc[Handler] = Idle
    \/ Call(Handler) = "context" /\ pc[Handler][1] \in {"time", "move", "add", "note"}
    \/ Call(Handler) = "crash"
         /\ pc[Handler][1] \in {"time", "move", "add", "mark", "open", "read", "write",
                               "after", "die"}
    \/ Call(Handler) = "skipped" /\ pc[Handler][1] \in {"after", "die"}

(* ... the handler notes nothing before the monitor is enabled; ...         *)
ResetFits ==
    /\ ~up => ~enabled /\ \A t \in Threads : pc[t] = Idle
    /\ pc[Main][1] = "enable" =>
          ~enabled /\ (pc[Handler] = <<"note", "context">> \/ Call(Handler) \in {"none", "skipped"})

(* ... a mark in the state, in the file or on its way there has its event;  *)
MarksFit ==
    /\ noted => unnoticed
    /\ ~noted =>
          /\ ~state.crashedThis
          /\ \A t \in Threads : pc[t][1] = "write" /\ position[t] = 1 => value[t] = FALSE
    /\ ~unnoticed /\ Len(file) > 0 => file[1] # TRUE

(* ... and a handler that has stopped the main thread has the file alone.   *)
SaveFits ==
    frozen /\ Call(Handler) = "crash" =>
        /\ pc[Handler][1] \in {"open", "read", "write"} => state.crashedThis
        /\ pc[Handler][1] \in {"read", "write"} =>
              /\ Len(file) = position[Handler] - 1
              /\ \A k \in 1..Len(file) : file[k] # Gap
              /\ Len(file) > 0 => file[1] = TRUE
              /\ ~stale[Handler]
        /\ pc[Handler][1] = "write" /\ position[Handler] = 1 => value[Handler] = TRUE

StateInv ==
    TypeOK /\ MainAt /\ HandlerAt /\ ResetFits /\ MarksFit /\ SaveFits /\ NotedOnDisk

(* "Total time backgrounded elapsed since launch." (AppState.h): what is     *)
(* counted as background is time the application spent there.  The code     *)
(* does not keep to it, since NotifyObjCLoad clears the foreground flag.    *)
BackgroundIsReal == enabled => state.backgroundHere <= inBackground

(* "If true, the application crashed on the previous launch.": a crash that *)
(* has been noted on disk is still noted there when the process dies of it, *)
(* whatever the resumed main thread was doing.  The code does not keep to   *)
(* it: the main thread may be in the middle of a save.                      *)
CrashRemembered ==
    pc[Handler] = <<"die", "crash">> => Readable # {} /\ file[1] = TRUE

=============================================================================
