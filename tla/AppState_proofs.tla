--------------------------- MODULE AppState_proofs ---------------------------
(* Proofs about AppState, for any length of the run, any number of launches  *)
(* and any mix of events: what a handler has noted while the main thread     *)
(* stands still is on disk, and no launch is told of a crash nobody noted.   *)
EXTENDS AppState, SequenceTheorems, TLAPS

(* The two threads.                                                          *)
LEMMA TwoThreads ==
    /\ Main \in Threads /\ Handler \in Threads /\ Main # Handler
    /\ \A t \in Threads : t = Main \/ t = Handler
  BY AppStateAssumption DEF Threads

(* The fields of the state that are saved.                                   *)
LEMMA SavedFields ==
    /\ Len(Keys) = 5 /\ DOMAIN Keys = 1..5
    /\ \A s \in State, k \in 1..5 :
          /\ k = 1 => s[Keys[k]] = s.crashedThis /\ s[Keys[k]] \in BOOLEAN
          /\ k # 1 => s[Keys[k]] \in Nat
<1>1. Len(Keys) = 5 /\ DOMAIN Keys = 1..5
  BY DEF Keys
<1>2. ASSUME NEW s \in State, NEW k \in 1..5
      PROVE  /\ k = 1 => s[Keys[k]] = s.crashedThis /\ s[Keys[k]] \in BOOLEAN
             /\ k # 1 => s[Keys[k]] \in Nat
  <2>1. k \in {1, 2, 3, 4, 5}
    OBVIOUS
  <2>2. /\ Keys[1] = "crashedThis" /\ Keys[2] = "active" /\ Keys[3] = "background"
        /\ Keys[4] = "launches" /\ Keys[5] = "sessions"
    BY DEF Keys
  <2>3. /\ s["crashedThis"] \in BOOLEAN /\ s["active"] \in Nat /\ s["background"] \in Nat
        /\ s["launches"] \in Nat /\ s["sessions"] \in Nat
    BY DEF State
  <2> QED
    BY <2>1, <2>2, <2>3
<1> QED
  BY <1>1, <1>2

(* What TypeOK says of the file.                                             *)
ElementOK(k, v) == v = Gap \/ IF k = 1 THEN v \in BOOLEAN ELSE v \in Nat
FileOK(f) ==
    /\ Len(f) \in 0..5
    /\ f = [k \in 1..Len(f) |-> f[k]]
    /\ \A k \in 1..Len(f) : ElementOK(k, f[k])

(* What a write leaves in the file.                                          *)
LEMMA WrittenFits ==
    ASSUME FileOK(file), NEW k \in 1..5, NEW v, ElementOK(k, v)
    PROVE  /\ FileOK(Written(k, v))
           /\ Len(Written(k, v)) = IF k > Len(file) THEN k ELSE Len(file)
           /\ \A j \in 1..Len(Written(k, v)) :
                 Written(k, v)[j] = IF j = k THEN v ELSE IF j <= Len(file) THEN file[j] ELSE Gap
<1> DEFINE n == IF k > Len(file) THEN k ELSE Len(file)
           w == Written(k, v)
           V == BOOLEAN \cup Nat \cup {Gap}
<1>1. n \in 0..5
  BY DEF FileOK
<1>2. w = [j \in 1..n |-> IF j = k THEN v ELSE IF j <= Len(file) THEN file[j] ELSE Gap]
  BY DEF Written
<1>3. \A j \in 1..n : IF j = k THEN v \in V ELSE IF j <= Len(file) THEN file[j] \in V ELSE Gap \in V
  BY <1>1 DEF FileOK, ElementOK
<1>4. w \in [1..n -> V]
  BY <1>2, <1>3
<1>5. w \in Seq(V) /\ DOMAIN w = 1..n
  <2>1. n \in Nat
    BY <1>1
  <2>2. [1..n -> V] \in {[1..i -> V] : i \in Nat}
    BY <2>1
  <2>3. w \in UNION {[1..i -> V] : i \in Nat}
    BY <1>4, <2>2
  <2> QED
    BY <1>4, <2>3, SeqDef
<1>6. Len(w) \in Nat /\ DOMAIN w = 1..Len(w)
  BY <1>5, LenProperties
<1> HIDE DEF n, w, V
<1>7. Len(w) = n
  BY <1>1, <1>5, <1>6
<1>8. w = [j \in 1..Len(w) |-> w[j]]
  BY <1>2, <1>7
<1>9. \A j \in 1..Len(w) : w[j] = IF j = k THEN v ELSE IF j <= Len(file) THEN file[j] ELSE Gap
  BY <1>2, <1>7
<1>10. \A j \in 1..Len(w) : ElementOK(j, w[j])
  BY <1>1, <1>7, <1>9 DEF FileOK, ElementOK, n
<1> QED
  BY <1>1, <1>7, <1>8, <1>9, <1>10 DEF FileOK, n, w

(* The same of the file a write leaves behind.                               *)
LEMMA WrittenNow ==
    ASSUME FileOK(file), NEW t, position[t] \in 1..5, NEW v, ElementOK(position[t], v),
           file' = Written(position[t], v)
    PROVE  /\ FileOK(file')
           /\ Len(file') = IF position[t] > Len(file) THEN position[t] ELSE Len(file)
           /\ \A j \in 1..Len(file') :
                 file'[j] = IF j = position[t] THEN v ELSE IF j <= Len(file) THEN file[j] ELSE Gap
<1>1. FileOK(Written(position[t], v))
  BY WrittenFits
<1>2. Len(Written(position[t], v)) = IF position[t] > Len(file) THEN position[t] ELSE Len(file)
  BY WrittenFits
<1>3. \A j \in 1..Len(Written(position[t], v)) :
         Written(position[t], v)[j] = IF j = position[t] THEN v ELSE IF j <= Len(file) THEN file[j] ELSE Gap
  BY WrittenFits
<1> QED
  BY <1>1, <1>2, <1>3

(* The file has at most the elements that are saved.                         *)
LEMMA FileLength ==
    ASSUME NEW f, FileOK(f)
    PROVE  Len(f) \in 0..5
  BY DEF FileOK

(* TypeOK in parts: the scalars, the state, the file, the steps of the threads *)
(* and their local variables.                                                *)
ScalarsTyped ==
    /\ clock \in Nat /\ launched \in Nat /\ inBackground \in Nat
    /\ cleared \in 0..clock
    /\ up \in BOOLEAN /\ enabled \in BOOLEAN /\ frozen \in BOOLEAN
    /\ noted \in BOOLEAN /\ unnoticed \in BOOLEAN
    /\ life \in {"inactive", "active", "background"}
    /\ event \in Events \cup {"none"}
StateTyped == state \in State /\ state.transition <= clock
StepsTyped == pc \in [Threads -> Steps \X Calls]
LocalsTyped ==
    /\ duration \in [Threads -> Nat]
    /\ position \in [Threads -> 0..5]
    /\ stale \in [Threads -> BOOLEAN]
ValuesTyped ==
    /\ DOMAIN value = Threads
    /\ \A t \in Threads : pc[t][1] \in {"read", "write"} => position[t] > 0
    /\ \A t \in Threads : pc[t][1] = "write" =>
          IF position[t] = 1 THEN value[t] \in BOOLEAN ELSE value[t] \in Nat

Typed == ScalarsTyped /\ StateTyped /\ FileOK(file) /\ StepsTyped /\ LocalsTyped /\ ValuesTyped

(* The parts are all of it.                                                  *)
LEMMA TypedIsTypeOK == Typed <=> TypeOK
  BY SavedFields DEF Typed, ScalarsTyped, StateTyped, FileOK, ElementOK, StepsTyped,
       LocalsTyped, ValuesTyped, TypeOK

(* The invariant, with the type invariant in parts.                          *)
Inv == Typed /\ MainAt /\ HandlerAt /\ ResetFits /\ MarksFit /\ SaveFits /\ NotedOnDisk

(* What a launch loads has the types of its fields.                          *)
LEMMA LoadedTyped ==
    ASSUME FileOK(file)
    PROVE  /\ Loaded(1, FALSE) \in BOOLEAN
           /\ \A k \in 2..5 : Loaded(k, 0) \in Nat
<1>1. \A k \in Readable : k \in 1..Len(file) /\ file[k] # Gap
  BY DEF Readable, FileOK
<1>2. ASSUME NEW k \in 2..5 PROVE Loaded(k, 0) \in Nat
  BY <1>1, <1>2 DEF Loaded, FileOK, ElementOK
<1>3. Loaded(1, FALSE) \in BOOLEAN
  BY <1>1 DEF Loaded, FileOK, ElementOK
<1> QED
  BY <1>2, <1>3

(* A notification changes one flag.                                          *)
LEMMA FlaggedTyped ==
    ASSUME StateTyped, NEW n \in Notices
    PROVE  /\ Flagged(n) \in State
           /\ Flagged(n).transition = state.transition
           /\ Flagged(n).crashedThis = state.crashedThis
<1>1. CASE n = "active"
  BY <1>1 DEF Flagged, StateTyped, State
<1>2. CASE n = "resign"
  BY <1>2 DEF Flagged, StateTyped, State
<1>3. CASE n = "enterBackground"
  BY <1>3 DEF Flagged, StateTyped, State
<1>4. CASE n = "enterForeground"
  BY <1>4 DEF Flagged, StateTyped, State
<1>5. CASE n = "terminate"
  BY <1>5 DEF Flagged, StateTyped, State
<1> QED
  BY <1>1, <1>2, <1>3, <1>4, <1>5 DEF Notices

(* A duration is added to counters.                                          *)
LEMMA LengthenedTyped ==
    ASSUME StateTyped, LocalsTyped, NEW t \in Threads
    PROVE  /\ Lengthened(t) \in State
           /\ Lengthened(t).transition = state.transition
           /\ Lengthened(t).crashedThis = state.crashedThis
<1> DEFINE d == duration[t]
<1>1. d \in Nat
  BY DEF LocalsTyped
<1>2. /\ state.active + d \in Nat /\ state.activeHere + d \in Nat
      /\ state.background + d \in Nat /\ state.backgroundHere + d \in Nat
      /\ state.sessions + 1 \in Nat /\ state.sessionsHere + 1 \in Nat
  BY <1>1 DEF StateTyped, State
<1> HIDE DEF d
<1> DEFINE a == [state EXCEPT !.active = @ + d, !.activeHere = @ + d]
           b == [state EXCEPT !.background = @ + d, !.backgroundHere = @ + d]
           c == [state EXCEPT !.background = @ + d, !.backgroundHere = @ + d,
                              !.sessions = @ + 1, !.sessionsHere = @ + 1]
<1>3. a \in State /\ a.transition = state.transition /\ a.crashedThis = state.crashedThis
  BY <1>2 DEF StateTyped, State
<1>4. b \in State /\ b.transition = state.transition /\ b.crashedThis = state.crashedThis
  BY <1>2 DEF StateTyped, State
<1>5. c \in State /\ c.transition = state.transition /\ c.crashedThis = state.crashedThis
  BY <1>2 DEF StateTyped, State
<1>6. Lengthened(t) \in {a, b, c, state}
  BY DEF Lengthened, d
<1> HIDE DEF a, b, c
<1> QED
  BY <1>3, <1>4, <1>5, <1>6 DEF StateTyped

(* The calls that take the time.                                             *)
LEMMA AddCalls ==
    ASSUME MainAt, HandlerAt, NEW t \in Threads, pc[t][1] = "add"
    PROVE  Call(t) \in {"resign", "enterForeground", "terminate", "context", "crash"}
  BY TwoThreads DEF MainAt, HandlerAt, Call, Idle

(* Steps that leave the marks alone, or note an event.                       *)
LEMMA MarksKept ==
    ASSUME Inv,
           \/ noted' /\ unnoticed'
           \/ /\ noted' = noted /\ unnoticed' = unnoticed
              /\ state'.crashedThis => state.crashedThis
              /\ file' = file
              /\ \A t \in Threads :
                    pc'[t][1] = "write" /\ position'[t] = 1 =>
                       pc[t][1] = "write" /\ position[t] = 1 /\ value'[t] = value[t]
    PROVE  MarksFit'
<1>1. noted' => unnoticed'
  BY DEF MarksFit, Inv
<1>2. ~unnoticed' /\ Len(file') > 0 => file'[1] # TRUE
  BY DEF MarksFit, Inv
<1>3. ~noted' => ~state'.crashedThis
  BY DEF MarksFit, Inv
<1>4. ASSUME ~noted', NEW t \in Threads, pc'[t][1] = "write", position'[t] = 1
      PROVE  value'[t] = FALSE
  BY <1>4 DEF MarksFit, Inv
<1> QED
  BY <1>1, <1>2, <1>3, <1>4 DEF MarksFit

(* Time passes. *)
LEMMA TickKeeps ==
    ASSUME Inv, Tick
    PROVE  Inv'
<1> USE TwoThreads, AppStateAssumption, SavedFields DEF Inv, Typed
<1>1. Typed'
  <2>1. ScalarsTyped'
    BY DEF Tick, capture, ScalarsTyped
  <2>2. StateTyped'
    BY DEF Tick, StateTyped, State, LocalsTyped, ScalarsTyped
  <2>3. FileOK(file)'
    BY DEF Tick, saving, FileOK
  <2>4. StepsTyped'
    BY DEF Tick, StepsTyped, Steps, Calls, Notices
  <2>5. LocalsTyped'
    BY DEF Tick, saving, LocalsTyped
  <2>6. ValuesTyped'
    BY DEF Tick, saving, ValuesTyped, LocalsTyped, StepsTyped
  <2> QED
    BY <2>1, <2>2, <2>3, <2>4, <2>5, <2>6
<1>2. MainAt'
  BY DEF Tick, Call, MainAt, StepsTyped
<1>3. HandlerAt'
  BY DEF Tick, Call, HandlerAt, StepsTyped
<1>4. ResetFits'
  BY DEF Tick, Call, ResetFits, MainAt, HandlerAt, StepsTyped
<1>5. MarksFit'
  BY DEF Tick, saving, MarksFit, StepsTyped, LocalsTyped
<1>6. SaveFits'
  BY DEF Tick, Idle, saving, capture, SaveFits, MainAt, HandlerAt, StepsTyped, LocalsTyped
<1>7. NotedOnDisk'
  BY DEF Tick, saving, capture, NotedOnDisk, SaveFits, HandlerAt, StepsTyped, Readable
<1> QED
  BY <1>1, <1>2, <1>3, <1>4, <1>5, <1>6, <1>7

(* A launch loads the file; no thread is anywhere yet. *)
LEMMA LaunchKeeps ==
    ASSUME Inv, Launch
    PROVE  Inv'
<1> USE TwoThreads, AppStateAssumption, SavedFields DEF Inv, Typed
<1>1. Typed'
  <2>1. ScalarsTyped'
    BY DEF Launch, Goto, capture, Loaded, Readable, Zero, ScalarsTyped
  <2>2. StateTyped'
    <3>1. /\ Loaded(1, FALSE) \in BOOLEAN /\ Loaded(2, 0) \in Nat /\ Loaded(3, 0) \in Nat
          /\ Loaded(4, 0) \in Nat /\ Loaded(5, 0) \in Nat
      <4>1. 2 \in 2..5 /\ 3 \in 2..5 /\ 4 \in 2..5 /\ 5 \in 2..5
        OBVIOUS
      <4> QED
        BY <4>1, LoadedTyped
    <3>2. Zero \in State /\ Zero.transition = 0
      BY DEF Zero, State
    <3>3. state' = [Zero EXCEPT !.crashedLast = Loaded(1, FALSE), !.active = Loaded(2, 0),
                                !.background = Loaded(3, 0), !.launches = Loaded(4, 0),
                                !.sessions = Loaded(5, 0)]
      BY DEF Launch
    <3>4. ASSUME NEW a \in BOOLEAN, NEW b \in Nat, NEW c \in Nat, NEW d \in Nat, NEW e \in Nat,
                 state' = [Zero EXCEPT !.crashedLast = a, !.active = b, !.background = c,
                                       !.launches = d, !.sessions = e]
          PROVE  state' \in State /\ state'.transition = 0
      BY <3>2, <3>4 DEF State
    <3>5. state' \in State /\ state'.transition = 0
      BY <3>1, <3>3, <3>4
    <3> QED
      BY <3>5 DEF Launch, StateTyped, ScalarsTyped
  <2>3. FileOK(file)'
    BY DEF Launch, Goto, saving, Loaded, Readable, Zero, FileOK
  <2>4. StepsTyped'
    BY DEF Launch, Goto, Loaded, Readable, Zero, StepsTyped, Steps, Calls, Notices
  <2>5. LocalsTyped'
    BY DEF Launch, Goto, saving, Loaded, Readable, Zero, LocalsTyped
  <2>6. ValuesTyped'
    BY DEF Launch, Goto, saving, Loaded, Readable, Zero, ValuesTyped, LocalsTyped,
         StepsTyped
  <2> QED
    BY <2>1, <2>2, <2>3, <2>4, <2>5, <2>6
<1>2. MainAt'
  BY DEF Launch, Call, Goto, Loaded, Readable, Zero, MainAt, StepsTyped
<1>3. HandlerAt'
  BY DEF Launch, Call, Goto, Loaded, Readable, Zero, HandlerAt, StepsTyped
<1>4. ResetFits'
  BY DEF Launch, Call, Goto, Idle, Loaded, Readable, Zero, ResetFits, MainAt,
       HandlerAt, StepsTyped
<1>5. MarksFit'
  BY DEF Launch, Goto, saving, Loaded, Readable, Zero, MarksFit, StepsTyped, LocalsTyped
<1>6. SaveFits'
  BY DEF Launch, SaveFits, ResetFits, StepsTyped, Goto, Idle
<1>7. NotedOnDisk'
  BY DEF Launch, Goto, saving, capture, Loaded, Readable, Zero, NotedOnDisk, SaveFits,
       HandlerAt, StepsTyped, Readable
<1> QED
  BY <1>1, <1>2, <1>3, <1>4, <1>5, <1>6, <1>7

(* The process ends; the file stays. *)
LEMMA StopKeeps ==
    ASSUME Inv, Stop
    PROVE  Inv'
<1> USE TwoThreads, AppStateAssumption, SavedFields DEF Inv, Typed
<1>1. Typed'
  <2>1. ScalarsTyped'
    BY DEF Stop, world, capture, Zero, Threads, ScalarsTyped
  <2>2. StateTyped'
    BY DEF Stop, world, Zero, Threads, StateTyped, State, LocalsTyped, ScalarsTyped
  <2>3. FileOK(file)'
    BY DEF Stop, Zero, Threads, FileOK
  <2>4. StepsTyped'
    BY DEF Stop, Idle, Zero, Threads, StepsTyped, Steps, Calls, Notices
  <2>5. LocalsTyped'
    BY DEF Stop, Zero, Threads, LocalsTyped
  <2>6. ValuesTyped'
    BY DEF Stop, Idle, Zero, Threads, ValuesTyped, LocalsTyped, StepsTyped
  <2> QED
    BY <2>1, <2>2, <2>3, <2>4, <2>5, <2>6
<1>2. MainAt'
  BY DEF Stop, Zero, Threads, MainAt, StepsTyped
<1>3. HandlerAt'
  BY DEF Stop, Zero, Threads, HandlerAt, StepsTyped
<1>4. ResetFits'
  BY DEF Stop, Idle, Zero, Threads, ResetFits, MainAt, HandlerAt, StepsTyped
<1>5. MarksFit'
  BY DEF Stop, Idle, Zero, Threads, MarksFit, StepsTyped, LocalsTyped
<1>6. SaveFits'
  BY DEF Stop, capture, Zero, Threads, SaveFits, MainAt, HandlerAt, StepsTyped,
       LocalsTyped
<1>7. NotedOnDisk'
  BY DEF Stop, capture, Zero, Threads, NotedOnDisk, SaveFits, HandlerAt, StepsTyped,
       Readable
<1> QED
  BY <1>1, <1>2, <1>3, <1>4, <1>5, <1>6, <1>7

(* The monitor is enabled. *)
LEMMA EnableKeeps ==
    ASSUME Inv, Enable
    PROVE  Inv'
<1> USE TwoThreads, AppStateAssumption, SavedFields DEF Inv, Typed
<1>1. Typed'
  <2>1. ScalarsTyped'
    BY DEF Enable, Goto, world, capture, ScalarsTyped
  <2>2. StateTyped'
    BY DEF Enable, StateTyped, world
  <2>3. FileOK(file)'
    BY DEF Enable, Goto, saving, FileOK
  <2>4. StepsTyped'
    BY DEF Enable, Goto, StepsTyped, Steps, Calls, Notices
  <2>5. LocalsTyped'
    BY DEF Enable, Goto, saving, LocalsTyped
  <2>6. ValuesTyped'
    BY DEF Enable, Goto, saving, ValuesTyped, LocalsTyped, StepsTyped
  <2> QED
    BY <2>1, <2>2, <2>3, <2>4, <2>5, <2>6
<1>2. MainAt'
  BY DEF Enable, Call, Goto, MainAt, StepsTyped
<1>3. HandlerAt'
  BY DEF Enable, Call, Goto, HandlerAt, StepsTyped
<1>4. ResetFits'
  BY DEF Enable, At, Goto, Idle, ResetFits, MainAt, HandlerAt, StepsTyped
<1>5. MarksFit'
  <2>1. \A u \in Threads : pc'[u][1] = "write" => pc[u][1] = "write"
    BY TwoThreads DEF Enable, Goto, StepsTyped
  <2>2. state'.crashedThis => state.crashedThis
    BY DEF Enable, StateTyped, State
  <2> QED
    BY <2>1, <2>2, MarksKept DEF Enable, saving
<1>6. SaveFits'
  BY DEF Enable, At, Running, Goto, capture, SaveFits, MainAt, HandlerAt, StepsTyped,
       LocalsTyped
<1>7. NotedOnDisk'
  BY DEF Enable, Goto, saving, capture, NotedOnDisk, SaveFits, HandlerAt, StepsTyped,
       Readable
<1> QED
  BY <1>1, <1>2, <1>3, <1>4, <1>5, <1>6, <1>7

(* The reset clears the mark of this launch. *)
LEMMA ResetKeeps ==
    ASSUME Inv, Reset
    PROVE  Inv'
<1> USE TwoThreads, AppStateAssumption, SavedFields DEF Inv, Typed
<1>1. Typed'
  <2>1. ScalarsTyped'
    BY DEF Reset, Goto, world, capture, ScalarsTyped
  <2>2. StateTyped'
    <3> DEFINE since == IF state.crashedLast
                        THEN [state EXCEPT !.active = 0, !.background = 0,
                                           !.launches = 0, !.sessions = 0]
                        ELSE state
    <3>1. since \in State /\ since.transition = state.transition
      BY DEF StateTyped, State
    <3>2. since.launches + 1 \in Nat /\ since.sessions + 1 \in Nat
      BY <3>1 DEF State
    <3>3. state' = [since EXCEPT !.sessionsHere = 1, !.activeHere = 0,
                                 !.backgroundHere = 0, !.crashedThis = FALSE,
                                 !.launches = @ + 1, !.sessions = @ + 1,
                                 !.inForeground = TRUE]
      BY DEF Reset
    <3> HIDE DEF since
    <3>4. state' \in State /\ state'.transition = since.transition
      BY <3>1, <3>2, <3>3 DEF State
    <3> QED
      BY <3>1, <3>4 DEF StateTyped, Reset, world
  <2>3. FileOK(file)'
    BY DEF Reset, Goto, saving, FileOK
  <2>4. StepsTyped'
    BY DEF Reset, Goto, StepsTyped, Steps, Calls, Notices
  <2>5. LocalsTyped'
    BY DEF Reset, Goto, saving, LocalsTyped
  <2>6. ValuesTyped'
    BY DEF Reset, Goto, saving, ValuesTyped, LocalsTyped, StepsTyped
  <2> QED
    BY <2>1, <2>2, <2>3, <2>4, <2>5, <2>6
<1>2. MainAt'
  BY DEF Reset, Call, Goto, MainAt, StepsTyped
<1>3. HandlerAt'
  BY DEF Reset, Call, Goto, HandlerAt, StepsTyped
<1>4. ResetFits'
  BY DEF Reset, At, Goto, Idle, ResetFits, MainAt, HandlerAt, StepsTyped
<1>5. MarksFit'
  <2>1. \A u \in Threads : pc'[u][1] = "write" => pc[u][1] = "write"
    BY TwoThreads DEF Reset, Goto, StepsTyped
  <2>2. state'.crashedThis => state.crashedThis
    BY DEF Reset, StateTyped, State
  <2> QED
    BY <2>1, <2>2, MarksKept DEF Reset, saving
<1>6. SaveFits'
  BY DEF Reset, At, Running, Goto, capture, SaveFits, MainAt, HandlerAt, StepsTyped,
       LocalsTyped
<1>7. NotedOnDisk'
  BY DEF Reset, Goto, saving, capture, NotedOnDisk, SaveFits, HandlerAt, StepsTyped,
       Readable
<1> QED
  BY <1>1, <1>2, <1>3, <1>4, <1>5, <1>6, <1>7

(* The state is cleared. *)
LEMMA NotifyObjCLoadKeeps ==
    ASSUME Inv, NotifyObjCLoad
    PROVE  Inv'
<1> USE TwoThreads, AppStateAssumption, SavedFields DEF Inv, Typed
<1>1. Typed'
  <2>1. ScalarsTyped'
    BY DEF NotifyObjCLoad, capture, Zero, ScalarsTyped
  <2>2. StateTyped'
    <3>1. Zero \in State
      BY DEF Zero, State
    <3> QED
      <4>1. state' = [Zero EXCEPT !.isActive = TRUE, !.transition = clock] /\ clock' = clock
        BY DEF NotifyObjCLoad
      <4>2. state' \in State /\ state'.transition = clock
        BY <3>1, <4>1 DEF State, ScalarsTyped
      <4> QED
        BY <4>1, <4>2 DEF StateTyped, ScalarsTyped
  <2>3. FileOK(file)'
    BY DEF NotifyObjCLoad, saving, Zero, FileOK
  <2>4. StepsTyped'
    BY DEF NotifyObjCLoad, Idle, Zero, StepsTyped, Steps, Calls, Notices
  <2>5. LocalsTyped'
    BY DEF NotifyObjCLoad, saving, Zero, LocalsTyped
  <2>6. ValuesTyped'
    BY DEF NotifyObjCLoad, Idle, saving, Zero, ValuesTyped, LocalsTyped, StepsTyped
  <2> QED
    BY <2>1, <2>2, <2>3, <2>4, <2>5, <2>6
<1>2. MainAt'
  BY DEF NotifyObjCLoad, Zero, MainAt, StepsTyped
<1>3. HandlerAt'
  BY DEF NotifyObjCLoad, Call, Zero, HandlerAt, StepsTyped
<1>4. ResetFits'
  BY DEF NotifyObjCLoad, Idle, Zero, ResetFits, MainAt, HandlerAt, StepsTyped
<1>5. MarksFit'
  BY DEF NotifyObjCLoad, Idle, saving, Zero, MarksFit, StepsTyped, LocalsTyped
<1>6. SaveFits'
  BY DEF NotifyObjCLoad, At, Running, capture, Zero, SaveFits, MainAt, HandlerAt,
       StepsTyped, LocalsTyped
<1>7. NotedOnDisk'
  BY DEF NotifyObjCLoad, saving, capture, Zero, NotedOnDisk, SaveFits, HandlerAt,
       StepsTyped, Readable
<1> QED
  BY <1>1, <1>2, <1>3, <1>4, <1>5, <1>6, <1>7

(* A notification moves one flag. *)
LEMMA NotifyKeeps ==
    ASSUME Inv, NEW n \in Notices, Notify(n)
    PROVE  Inv'
<1> USE TwoThreads, AppStateAssumption, SavedFields DEF Inv, Typed
<1>1. Typed'
  <2>1. ScalarsTyped'
    <3>1. Moves[n][2] \in {"inactive", "active", "background"}
      BY DEF Moves, Notices
    <3> QED
      BY <3>1 DEF Notify, ScalarsTyped, capture
  <2>2. StateTyped'
    BY FlaggedTyped DEF Notify, StateTyped
  <2>3. FileOK(file)'
    BY DEF Notify, Goto, saving, Flagged, Moves, FileOK
  <2>4. StepsTyped'
    <3>1. {"move", "time"} \subseteq Steps /\ n \in Calls
      BY DEF Steps, Calls
    <3>2. UNCHANGED pc \/ \E step \in {"move", "time"} : Goto(Main, step, n)
      BY DEF Notify
    <3> QED
      BY <3>1, <3>2 DEF StepsTyped, Goto
  <2>5. LocalsTyped'
    BY DEF Notify, Goto, saving, Flagged, Moves, LocalsTyped
  <2>6. ValuesTyped'
    <3>1. \A t \in Threads : pc'[t][1] \in {"read", "write"} => pc'[t] = pc[t]
      BY DEF Notify, Goto, StepsTyped
    <3> QED
      BY <3>1 DEF ValuesTyped, Notify, saving
  <2> QED
    BY <2>1, <2>2, <2>3, <2>4, <2>5, <2>6
<1>2. MainAt'
  BY DEF Notify, Call, Goto, capture, Flagged, Moves, MainAt, StepsTyped, Notices
<1>3. HandlerAt'
  BY DEF Notify, Call, Goto, Flagged, Moves, HandlerAt, StepsTyped
<1>4. ResetFits'
  BY DEF Notify, Call, Goto, Flagged, Moves, ResetFits, MainAt, HandlerAt, StepsTyped
<1>5. MarksFit'
  <2>1. \A u \in Threads : pc'[u][1] = "write" => pc[u][1] = "write"
    BY TwoThreads DEF Notify, Goto, StepsTyped
  <2>2. state'.crashedThis => state.crashedThis
    BY FlaggedTyped DEF Notify, StateTyped, State
  <2> QED
    BY <2>1, <2>2, MarksKept DEF Notify, saving
<1>6. SaveFits'
  BY DEF Notify, At, Running, Goto, capture, Flagged, Moves, SaveFits, MainAt,
       HandlerAt, StepsTyped, LocalsTyped
<1>7. NotedOnDisk'
  BY DEF Notify, Goto, saving, capture, Flagged, Moves, NotedOnDisk, SaveFits,
       HandlerAt, StepsTyped, Readable
<1> QED
  BY <1>1, <1>2, <1>3, <1>4, <1>5, <1>6, <1>7

(* A duration is taken. *)
LEMMA TakeTimeKeeps ==
    ASSUME Inv, NEW t \in Threads, TakeTime(t)
    PROVE  Inv'
<1> USE TwoThreads, AppStateAssumption, SavedFields DEF Inv, Typed
<1>1. Typed'
  <2>1. ScalarsTyped'
    BY DEF TakeTime, Goto, world, capture, ScalarsTyped
  <2>2. StateTyped'
    BY DEF TakeTime, Goto, world, StateTyped, State, LocalsTyped, ScalarsTyped
  <2>3. FileOK(file)'
    BY DEF TakeTime, Goto, saving, FileOK
  <2>4. StepsTyped'
    BY DEF TakeTime, Call, Goto, StepsTyped, Steps, Calls, Notices
  <2>5. LocalsTyped'
    BY DEF TakeTime, Goto, saving, capture, LocalsTyped, StateTyped, State, ScalarsTyped
  <2>6. ValuesTyped'
    BY DEF TakeTime, Goto, saving, ValuesTyped, LocalsTyped, StepsTyped
  <2> QED
    BY <2>1, <2>2, <2>3, <2>4, <2>5, <2>6
<1>2. MainAt'
  BY DEF TakeTime, At, Call, Goto, Idle, MainAt, StepsTyped
<1>3. HandlerAt'
  BY DEF TakeTime, At, Call, Goto, Idle, HandlerAt, StepsTyped
<1>4. ResetFits'
  BY DEF TakeTime, At, Goto, Idle, ResetFits, MainAt, HandlerAt, StepsTyped
<1>5. MarksFit'
  BY DEF TakeTime, Goto, saving, MarksFit, StepsTyped, LocalsTyped
<1>6. SaveFits'
  BY DEF TakeTime, Goto, Idle, saving, capture, SaveFits, MainAt, HandlerAt,
       StepsTyped, LocalsTyped
<1>7. NotedOnDisk'
  BY DEF TakeTime, Goto, saving, capture, NotedOnDisk, SaveFits, HandlerAt, StepsTyped,
       Readable
<1> QED
  BY <1>1, <1>2, <1>3, <1>4, <1>5, <1>6, <1>7

(* The transition is moved to now. *)
LEMMA MoveTransitionKeeps ==
    ASSUME Inv, NEW t \in Threads, MoveTransition(t)
    PROVE  Inv'
<1> USE TwoThreads, AppStateAssumption, SavedFields DEF Inv, Typed
<1>1. Typed'
  <2>1. ScalarsTyped'
    BY DEF MoveTransition, world, capture, ScalarsTyped
  <2>2. StateTyped'
    BY DEF MoveTransition, world, StateTyped, State, LocalsTyped, ScalarsTyped
  <2>3. FileOK(file)'
    BY DEF MoveTransition, saving, FileOK
  <2>4. StepsTyped'
    BY DEF MoveTransition, Call, Idle, StepsTyped, Steps, Calls, Notices
  <2>5. LocalsTyped'
    BY DEF MoveTransition, saving, LocalsTyped
  <2>6. ValuesTyped'
    BY DEF MoveTransition, Idle, saving, ValuesTyped, LocalsTyped, StepsTyped
  <2> QED
    BY <2>1, <2>2, <2>3, <2>4, <2>5, <2>6
<1>2. MainAt'
  BY DEF MoveTransition, At, Call, Idle, MainAt, StepsTyped
<1>3. HandlerAt'
  BY DEF MoveTransition, At, Call, Idle, HandlerAt, StepsTyped
<1>4. ResetFits'
  BY DEF MoveTransition, At, Idle, ResetFits, MainAt, HandlerAt, StepsTyped
<1>5. MarksFit'
  <2>1. \A u \in Threads : pc'[u][1] = "write" => pc[u][1] = "write"
    BY TwoThreads DEF MoveTransition, Goto, Idle, StepsTyped
  <2>2. state'.crashedThis => state.crashedThis
    BY DEF MoveTransition, StateTyped, State
  <2> QED
    BY <2>1, <2>2, MarksKept DEF MoveTransition, saving
<1>6. SaveFits'
  BY DEF MoveTransition, Call, saving, capture, SaveFits, MainAt, HandlerAt,
       StepsTyped, LocalsTyped
<1>7. NotedOnDisk'
  BY DEF MoveTransition, saving, capture, NotedOnDisk, SaveFits, HandlerAt, StepsTyped,
       Readable
<1> QED
  BY <1>1, <1>2, <1>3, <1>4, <1>5, <1>6, <1>7

(* The duration is added. *)
LEMMA AddDurationKeeps ==
    ASSUME Inv, NEW t \in Threads, AddDuration(t)
    PROVE  Inv'
<1> USE TwoThreads, AppStateAssumption, SavedFields DEF Inv, Typed
<1>1. Typed'
  <2>1. ScalarsTyped'
    BY DEF AddDuration, world, capture, Lengthened, ScalarsTyped
  <2>2. StateTyped'
    BY LengthenedTyped DEF AddDuration, StateTyped, world
  <2>3. FileOK(file)'
    BY DEF AddDuration, saving, Lengthened, FileOK
  <2>4. StepsTyped'
    BY AddCalls DEF AddDuration, At, Idle, StepsTyped, Steps, Calls, Notices
  <2>5. LocalsTyped'
    BY DEF AddDuration, saving, Lengthened, LocalsTyped
  <2>6. ValuesTyped'
    <3>1. \A u \in Threads : pc'[u][1] \in {"read", "write"} => pc'[u] = pc[u]
      BY AddCalls DEF AddDuration, At, Idle, StepsTyped
    <3> QED
      BY <3>1 DEF ValuesTyped, AddDuration, saving
  <2> QED
    BY <2>1, <2>2, <2>3, <2>4, <2>5, <2>6
<1>2. MainAt'
  BY DEF AddDuration, At, Call, Idle, Lengthened, MainAt, StepsTyped
<1>3. HandlerAt'
  BY DEF AddDuration, At, Call, Idle, Lengthened, HandlerAt, StepsTyped
<1>4. ResetFits'
  BY DEF AddDuration, At, Idle, Lengthened, ResetFits, MainAt, HandlerAt, StepsTyped
<1>5. MarksFit'
  <2>1. \A u \in Threads : pc'[u][1] = "write" => pc[u][1] = "write"
    BY AddCalls, TwoThreads DEF AddDuration, At, Goto, Idle, StepsTyped
  <2>2. state'.crashedThis => state.crashedThis
    BY LengthenedTyped DEF AddDuration, StateTyped, State
  <2> QED
    BY <2>1, <2>2, MarksKept DEF AddDuration, saving
<1>6. SaveFits'
  BY DEF AddDuration, At, Idle, saving, capture, Lengthened, SaveFits, MainAt,
       HandlerAt, StepsTyped, LocalsTyped
<1>7. NotedOnDisk'
  BY DEF AddDuration, At, Idle, saving, capture, Lengthened, NotedOnDisk, SaveFits,
       HandlerAt, StepsTyped, Readable
<1> QED
  BY <1>1, <1>2, <1>3, <1>4, <1>5, <1>6, <1>7

(* The file is truncated, under another thread's save or not. *)
LEMMA OpenStateKeeps ==
    ASSUME Inv, NEW t \in Threads, OpenState(t)
    PROVE  Inv'
<1> USE TwoThreads, AppStateAssumption, SavedFields DEF Inv, Typed
<1>1. Typed'
  <2>1. ScalarsTyped'
    BY DEF OpenState, ScalarsTyped, world, capture, StateTyped, State
  <2>2. StateTyped'
    BY DEF OpenState, Goto, world, StateTyped, State, LocalsTyped, ScalarsTyped
  <2>3. FileOK(file)'
    BY DEF OpenState, Goto, FileOK
  <2>4. StepsTyped'
    BY DEF OpenState, Call, Goto, StepsTyped, Steps, Calls, Notices
  <2>5. LocalsTyped'
    BY DEF OpenState, Goto, LocalsTyped
  <2>6. ValuesTyped'
    BY DEF OpenState, Goto, ValuesTyped, LocalsTyped, StepsTyped
  <2> QED
    BY <2>1, <2>2, <2>3, <2>4, <2>5, <2>6
<1>2. MainAt'
  BY DEF OpenState, At, Call, Goto, Idle, MainAt, StepsTyped
<1>3. HandlerAt'
  BY DEF OpenState, At, Call, Goto, Idle, HandlerAt, StepsTyped
<1>4. ResetFits'
  BY DEF OpenState, At, Goto, Idle, ResetFits, MainAt, HandlerAt, StepsTyped
<1>5. MarksFit'
  <2>1. /\ file' = <<>> /\ Len(file') = 0 /\ state' = state /\ value' = value /\ noted' = noted
        /\ noted => unnoticed'
    BY DEF OpenState, MarksFit
  <2>2. ASSUME ~noted, NEW u \in Threads, pc'[u][1] = "write", position'[u] = 1
        PROVE  value'[u] = FALSE
    <3>1. u # t /\ pc[u][1] = "write" /\ position[u] = 1
      BY <2>2 DEF OpenState, Goto, StepsTyped, LocalsTyped
    <3> QED
      BY <2>1, <2>2, <3>1 DEF MarksFit
  <2>3. ~noted => ~state'.crashedThis
    BY <2>1 DEF MarksFit
  <2>4. ~(Len(file') > 0)
    BY <2>1
  <2> QED
    BY <2>1, <2>2, <2>3, <2>4 DEF MarksFit
<1>6. SaveFits'
  <2> SUFFICES ASSUME frozen', Call(Handler)' = "crash" PROVE SaveFits'
    BY DEF SaveFits
  <2>1. t = Handler /\ frozen /\ Call(Handler) = "crash"
    BY DEF OpenState, At, Running, Call, Goto, capture, StepsTyped
  <2>2. state.crashedThis
    BY <2>1 DEF SaveFits, OpenState, At
  <2>3. pc' = [pc EXCEPT ![Handler] = <<"read", "crash">>] /\ position' = [position EXCEPT ![Handler] = 1]
    BY <2>1 DEF OpenState, Goto
  <2>4. file' = <<>> /\ Len(file') = 0 /\ state' = state
    BY DEF OpenState
  <2>5. ~stale'[Handler]
    BY <2>1 DEF OpenState
  <2>6. pc'[Handler][1] = "read" /\ position'[Handler] = 1
    BY <2>3 DEF StepsTyped, LocalsTyped
  <2> QED
    BY <2>2, <2>4, <2>5, <2>6 DEF SaveFits
<1>7. NotedOnDisk'
  BY DEF OpenState, At, Running, Goto, capture, NotedOnDisk, SaveFits, HandlerAt,
       StepsTyped, Readable
<1> QED
  BY <1>1, <1>2, <1>3, <1>4, <1>5, <1>6, <1>7

(* The next element is read from the state. *)
LEMMA ReadElementKeeps ==
    ASSUME Inv, NEW t \in Threads, ReadElement(t)
    PROVE  Inv'
<1> USE TwoThreads, AppStateAssumption, SavedFields DEF Inv, Typed
<1>1. Typed'
  <2>1. ScalarsTyped'
    BY DEF ReadElement, Goto, world, capture, ScalarsTyped
  <2>2. StateTyped'
    BY DEF ReadElement, Goto, world, StateTyped, State, LocalsTyped, ScalarsTyped
  <2>3. FileOK(file)'
    BY DEF ReadElement, Goto, FileOK
  <2>4. StepsTyped'
    BY DEF ReadElement, Call, Goto, StepsTyped, Steps, Calls, Notices
  <2>5. LocalsTyped'
    BY DEF ReadElement, Goto, LocalsTyped
  <2>6. ValuesTyped'
    <3>1. position[t] \in 1..5
      BY DEF ReadElement, At, ValuesTyped, LocalsTyped
    <3>2. IF position[t] = 1 THEN state[Keys[position[t]]] \in BOOLEAN
          ELSE state[Keys[position[t]]] \in Nat
      BY <3>1 DEF StateTyped
    <3>3. position' = position
      BY DEF ReadElement
    <3>4. \A u \in Threads : u # t => pc'[u] = pc[u] /\ value'[u] = value[u]
      BY DEF ReadElement, Goto
    <3>5. value'[t] = state[Keys[position[t]]] /\ DOMAIN value' = Threads
      BY DEF ReadElement, ValuesTyped
    <3> QED
      BY <3>1, <3>2, <3>3, <3>4, <3>5 DEF ValuesTyped
  <2> QED
    BY <2>1, <2>2, <2>3, <2>4, <2>5, <2>6
<1>2. MainAt'
  BY DEF ReadElement, At, Call, Goto, Idle, MainAt, StepsTyped
<1>3. HandlerAt'
  BY DEF ReadElement, At, Call, Goto, Idle, HandlerAt, StepsTyped
<1>4. ResetFits'
  BY DEF ReadElement, At, Goto, Idle, ResetFits, MainAt, HandlerAt, StepsTyped
<1>5. MarksFit'
  <2>1. UNCHANGED <<noted, unnoticed, file, state, position>>
    BY DEF ReadElement
  <2>2. ASSUME ~noted, NEW u \in Threads, pc'[u][1] = "write", position'[u] = 1
        PROVE  value'[u] = FALSE
    <3>1. ~state.crashedThis
      BY <2>2 DEF MarksFit
    <3>2. CASE u = t
      BY <2>1, <2>2, <3>1, <3>2 DEF ReadElement, ValuesTyped, StateTyped
    <3>3. CASE u # t
      BY <2>2, <3>3 DEF ReadElement, Goto, MarksFit
    <3> QED
      BY <3>2, <3>3
  <2> QED
    BY <2>1, <2>2 DEF MarksFit
<1>6. SaveFits'
  <2> SUFFICES ASSUME frozen', Call(Handler)' = "crash" PROVE SaveFits'
    BY DEF SaveFits
  <2>1. t = Handler /\ frozen /\ Call(Handler) = "crash" /\ pc[Handler][1] = "read"
    BY DEF ReadElement, At, Running, Call, Goto, capture, StepsTyped
  <2>2. pc'[Handler][1] = "write" /\ UNCHANGED <<state, file, position, stale>>
    BY <2>1 DEF ReadElement, Goto, StepsTyped
  <2>3. /\ state.crashedThis
        /\ Len(file) = position[Handler] - 1
        /\ \A k \in 1..Len(file) : file[k] # Gap
        /\ Len(file) > 0 => file[1] = TRUE
        /\ ~stale[Handler]
    BY <2>1 DEF SaveFits
  <2>4. position[Handler] = 1 => value'[Handler] = TRUE
    BY <2>1, <2>3 DEF ReadElement, ValuesTyped, StateTyped, State
  <2> QED
    BY <2>2, <2>3, <2>4 DEF SaveFits
<1>7. NotedOnDisk'
  BY DEF ReadElement, Goto, capture, NotedOnDisk, SaveFits, HandlerAt, StepsTyped,
       Readable
<1> QED
  BY <1>1, <1>2, <1>3, <1>4, <1>5, <1>6, <1>7

(* It is written, where the thread's offset is. *)
LEMMA WriteElementKeeps ==
    ASSUME Inv, NEW t \in Threads, WriteElement(t)
    PROVE  Inv'
<1> USE TwoThreads, AppStateAssumption, SavedFields DEF Inv, Typed
<1>a. /\ pc[t][1] = "write" /\ position[t] \in 1..5 /\ DOMAIN value = Threads
      /\ IF position[t] = 1 THEN value[t] \in BOOLEAN ELSE value[t] \in Nat
  BY DEF WriteElement, At, ValuesTyped, LocalsTyped
<1>b. PICK v \in {value[t]} \cup (IF stale[t] THEN {Gap} ELSE {}) : file' = Written(position[t], v)
  BY DEF WriteElement
<1>c. /\ FileOK(file')
      /\ Len(file') = IF position[t] > Len(file) THEN position[t] ELSE Len(file)
      /\ \A j \in 1..Len(file') :
            file'[j] = IF j = position[t] THEN v ELSE IF j <= Len(file) THEN file[j] ELSE Gap
  <2>1. ElementOK(position[t], v)
    BY <1>a, <1>b DEF ElementOK
  <2> QED
    BY <1>a, <1>b, <2>1, WrittenNow
<1>d. /\ \A u \in Threads : u # t => pc'[u] = pc[u] /\ position'[u] = position[u] /\ value'[u] = value[u]
      /\ pc'[t][1] \in {"read", "clear", "after", "idle"}
  BY <1>a DEF WriteElement, Idle, StepsTyped, LocalsTyped
<1>e. ASSUME frozen', Call(Handler)' = "crash"
      PROVE  /\ t = Handler /\ frozen /\ Call(Handler) = "crash" /\ ~stale[Handler]
             /\ v = value[Handler] /\ Len(file') = position[Handler] /\ Len(file) = position[Handler] - 1
             /\ \A k \in 1..Len(file') : file'[k] # Gap
             /\ file'[1] = TRUE
             /\ state.crashedThis
  <2>1. t = Handler /\ frozen
    BY <1>e DEF WriteElement, At, Running, capture
  <2>2. Call(Handler) = "crash"
    BY <1>a, <2>1 DEF HandlerAt, Idle
  <2>3. /\ ~stale[Handler] /\ Len(file) = position[Handler] - 1
        /\ \A k \in 1..Len(file) : file[k] # Gap
        /\ Len(file) > 0 => file[1] = TRUE
        /\ position[Handler] = 1 => value[Handler] = TRUE
        /\ state.crashedThis
    BY <1>a, <2>1, <2>2 DEF SaveFits
  <2>4. v = value[Handler]
    BY <2>1, <2>3
  <2>5. Len(file') = position[Handler]
    BY <1>a, <1>c, <2>1, <2>3
  <2>6. value[Handler] # Gap
    BY <1>a, <2>1
  <2>7. \A k \in 1..Len(file') : file'[k] # Gap
    <3> SUFFICES ASSUME NEW k \in 1..Len(file') PROVE file'[k] # Gap
      OBVIOUS
    <3>1. CASE k = position[t]
      BY <1>c, <2>1, <2>4, <2>6, <3>1
    <3>2. CASE k # position[t]
      BY <1>a, <1>c, <2>1, <2>3, <2>5, <3>2
    <3> QED
      BY <3>1, <3>2
  <2>8. file'[1] = TRUE
    BY <1>a, <1>c, <2>1, <2>3, <2>4, <2>5
  <2> QED
    BY <2>1, <2>2, <2>3, <2>4, <2>5, <2>7, <2>8
<1>1. Typed'
  <2>1. ScalarsTyped'
    BY DEF WriteElement, world, capture, ScalarsTyped
  <2>2. StateTyped'
    BY DEF WriteElement, world, StateTyped, State, LocalsTyped, ScalarsTyped
  <2>3. FileOK(file)'
    BY <1>c DEF FileOK
  <2>4. StepsTyped'
    BY DEF WriteElement, Call, Idle, StepsTyped, Steps, Calls, Notices
  <2>5. LocalsTyped'
    BY DEF WriteElement, LocalsTyped
  <2>6. ValuesTyped'
    BY DEF WriteElement, Idle, ValuesTyped, LocalsTyped, StepsTyped
  <2> QED
    BY <2>1, <2>2, <2>3, <2>4, <2>5, <2>6
<1>2. MainAt'
  BY DEF WriteElement, At, Call, Idle, MainAt, StepsTyped
<1>3. HandlerAt'
  BY DEF WriteElement, At, Call, Idle, HandlerAt, StepsTyped
<1>4. ResetFits'
  BY DEF WriteElement, At, Idle, ResetFits, MainAt, HandlerAt, StepsTyped
<1>5. MarksFit'
  <2>a. UNCHANGED <<noted, unnoticed, state>>
    BY DEF WriteElement
  <2>b. FileOK(file)
    OBVIOUS
  <2>c. Len(file) \in 0..5
    BY <2>b, FileLength
  <2>d. ~unnoticed /\ 1 <= Len(file) => file[1] # TRUE
    <3>1. ~unnoticed /\ Len(file) > 0 => file[1] # TRUE
      BY DEF MarksFit
    <3>2. 1 <= Len(file) => Len(file) > 0
      BY <2>c
    <3> QED
      BY <3>1, <3>2, Zenon
  <2>1. (noted => unnoticed) /\ (~noted => ~state.crashedThis)
    BY DEF MarksFit
  <2>2. ~noted /\ position[t] = 1 => v # TRUE
    <3>1. ~noted /\ position[t] = 1 => value[t] = FALSE
      BY <1>a DEF MarksFit
    <3> QED
      BY <3>1
  <2>3. ~unnoticed /\ Len(file') > 0 => file'[1] # TRUE
    <3> SUFFICES ASSUME ~unnoticed, Len(file') > 0 PROVE file'[1] # TRUE
      OBVIOUS
    <3>1. 1 \in 1..Len(file') /\ Len(file) \in 0..5
      BY <1>c, <2>c, FileLength
    <3>2. CASE position[t] = 1
      BY <1>c, <2>1, <2>2, <3>1, <3>2
    <3>3. CASE position[t] # 1
      <4>1. file'[1] = IF 1 <= Len(file) THEN file[1] ELSE Gap
        BY <1>c, <3>1, <3>3
      <4>2. Gap # TRUE
        OBVIOUS
      <4>3. 1 <= Len(file) => file[1] # TRUE
        BY <2>d
      <4> QED
        BY <4>1, <4>2, <4>3
    <3> QED
      BY <3>2, <3>3
  <2>4. ASSUME ~noted, NEW u \in Threads, pc'[u][1] = "write", position'[u] = 1 PROVE value'[u] = FALSE
    <3>1. u # t
      BY <1>d, <2>4
    <3> QED
      BY <1>d, <2>4, <3>1 DEF WriteElement, MarksFit
  <2> QED
    BY <2>a, <2>1, <2>3, <2>4 DEF MarksFit
<1>6. SaveFits'
  <2> SUFFICES ASSUME frozen', Call(Handler)' = "crash" PROVE SaveFits'
    BY DEF SaveFits
  <2>1. pc'[Handler][1] \in {"read", "after", "clear", "idle"}
    BY <1>d, <1>e
  <2>2. pc'[Handler][1] = "read" => position'[Handler] = position[Handler] + 1
    BY <1>a, <1>e DEF WriteElement, LocalsTyped, StepsTyped
  <2>3. ~stale'[Handler] /\ state' = state
    BY <1>e DEF WriteElement, LocalsTyped
  <2>4. /\ Len(file') = position[Handler] /\ position[Handler] \in 1..5
        /\ \A k \in 1..Len(file') : file'[k] # Gap
        /\ file'[1] = TRUE
        /\ state.crashedThis
    BY <1>a, <1>e
  <2> QED
    BY <2>1, <2>2, <2>3, <2>4 DEF SaveFits
<1>7. NotedOnDisk'
  <2> SUFFICES ASSUME frozen', pc'[Handler] = <<"after", "crash">> PROVE NotedOnDisk'
    BY DEF NotedOnDisk
  <2>1. Call(Handler)' = "crash"
    BY DEF Call
  <2>2. position[Handler] = 5
    BY <1>a, <1>e, <2>1 DEF WriteElement, StepsTyped
  <2>3. Len(file') = 5 /\ (\A k \in 1..5 : file'[k] # Gap) /\ file'[1] = TRUE
    BY <1>e, <2>1, <2>2
  <2>4. Readable' = 1..5
    BY <2>3 DEF Readable
  <2> QED
    BY <2>3, <2>4 DEF NotedOnDisk
<1> QED
  BY <1>1, <1>2, <1>3, <1>4, <1>5, <1>6, <1>7

(* An event comes. *)
LEMMA BeginEventKeeps ==
    ASSUME Inv, BeginEvent
    PROVE  Inv'
<1> USE TwoThreads, AppStateAssumption, SavedFields DEF Inv, Typed
<1>1. Typed'
  <2>1. ScalarsTyped'
    BY DEF BeginEvent, Goto, world, capture, Suspends, ScalarsTyped
  <2>2. StateTyped'
    BY DEF BeginEvent, Goto, world, Suspends, StateTyped, State, LocalsTyped, ScalarsTyped
  <2>3. FileOK(file)'
    BY DEF BeginEvent, Goto, saving, Suspends, FileOK
  <2>4. StepsTyped'
    BY DEF BeginEvent, Goto, Suspends, StepsTyped, Steps, Calls, Notices
  <2>5. LocalsTyped'
    BY DEF BeginEvent, Goto, saving, Suspends, LocalsTyped
  <2>6. ValuesTyped'
    BY DEF BeginEvent, Goto, saving, Suspends, ValuesTyped, LocalsTyped, StepsTyped
  <2> QED
    BY <2>1, <2>2, <2>3, <2>4, <2>5, <2>6
<1>2. MainAt'
  BY DEF BeginEvent, Call, Goto, Suspends, MainAt, StepsTyped
<1>3. HandlerAt'
  BY DEF BeginEvent, Call, Goto, Suspends, HandlerAt, StepsTyped
<1>4. ResetFits'
  BY DEF BeginEvent, At, Running, Goto, Suspends, ResetFits, MainAt, HandlerAt, StepsTyped
<1>5. MarksFit'
  BY DEF BeginEvent, Goto, saving, Suspends, MarksFit, StepsTyped, LocalsTyped
<1>6. SaveFits'
  BY DEF BeginEvent, Goto, capture, Suspends, SaveFits, MainAt, HandlerAt, StepsTyped,
       LocalsTyped
<1>7. NotedOnDisk'
  BY DEF BeginEvent, Goto, capture, Suspends, NotedOnDisk, SaveFits, HandlerAt,
       StepsTyped, Readable
<1> QED
  BY <1>1, <1>2, <1>3, <1>4, <1>5, <1>6, <1>7

(* onCrash notes it, if the monitor is enabled. *)
LEMMA NoteEventKeeps ==
    ASSUME Inv, NoteEvent
    PROVE  Inv'
<1> USE TwoThreads, AppStateAssumption, SavedFields DEF Inv, Typed
<1>1. Typed'
  <2>1. ScalarsTyped'
    BY DEF NoteEvent, Goto, world, capture, ScalarsTyped
  <2>2. StateTyped'
    BY DEF NoteEvent, Goto, world, StateTyped, State, LocalsTyped, ScalarsTyped
  <2>3. FileOK(file)'
    BY DEF NoteEvent, Goto, saving, FileOK
  <2>4. StepsTyped'
    BY DEF NoteEvent, Goto, StepsTyped, Steps, Calls, Notices
  <2>5. LocalsTyped'
    BY DEF NoteEvent, Goto, saving, LocalsTyped
  <2>6. ValuesTyped'
    BY DEF NoteEvent, Goto, saving, ValuesTyped, LocalsTyped, StepsTyped
  <2> QED
    BY <2>1, <2>2, <2>3, <2>4, <2>5, <2>6
<1>2. MainAt'
  BY DEF NoteEvent, Call, Goto, MainAt, StepsTyped
<1>3. HandlerAt'
  BY DEF NoteEvent, Call, Goto, HandlerAt, StepsTyped
<1>4. ResetFits'
  BY DEF NoteEvent, At, Call, Goto, Idle, ResetFits, MainAt, HandlerAt, StepsTyped
<1>5. MarksFit'
  <2>1. \A u \in Threads : pc'[u][1] = "write" => pc[u][1] = "write"
    BY TwoThreads DEF NoteEvent, Goto, StepsTyped
  <2>2. state'.crashedThis => state.crashedThis
    BY DEF NoteEvent, StateTyped, State
  <2> QED
    BY <2>1, <2>2, MarksKept DEF NoteEvent, saving
<1>6. SaveFits'
  BY DEF NoteEvent, Goto, capture, SaveFits, MainAt, HandlerAt, StepsTyped, LocalsTyped
<1>7. NotedOnDisk'
  BY DEF NoteEvent, Goto, capture, NotedOnDisk, SaveFits, HandlerAt, StepsTyped, Readable
<1> QED
  BY <1>1, <1>2, <1>3, <1>4, <1>5, <1>6, <1>7

(* The mark is set. *)
LEMMA MarkCrashKeeps ==
    ASSUME Inv, NEW t \in Threads, MarkCrash(t)
    PROVE  Inv'
<1> USE TwoThreads, AppStateAssumption, SavedFields DEF Inv, Typed
<1>1. Typed'
  <2>1. ScalarsTyped'
    BY DEF MarkCrash, Goto, world, capture, ScalarsTyped
  <2>2. StateTyped'
    BY DEF MarkCrash, Goto, world, StateTyped, State, LocalsTyped, ScalarsTyped
  <2>3. FileOK(file)'
    BY DEF MarkCrash, Goto, saving, FileOK
  <2>4. StepsTyped'
    BY DEF MarkCrash, Goto, StepsTyped, Steps, Calls, Notices
  <2>5. LocalsTyped'
    BY DEF MarkCrash, Goto, saving, LocalsTyped
  <2>6. ValuesTyped'
    BY DEF MarkCrash, Goto, saving, ValuesTyped, LocalsTyped, StepsTyped
  <2> QED
    BY <2>1, <2>2, <2>3, <2>4, <2>5, <2>6
<1>2. MainAt'
  BY DEF MarkCrash, At, Call, Goto, Idle, MainAt, StepsTyped
<1>3. HandlerAt'
  BY DEF MarkCrash, Call, Goto, HandlerAt, StepsTyped
<1>4. ResetFits'
  BY DEF MarkCrash, At, Goto, Idle, ResetFits, MainAt, HandlerAt, StepsTyped
<1>5. MarksFit'
  BY DEF MarkCrash, Goto, MarksFit, StepsTyped, LocalsTyped
<1>6. SaveFits'
  BY DEF MarkCrash, Goto, Idle, saving, capture, SaveFits, MainAt, HandlerAt,
       StepsTyped, LocalsTyped
<1>7. NotedOnDisk'
  BY DEF MarkCrash, Goto, saving, capture, NotedOnDisk, SaveFits, HandlerAt,
       StepsTyped, Readable
<1> QED
  BY <1>1, <1>2, <1>3, <1>4, <1>5, <1>6, <1>7

(* The monitors are disabled and the main thread goes on. *)
LEMMA AfterEventKeeps ==
    ASSUME Inv, AfterEvent
    PROVE  Inv'
<1> USE TwoThreads, AppStateAssumption, SavedFields DEF Inv, Typed
<1>1. Typed'
  <2>1. ScalarsTyped'
    BY DEF AfterEvent, Goto, world, capture, ScalarsTyped
  <2>2. StateTyped'
    BY DEF AfterEvent, Goto, world, StateTyped, State, LocalsTyped, ScalarsTyped
  <2>3. FileOK(file)'
    BY DEF AfterEvent, Goto, saving, FileOK
  <2>4. StepsTyped'
    BY DEF AfterEvent, Call, Goto, Idle, StepsTyped, Steps, Calls, Notices
  <2>5. LocalsTyped'
    BY DEF AfterEvent, Goto, saving, LocalsTyped
  <2>6. ValuesTyped'
    BY DEF AfterEvent, Goto, Idle, saving, ValuesTyped, LocalsTyped, StepsTyped
  <2> QED
    BY <2>1, <2>2, <2>3, <2>4, <2>5, <2>6
<1>2. MainAt'
  BY DEF AfterEvent, Call, Goto, MainAt, StepsTyped
<1>3. HandlerAt'
  BY DEF AfterEvent, At, Call, Goto, Idle, HandlerAt, StepsTyped
<1>4. ResetFits'
  <2>1. up' /\ pc'[Main] = pc[Main] /\ pc[Handler][1] = "after"
    BY DEF AfterEvent, At, Running, Goto, StepsTyped
  <2>2. pc'[Handler] \in {<<"die", Call(Handler)>>, Idle}
    BY DEF AfterEvent, Goto, StepsTyped
  <2>3. pc[Main][1] = "enable" => ~enabled' /\ Call(Handler) \in {"none", "skipped"}
    <3>1. pc[Handler] # <<"note", "context">>
      BY <2>1
    <3> QED
      BY <3>1 DEF ResetFits, AfterEvent, ScalarsTyped
  <2>4. Call(Handler)' \in {Call(Handler), "none"} /\ pc'[Handler][1] \in {"die", "idle"}
    BY <2>2 DEF Call, Idle
  <2> QED
    BY <2>1, <2>3, <2>4 DEF ResetFits
<1>5. MarksFit'
  <2>1. \A u \in Threads : pc'[u][1] = "write" => pc[u][1] = "write"
    BY TwoThreads DEF AfterEvent, Goto, Idle, StepsTyped
  <2>2. state'.crashedThis => state.crashedThis
    BY DEF AfterEvent, StateTyped, State
  <2> QED
    BY <2>1, <2>2, MarksKept DEF AfterEvent, saving
<1>6. SaveFits'
  BY DEF AfterEvent, Goto, capture, SaveFits, MainAt, HandlerAt, StepsTyped, LocalsTyped
<1>7. NotedOnDisk'
  BY DEF AfterEvent, Goto, capture, NotedOnDisk, SaveFits, HandlerAt, StepsTyped, Readable
<1> QED
  BY <1>1, <1>2, <1>3, <1>4, <1>5, <1>6, <1>7

-----------------------------------------------------------------------------
(* Together.                                                                 *)
LEMMA InitEstablishes == Init => Inv
<1> SUFFICES ASSUME Init PROVE Inv
  OBVIOUS
<1> USE TwoThreads, AppStateAssumption DEF Init, Idle
<1>1. file = <<>> /\ Len(file) = 0
  OBVIOUS
<1>2. LocalsTyped
  BY DEF LocalsTyped
<1>9. ScalarsTyped
  <2>1. cleared \in 0..clock
    OBVIOUS
  <2>2. /\ up \in BOOLEAN /\ enabled \in BOOLEAN /\ frozen \in BOOLEAN
        /\ noted \in BOOLEAN /\ unnoticed \in BOOLEAN
    OBVIOUS
  <2>3. clock \in Nat /\ launched \in Nat /\ inBackground \in Nat
    OBVIOUS
  <2> QED
    BY <2>1, <2>2, <2>3 DEF ScalarsTyped
<1>3. StateTyped
  BY DEF StateTyped, State, Zero
<1>4. FileOK(file)
  BY <1>1 DEF FileOK
<1>5. StepsTyped /\ ValuesTyped
  BY DEF StepsTyped, ValuesTyped, Steps, Calls
<1>6. MainAt /\ HandlerAt /\ ResetFits
  BY DEF MainAt, HandlerAt, ResetFits
<1>7. MarksFit
  BY <1>1 DEF MarksFit, Zero
<1>8. SaveFits /\ NotedOnDisk
  BY DEF SaveFits, NotedOnDisk
<1> QED
  BY <1>2, <1>3, <1>4, <1>5, <1>6, <1>7, <1>8, <1>9 DEF Inv, Typed

(* Nothing happens.                                                          *)
LEMMA StutterKeeps == Inv /\ UNCHANGED vars => Inv'
<1> SUFFICES ASSUME Inv, UNCHANGED vars PROVE Inv'
  OBVIOUS
<1> USE DEF vars, world, saving, capture
<1>1. Typed'
  BY DEF Inv, Typed, ScalarsTyped, StateTyped, FileOK, StepsTyped, LocalsTyped,
       ValuesTyped
<1>2. MainAt' /\ HandlerAt' /\ ResetFits'
  BY DEF Inv, MainAt, HandlerAt, ResetFits, Call
<1>3. MarksFit' /\ SaveFits' /\ NotedOnDisk'
  BY DEF Inv, MarksFit, SaveFits, NotedOnDisk, Readable, Call
<1> QED
  BY <1>1, <1>2, <1>3 DEF Inv

(* Any step.                                                                 *)
LEMMA NextKeeps == Inv /\ [Next]_vars => Inv'
<1> SUFFICES ASSUME Inv, [Next]_vars PROVE Inv'
  OBVIOUS
<1>1. CASE Tick
  BY <1>1, TickKeeps
<1>2. CASE Launch
  BY <1>2, LaunchKeeps
<1>3. CASE Kill
  BY <1>3, StopKeeps DEF Kill
<1>4. CASE Enable
  BY <1>4, EnableKeeps
<1>13. CASE Reset
  BY <1>13, ResetKeeps
<1>5. CASE NotifyObjCLoad
  BY <1>5, NotifyObjCLoadKeeps
<1>6. CASE BeginEvent
  BY <1>6, BeginEventKeeps
<1>7. CASE NoteEvent
  BY <1>7, NoteEventKeeps
<1>8. CASE AfterEvent
  BY <1>8, AfterEventKeeps
<1>9. CASE Die
  BY <1>9, StopKeeps DEF Die
<1>10. CASE \E n \in Notices : Notify(n)
  BY <1>10, NotifyKeeps
<1>11. ASSUME NEW t \in Threads,
              \/ TakeTime(t) \/ MoveTransition(t) \/ AddDuration(t)
              \/ OpenState(t) \/ ReadElement(t) \/ WriteElement(t) \/ MarkCrash(t)
       PROVE  Inv'
  BY <1>11, TakeTimeKeeps, MoveTransitionKeeps, AddDurationKeeps, OpenStateKeeps,
     ReadElementKeeps, WriteElementKeeps, MarkCrashKeeps
<1>12. CASE UNCHANGED vars
  BY <1>12, StutterKeeps
<1> QED
  BY <1>1, <1>2, <1>3, <1>4, <1>5, <1>6, <1>7, <1>8, <1>9, <1>10, <1>11, <1>12, <1>13
  DEF Next

(* Hence always.                                                             *)
LEMMA InvAlways == Spec => []Inv
<1>1. Init => Inv
  BY InitEstablishes
<1>2. Inv /\ [Next]_vars => Inv'
  BY NextKeeps
<1> QED
  BY <1>1, <1>2, PTL DEF Spec

(* Everything the other theorems follow from: the types, where each thread   *)
(* is, and which marks in memory, in the file or on their way there stand    *)
(* for an event.                                                             *)
THEOREM StateInvariant == Spec => []StateInv
<1>1. Inv => StateInv
  BY TypedIsTypeOK DEF Inv, StateInv
<1> QED
  BY <1>1, InvAlways, PTL

(* The state and the file keep their types, whatever is cut off, overwritten *)
(* or left behind in the file.                                               *)
THEOREM TypeCorrect == Spec => []TypeOK
<1>1. StateInv => TypeOK
  BY DEF StateInv
<1> QED
  BY <1>1, StateInvariant, PTL

(* While the main thread stands still, an event the handler has noted is in  *)
(* a complete file (crasheecrashstate_notifyAppCrash, saveState).            *)
THEOREM NotedEventsOnDisk == Spec => []NotedOnDisk
<1>1. StateInv => NotedOnDisk
  BY DEF StateInv
<1> QED
  BY <1>1, StateInvariant, PTL

(* A launch is told of a crash (crasheecrashstate_initialize, loadState)     *)
(* only if an event was noted in a launch after which no other has begun to  *)
(* reset the file.                                                           *)
THEOREM NoFalseAlarms == Spec => NoFalseAlarm
<1>1. ASSUME Inv, [Next]_vars, ~up, up', state'.crashedLast
      PROVE  unnoticed
  <2>1. Launch
    BY <1>1 DEF Next, vars, Tick, Kill, Stop, Die, At, Running, Enable, Reset, NotifyObjCLoad,
       BeginEvent, NoteEvent, AfterEvent, Notify, TakeTime, MoveTransition, AddDuration,
       OpenState, ReadElement, WriteElement, MarkCrash
  <2>2. Zero \in State /\ state' = [Zero EXCEPT !.crashedLast = Loaded(1, FALSE), !.active = Loaded(2, 0),
                             !.background = Loaded(3, 0), !.launches = Loaded(4, 0),
                             !.sessions = Loaded(5, 0)]
    BY <2>1 DEF Launch, Zero, State
  <2>3. state'.crashedLast = Loaded(1, FALSE)
    BY <2>2 DEF State
  <2>4. 1 \in Readable /\ file[1] = TRUE
    <3>1. FileOK(file)
      BY <1>1 DEF Inv, Typed
    <3>2. Loaded(1, FALSE) = TRUE
      BY <1>1, <2>3, <3>1, LoadedTyped
    <3> QED
      BY <3>2 DEF Loaded
  <2>5. Len(file) > 0
    BY <1>1, <2>4 DEF Readable, Inv, Typed, FileOK
  <2> QED
    BY <1>1, <2>4, <2>5 DEF Inv, MarksFit
<1>2. Inv /\ [Next]_vars => [~up /\ up' /\ state'.crashedLast => unnoticed]_vars
  BY <1>1
<1> QED
  BY <1>2, InvAlways, PTL DEF Spec, NoFalseAlarm

=============================================================================
