------------------------ MODULE MonitorSetup_proofs ------------------------
(* Proofs about MonitorSetup, for any number of signals, any masks and any   *)
(* number of calls, whichever of its own calls the kernel refuses.           *)
EXTENDS MonitorSetup, TLAPS

(* The table of monitors.                                                    *)
LEMMA OrderFacts ==
    /\ Len(Order) = 7
    /\ Monitors = {"mach", "signal", "nsexc", "cpp", "user", "system", "appState"}
    /\ \A n \in 1..7 : Order[n] \in Monitors
    /\ \A n \in 1..7 : /\ Order[n] = "mach" <=> n = 1
                       /\ Order[n] = "signal" <=> n = 2
                       /\ Order[n] = "nsexc" <=> n = 3
                       /\ Order[n] = "cpp" <=> n = 4
  BY DEF Order, Monitors

(* What the loop has behind it grows by the monitor it visits, which it did  *)
(* not have before.                                                          *)
LEMMA BeforeFacts ==
    /\ Before(1) = {}
    /\ Before(8) = Monitors
    /\ \A n \in 1..7 : /\ Before(n + 1) = Before(n) \cup {Order[n]}
                       /\ Order[n] \notin Before(n)
<1>1. Before(1) = {}
  BY DEF Before
<1>2. Before(8) = Monitors
  BY DEF Before, Monitors
<1>3. ASSUME NEW n \in 1..7
      PROVE  Before(n + 1) = Before(n) \cup {Order[n]}
  <2>1. 1..((n + 1) - 1) = (1..(n - 1)) \cup {n}
    OBVIOUS
  <2> QED
    BY <2>1 DEF Before
<1>4. ASSUME NEW n \in 1..7
      PROVE  Order[n] \notin Before(n)
  <2>1. \A i, j \in 1..7 : Order[i] = Order[j] => i = j
    BY DEF Order
  <2> QED
    BY <2>1 DEF Before
<1> QED
  BY <1>1, <1>2, <1>3, <1>4

(* One turn of the loop in which only the visited monitor changed its flag.  *)
LEMMA LoopTurn ==
    ASSUME TypeOK, LoopFits, NEW m, event \notin {"handling", "dead"}, at > 0, Order[at] = m,
           step' = "none", enabled' \ {m} = enabled \ {m}, enabled' \subseteq Monitors, GoOn(m)
    PROVE  /\ LoopFits'
           /\ active' \subseteq Monitors /\ gathered' \subseteq Monitors /\ at' \in 0..7
<1>1. at \in 1..7 /\ m \in Monitors
  BY OrderFacts DEF TypeOK
<1>2. /\ gathered' = IF m \in enabled' THEN gathered \cup {m} ELSE gathered \ {m}
      /\ IF at = 7 THEN at' = 0 /\ active' = gathered' ELSE at' = at + 1 /\ active' = active
      /\ mixed' = mixed /\ event' = event
  BY OrderFacts DEF GoOn, capture
<1>3. Before(at + 1) = Before(at) \cup {m} /\ m \notin Before(at)
  BY <1>1, BeforeFacts
<1>4. ~mixed => gathered' = Before(at + 1) \cap enabled'
  BY <1>1, <1>2, <1>3 DEF LoopFits
<1>5. ~mixed /\ at = 7 => active' = enabled'
  BY <1>2, <1>4, BeforeFacts
<1>6. LoopFits'
  BY <1>1, <1>2, <1>4, <1>5 DEF LoopFits
<1>7. active' \subseteq Monitors /\ gathered' \subseteq Monitors
  BY <1>1, <1>2 DEF TypeOK
<1>8. at' \in 0..7
  BY <1>1, <1>2
<1> QED
  BY <1>6, <1>7, <1>8

(* An event that begins with no call running is not mixed with one.          *)
LEMMA BeginsFacts ==
    ASSUME Begins, at \in Nat
    PROVE  event = "none" /\ mixed' \in BOOLEAN /\ (~mixed' => at = 0)
<1>1. mixed' = (at > 0) /\ event = "none"
  BY DEF Begins
<1>2. ~mixed' => ~(at > 0)
  BY <1>1, Zenon
<1>3. (at > 0) \in BOOLEAN
  OBVIOUS
<1>4. mixed' \in BOOLEAN
  BY <1>1, <1>3, Zenon
<1> QED
  BY <1>1, <1>2, <1>4

(* The installation begins the loop.                                       *)
LEMMA InstallKeeps ==
    ASSUME SetupInv, Install PROVE SetupInv'
<1> USE OrderFacts DEF Install, BeginLoop, Allowed, Free, vars, loop, client,
                      mach, signals, capture
<1>1. TypeOK /\ LoopFits /\ SignalFits /\ CPPFits /\ (~mixed => MachFits /\ CaptureFits)
  BY DEF SetupInv
<1>2. TypeOK'
  <2>1. installed' \in BOOLEAN /\ monitoring' \subseteq Monitors /\ calls' \in 0..Calls
    BY <1>1 DEF TypeOK
  <2>2. wanted' \subseteq Monitors /\ gathered' \subseteq Monitors /\ active' \subseteq Monitors
    BY <1>1 DEF TypeOK
  <2>3. at' \in 0..7 /\ step' \in Places
    BY <1>1 DEF TypeOK, Places
  <2>4. enabled' \subseteq Monitors \ {"nsexc"} /\ failed' \subseteq {"mach", "signal"}
    BY <1>1 DEF TypeOK
  <2>5. /\ asyncSafety' \in BOOLEAN /\ mixed' \in BOOLEAN /\ allocated' \in BOOLEAN
        /\ savedPorts' \in BOOLEAN /\ primaryKnown' \in BOOLEAN
    BY <1>1 DEF TypeOK
  <2>6. /\ ports' \in {"original", "ours"} /\ terminate' \in {"original", "ours"}
        /\ primary' \in {"none", "waiting", "busy"} /\ secondary' \in {"none", "asleep", "awake"}
    BY <1>1 DEF TypeOK
  <2>7. /\ handlerOf' \in [Signals -> {"original", "ours", "junk"}]
        /\ savedHandler' \in [Signals -> {"original", "ours", "junk", "unset"}]
    BY <1>1 DEF TypeOK
  <2>8. /\ event' \in {"none", "queued", "raised", "handling", "dead"}
        /\ handler' \in Hooking \cup {"none"} /\ captures' \in Nat
    BY <1>1 DEF TypeOK, Hooking
  <2> QED
    BY <2>1, <2>2, <2>3, <2>4, <2>5, <2>6, <2>7, <2>8 DEF TypeOK
<1>3. LoopFits'
  BY <1>1, BeforeFacts DEF LoopFits, TypeOK
<1>4. SignalFits'
  BY <1>1 DEF SignalFits, TypeOK
<1>5. CPPFits'
  BY <1>1 DEF CPPFits, TypeOK
<1>6. ~mixed' => MachFits'
  BY <1>1 DEF MachFits, LoopFits, CaptureFits, TypeOK
<1>7. ~mixed' => CaptureFits'
  BY <1>1 DEF CaptureFits, LoopFits, SignalFits, TypeOK
<1> QED
  BY <1>2, <1>3, <1>4, <1>5, <1>6, <1>7 DEF SetupInv

(* So does a change of the monitors.                                       *)
LEMMA SetMonitoringKeeps ==
    ASSUME SetupInv, SetMonitoring PROVE SetupInv'
<1> USE OrderFacts DEF SetMonitoring, BeginLoop, Allowed, Free, vars, loop,
                      client, mach, signals, capture
<1>1. TypeOK /\ LoopFits /\ SignalFits /\ CPPFits /\ (~mixed => MachFits /\ CaptureFits)
  BY DEF SetupInv
<1>2. TypeOK'
  <2>1. installed' \in BOOLEAN /\ monitoring' \subseteq Monitors /\ calls' \in 0..Calls
    BY <1>1, SetupAssumption DEF TypeOK
  <2>2. wanted' \subseteq Monitors /\ gathered' \subseteq Monitors /\ active' \subseteq Monitors
    <3>1. wanted' \subseteq monitoring' \/ UNCHANGED loop
      OBVIOUS
    <3>2. gathered' \in {gathered, {}} /\ active' = active /\ monitoring' \subseteq Monitors
      BY <1>1, SetupAssumption DEF TypeOK
    <3> QED
      BY <1>1, <3>1, <3>2 DEF TypeOK
  <2>3. at' \in 0..7 /\ step' \in Places
    BY <1>1 DEF TypeOK, Places
  <2>4. enabled' \subseteq Monitors \ {"nsexc"} /\ failed' \subseteq {"mach", "signal"}
    BY <1>1 DEF TypeOK
  <2>5. /\ asyncSafety' \in BOOLEAN /\ mixed' \in BOOLEAN /\ allocated' \in BOOLEAN
        /\ savedPorts' \in BOOLEAN /\ primaryKnown' \in BOOLEAN
    BY <1>1 DEF TypeOK
  <2>6. /\ ports' \in {"original", "ours"} /\ terminate' \in {"original", "ours"}
        /\ primary' \in {"none", "waiting", "busy"} /\ secondary' \in {"none", "asleep", "awake"}
    BY <1>1 DEF TypeOK
  <2>7. /\ handlerOf' \in [Signals -> {"original", "ours", "junk"}]
        /\ savedHandler' \in [Signals -> {"original", "ours", "junk", "unset"}]
    BY <1>1 DEF TypeOK
  <2>8. /\ event' \in {"none", "queued", "raised", "handling", "dead"}
        /\ handler' \in Hooking \cup {"none"} /\ captures' \in Nat
    BY <1>1 DEF TypeOK, Hooking
  <2> QED
    BY <2>1, <2>2, <2>3, <2>4, <2>5, <2>6, <2>7, <2>8 DEF TypeOK
<1>3. LoopFits'
  BY <1>1, BeforeFacts DEF LoopFits, TypeOK
<1>4. SignalFits'
  BY <1>1 DEF SignalFits, TypeOK
<1>5. CPPFits'
  BY <1>1 DEF CPPFits, TypeOK
<1>6. ~mixed' => MachFits'
  BY <1>1 DEF MachFits, LoopFits, CaptureFits, TypeOK
<1>7. ~mixed' => CaptureFits'
  BY <1>1 DEF CaptureFits, LoopFits, SignalFits, TypeOK
<1> QED
  BY <1>2, <1>3, <1>4, <1>5, <1>6, <1>7 DEF SetupInv

(* A monitor that stays as it is.                                          *)
LEMMA SkipKeeps ==
    ASSUME SetupInv, NEW m \in Monitors, Skip(m) PROVE SetupInv'
<1> USE OrderFacts DEF Skip, Visiting, Free, vars, loop, client, mach,
                      signals, capture
<1>1. TypeOK /\ LoopFits /\ SignalFits /\ CPPFits /\ (~mixed => MachFits /\ CaptureFits)
  BY DEF SetupInv
<1>0. LoopFits' /\ active' \subseteq Monitors /\ gathered' \subseteq Monitors /\ at' \in 0..7
  <2>1. /\ event \notin {"handling", "dead"} /\ at > 0 /\ Order[at] = m
        /\ step' = "none" /\ enabled' \ {m} = enabled \ {m}
    BY <1>1 DEF TypeOK, LoopFits
  <2>2. enabled' \subseteq Monitors /\ GoOn(m)
    BY <1>1 DEF TypeOK
  <2> QED
    BY <1>1, <2>1, <2>2, LoopTurn
<1>2. TypeOK'
  BY <1>0, <1>1 DEF TypeOK, GoOn
<1>3. LoopFits'
  BY <1>0
<1>4. SignalFits'
  BY <1>1 DEF GoOn, SignalFits, TypeOK
<1>5. CPPFits'
  BY <1>1 DEF GoOn, CPPFits, TypeOK
<1>6. ~mixed' => MachFits'
  BY <1>1 DEF GoOn, MachFits, LoopFits, CaptureFits, TypeOK
<1>7. ~mixed' => CaptureFits'
  BY <1>1 DEF GoOn, CaptureFits, LoopFits, SignalFits, TypeOK
<1> QED
  BY <1>2, <1>3, <1>4, <1>5, <1>6, <1>7 DEF SetupInv

(* A monitor that is only a flag.                                          *)
LEMMA SetFlagKeeps ==
    ASSUME SetupInv, NEW m \in Monitors, SetFlag(m) PROVE SetupInv'
<1> USE OrderFacts DEF SetFlag, Visiting, Free, vars, loop, client, mach,
                      signals, capture
<1>1. TypeOK /\ LoopFits /\ SignalFits /\ CPPFits /\ (~mixed => MachFits /\ CaptureFits)
  BY DEF SetupInv
<1>0. LoopFits' /\ active' \subseteq Monitors /\ gathered' \subseteq Monitors /\ at' \in 0..7
  <2>1. /\ event \notin {"handling", "dead"} /\ at > 0 /\ Order[at] = m
        /\ step' = "none" /\ enabled' \ {m} = enabled \ {m}
    BY <1>1 DEF TypeOK, LoopFits
  <2>2. enabled' \subseteq Monitors /\ GoOn(m)
    BY <1>1 DEF TypeOK
  <2> QED
    BY <1>1, <2>1, <2>2, LoopTurn
<1>2. TypeOK'
  BY <1>0, <1>1 DEF TypeOK, GoOn
<1>3. LoopFits'
  BY <1>0
<1>4. SignalFits'
  BY <1>1 DEF GoOn, SignalFits, TypeOK
<1>5. CPPFits'
  BY <1>1 DEF GoOn, CPPFits, TypeOK
<1>6. ~mixed' => MachFits'
  BY <1>1 DEF GoOn, MachFits, LoopFits, CaptureFits, TypeOK
<1>7. ~mixed' => CaptureFits'
  BY <1>1 DEF GoOn, CaptureFits, LoopFits, SignalFits, TypeOK
<1> QED
  BY <1>2, <1>3, <1>4, <1>5, <1>6, <1>7 DEF SetupInv

(* The C++ monitor.                                                        *)
LEMMA EnableCPPKeeps ==
    ASSUME SetupInv, EnableCPP PROVE SetupInv'
<1> USE OrderFacts DEF EnableCPP, Visiting, Free, vars, loop, client, mach,
                      signals, capture
<1>1. TypeOK /\ LoopFits /\ SignalFits /\ CPPFits /\ (~mixed => MachFits /\ CaptureFits)
  BY DEF SetupInv
<1>0. LoopFits' /\ active' \subseteq Monitors /\ gathered' \subseteq Monitors /\ at' \in 0..7
  <2>1. /\ event \notin {"handling", "dead"} /\ at > 0 /\ Order[at] = "cpp"
        /\ step' = "none" /\ enabled' \ {"cpp"} = enabled \ {"cpp"}
    BY <1>1 DEF TypeOK, LoopFits
  <2>2. enabled' \subseteq Monitors /\ GoOn("cpp")
    BY <1>1 DEF TypeOK
  <2> QED
    BY <1>1, <2>1, <2>2, LoopTurn
<1>2. TypeOK'
  BY <1>0, <1>1 DEF TypeOK, GoOn
<1>3. LoopFits'
  BY <1>0
<1>4. SignalFits'
  BY <1>1 DEF GoOn, SignalFits, TypeOK
<1>5. CPPFits'
  BY <1>1 DEF GoOn, CPPFits, TypeOK
<1>6. ~mixed' => MachFits'
  BY <1>1 DEF GoOn, MachFits, LoopFits, CaptureFits, TypeOK
<1>7. ~mixed' => CaptureFits'
  BY <1>1 DEF GoOn, CaptureFits, LoopFits, SignalFits, TypeOK
<1> QED
  BY <1>2, <1>3, <1>4, <1>5, <1>6, <1>7 DEF SetupInv

LEMMA DisableCPPKeeps ==
    ASSUME SetupInv, DisableCPP PROVE SetupInv'
<1> USE OrderFacts DEF DisableCPP, Visiting, Free, vars, loop, client, mach,
                      signals, capture
<1>1. TypeOK /\ LoopFits /\ SignalFits /\ CPPFits /\ (~mixed => MachFits /\ CaptureFits)
  BY DEF SetupInv
<1>0. LoopFits' /\ active' \subseteq Monitors /\ gathered' \subseteq Monitors /\ at' \in 0..7
  <2>1. /\ event \notin {"handling", "dead"} /\ at > 0 /\ Order[at] = "cpp"
        /\ step' = "none" /\ enabled' \ {"cpp"} = enabled \ {"cpp"}
    BY <1>1 DEF TypeOK, LoopFits
  <2>2. enabled' \subseteq Monitors /\ GoOn("cpp")
    BY <1>1 DEF TypeOK
  <2> QED
    BY <1>1, <2>1, <2>2, LoopTurn
<1>2. TypeOK'
  BY <1>0, <1>1 DEF TypeOK, GoOn
<1>3. LoopFits'
  BY <1>0
<1>4. SignalFits'
  BY <1>1 DEF GoOn, SignalFits, TypeOK
<1>5. CPPFits'
  BY <1>1 DEF GoOn, CPPFits, TypeOK
<1>6. ~mixed' => MachFits'
  BY <1>1 DEF GoOn, MachFits, LoopFits, CaptureFits, TypeOK
<1>7. ~mixed' => CaptureFits'
  BY <1>1 DEF GoOn, CaptureFits, LoopFits, SignalFits, TypeOK
<1> QED
  BY <1>2, <1>3, <1>4, <1>5, <1>6, <1>7 DEF SetupInv

(* The signal monitor: a failed installation leaves none of ours.          *)
LEMMA EnableSignalKeeps ==
    ASSUME SetupInv, EnableSignal PROVE SetupInv'
<1> USE OrderFacts DEF EnableSignal, Visiting, InstallAll, InstallUpTo, Free,
                      vars, loop, client, mach, signals, capture
<1>1. TypeOK /\ LoopFits /\ SignalFits /\ CPPFits /\ (~mixed => MachFits /\ CaptureFits)
  BY DEF SetupInv
<1>0. LoopFits' /\ active' \subseteq Monitors /\ gathered' \subseteq Monitors /\ at' \in 0..7
  <2>1. /\ event \notin {"handling", "dead"} /\ at > 0 /\ Order[at] = "signal"
        /\ step' = "none" /\ enabled' \ {"signal"} = enabled \ {"signal"}
    BY <1>1 DEF TypeOK, LoopFits
  <2>2. enabled' \subseteq Monitors /\ GoOn("signal")
    BY <1>1 DEF TypeOK
  <2> QED
    BY <1>1, <2>1, <2>2, LoopTurn
<1>2. TypeOK'
  <2>1. installed' \in BOOLEAN /\ monitoring' \subseteq Monitors /\ calls' \in 0..Calls
    BY <1>0, <1>1 DEF TypeOK, GoOn
  <2>2. wanted' \subseteq Monitors /\ gathered' \subseteq Monitors /\ active' \subseteq Monitors
    BY <1>0, <1>1 DEF TypeOK, GoOn
  <2>3. at' \in 0..7 /\ step' \in Places
    BY <1>0, <1>1 DEF TypeOK, Places, GoOn
  <2>4. enabled' \subseteq Monitors \ {"nsexc"} /\ failed' \subseteq {"mach", "signal"}
    BY <1>0, <1>1 DEF TypeOK, GoOn
  <2>5. /\ asyncSafety' \in BOOLEAN /\ mixed' \in BOOLEAN /\ allocated' \in BOOLEAN
        /\ savedPorts' \in BOOLEAN /\ primaryKnown' \in BOOLEAN
    BY <1>0, <1>1 DEF TypeOK, GoOn
  <2>6. /\ ports' \in {"original", "ours"} /\ terminate' \in {"original", "ours"}
        /\ primary' \in {"none", "waiting", "busy"} /\ secondary' \in {"none", "asleep", "awake"}
    BY <1>0, <1>1 DEF TypeOK, GoOn
  <2>7. /\ handlerOf' \in [Signals -> {"original", "ours", "junk"}]
        /\ savedHandler' \in [Signals -> {"original", "ours", "junk", "unset"}]
    BY <1>0, <1>1 DEF TypeOK, GoOn
  <2>8. /\ event' \in {"none", "queued", "raised", "handling", "dead"}
        /\ handler' \in Hooking \cup {"none"} /\ captures' \in Nat
    BY <1>0, <1>1 DEF TypeOK, Hooking, GoOn
  <2> QED
    BY <2>1, <2>2, <2>3, <2>4, <2>5, <2>6, <2>7, <2>8 DEF TypeOK
<1>3. LoopFits'
  BY <1>0
<1>4. SignalFits'
  BY <1>1 DEF GoOn, SignalFits, TypeOK
<1>5. CPPFits'
  BY <1>1 DEF GoOn, CPPFits, TypeOK
<1>6. ~mixed' => MachFits'
  <2>1. /\ "mach" \in enabled' <=> "mach" \in enabled
        /\ "mach" \in failed' <=> "mach" \in failed
        /\ failed \subseteq enabled => failed' \subseteq enabled'
    OBVIOUS
  <2>2. UNCHANGED <<mach, handler, mixed>>
    BY DEF GoOn
  <2> QED
    BY <1>1, <2>1, <2>2 DEF MachFits
<1>7. ~mixed' => CaptureFits'
  BY <1>1 DEF GoOn, CaptureFits, LoopFits, SignalFits, TypeOK
<1> QED
  BY <1>2, <1>3, <1>4, <1>5, <1>6, <1>7 DEF SetupInv

(* The table it restores does not hold ours.                               *)
LEMMA DisableSignalKeeps ==
    ASSUME SetupInv, DisableSignal PROVE SetupInv'
<1> USE OrderFacts DEF DisableSignal, Visiting, RestoreSignals, Free, vars,
                      loop, client, mach, signals, capture
<1>1. TypeOK /\ LoopFits /\ SignalFits /\ CPPFits /\ (~mixed => MachFits /\ CaptureFits)
  BY DEF SetupInv
<1>0. LoopFits' /\ active' \subseteq Monitors /\ gathered' \subseteq Monitors /\ at' \in 0..7
  <2>1. /\ event \notin {"handling", "dead"} /\ at > 0 /\ Order[at] = "signal"
        /\ step' = "none" /\ enabled' \ {"signal"} = enabled \ {"signal"}
    BY <1>1 DEF TypeOK, LoopFits
  <2>2. enabled' \subseteq Monitors /\ GoOn("signal")
    BY <1>1 DEF TypeOK
  <2> QED
    BY <1>1, <2>1, <2>2, LoopTurn
<1>2. TypeOK'
  BY <1>0, <1>1 DEF TypeOK, GoOn
<1>3. LoopFits'
  BY <1>0
<1>4. SignalFits'
  BY <1>1 DEF GoOn, SignalFits, TypeOK
<1>5. CPPFits'
  BY <1>1 DEF GoOn, CPPFits, TypeOK
<1>6. ~mixed' => MachFits'
  BY <1>1 DEF GoOn, MachFits, LoopFits, CaptureFits, TypeOK
<1>7. ~mixed' => CaptureFits'
  BY <1>1 DEF GoOn, CaptureFits, LoopFits, SignalFits, TypeOK
<1> QED
  BY <1>2, <1>3, <1>4, <1>5, <1>6, <1>7 DEF SetupInv

(* The Mach monitor, call by call.                                         *)
LEMMA EnableMachKeeps ==
    ASSUME SetupInv, EnableMach PROVE SetupInv'
<1> USE OrderFacts DEF EnableMach, Visiting, Free, vars, loop, client, mach,
                      signals, capture
<1>1. TypeOK /\ LoopFits /\ SignalFits /\ CPPFits /\ (~mixed => MachFits /\ CaptureFits)
  BY DEF SetupInv
<1>2. TypeOK'
  <2>1. installed' \in BOOLEAN /\ monitoring' \subseteq Monitors /\ calls' \in 0..Calls
    BY <1>1 DEF TypeOK
  <2>2. wanted' \subseteq Monitors /\ gathered' \subseteq Monitors /\ active' \subseteq Monitors
    BY <1>1 DEF TypeOK
  <2>3. at' \in 0..7 /\ step' \in Places
    BY <1>1 DEF TypeOK, Places
  <2>4. enabled' \subseteq Monitors \ {"nsexc"} /\ failed' \subseteq {"mach", "signal"}
    BY <1>1 DEF TypeOK
  <2>5. /\ asyncSafety' \in BOOLEAN /\ mixed' \in BOOLEAN /\ allocated' \in BOOLEAN
        /\ savedPorts' \in BOOLEAN /\ primaryKnown' \in BOOLEAN
    BY <1>1 DEF TypeOK
  <2>6. /\ ports' \in {"original", "ours"} /\ terminate' \in {"original", "ours"}
        /\ primary' \in {"none", "waiting", "busy"} /\ secondary' \in {"none", "asleep", "awake"}
    BY <1>1 DEF TypeOK
  <2>7. /\ handlerOf' \in [Signals -> {"original", "ours", "junk"}]
        /\ savedHandler' \in [Signals -> {"original", "ours", "junk", "unset"}]
    BY <1>1 DEF TypeOK
  <2>8. /\ event' \in {"none", "queued", "raised", "handling", "dead"}
        /\ handler' \in Hooking \cup {"none"} /\ captures' \in Nat
    BY <1>1 DEF TypeOK, Hooking
  <2> QED
    BY <2>1, <2>2, <2>3, <2>4, <2>5, <2>6, <2>7, <2>8 DEF TypeOK
<1>3. LoopFits'
  BY <1>1, BeforeFacts DEF LoopFits, TypeOK
<1>4. SignalFits'
  BY <1>1 DEF SignalFits, TypeOK
<1>5. CPPFits'
  BY <1>1 DEF CPPFits, TypeOK
<1>6. ~mixed' => MachFits'
  BY <1>1 DEF MachFits, LoopFits, CaptureFits, TypeOK
<1>7. ~mixed' => CaptureFits'
  BY <1>1 DEF CaptureFits, LoopFits, SignalFits, TypeOK
<1> QED
  BY <1>2, <1>3, <1>4, <1>5, <1>6, <1>7 DEF SetupInv

(* An installation of the Mach monitor that fails anywhere leaves nothing    *)
(* behind.                                                                   *)
LEMMA GiveUpKeeps ==
    ASSUME SetupInv, Free, step \notin {"none", "unhook"}, GiveUp PROVE SetupInv'
<1> USE OrderFacts DEF GiveUp, Uninstall, RestorePorts, Free, vars, loop,
                      client, mach, signals, capture
<1>1. TypeOK /\ LoopFits /\ SignalFits /\ CPPFits /\ (~mixed => MachFits /\ CaptureFits)
  BY DEF SetupInv
<1>0. LoopFits' /\ active' \subseteq Monitors /\ gathered' \subseteq Monitors /\ at' \in 0..7
  <2>1. /\ event \notin {"handling", "dead"} /\ at > 0 /\ Order[at] = "mach"
        /\ step' = "none" /\ enabled' \ {"mach"} = enabled \ {"mach"}
    BY <1>1 DEF TypeOK, LoopFits
  <2>2. enabled' \subseteq Monitors /\ GoOn("mach")
    BY <1>1 DEF TypeOK
  <2> QED
    BY <1>1, <2>1, <2>2, LoopTurn
<1>2. TypeOK'
  <2>1. installed' \in BOOLEAN /\ monitoring' \subseteq Monitors /\ calls' \in 0..Calls
    BY <1>0, <1>1 DEF TypeOK, GoOn
  <2>2. wanted' \subseteq Monitors /\ gathered' \subseteq Monitors /\ active' \subseteq Monitors
    BY <1>0, <1>1 DEF TypeOK, GoOn
  <2>3. at' \in 0..7 /\ step' \in Places
    BY <1>0, <1>1 DEF TypeOK, Places, GoOn
  <2>4. enabled' \subseteq Monitors \ {"nsexc"} /\ failed' \subseteq {"mach", "signal"}
    BY <1>0, <1>1 DEF TypeOK, GoOn
  <2>5. /\ asyncSafety' \in BOOLEAN /\ mixed' \in BOOLEAN /\ allocated' \in BOOLEAN
        /\ savedPorts' \in BOOLEAN /\ primaryKnown' \in BOOLEAN
    BY <1>0, <1>1 DEF TypeOK, GoOn
  <2>6. /\ ports' \in {"original", "ours"} /\ terminate' \in {"original", "ours"}
        /\ primary' \in {"none", "waiting", "busy"} /\ secondary' \in {"none", "asleep", "awake"}
    BY <1>0, <1>1 DEF TypeOK, GoOn
  <2>7. /\ handlerOf' \in [Signals -> {"original", "ours", "junk"}]
        /\ savedHandler' \in [Signals -> {"original", "ours", "junk", "unset"}]
    BY <1>0, <1>1 DEF TypeOK, GoOn
  <2>8. /\ event' \in {"none", "queued", "raised", "handling", "dead"}
        /\ handler' \in Hooking \cup {"none"} /\ captures' \in Nat
    BY <1>0, <1>1 DEF TypeOK, Hooking, GoOn
  <2> QED
    BY <2>1, <2>2, <2>3, <2>4, <2>5, <2>6, <2>7, <2>8 DEF TypeOK
<1>3. LoopFits'
  BY <1>0
<1>4. SignalFits'
  BY <1>1 DEF GoOn, SignalFits, TypeOK
<1>5. CPPFits'
  BY <1>1 DEF GoOn, CPPFits, TypeOK
<1>6. ~mixed' => MachFits'
  <2>1. UNCHANGED <<handler, event, mixed, enabled>> /\ step' = "none" /\ "mach" \in failed'
        /\ primary' = "none" /\ ~savedPorts' /\ failed' = failed \cup {"mach"}
    BY DEF GoOn
  <2>2. ASSUME ~mixed PROVE handler # "mach" /\ ports' = "original" /\ failed' \subseteq enabled
    BY <1>1, <2>1, <2>2 DEF MachFits, CaptureFits, TypeOK, Places
  <2> QED
    BY <2>1, <2>2 DEF MachFits
<1>7. ~mixed' => CaptureFits'
  BY <1>1 DEF GoOn, CaptureFits, LoopFits, SignalFits, TypeOK
<1> QED
  BY <1>2, <1>3, <1>4, <1>5, <1>6, <1>7 DEF SetupInv

LEMMA SavePortsKeeps ==
    ASSUME SetupInv, SavePorts PROVE SetupInv'
<1> USE OrderFacts DEF SavePorts, Installing, Proceed, Free, vars, loop,
                      client, mach, signals, capture
<1>a. CASE GiveUp
  BY <1>a, GiveUpKeeps
<1>b. CASE ~GiveUp
  <2>1. TypeOK /\ LoopFits /\ SignalFits /\ CPPFits /\ (~mixed => MachFits /\ CaptureFits)
    BY <1>b DEF SetupInv
  <2>2. TypeOK'
    <3>1. installed' \in BOOLEAN /\ monitoring' \subseteq Monitors /\ calls' \in 0..Calls
      BY <1>b, <2>1 DEF TypeOK
    <3>2. wanted' \subseteq Monitors /\ gathered' \subseteq Monitors /\ active' \subseteq Monitors
      BY <1>b, <2>1 DEF TypeOK
    <3>3. at' \in 0..7 /\ step' \in Places
      BY <1>b, <2>1 DEF TypeOK, Places
    <3>4. enabled' \subseteq Monitors \ {"nsexc"} /\ failed' \subseteq {"mach", "signal"}
      BY <1>b, <2>1 DEF TypeOK
    <3>5. /\ asyncSafety' \in BOOLEAN /\ mixed' \in BOOLEAN /\ allocated' \in BOOLEAN
          /\ savedPorts' \in BOOLEAN /\ primaryKnown' \in BOOLEAN
      BY <1>b, <2>1 DEF TypeOK
    <3>6. /\ ports' \in {"original", "ours"} /\ terminate' \in {"original", "ours"}
          /\ primary' \in {"none", "waiting", "busy"} /\ secondary' \in {"none", "asleep", "awake"}
      BY <1>b, <2>1 DEF TypeOK
    <3>7. /\ handlerOf' \in [Signals -> {"original", "ours", "junk"}]
          /\ savedHandler' \in [Signals -> {"original", "ours", "junk", "unset"}]
      BY <1>b, <2>1 DEF TypeOK
    <3>8. /\ event' \in {"none", "queued", "raised", "handling", "dead"}
          /\ handler' \in Hooking \cup {"none"} /\ captures' \in Nat
      BY <1>b, <2>1 DEF TypeOK, Hooking
    <3> QED
      BY <3>1, <3>2, <3>3, <3>4, <3>5, <3>6, <3>7, <3>8 DEF TypeOK
  <2>3. LoopFits'
    BY <1>b, <2>1 DEF LoopFits, TypeOK
  <2>4. SignalFits'
    BY <1>b, <2>1 DEF SignalFits, TypeOK
  <2>5. CPPFits'
    BY <1>b, <2>1 DEF CPPFits, TypeOK
  <2>6. ~mixed' => MachFits'
    BY <1>b, <2>1 DEF MachFits, LoopFits, CaptureFits, TypeOK
  <2>7. ~mixed' => CaptureFits'
    BY <1>b, <2>1 DEF CaptureFits, LoopFits, SignalFits, TypeOK
  <2> QED
    BY <1>b, <2>2, <2>3, <2>4, <2>5, <2>6, <2>7 DEF SetupInv
<1> QED
  BY <1>a, <1>b

LEMMA AllocatePortKeeps ==
    ASSUME SetupInv, AllocatePort PROVE SetupInv'
<1> USE OrderFacts DEF AllocatePort, Installing, Proceed, Free, vars, loop,
                      client, mach, signals, capture
<1>a. CASE GiveUp
  BY <1>a, GiveUpKeeps
<1>b. CASE ~GiveUp
  <2>1. TypeOK /\ LoopFits /\ SignalFits /\ CPPFits /\ (~mixed => MachFits /\ CaptureFits)
    BY <1>b DEF SetupInv
  <2>2. TypeOK'
    <3>1. installed' \in BOOLEAN /\ monitoring' \subseteq Monitors /\ calls' \in 0..Calls
      BY <1>b, <2>1 DEF TypeOK
    <3>2. wanted' \subseteq Monitors /\ gathered' \subseteq Monitors /\ active' \subseteq Monitors
      BY <1>b, <2>1 DEF TypeOK
    <3>3. at' \in 0..7 /\ step' \in Places
      BY <1>b, <2>1 DEF TypeOK, Places
    <3>4. enabled' \subseteq Monitors \ {"nsexc"} /\ failed' \subseteq {"mach", "signal"}
      BY <1>b, <2>1 DEF TypeOK
    <3>5. /\ asyncSafety' \in BOOLEAN /\ mixed' \in BOOLEAN /\ allocated' \in BOOLEAN
          /\ savedPorts' \in BOOLEAN /\ primaryKnown' \in BOOLEAN
      BY <1>b, <2>1 DEF TypeOK
    <3>6. /\ ports' \in {"original", "ours"} /\ terminate' \in {"original", "ours"}
          /\ primary' \in {"none", "waiting", "busy"} /\ secondary' \in {"none", "asleep", "awake"}
      BY <1>b, <2>1 DEF TypeOK
    <3>7. /\ handlerOf' \in [Signals -> {"original", "ours", "junk"}]
          /\ savedHandler' \in [Signals -> {"original", "ours", "junk", "unset"}]
      BY <1>b, <2>1 DEF TypeOK
    <3>8. /\ event' \in {"none", "queued", "raised", "handling", "dead"}
          /\ handler' \in Hooking \cup {"none"} /\ captures' \in Nat
      BY <1>b, <2>1 DEF TypeOK, Hooking
    <3> QED
      BY <3>1, <3>2, <3>3, <3>4, <3>5, <3>6, <3>7, <3>8 DEF TypeOK
  <2>3. LoopFits'
    BY <1>b, <2>1 DEF LoopFits, TypeOK
  <2>4. SignalFits'
    BY <1>b, <2>1 DEF SignalFits, TypeOK
  <2>5. CPPFits'
    BY <1>b, <2>1 DEF CPPFits, TypeOK
  <2>6. ~mixed' => MachFits'
    BY <1>b, <2>1 DEF MachFits, LoopFits, CaptureFits, TypeOK
  <2>7. ~mixed' => CaptureFits'
    BY <1>b, <2>1 DEF CaptureFits, LoopFits, SignalFits, TypeOK
  <2> QED
    BY <1>b, <2>2, <2>3, <2>4, <2>5, <2>6, <2>7 DEF SetupInv
<1> QED
  BY <1>a, <1>b

LEMMA SetPortsKeeps ==
    ASSUME SetupInv, SetPorts PROVE SetupInv'
<1> USE OrderFacts DEF SetPorts, Installing, Proceed, Free, vars, loop,
                      client, mach, signals, capture
<1>a. CASE GiveUp
  BY <1>a, GiveUpKeeps
<1>b. CASE ~GiveUp
  <2>1. TypeOK /\ LoopFits /\ SignalFits /\ CPPFits /\ (~mixed => MachFits /\ CaptureFits)
    BY <1>b DEF SetupInv
  <2>2. TypeOK'
    <3>1. installed' \in BOOLEAN /\ monitoring' \subseteq Monitors /\ calls' \in 0..Calls
      BY <1>b, <2>1 DEF TypeOK
    <3>2. wanted' \subseteq Monitors /\ gathered' \subseteq Monitors /\ active' \subseteq Monitors
      BY <1>b, <2>1 DEF TypeOK
    <3>3. at' \in 0..7 /\ step' \in Places
      BY <1>b, <2>1 DEF TypeOK, Places
    <3>4. enabled' \subseteq Monitors \ {"nsexc"} /\ failed' \subseteq {"mach", "signal"}
      BY <1>b, <2>1 DEF TypeOK
    <3>5. /\ asyncSafety' \in BOOLEAN /\ mixed' \in BOOLEAN /\ allocated' \in BOOLEAN
          /\ savedPorts' \in BOOLEAN /\ primaryKnown' \in BOOLEAN
      BY <1>b, <2>1 DEF TypeOK
    <3>6. /\ ports' \in {"original", "ours"} /\ terminate' \in {"original", "ours"}
          /\ primary' \in {"none", "waiting", "busy"} /\ secondary' \in {"none", "asleep", "awake"}
      BY <1>b, <2>1 DEF TypeOK
    <3>7. /\ handlerOf' \in [Signals -> {"original", "ours", "junk"}]
          /\ savedHandler' \in [Signals -> {"original", "ours", "junk", "unset"}]
      BY <1>b, <2>1 DEF TypeOK
    <3>8. /\ event' \in {"none", "queued", "raised", "handling", "dead"}
          /\ handler' \in Hooking \cup {"none"} /\ captures' \in Nat
      BY <1>b, <2>1 DEF TypeOK, Hooking
    <3> QED
      BY <3>1, <3>2, <3>3, <3>4, <3>5, <3>6, <3>7, <3>8 DEF TypeOK
  <2>3. LoopFits'
    BY <1>b, <2>1 DEF LoopFits, TypeOK
  <2>4. SignalFits'
    BY <1>b, <2>1 DEF SignalFits, TypeOK
  <2>5. CPPFits'
    BY <1>b, <2>1 DEF CPPFits, TypeOK
  <2>6. ~mixed' => MachFits'
    BY <1>b, <2>1 DEF MachFits, LoopFits, CaptureFits, TypeOK
  <2>7. ~mixed' => CaptureFits'
    BY <1>b, <2>1 DEF CaptureFits, LoopFits, SignalFits, TypeOK
  <2> QED
    BY <1>b, <2>2, <2>3, <2>4, <2>5, <2>6, <2>7 DEF SetupInv
<1> QED
  BY <1>a, <1>b

LEMMA CreateSecondaryKeeps ==
    ASSUME SetupInv, CreateSecondary PROVE SetupInv'
<1> USE OrderFacts DEF CreateSecondary, Installing, Proceed, Free, vars, loop,
                      client, mach, signals, capture
<1>a. CASE GiveUp
  BY <1>a, GiveUpKeeps
<1>b. CASE ~GiveUp
  <2>1. TypeOK /\ LoopFits /\ SignalFits /\ CPPFits /\ (~mixed => MachFits /\ CaptureFits)
    BY <1>b DEF SetupInv
  <2>2. TypeOK'
    <3>1. installed' \in BOOLEAN /\ monitoring' \subseteq Monitors /\ calls' \in 0..Calls
      BY <1>b, <2>1 DEF TypeOK
    <3>2. wanted' \subseteq Monitors /\ gathered' \subseteq Monitors /\ active' \subseteq Monitors
      BY <1>b, <2>1 DEF TypeOK
    <3>3. at' \in 0..7 /\ step' \in Places
      BY <1>b, <2>1 DEF TypeOK, Places
    <3>4. enabled' \subseteq Monitors \ {"nsexc"} /\ failed' \subseteq {"mach", "signal"}
      BY <1>b, <2>1 DEF TypeOK
    <3>5. /\ asyncSafety' \in BOOLEAN /\ mixed' \in BOOLEAN /\ allocated' \in BOOLEAN
          /\ savedPorts' \in BOOLEAN /\ primaryKnown' \in BOOLEAN
      BY <1>b, <2>1 DEF TypeOK
    <3>6. /\ ports' \in {"original", "ours"} /\ terminate' \in {"original", "ours"}
          /\ primary' \in {"none", "waiting", "busy"} /\ secondary' \in {"none", "asleep", "awake"}
      BY <1>b, <2>1 DEF TypeOK
    <3>7. /\ handlerOf' \in [Signals -> {"original", "ours", "junk"}]
          /\ savedHandler' \in [Signals -> {"original", "ours", "junk", "unset"}]
      BY <1>b, <2>1 DEF TypeOK
    <3>8. /\ event' \in {"none", "queued", "raised", "handling", "dead"}
          /\ handler' \in Hooking \cup {"none"} /\ captures' \in Nat
      BY <1>b, <2>1 DEF TypeOK, Hooking
    <3> QED
      BY <3>1, <3>2, <3>3, <3>4, <3>5, <3>6, <3>7, <3>8 DEF TypeOK
  <2>3. LoopFits'
    BY <1>b, <2>1 DEF LoopFits, TypeOK
  <2>4. SignalFits'
    BY <1>b, <2>1 DEF SignalFits, TypeOK
  <2>5. CPPFits'
    BY <1>b, <2>1 DEF CPPFits, TypeOK
  <2>6. ~mixed' => MachFits'
    BY <1>b, <2>1 DEF MachFits, LoopFits, CaptureFits, TypeOK
  <2>7. ~mixed' => CaptureFits'
    BY <1>b, <2>1 DEF CaptureFits, LoopFits, SignalFits, TypeOK
  <2> QED
    BY <1>b, <2>2, <2>3, <2>4, <2>5, <2>6, <2>7 DEF SetupInv
<1> QED
  BY <1>a, <1>b

LEMMA CreatePrimaryKeeps ==
    ASSUME SetupInv, CreatePrimary PROVE SetupInv'
<1> USE OrderFacts DEF CreatePrimary, Installing, Proceed, Free, vars, loop,
                      client, mach, signals, capture
<1>a. CASE GiveUp
  BY <1>a, GiveUpKeeps
<1>b. CASE ~GiveUp
  <2>1. TypeOK /\ LoopFits /\ SignalFits /\ CPPFits /\ (~mixed => MachFits /\ CaptureFits)
    BY <1>b DEF SetupInv
  <2>2. TypeOK'
    <3>1. installed' \in BOOLEAN /\ monitoring' \subseteq Monitors /\ calls' \in 0..Calls
      BY <1>b, <2>1 DEF TypeOK
    <3>2. wanted' \subseteq Monitors /\ gathered' \subseteq Monitors /\ active' \subseteq Monitors
      BY <1>b, <2>1 DEF TypeOK
    <3>3. at' \in 0..7 /\ step' \in Places
      BY <1>b, <2>1 DEF TypeOK, Places
    <3>4. enabled' \subseteq Monitors \ {"nsexc"} /\ failed' \subseteq {"mach", "signal"}
      BY <1>b, <2>1 DEF TypeOK
    <3>5. /\ asyncSafety' \in BOOLEAN /\ mixed' \in BOOLEAN /\ allocated' \in BOOLEAN
          /\ savedPorts' \in BOOLEAN /\ primaryKnown' \in BOOLEAN
      BY <1>b, <2>1 DEF TypeOK
    <3>6. /\ ports' \in {"original", "ours"} /\ terminate' \in {"original", "ours"}
          /\ primary' \in {"none", "waiting", "busy"} /\ secondary' \in {"none", "asleep", "awake"}
      BY <1>b, <2>1 DEF TypeOK
    <3>7. /\ handlerOf' \in [Signals -> {"original", "ours", "junk"}]
          /\ savedHandler' \in [Signals -> {"original", "ours", "junk", "unset"}]
      BY <1>b, <2>1 DEF TypeOK
    <3>8. /\ event' \in {"none", "queued", "raised", "handling", "dead"}
          /\ handler' \in Hooking \cup {"none"} /\ captures' \in Nat
      BY <1>b, <2>1 DEF TypeOK, Hooking
    <3> QED
      BY <3>1, <3>2, <3>3, <3>4, <3>5, <3>6, <3>7, <3>8 DEF TypeOK
  <2>3. LoopFits'
    BY <1>b, <2>1 DEF LoopFits, TypeOK
  <2>4. SignalFits'
    BY <1>b, <2>1 DEF SignalFits, TypeOK
  <2>5. CPPFits'
    BY <1>b, <2>1 DEF CPPFits, TypeOK
  <2>6. ~mixed' => MachFits'
    BY <1>b, <2>1 DEF MachFits, LoopFits, CaptureFits, TypeOK
  <2>7. ~mixed' => CaptureFits'
    BY <1>b, <2>1 DEF CaptureFits, LoopFits, SignalFits, TypeOK
  <2> QED
    BY <1>b, <2>2, <2>3, <2>4, <2>5, <2>6, <2>7 DEF SetupInv
<1> QED
  BY <1>a, <1>b

LEMMA StorePrimaryKeeps ==
    ASSUME SetupInv, StorePrimary PROVE SetupInv'
<1> USE OrderFacts DEF StorePrimary, Installing, Free, vars, loop, client,
                      mach, signals, capture
<1>1. TypeOK /\ LoopFits /\ SignalFits /\ CPPFits /\ (~mixed => MachFits /\ CaptureFits)
  BY DEF SetupInv
<1>0. LoopFits' /\ active' \subseteq Monitors /\ gathered' \subseteq Monitors /\ at' \in 0..7
  <2>1. /\ event \notin {"handling", "dead"} /\ at > 0 /\ Order[at] = "mach"
        /\ step' = "none" /\ enabled' \ {"mach"} = enabled \ {"mach"}
    BY <1>1 DEF TypeOK, LoopFits
  <2>2. enabled' \subseteq Monitors /\ GoOn("mach")
    BY <1>1 DEF TypeOK
  <2> QED
    BY <1>1, <2>1, <2>2, LoopTurn
<1>2. TypeOK'
  <2>1. installed' \in BOOLEAN /\ monitoring' \subseteq Monitors /\ calls' \in 0..Calls
    BY <1>0, <1>1 DEF TypeOK, GoOn
  <2>2. wanted' \subseteq Monitors /\ gathered' \subseteq Monitors /\ active' \subseteq Monitors
    BY <1>0, <1>1 DEF TypeOK, GoOn
  <2>3. at' \in 0..7 /\ step' \in Places
    BY <1>0, <1>1 DEF TypeOK, Places, GoOn
  <2>4. enabled' \subseteq Monitors \ {"nsexc"} /\ failed' \subseteq {"mach", "signal"}
    BY <1>0, <1>1 DEF TypeOK, GoOn
  <2>5. /\ asyncSafety' \in BOOLEAN /\ mixed' \in BOOLEAN /\ allocated' \in BOOLEAN
        /\ savedPorts' \in BOOLEAN /\ primaryKnown' \in BOOLEAN
    BY <1>0, <1>1 DEF TypeOK, GoOn
  <2>6. /\ ports' \in {"original", "ours"} /\ terminate' \in {"original", "ours"}
        /\ primary' \in {"none", "waiting", "busy"} /\ secondary' \in {"none", "asleep", "awake"}
    BY <1>0, <1>1 DEF TypeOK, GoOn
  <2>7. /\ handlerOf' \in [Signals -> {"original", "ours", "junk"}]
        /\ savedHandler' \in [Signals -> {"original", "ours", "junk", "unset"}]
    BY <1>0, <1>1 DEF TypeOK, GoOn
  <2>8. /\ event' \in {"none", "queued", "raised", "handling", "dead"}
        /\ handler' \in Hooking \cup {"none"} /\ captures' \in Nat
    BY <1>0, <1>1 DEF TypeOK, Hooking, GoOn
  <2> QED
    BY <2>1, <2>2, <2>3, <2>4, <2>5, <2>6, <2>7, <2>8 DEF TypeOK
<1>3. LoopFits'
  BY <1>0
<1>4. SignalFits'
  BY <1>1 DEF GoOn, SignalFits, TypeOK
<1>5. CPPFits'
  BY <1>1 DEF GoOn, CPPFits, TypeOK
<1>6. ~mixed' => MachFits'
  BY <1>1 DEF GoOn, MachFits, LoopFits, CaptureFits, TypeOK
<1>7. ~mixed' => CaptureFits'
  BY <1>1 DEF GoOn, CaptureFits, LoopFits, SignalFits, TypeOK
<1> QED
  BY <1>2, <1>3, <1>4, <1>5, <1>6, <1>7 DEF SetupInv

LEMMA DisableMachKeeps ==
    ASSUME SetupInv, DisableMach PROVE SetupInv'
<1> USE OrderFacts DEF DisableMach, Visiting, Free, vars, loop, client, mach,
                      signals, capture
<1>1. TypeOK /\ LoopFits /\ SignalFits /\ CPPFits /\ (~mixed => MachFits /\ CaptureFits)
  BY DEF SetupInv
<1>2. TypeOK'
  <2>1. installed' \in BOOLEAN /\ monitoring' \subseteq Monitors /\ calls' \in 0..Calls
    BY <1>1 DEF TypeOK
  <2>2. wanted' \subseteq Monitors /\ gathered' \subseteq Monitors /\ active' \subseteq Monitors
    BY <1>1 DEF TypeOK
  <2>3. at' \in 0..7 /\ step' \in Places
    BY <1>1 DEF TypeOK, Places
  <2>4. enabled' \subseteq Monitors \ {"nsexc"} /\ failed' \subseteq {"mach", "signal"}
    BY <1>1 DEF TypeOK
  <2>5. /\ asyncSafety' \in BOOLEAN /\ mixed' \in BOOLEAN /\ allocated' \in BOOLEAN
        /\ savedPorts' \in BOOLEAN /\ primaryKnown' \in BOOLEAN
    BY <1>1 DEF TypeOK
  <2>6. /\ ports' \in {"original", "ours"} /\ terminate' \in {"original", "ours"}
        /\ primary' \in {"none", "waiting", "busy"} /\ secondary' \in {"none", "asleep", "awake"}
    BY <1>1 DEF TypeOK
  <2>7. /\ handlerOf' \in [Signals -> {"original", "ours", "junk"}]
        /\ savedHandler' \in [Signals -> {"original", "ours", "junk", "unset"}]
    BY <1>1 DEF TypeOK
  <2>8. /\ event' \in {"none", "queued", "raised", "handling", "dead"}
        /\ handler' \in Hooking \cup {"none"} /\ captures' \in Nat
    BY <1>1 DEF TypeOK, Hooking
  <2> QED
    BY <2>1, <2>2, <2>3, <2>4, <2>5, <2>6, <2>7, <2>8 DEF TypeOK
<1>3. LoopFits'
  BY <1>1, BeforeFacts DEF LoopFits, TypeOK
<1>4. SignalFits'
  BY <1>1 DEF SignalFits, TypeOK
<1>5. CPPFits'
  BY <1>1 DEF CPPFits, TypeOK
<1>6. ~mixed' => MachFits'
  BY <1>1 DEF MachFits, LoopFits, CaptureFits, TypeOK
<1>7. ~mixed' => CaptureFits'
  BY <1>1 DEF CaptureFits, LoopFits, SignalFits, TypeOK
<1> QED
  BY <1>2, <1>3, <1>4, <1>5, <1>6, <1>7 DEF SetupInv

LEMMA UnhookKeeps ==
    ASSUME SetupInv, Unhook PROVE SetupInv'
<1> USE OrderFacts DEF Unhook, Installing, Uninstall, RestorePorts, Free,
                      vars, loop, client, mach, signals, capture
<1>1. TypeOK /\ LoopFits /\ SignalFits /\ CPPFits /\ (~mixed => MachFits /\ CaptureFits)
  BY DEF SetupInv
<1>0. LoopFits' /\ active' \subseteq Monitors /\ gathered' \subseteq Monitors /\ at' \in 0..7
  <2>1. /\ event \notin {"handling", "dead"} /\ at > 0 /\ Order[at] = "mach"
        /\ step' = "none" /\ enabled' \ {"mach"} = enabled \ {"mach"}
    BY <1>1 DEF TypeOK, LoopFits
  <2>2. enabled' \subseteq Monitors /\ GoOn("mach")
    BY <1>1 DEF TypeOK
  <2> QED
    BY <1>1, <2>1, <2>2, LoopTurn
<1>2. TypeOK'
  <2>1. installed' \in BOOLEAN /\ monitoring' \subseteq Monitors /\ calls' \in 0..Calls
    BY <1>0, <1>1 DEF TypeOK, GoOn
  <2>2. wanted' \subseteq Monitors /\ gathered' \subseteq Monitors /\ active' \subseteq Monitors
    BY <1>0, <1>1 DEF TypeOK, GoOn
  <2>3. at' \in 0..7 /\ step' \in Places
    BY <1>0, <1>1 DEF TypeOK, Places, GoOn
  <2>4. enabled' \subseteq Monitors \ {"nsexc"} /\ failed' \subseteq {"mach", "signal"}
    BY <1>0, <1>1 DEF TypeOK, GoOn
  <2>5. /\ asyncSafety' \in BOOLEAN /\ mixed' \in BOOLEAN /\ allocated' \in BOOLEAN
        /\ savedPorts' \in BOOLEAN /\ primaryKnown' \in BOOLEAN
    BY <1>0, <1>1 DEF TypeOK, GoOn
  <2>6. /\ ports' \in {"original", "ours"} /\ terminate' \in {"original", "ours"}
        /\ primary' \in {"none", "waiting", "busy"} /\ secondary' \in {"none", "asleep", "awake"}
    BY <1>0, <1>1 DEF TypeOK, GoOn
  <2>7. /\ handlerOf' \in [Signals -> {"original", "ours", "junk"}]
        /\ savedHandler' \in [Signals -> {"original", "ours", "junk", "unset"}]
    BY <1>0, <1>1 DEF TypeOK, GoOn
  <2>8. /\ event' \in {"none", "queued", "raised", "handling", "dead"}
        /\ handler' \in Hooking \cup {"none"} /\ captures' \in Nat
    BY <1>0, <1>1 DEF TypeOK, Hooking, GoOn
  <2> QED
    BY <2>1, <2>2, <2>3, <2>4, <2>5, <2>6, <2>7, <2>8 DEF TypeOK
<1>3. LoopFits'
  BY <1>0
<1>4. SignalFits'
  BY <1>1 DEF GoOn, SignalFits, TypeOK
<1>5. CPPFits'
  BY <1>1 DEF GoOn, CPPFits, TypeOK
<1>6. ~mixed' => MachFits'
  BY <1>1 DEF GoOn, MachFits, LoopFits, CaptureFits, TypeOK
<1>7. ~mixed' => CaptureFits'
  BY <1>1 DEF GoOn, CaptureFits, LoopFits, SignalFits, TypeOK
<1> QED
  BY <1>2, <1>3, <1>4, <1>5, <1>6, <1>7 DEF SetupInv

(* The event: a fault,                                                     *)
LEMMA FaultKeeps ==
    ASSUME SetupInv, Fault PROVE SetupInv'
<1> USE OrderFacts DEF Fault, Free, vars, loop, client, mach, signals, capture
<1>1. TypeOK /\ LoopFits /\ SignalFits /\ CPPFits /\ (~mixed => MachFits /\ CaptureFits)
  BY DEF SetupInv
<1>m. mixed' \in BOOLEAN /\ (~mixed' => at = 0) /\ event = "none"
  BY <1>1, BeginsFacts DEF TypeOK
<1>2. TypeOK'
  BY <1>m, <1>1 DEF TypeOK
<1>3. LoopFits'
  BY <1>m, <1>1, BeforeFacts DEF LoopFits, TypeOK
<1>4. SignalFits'
  BY <1>1 DEF SignalFits, TypeOK
<1>5. CPPFits'
  BY <1>1 DEF CPPFits, TypeOK
<1>6. ~mixed' => MachFits'
  BY <1>m, <1>1 DEF MachFits, LoopFits, CaptureFits, TypeOK
<1>7. ~mixed' => CaptureFits'
  BY <1>m, <1>1 DEF CaptureFits, LoopFits, SignalFits, TypeOK
<1> QED
  BY <1>2, <1>3, <1>4, <1>5, <1>6, <1>7 DEF SetupInv

LEMMA ThrowKeeps ==
    ASSUME SetupInv, Throw PROVE SetupInv'
<1> USE OrderFacts DEF Throw, Captured, Free, vars, loop, client, mach,
                      signals, capture
<1>1. TypeOK /\ LoopFits /\ SignalFits /\ CPPFits /\ (~mixed => MachFits /\ CaptureFits)
  BY DEF SetupInv
<1>m. mixed' \in BOOLEAN /\ (~mixed' => at = 0) /\ event = "none"
  BY <1>1, BeginsFacts DEF TypeOK
<1>2. TypeOK'
  <2>1. installed' \in BOOLEAN /\ monitoring' \subseteq Monitors /\ calls' \in 0..Calls
    BY <1>m, <1>1 DEF TypeOK
  <2>2. wanted' \subseteq Monitors /\ gathered' \subseteq Monitors /\ active' \subseteq Monitors
    BY <1>m, <1>1 DEF TypeOK
  <2>3. at' \in 0..7 /\ step' \in Places
    BY <1>1 DEF TypeOK, Places
  <2>4. enabled' \subseteq Monitors \ {"nsexc"} /\ failed' \subseteq {"mach", "signal"}
    BY <1>m, <1>1 DEF TypeOK
  <2>5. /\ asyncSafety' \in BOOLEAN /\ mixed' \in BOOLEAN /\ allocated' \in BOOLEAN
        /\ savedPorts' \in BOOLEAN /\ primaryKnown' \in BOOLEAN
    BY <1>m, <1>1 DEF TypeOK
  <2>6. /\ ports' \in {"original", "ours"} /\ terminate' \in {"original", "ours"}
        /\ primary' \in {"none", "waiting", "busy"} /\ secondary' \in {"none", "asleep", "awake"}
    BY <1>m, <1>1 DEF TypeOK
  <2>7. /\ handlerOf' \in [Signals -> {"original", "ours", "junk"}]
        /\ savedHandler' \in [Signals -> {"original", "ours", "junk", "unset"}]
    BY <1>m, <1>1 DEF TypeOK
  <2>8. /\ event' \in {"none", "queued", "raised", "handling", "dead"}
        /\ handler' \in Hooking \cup {"none"} /\ captures' \in Nat
    BY <1>1 DEF TypeOK, Hooking
  <2> QED
    BY <2>1, <2>2, <2>3, <2>4, <2>5, <2>6, <2>7, <2>8 DEF TypeOK
<1>3. LoopFits'
  BY <1>m, <1>1, BeforeFacts DEF LoopFits, TypeOK
<1>4. SignalFits'
  BY <1>1 DEF SignalFits, TypeOK
<1>5. CPPFits'
  BY <1>1 DEF CPPFits, TypeOK
<1>6. ~mixed' => MachFits'
  BY <1>m, <1>1 DEF MachFits, LoopFits, CaptureFits, TypeOK
<1>7. ~mixed' => CaptureFits'
  BY <1>m, <1>1 DEF CaptureFits, LoopFits, SignalFits, TypeOK
<1> QED
  BY <1>2, <1>3, <1>4, <1>5, <1>6, <1>7 DEF SetupInv

LEMMA ReceiveKeeps ==
    ASSUME SetupInv, Receive PROVE SetupInv'
<1> USE OrderFacts DEF Receive, Captured, RestorePorts, Free, vars, loop,
                      client, mach, signals, capture
<1>1. TypeOK /\ LoopFits /\ SignalFits /\ CPPFits /\ (~mixed => MachFits /\ CaptureFits)
  BY DEF SetupInv
<1>2. TypeOK'
  <2>1. installed' \in BOOLEAN /\ monitoring' \subseteq Monitors /\ calls' \in 0..Calls
    BY <1>1 DEF TypeOK
  <2>2. wanted' \subseteq Monitors /\ gathered' \subseteq Monitors /\ active' \subseteq Monitors
    BY <1>1 DEF TypeOK
  <2>3. at' \in 0..7 /\ step' \in Places
    BY <1>1 DEF TypeOK, Places
  <2>4. enabled' \subseteq Monitors \ {"nsexc"} /\ failed' \subseteq {"mach", "signal"}
    BY <1>1 DEF TypeOK
  <2>5. /\ asyncSafety' \in BOOLEAN /\ mixed' \in BOOLEAN /\ allocated' \in BOOLEAN
        /\ savedPorts' \in BOOLEAN /\ primaryKnown' \in BOOLEAN
    BY <1>1 DEF TypeOK
  <2>6. /\ ports' \in {"original", "ours"} /\ terminate' \in {"original", "ours"}
        /\ primary' \in {"none", "waiting", "busy"} /\ secondary' \in {"none", "asleep", "awake"}
    BY <1>1 DEF TypeOK
  <2>7. /\ handlerOf' \in [Signals -> {"original", "ours", "junk"}]
        /\ savedHandler' \in [Signals -> {"original", "ours", "junk", "unset"}]
    BY <1>1 DEF TypeOK
  <2>8. /\ event' \in {"none", "queued", "raised", "handling", "dead"}
        /\ handler' \in Hooking \cup {"none"} /\ captures' \in Nat
    BY <1>1 DEF TypeOK, Hooking
  <2> QED
    BY <2>1, <2>2, <2>3, <2>4, <2>5, <2>6, <2>7, <2>8 DEF TypeOK
<1>3. LoopFits'
  BY <1>1, BeforeFacts DEF LoopFits, TypeOK
<1>4. SignalFits'
  BY <1>1 DEF SignalFits, TypeOK
<1>5. CPPFits'
  BY <1>1 DEF CPPFits, TypeOK
<1>6. ~mixed' => MachFits'
  BY <1>1 DEF MachFits, LoopFits, CaptureFits, TypeOK
<1>7. ~mixed' => CaptureFits'
  BY <1>1 DEF CaptureFits, LoopFits, SignalFits, TypeOK
<1> QED
  BY <1>2, <1>3, <1>4, <1>5, <1>6, <1>7 DEF SetupInv

LEMMA ReplyOnlyKeeps ==
    ASSUME SetupInv, ReplyOnly PROVE SetupInv'
<1> USE OrderFacts DEF ReplyOnly, Free, vars, loop, client, mach, signals,
                      capture
<1>1. TypeOK /\ LoopFits /\ SignalFits /\ CPPFits /\ (~mixed => MachFits /\ CaptureFits)
  BY DEF SetupInv
<1>2. TypeOK'
  BY <1>1 DEF TypeOK
<1>3. LoopFits'
  BY <1>1, BeforeFacts DEF LoopFits, TypeOK
<1>4. SignalFits'
  BY <1>1 DEF SignalFits, TypeOK
<1>5. CPPFits'
  BY <1>1 DEF CPPFits, TypeOK
<1>6. ~mixed' => MachFits'
  BY <1>1 DEF MachFits, LoopFits, CaptureFits, TypeOK
<1>7. ~mixed' => CaptureFits'
  BY <1>1 DEF CaptureFits, LoopFits, SignalFits, TypeOK
<1> QED
  BY <1>2, <1>3, <1>4, <1>5, <1>6, <1>7 DEF SetupInv

LEMMA TakeSignalKeeps ==
    ASSUME SetupInv, TakeSignal PROVE SetupInv'
<1> USE OrderFacts DEF TakeSignal, Captured, Free, vars, loop, client, mach,
                      signals, capture
<1>1. TypeOK /\ LoopFits /\ SignalFits /\ CPPFits /\ (~mixed => MachFits /\ CaptureFits)
  BY DEF SetupInv
<1>2. TypeOK'
  <2>1. installed' \in BOOLEAN /\ monitoring' \subseteq Monitors /\ calls' \in 0..Calls
    BY <1>1 DEF TypeOK
  <2>2. wanted' \subseteq Monitors /\ gathered' \subseteq Monitors /\ active' \subseteq Monitors
    BY <1>1 DEF TypeOK
  <2>3. at' \in 0..7 /\ step' \in Places
    BY <1>1 DEF TypeOK, Places
  <2>4. enabled' \subseteq Monitors \ {"nsexc"} /\ failed' \subseteq {"mach", "signal"}
    BY <1>1 DEF TypeOK
  <2>5. /\ asyncSafety' \in BOOLEAN /\ mixed' \in BOOLEAN /\ allocated' \in BOOLEAN
        /\ savedPorts' \in BOOLEAN /\ primaryKnown' \in BOOLEAN
    BY <1>1 DEF TypeOK
  <2>6. /\ ports' \in {"original", "ours"} /\ terminate' \in {"original", "ours"}
        /\ primary' \in {"none", "waiting", "busy"} /\ secondary' \in {"none", "asleep", "awake"}
    BY <1>1 DEF TypeOK
  <2>7. /\ handlerOf' \in [Signals -> {"original", "ours", "junk"}]
        /\ savedHandler' \in [Signals -> {"original", "ours", "junk", "unset"}]
    BY <1>1 DEF TypeOK
  <2>8. /\ event' \in {"none", "queued", "raised", "handling", "dead"}
        /\ handler' \in Hooking \cup {"none"} /\ captures' \in Nat
    BY <1>1 DEF TypeOK, Hooking
  <2> QED
    BY <2>1, <2>2, <2>3, <2>4, <2>5, <2>6, <2>7, <2>8 DEF TypeOK
<1>3. LoopFits'
  BY <1>1, BeforeFacts DEF LoopFits, TypeOK
<1>4. SignalFits'
  BY <1>1 DEF SignalFits, TypeOK
<1>5. CPPFits'
  BY <1>1 DEF CPPFits, TypeOK
<1>6. ~mixed' => MachFits'
  BY <1>1 DEF MachFits, LoopFits, CaptureFits, TypeOK
<1>7. ~mixed' => CaptureFits'
  BY <1>1 DEF CaptureFits, LoopFits, SignalFits, TypeOK
<1> QED
  BY <1>2, <1>3, <1>4, <1>5, <1>6, <1>7 DEF SetupInv

LEMMA PassOnKeeps ==
    ASSUME SetupInv, PassOn PROVE SetupInv'
<1> USE OrderFacts DEF PassOn, DisarmAll, Uninstall, RestorePorts,
                      RestoreSignals, Free, vars, loop, client, mach, signals,
                      capture
<1>1. TypeOK /\ LoopFits /\ SignalFits /\ CPPFits /\ (~mixed => MachFits /\ CaptureFits)
  BY DEF SetupInv
<1>2. TypeOK'
  BY <1>1 DEF TypeOK
<1>3. LoopFits'
  BY <1>1, BeforeFacts DEF LoopFits, TypeOK
<1>4. SignalFits'
  BY <1>1 DEF SignalFits, TypeOK
<1>5. CPPFits'
  BY <1>1 DEF CPPFits, TypeOK
<1>6. ~mixed' => MachFits'
  BY <1>1 DEF MachFits, LoopFits, CaptureFits, TypeOK
<1>7. ~mixed' => CaptureFits'
  BY <1>1 DEF CaptureFits, LoopFits, SignalFits, TypeOK
<1> QED
  BY <1>2, <1>3, <1>4, <1>5, <1>6, <1>7 DEF SetupInv

(* Every step keeps the invariant.                                           *)
LEMMA SetupStep ==
    ASSUME SetupInv, [Next]_vars PROVE SetupInv'
<1>1. CASE ClientStep
  <2>1. CASE Install
    BY <2>1, InstallKeeps
  <2>2. CASE SetMonitoring
    BY <2>2, SetMonitoringKeeps
  <2>3. CASE \E m \in Monitors : Skip(m) \/ SetFlag(m)
    BY <2>3, SkipKeeps, SetFlagKeeps
  <2>4. CASE EnableCPP \/ DisableCPP
    BY <2>4, EnableCPPKeeps, DisableCPPKeeps
  <2>5. CASE EnableSignal \/ DisableSignal
    BY <2>5, EnableSignalKeeps, DisableSignalKeeps
  <2>6. CASE EnableMach \/ SavePorts \/ AllocatePort \/ SetPorts
    BY <2>6, EnableMachKeeps, SavePortsKeeps, AllocatePortKeeps, SetPortsKeeps
  <2>7. CASE CreateSecondary \/ CreatePrimary \/ StorePrimary
    BY <2>7, CreateSecondaryKeeps, CreatePrimaryKeeps, StorePrimaryKeeps
  <2>8. CASE DisableMach \/ Unhook
    BY <2>8, DisableMachKeeps, UnhookKeeps
  <2> QED
    BY <1>1, <2>1, <2>2, <2>3, <2>4, <2>5, <2>6, <2>7, <2>8 DEF ClientStep
<1>2. CASE EventStep
  BY <1>2, FaultKeeps, ThrowKeeps, ReceiveKeeps, ReplyOnlyKeeps, TakeSignalKeeps, PassOnKeeps
     DEF EventStep
<1>3. CASE UNCHANGED vars
  <2>1. UNCHANGED <<loop, client, mach, signals, capture, terminate, enabled, failed,
                    asyncSafety>>
    BY <1>3 DEF vars
  <2>2. TypeOK' <=> TypeOK
    BY <2>1 DEF TypeOK, loop, client, mach, signals, capture
  <2>3. (LoopFits' <=> LoopFits) /\ (SignalFits' <=> SignalFits) /\ (CPPFits' <=> CPPFits)
    BY <2>1 DEF LoopFits, SignalFits, CPPFits, loop, client, mach, signals, capture
  <2>4. (MachFits' <=> MachFits) /\ (CaptureFits' <=> CaptureFits) /\ mixed' = mixed
    BY <2>1 DEF MachFits, CaptureFits, loop, client, mach, signals, capture
  <2> QED
    BY <2>2, <2>3, <2>4 DEF SetupInv
<1> QED
  BY <1>1, <1>2, <1>3 DEF Next

(* At all times the flags, the handlers of the process and the place in the  *)
(* loop fit together, until a handler's disarming meets a call that runs.    *)
THEOREM SetupInvariant == Spec => []SetupInv
<1>1. Init => SetupInv
  <2> SUFFICES ASSUME Init PROVE SetupInv
    OBVIOUS
  <2>1. TypeOK
    <3>1. Calls \in Nat /\ Len(Order) = 7
      BY SetupAssumption, OrderFacts
    <3>2. /\ handlerOf \in [Signals -> {"original", "ours", "junk"}]
          /\ savedHandler \in [Signals -> {"original", "ours", "junk", "unset"}]
      BY DEF Init
    <3>3. /\ installed \in BOOLEAN /\ monitoring \subseteq Monitors /\ captures \in Nat
      BY DEF Init
    <3>4. calls \in 0..Calls /\ at \in 0..Len(Order)
      <4>1. calls = 0 /\ at = 0
        BY DEF Init
      <4> QED
        BY <3>1, <4>1
    <3> QED
      BY <3>2, <3>3, <3>4 DEF Init, TypeOK, Places, Hooking
  <2>2. LoopFits /\ SignalFits /\ CPPFits
    BY DEF Init, LoopFits, SignalFits, CPPFits
  <2>3. MachFits /\ CaptureFits
    BY DEF Init, MachFits, CaptureFits
  <2> QED
    BY <2>1, <2>2, <2>3 DEF SetupInv
<1> QED
  BY <1>1, SetupStep, PTL DEF Spec

(* The types hold, and installations fail only where the code calls the      *)
(* kernel.                                                                   *)
THEOREM SetupTypes == Spec => []TypeOK
<1>1. SetupInv => TypeOK
  BY DEF SetupInv
<1> QED
  BY <1>1, SetupInvariant, PTL

(* Whatever sequence of calls the client makes, and whichever of them the    *)
(* kernel refuses, a monitor that is disabled or could not be installed has  *)
(* left no handler, port or table entry of its own behind.                   *)
THEOREM NothingLeftBehind == Spec => []HandlersPutBack
<1>1. SetupInv => HandlersPutBack
  <2> SUFFICES ASSUME SetupInv, ~mixed, NEW m \in Hooking, m \notin enabled \/ m \in failed,
                      ~(m = "mach" /\ step = "unhook")
               PROVE  Untouched(m)
    BY DEF HandlersPutBack
  <2>1. CASE m = "mach"
    <3>1. MachFits /\ step \in Places
      BY DEF SetupInv, TypeOK
    <3>2. step = "none"
      BY <2>1, <3>1 DEF MachFits, Places
    <3> QED
      BY <2>1, <3>1, <3>2 DEF MachFits, Untouched
  <2>2. CASE m = "signal"
    BY <2>2 DEF SetupInv, SignalFits, Untouched
  <2>3. CASE m = "cpp"
    BY <2>3 DEF SetupInv, CPPFits, TypeOK, Untouched
  <2> QED
    BY <2>1, <2>2, <2>3 DEF Hooking
<1> QED
  BY <1>1, SetupInvariant, PTL

(* When crasheecm_setActiveMonitors has returned, exactly the monitors it    *)
(* counts as active are installed, but for those whose installation failed.  *)
THEOREM ActiveAreInstalled == Spec => []ActiveInstalled
<1>1. SetupInv => ActiveInstalled
  <2> SUFFICES ASSUME SetupInv, ~mixed, at = 0, event # "handling", NEW m \in Hooking
               PROVE  IF m \in active THEN Hooked(m) \/ m \in failed ELSE Untouched(m)
    BY DEF ActiveInstalled
  <2>1. active = enabled /\ step = "none" /\ MachFits /\ handler = "none"
    BY DEF SetupInv, LoopFits, CaptureFits
  <2>2. CASE m = "mach"
    BY <2>1, <2>2 DEF MachFits, Hooked, Untouched
  <2>3. CASE m = "signal"
    BY <2>1, <2>3 DEF SetupInv, SignalFits, Hooked, Untouched
  <2>4. CASE m = "cpp"
    BY <2>1, <2>4 DEF SetupInv, CPPFits, TypeOK, Hooked, Untouched
  <2> QED
    BY <2>2, <2>3, <2>4 DEF Hooking
<1> QED
  BY <1>1, SetupInvariant, PTL

(* While handleExceptions reads the crashed program, a fault of its own      *)
(* finds the original ports or an awake secondary thread.                    *)
THEOREM NestedFaultIsFound == Spec => []NestedFaultFound
<1>1. SetupInv => NestedFaultFound
  <2> SUFFICES ASSUME SetupInv, ~mixed, handler = "mach"
               PROVE  ports = "original" \/ secondary = "awake"
    BY DEF NestedFaultFound
  <2>1. event = "handling" /\ at = 0 /\ step = "none" /\ MachFits
    BY DEF SetupInv, CaptureFits, LoopFits
  <2> QED
    BY <2>1 DEF MachFits
<1> QED
  BY <1>1, SetupInvariant, PTL

(* An event that meets no call of crasheecm_setActiveMonitors is captured    *)
(* once at most: the monitors are all off before it is passed on.            *)
THEOREM EventIsCapturedOnce == Spec => []CapturedOnce
<1>1. SetupInv => CapturedOnce
  BY DEF SetupInv, TypeOK, CaptureFits, CapturedOnce
<1> QED
  BY <1>1, SetupInvariant, PTL
=============================================================================
