------------------------- MODULE ReportStore_proofs -------------------------
(* Proofs about ReportStore, for any number of clients,                      *)
(* launches and reports: base IDs of different seconds are apart, the low    *)
(* word does not wrap before the last ID of a launch, so IDs ascend over all *)
(* launches, and no report file is ever created where one exists.  The       *)
(* sorted array has the oldest reports in front, which a prune deletes.      *)
(* And proofs about Upload, which reads the store: a request carries what    *)
(* its call saw, so that a client which deletes all reports on success loses *)
(* none that it sent.                                                        *)
EXTENDS ReportStore, Upload, FiniteSetTheorems, SequenceTheorems,
        WellFoundedInduction, TLAPS

(* The fields of a time as numbers.                                          *)
LEMMA TimeFields ==
    ASSUME NEW f \in Time
    PROVE  /\ f.sec \in Int /\ f.min \in Int /\ f.hour \in Int
           /\ f.yday \in Int /\ f.year \in Int
           /\ 0 <= f.sec /\ f.sec <= 60
           /\ 0 <= f.min /\ f.min <= 59
           /\ 0 <= f.hour /\ f.hour <= 23
           /\ 0 <= f.yday /\ f.yday <= 365
           /\ 0 <= f.year
  BY DEF Time

(* The weights of the fields, multiplied out.                                *)
LEMMA TimeCodeLinear ==
    ASSUME NEW f \in Time
    PROVE  TimeCode(f) = f.sec + 61 * f.min + 3660 * f.hour + 87840 * f.yday
                            + 32149440 * f.year
  BY TimeFields DEF TimeCode

(* A later time has a larger code (initializeIDs), leap years included.      *)
LEMMA TimeCodeGrows ==
    ASSUME NEW f \in Time, NEW g \in Time, Before(f, g)
    PROVE  TimeCode(f) + 1 <= TimeCode(g)
  BY TimeFields, TimeCodeLinear DEF Before

(* Codes are natural numbers.                                                *)
LEMMA TimeCodeNat ==
    ASSUME NEW f \in Time
    PROVE  TimeCode(f) \in Nat
  BY TimeFields, TimeCodeLinear

(* Multiplying by the shift spreads the codes that far apart.                *)
LEMMA Spread ==
    ASSUME NEW a \in Nat, NEW b \in Nat, NEW k \in Nat, a + 1 <= b
    PROVE  a * k + k <= b * k /\ a * k \in Nat /\ b * k \in Nat
<1> DEFINE d == b - a - 1
<1>1. d \in Nat /\ b = a + 1 + d
  OBVIOUS
<1>2. b * k = a * k + k + d * k
  BY <1>1
<1>3. d * k \in Nat /\ a * k \in Nat
  BY <1>1
<1> HIDE DEF d
<1> QED
  BY <1>2, <1>3

(* Base IDs of two seconds leave room for IDsPerSecond IDs between them.     *)
LEMMA BaseIDsApart ==
    ASSUME NEW i \in 1..Len(Instants), NEW j \in 1..Len(Instants), i < j
    PROVE  BaseID(i) + IDsPerSecond <= BaseID(j)
<1>1. Instants[i] \in Time /\ Instants[j] \in Time /\ Before(Instants[i], Instants[j])
  BY InstantsAssumption
<1>2. TimeCode(Instants[i]) + 1 <= TimeCode(Instants[j])
  BY <1>1, TimeCodeGrows
<1>3. TimeCode(Instants[i]) \in Nat /\ TimeCode(Instants[j]) \in Nat
  BY <1>1, TimeCodeNat
<1> QED
  BY <1>2, <1>3, Spread, StoreAssumption DEF BaseID

(* What remains of a division.                                               *)
LEMMA Division ==
    ASSUME NEW n \in Nat, NEW m \in Nat \ {0}
    PROVE  /\ n \div m \in Nat
           /\ n % m \in 0..(m - 1)
           /\ n = m * (n \div m) + (n % m)
           /\ n % m <= n
<1>1. n % m \in 0..(m - 1) /\ n = m * (n \div m) + (n % m)
  OBVIOUS
<1>2. n \div m \in Nat
  OBVIOUS
<1>3. m * (n \div m) \in Nat
  BY <1>2
<1> QED
  BY <1>1, <1>2, <1>3

(* A multiple of k below a multiple of k is at least k below it.             *)
LEMMA RoomInSpan ==
    ASSUME NEW t \in Nat, NEW k \in Nat \ {0}, NEW s \in Nat \ {0}
    PROVE  /\ (t * k) % (k * s) \in 0..(k * s - 1)
           /\ ((t * k) % (k * s)) + k <= k * s
<1> DEFINE m == k * s
           n == t * k
           q == n \div m
           r == n % m
           d == t - s * q
<1>1. m \in Nat \ {0} /\ n \in Nat
  OBVIOUS
<1>2. q \in Nat /\ r \in 0..(m - 1) /\ n = m * q + r
  BY <1>1, Division
<1>3. d \in Int /\ r = k * d
  BY <1>2
<1>4. d < s
  <2> SUFFICES ASSUME d >= s PROVE FALSE
    BY <1>3
  <2>1. PICK e \in Nat : d = s + e
    BY <1>3
  <2>2. k * d = k * s + k * e /\ k * e \in Nat
    BY <2>1
  <2> QED
    BY <1>2, <1>3, <2>2
<1> HIDE DEF d
<1>5. PICK e \in Nat : s = d + 1 + e
  <2>1. s - d - 1 \in Nat /\ s = d + 1 + (s - d - 1)
    BY <1>3, <1>4
  <2> QED
    BY <2>1
<1>6. k * s = k * d + k + k * e /\ k * e \in Nat
  BY <1>3, <1>5
<1> QED
  BY <1>2, <1>3, <1>6

(* The low word of a base ID has room for all IDs of a launch.               *)
LEMMA LowRoom ==
    ASSUME NEW c \in 1..Len(Instants)
    PROVE  /\ BaseID(c) \in Nat
           /\ LowSpan \in Nat \ {0}
           /\ BaseID(c) % LowSpan \in 0..(LowSpan - 1)
           /\ (BaseID(c) % LowSpan) + IDsPerSecond <= LowSpan
           /\ BaseID(c) - (BaseID(c) % LowSpan) \in Nat
<1>1. TimeCode(Instants[c]) \in Nat
  BY TimeCodeNat, InstantsAssumption
<1>2. BaseID(c) \in Nat /\ LowSpan \in Nat \ {0}
  BY <1>1, StoreAssumption DEF BaseID, LowSpan
<1>3. /\ BaseID(c) % LowSpan \in 0..(LowSpan - 1)
      /\ (BaseID(c) % LowSpan) + IDsPerSecond <= LowSpan
  BY <1>1, RoomInSpan, StoreAssumption DEF BaseID, LowSpan
<1>4. BaseID(c) % LowSpan <= BaseID(c)
  BY <1>2, Division
<1> QED
  BY <1>2, <1>3, <1>4

-----------------------------------------------------------------------------
(* The invariant, step by step.                                              *)

(* While the process is up the next ID is the base plus the IDs handed out:  *)
(* above all the others.                                                     *)
LEMMA NextIsAhead ==
    ASSUME StoreInv, stage = "up", claims < IDsPerSecond
    PROVE  /\ NextID = BaseID(launchTime) + claims
           /\ NextID \in Nat
           /\ NextID > lastID
           /\ low + 1 <= LowSpan
<1>1. launchTime \in 1..Len(Instants)
  BY DEF StoreInv, IDTypes, CountsFromBase
<1>2. BaseID(launchTime) \in Nat /\ BaseID(launchTime) % LowSpan \in Nat
  BY <1>1, LowRoom
<1>3. claims \in Nat /\ lastID \in Int /\ low \in Nat /\ LowSpan \in Nat
  BY <1>1, LowRoom DEF StoreInv, IDTypes, LowSpan
<1>4. NextID = BaseID(launchTime) + claims
  BY <1>2, <1>3 DEF StoreInv, CountsFromBase, NextID
<1>5. NextID > lastID
  BY <1>1, <1>2, <1>3, <1>4 DEF StoreInv, LaunchesApart
<1>6. low + 1 <= LowSpan
  BY <1>3 DEF StoreInv, IDTypes
<1> QED
  BY <1>2, <1>3, <1>4, <1>5, <1>6

(* Taking an ID keeps the words in step with the count.                      *)
LEMMA TakeKeeps ==
    ASSUME StoreInv, NEW t \in Threads, TakeID(t), Running(t),
           t = Handler => pc[t] = "claim",
           UNCHANGED <<clock, stage, launchTime, high>>,
           pc' \in [Threads -> Phases],
           t # Handler => pc'[Handler] = pc[Handler],
           t = Handler => pc'[Handler] = "open"
    PROVE  /\ claims < IDsPerSecond
           /\ lastID' = NextID /\ lastID' > lastID /\ lastID' \in Nat
           /\ reportID' = [reportID EXCEPT ![t] = lastID']
           /\ claims' \in 0..IDsPerSecond /\ low' \in 0..(LowSpan - 1)
           /\ CountsFromBase'
           /\ LaunchesApart'
<1>1. stage = "up" /\ claims \in Nat /\ IDsPerSecond \in Nat \ {0}
  BY StoreAssumption DEF Running, StoreInv, IDTypes
<1>2. claims < IDsPerSecond
  BY <1>1 DEF TakeID, StoreInv, CountsFromBase
<1>3. /\ NextID = BaseID(launchTime) + claims
      /\ NextID \in Nat /\ NextID > lastID /\ low + 1 <= LowSpan
  BY <1>1, <1>2, NextIsAhead
<1>4. launchTime \in 1..Len(Instants)
  BY <1>1 DEF StoreInv, IDTypes, CountsFromBase
<1> DEFINE base == BaseID(launchTime) % LowSpan
<1>5. /\ BaseID(launchTime) \in Nat /\ base \in Nat /\ LowSpan \in Nat \ {0}
      /\ base + IDsPerSecond <= LowSpan
  BY <1>4, LowRoom
<1>6. low = base + claims
  BY <1>1, <1>2 DEF StoreInv, CountsFromBase
<1>7. high = BaseID(launchTime) - base
  BY <1>1 DEF StoreInv, CountsFromBase
<1>8. BaseID(launchTime)' = BaseID(launchTime) /\ LowSpan' = LowSpan
  BY DEF BaseID, LowSpan
<1>9. claims' = claims + 1 /\ lastID' = NextID /\ low' = (low + 1) % LowSpan
      /\ reportID' = [reportID EXCEPT ![t] = NextID]
  BY DEF TakeID
<1> HIDE DEF base
<1>10. low' \in 0..(LowSpan - 1)
  BY <1>5, <1>6, <1>9, <1>1, Division
<1>11. claims' < IDsPerSecond => low' = base + claims'
  <2> SUFFICES ASSUME claims' < IDsPerSecond PROVE low' = base + claims'
    OBVIOUS
  <2>1. low + 1 \in Nat /\ low + 1 < LowSpan
    BY <1>1, <1>5, <1>6, <1>9
  <2>2. (low + 1) % LowSpan = low + 1
    BY <2>1, <1>5
  <2> QED
    BY <1>1, <1>5, <1>6, <1>9, <2>2
<1>12. pc'[Handler] \in {"idle", "claim"} => claims' < IDsPerSecond
  BY <1>1, <1>9 DEF TakeID
<1>13. CountsFromBase'
  BY <1>4, <1>7, <1>8, <1>11, <1>12 DEF CountsFromBase, base
<1>14. LaunchesApart'
  BY <1>1, <1>3, <1>4, <1>5, <1>8, <1>9 DEF LaunchesApart
<1> QED
  BY <1>1, <1>2, <1>3, <1>9, <1>10, <1>13, <1>14

(* A step of thread t that hands out no ID: it may create the file it works  *)
(* on, or remove any, and goes to no new report.                             *)
Hands == {"idle", "claim"}
Own(t) == IF pc[t] \in Working THEN {reportID[t]} ELSE {}

WorksOn(t) ==
    /\ stage = "up"
    /\ UNCHANGED <<clock, stage, ids>>
    /\ pc' \in [Threads -> Phases]
    /\ reportID' \in [Threads -> Nat]
    /\ \A u \in Threads \ {t} : pc'[u] = pc[u] /\ reportID'[u] = reportID[u]
    /\ DOMAIN reports' \subseteq DOMAIN reports \cup Own(t)
    /\ old' \subseteq old \cup Own(t)
    /\ pc'[t] \in Working => pc[t] \in Working /\ reportID'[t] = reportID[t]
    /\ pc'[t] \in Opening => reportID[t] \notin DOMAIN reports'
    /\ t = Handler /\ pc'[t] \in Hands => pc[t] \in Hands

(* Such a step keeps the invariant.                                          *)
LEMMA WorkKeeps ==
    ASSUME StoreInv, NEW t \in Threads, WorksOn(t)
    PROVE  StoreInv'
<1> USE DEF StoreInv
<1>0. Own(t) \subseteq Nat /\ \A id \in Own(t) : id <= lastID
  BY DEF Own, IDTypes, NothingAhead
<1>1. IDTypes'
  BY <1>0 DEF IDTypes, WorksOn, ids, LowSpan
<1>2. BaseID(launchTime)' = BaseID(launchTime) /\ LowSpan' = LowSpan
  BY DEF WorksOn, ids, BaseID, LowSpan
<1>3. CountsFromBase'
  <2>1. pc'[Handler] \in Hands => pc[Handler] \in Hands
    BY DEF WorksOn, Threads
  <2> QED
    BY <1>2, <2>1 DEF CountsFromBase, WorksOn, ids, Hands
<1>4. LaunchesApart'
  BY <1>2 DEF LaunchesApart, WorksOn, ids
<1>5. NothingAhead'
  BY <1>0 DEF NothingAhead, WorksOn, ids
<1>6. OpensNewFile'
  <2> SUFFICES ASSUME NEW u \in Threads, pc'[u] \in Opening
               PROVE  reportID'[u] \notin DOMAIN reports'
    BY DEF OpensNewFile, Opening
  <2>1. CASE u = t
    BY <2>1 DEF WorksOn, Opening, Working, Recrashing
  <2>2. CASE u # t
    <3>1. pc[u] \in Opening /\ pc[u] \in Working /\ reportID'[u] = reportID[u]
      BY <2>2 DEF WorksOn, Opening, Working, Recrashing
    <3>2. reportID[u] \notin DOMAIN reports
      BY <3>1 DEF OpensNewFile
    <3>3. reportID[u] \notin Own(t)
      BY <2>2, <3>1 DEF OwnReports, Own
    <3> QED
      BY <3>1, <3>2, <3>3 DEF WorksOn
  <2> QED
    BY <2>1, <2>2
<1>7. OwnReports'
  <2> SUFFICES ASSUME NEW u \in Threads, NEW v \in Threads, u # v,
                      pc'[u] \in Working, pc'[v] \in Working
               PROVE  reportID'[u] # reportID'[v]
    BY DEF OwnReports, Working, Recrashing
  <2>1. \A w \in Threads : pc'[w] \in Working =>
            pc[w] \in Working /\ reportID'[w] = reportID[w]
    BY DEF WorksOn
  <2> QED
    BY <2>1 DEF OwnReports
<1> QED
  BY <1>1, <1>3, <1>4, <1>5, <1>6, <1>7

(* A claim of an ID keeps it: the ID is ahead of every file and thread.      *)
LEMMA ClaimKeeps ==
    ASSUME StoreInv, NEW t \in Threads, TakeID(t), Running(t), pc[t] \notin Working,
           t = Handler => pc[t] = "claim",
           NEW p \in {"open", "addOpen"}, t = Handler => p = "open",
           pc' = [pc EXCEPT ![t] = p],
           UNCHANGED <<clock, stage, launchTime, high, disk>>
    PROVE  StoreInv'
<1> USE DEF StoreInv
<1>0. pc \in [Threads -> Phases] /\ reportID \in [Threads -> Nat] /\ Handler \in Threads
  BY DEF IDTypes, Threads
<1>1. pc' \in [Threads -> Phases] /\ pc'[t] = p
      /\ \A u \in Threads \ {t} : pc'[u] = pc[u]
  BY <1>0 DEF Phases, Locked, Writing
<1>2. /\ lastID' > lastID /\ lastID' \in Nat /\ lastID \in Int
      /\ reportID' = [reportID EXCEPT ![t] = lastID']
      /\ claims' \in 0..IDsPerSecond /\ low' \in 0..(LowSpan - 1)
      /\ CountsFromBase' /\ LaunchesApart'
  BY <1>0, <1>1, TakeKeeps DEF IDTypes
<1>3. /\ reportID'[t] = lastID'
      /\ \A u \in Threads \ {t} : reportID'[u] = reportID[u]
      /\ reportID' \in [Threads -> Nat]
  BY <1>0, <1>2
<1>4. IDTypes'
  BY <1>1, <1>2, <1>3 DEF IDTypes, disk, LowSpan
<1>5. NothingAhead'
  <2>1. \A id \in DOMAIN reports' \cup old' : id <= lastID'
    <3> SUFFICES ASSUME NEW id \in DOMAIN reports \cup old PROVE id <= lastID'
      BY DEF disk
    <3>1. id \in Nat /\ id <= lastID
      BY DEF NothingAhead, IDTypes
    <3> QED
      BY <1>2, <3>1
  <2>2. \A u \in Threads : pc'[u] \in Working => reportID'[u] <= lastID'
    BY <1>0, <1>1, <1>2, <1>3 DEF NothingAhead
  <2> QED
    BY <2>1, <2>2 DEF NothingAhead, Running
<1>6. OpensNewFile'
  <2>1. lastID' \notin DOMAIN reports
    BY <1>2 DEF NothingAhead, IDTypes
  <2> QED
    BY <1>1, <1>3, <2>1 DEF OpensNewFile, disk
<1>7. OwnReports'
  <2>1. \A u \in Threads \ {t} : pc'[u] \in Working => reportID'[u] < lastID'
    BY <1>0, <1>1, <1>2, <1>3 DEF NothingAhead
  <2> QED
    BY <1>0, <1>1, <1>2, <1>3, <2>1 DEF OwnReports
<1> QED
  BY <1>2, <1>4, <1>5, <1>6, <1>7

(* A step after which no thread is at work keeps it, if the IDs do.          *)
LEMMA IdleKeeps ==
    ASSUME StoreInv, IDTypes', CountsFromBase', LaunchesApart',
           DOMAIN reports' \subseteq DOMAIN reports, old' = old,
           lastID' = lastID,
           \A t \in Threads : pc'[t] = "idle"
    PROVE  StoreInv'
<1>1. NothingAhead'
  BY DEF StoreInv, NothingAhead, Working, Recrashing
<1>2. OpensNewFile' /\ OwnReports'
  BY DEF OpensNewFile, OwnReports, Opening, Working, Recrashing
<1> QED
  BY <1>1, <1>2 DEF StoreInv

(* The invariant holds before the first launch.                              *)
LEMMA StoreInit == Init => StoreInv
<1> SUFFICES ASSUME Init PROVE StoreInv
  OBVIOUS
<1>1. LowSpan \in Nat \ {0}
  BY StoreAssumption DEF LowSpan
<1>2. Len(Instants) \in Nat \ {0}
  BY InstantsAssumption
<1>3. DOMAIN reports = {}
  BY DEF Init
<1>4. IDTypes
  BY <1>1, <1>2, <1>3, StoreAssumption DEF Init, IDTypes, Phases
<1>5. CountsFromBase /\ LaunchesApart
  BY DEF Init, CountsFromBase, LaunchesApart
<1>6. NothingAhead
  BY <1>3 DEF Init, NothingAhead, Working, Recrashing
<1>7. OpensNewFile /\ OwnReports
  BY DEF Init, OpensNewFile, OwnReports, Opening, Working, Recrashing
<1> QED
  BY <1>4, <1>5, <1>6, <1>7 DEF StoreInv

(* The clock, launches, prunes and the end of the process keep it.           *)
LEMMA LaunchKeeps ==
    ASSUME StoreInv, Tick \/ Launch \/ PruneReport \/ InitializeIDs \/ Stop
    PROVE  StoreInv'
<1> USE DEF ids, disk, locals
<1>0. LowSpan \in Nat \ {0} /\ IDsPerSecond \in Nat \ {0}
  BY StoreAssumption DEF LowSpan
<1>1. CASE Tick
  <2>1. IDTypes' /\ CountsFromBase' /\ LaunchesApart'
    BY <1>1 DEF Tick, StoreInv, IDTypes, CountsFromBase, LaunchesApart, BaseID, LowSpan
  <2>2. NothingAhead' /\ OpensNewFile' /\ OwnReports'
    BY <1>1 DEF Tick, StoreInv, NothingAhead, OpensNewFile, OwnReports
  <2> QED
    BY <2>1, <2>2 DEF StoreInv
<1>2. CASE Launch
  <2>1. IDTypes' /\ CountsFromBase' /\ LaunchesApart'
    BY <1>2 DEF Launch, StoreInv, IDTypes, CountsFromBase, LaunchesApart, BaseID, LowSpan
  <2>2. \A t \in Threads : pc'[t] = "idle"
    BY <1>2 DEF Launch, StoreInv, NothingAhead
  <2> QED
    BY <1>2, <2>1, <2>2, IdleKeeps DEF Launch
<1>3. CASE PruneReport
  <2>1. DOMAIN reports' \subseteq DOMAIN reports
    BY <1>3 DEF PruneReport, WithoutReport
  <2>2. IDTypes' /\ CountsFromBase' /\ LaunchesApart'
    BY <1>3, <2>1 DEF PruneReport, StoreInv, IDTypes, CountsFromBase, LaunchesApart,
                      BaseID, LowSpan
  <2>3. \A t \in Threads : pc'[t] = "idle"
    BY <1>3 DEF PruneReport, StoreInv, NothingAhead
  <2> QED
    BY <1>3, <2>1, <2>2, <2>3, IdleKeeps DEF PruneReport
<1>4. CASE InitializeIDs
  <2> DEFINE base == BaseID(clock) % LowSpan
  <2>1. /\ clock \in 1..Len(Instants) /\ launchTime \in 0..clock /\ clock > launchTime
        /\ lastID \in Int /\ claims \in 0..IDsPerSecond
    BY <1>4 DEF InitializeIDs, StoreInv, IDTypes, LaunchesApart
  <2>2. /\ BaseID(clock) \in Nat /\ base \in 0..(LowSpan - 1)
        /\ BaseID(clock) - base \in Nat
    BY <2>1, LowRoom
  <2>3. lastID < BaseID(clock)
    <3>1. CASE launchTime = 0
      BY <2>2, <3>1 DEF StoreInv, LaunchesApart
    <3>2. CASE launchTime > 0
      <4>1. launchTime \in 1..Len(Instants)
        BY <2>1, <3>2
      <4>2. BaseID(launchTime) + IDsPerSecond <= BaseID(clock) /\ BaseID(launchTime) \in Nat
        BY <2>1, <4>1, BaseIDsApart, LowRoom
      <4>3. lastID < BaseID(launchTime) + claims
        BY <3>2 DEF StoreInv, LaunchesApart
      <4> QED
        BY <1>0, <2>1, <2>2, <4>2, <4>3
    <3> QED
      BY <2>1, <3>1, <3>2
  <2>4. BaseID(launchTime)' = BaseID(clock) /\ LowSpan' = LowSpan
    BY <1>4 DEF InitializeIDs, BaseID, LowSpan
  <2> HIDE DEF base
  <2>5. high' = BaseID(clock) - base /\ low' = base /\ claims' = 0 /\ launchTime' = clock
    BY <1>4 DEF InitializeIDs, base
  <2>6. IDTypes'
    BY <1>0, <1>4, <2>1, <2>2, <2>4, <2>5 DEF InitializeIDs, StoreInv, IDTypes
  <2>7. CountsFromBase'
    BY <1>0, <2>1, <2>2, <2>4, <2>5 DEF CountsFromBase, base
  <2>8. LaunchesApart'
    BY <1>4, <2>1, <2>2, <2>3, <2>4, <2>5 DEF InitializeIDs, LaunchesApart
  <2>9. \A t \in Threads : pc'[t] = "idle"
    BY <1>4 DEF InitializeIDs, StoreInv, NothingAhead
  <2> QED
    BY <1>4, <2>6, <2>7, <2>8, <2>9, IdleKeeps DEF InitializeIDs
<1>5. CASE Stop
  <2>1. \A t \in Threads : pc'[t] = "idle"
    BY <1>5 DEF Stop
  <2>2. pc' \in [Threads -> Phases] /\ reportID' \in [Threads -> Nat]
    BY <1>5 DEF Stop, Phases
  <2>3. IDTypes'
    BY <1>5, <2>2 DEF Stop, StoreInv, IDTypes, LowSpan
  <2>4. CountsFromBase' /\ LaunchesApart'
    BY <1>5 DEF Stop, StoreInv, CountsFromBase, LaunchesApart, BaseID
  <2> QED
    BY <1>5, <2>1, <2>3, <2>4, IdleKeeps DEF Stop
<1> QED
  BY <1>1, <1>2, <1>3, <1>4, <1>5

(* Every step of a captured event keeps the invariant ...                    *)
LEMMA CaptureKeeps ==
    ASSUME StoreInv, NEW t \in Threads, BeginReport(t) \/ CaptureStep(t) \/ Recrash(t)
    PROVE  StoreInv'
<1> USE DEF At, Goto, disk, locals
<1>0. pc \in [Threads -> Phases] /\ reportID \in [Threads -> Nat]
  BY DEF StoreInv, IDTypes
<1> USE <1>0
<1>1. CASE ClaimID(t)
  <2>1. pc[t] \notin Working
    BY <1>1 DEF ClaimID, Working, Recrashing
  <2> QED
    BY <1>1, <2>1, ClaimKeeps DEF ClaimID
<1>2. CASE Die(t)
  BY <1>2, LaunchKeeps DEF Die
<1>3. CASE BeginReport(t) \/ Recrash(t)
  <2>1. WorksOn(t)
    BY <1>3 DEF BeginReport, Recrash, WorksOn, Running, Phases, Writing, Recrashing,
                Working, Opening, Hands, Own
  <2> QED
    BY <2>1, WorkKeeps
<1>4. CASE OpenReport(t)
  <2>1. WorksOn(t)
    BY <1>4 DEF OpenReport, EndReport, WithReport, WorksOn, ids, Running, Phases,
                Writing, Recrashing, Working, Opening, Hands, Own
  <2> QED
    BY <2>1, WorkKeeps
<1>5. CASE WriteReport(t) \/ RewriteReport(t)
  <2>1. WorksOn(t)
    BY <1>5 DEF WriteReport, RewriteReport, EndReport, Rewritten, WithReport, WorksOn,
                ids, Running, Phases, Recrashing, Working, Opening, Hands, Own
  <2> QED
    BY <2>1, WorkKeeps
<1>6. CASE RenameReport(t)
  <2>1. WorksOn(t)
    BY <1>6 DEF RenameReport, WithoutReport, WorksOn, Running, Phases, Recrashing,
                Working, Opening, Hands, Own
  <2> QED
    BY <2>1, WorkKeeps
<1>7. CASE ReopenReport(t) \/ EmbedOld(t)
  <2>1. WorksOn(t)
    BY <1>7 DEF ReopenReport, EmbedOld, EndReport, Rewritten, WithReport, WorksOn,
                ids, Running, Phases, Recrashing, Working, Opening, Hands, Own
  <2> QED
    BY <2>1, WorkKeeps
<1>8. CASE RemoveOld(t)
  <2>1. WorksOn(t)
    BY <1>8 DEF RemoveOld, WorksOn, Running, Phases, Recrashing, Working, Opening,
                Hands, Own
  <2> QED
    BY <2>1, WorkKeeps
<1> QED
  BY <1>1, <1>2, <1>3, <1>4, <1>5, <1>6, <1>7, <1>8 DEF CaptureStep

(* ... and so does every step of an API call.                                *)
LEMMA ClientKeeps ==
    ASSUME StoreInv, NEW t \in Clients, ClientStep(t) \/ ClientCall(t)
    PROVE  StoreInv'
<1> USE DEF At, Goto, disk, locals
<1>0. /\ pc \in [Threads -> Phases] /\ reportID \in [Threads -> Nat]
      /\ t \in Threads /\ t # Handler
  BY StoreAssumption DEF StoreInv, IDTypes, Threads
<1> USE <1>0
<1>1. CASE AddUserReport(t)
  <2>1. pc[t] \notin Working
    BY <1>1 DEF AddUserReport, Working, Recrashing
  <2> QED
    BY <1>1, <2>1, ClaimKeeps DEF AddUserReport
<1>2. CASE AddOpen(t)
  <2>1. WorksOn(t)
    BY <1>2 DEF AddOpen, EndReport, WithReport, WorksOn, ids, Running, Phases, Locked,
                Recrashing, Working, Opening, Own
  <2> QED
    BY <2>1, WorkKeeps
<1>3. CASE AddWrite(t)
  <2>1. WorksOn(t)
    BY <1>3 DEF AddWrite, EndReport, Rewritten, WithReport, WorksOn, ids, Running,
                Phases, Recrashing, Working, Opening, Own
  <2> QED
    BY <2>1, WorkKeeps
<1>4. CASE GetReportIDs(t) \/ ReadReport(t) \/ CountReports(t) \/ DeleteAll(t)
  <2>1. WorksOn(t)
    BY <1>4 DEF GetReportIDs, ReadReport, CountReports, DeleteAll, WorksOn, Running,
                Phases, Locked, Recrashing, Working, Opening, Own
  <2> QED
    BY <2>1, WorkKeeps
<1>5. CASE DeleteNext(t) \/ DeleteReport(t)
  <2>1. WorksOn(t)
    BY <1>5 DEF DeleteNext, DeleteReport, WithoutReport, WorksOn, Running, Phases,
                Locked, Recrashing, Working, Opening, Own
  <2> QED
    BY <2>1, WorkKeeps
<1> QED
  BY <1>1, <1>2, <1>3, <1>4, <1>5 DEF ClientStep, ClientCall

(* A step that changes nothing keeps it.                                     *)
LEMMA StoreStutter ==
    ASSUME StoreInv, UNCHANGED vars
    PROVE  StoreInv'
<1> USE DEF vars, ids, disk, locals
<1>1. IDTypes' /\ CountsFromBase' /\ LaunchesApart'
  BY DEF StoreInv, IDTypes, CountsFromBase, LaunchesApart, BaseID, LowSpan
<1>2. NothingAhead' /\ OpensNewFile' /\ OwnReports'
  BY DEF StoreInv, NothingAhead, OpensNewFile, OwnReports
<1> QED
  BY <1>1, <1>2 DEF StoreInv

-----------------------------------------------------------------------------
(* The theorems.                                                             *)

(* The inductive invariant holds in every reachable state.                   *)
THEOREM StoreInvariant == Spec => []StoreInv
<1>1. StoreInv /\ [Next]_vars => StoreInv'
  <2> SUFFICES ASSUME StoreInv, [Next]_vars PROVE StoreInv'
    OBVIOUS
  <2>1. CASE UNCHANGED vars
    BY <2>1, StoreStutter
  <2>2. CASE Next
    BY <2>2, LaunchKeeps, CaptureKeeps, ClientKeeps DEF Next, Kill
  <2> QED
    BY <2>1, <2>2
<1> QED
  BY <1>1, StoreInit, PTL DEF Spec

(* For any number of clients and launches, no file is created over one that  *)
(* exists (crasheecrs_addUserReport has no O_EXCL to prevent it), as long as *)
(* launches fall in different seconds of a clock that does not go back and   *)
(* take at most IDsPerSecond IDs.                                            *)
THEOREM NewFilesAreNew == Spec => []OpensNewFile
<1>1. StoreInv => OpensNewFile
  BY DEF StoreInv
<1> QED
  BY <1>1, StoreInvariant, PTL

(* On the same terms two threads never work on one report file.              *)
THEOREM ReportsAreOwned == Spec => []OwnReports
<1>1. StoreInv => OwnReports
  BY DEF StoreInv
<1> QED
  BY <1>1, StoreInvariant, PTL

(* On the same terms an ID is larger than all the IDs before it, those of    *)
(* earlier launches and years included: sorted by ID is sorted by age.       *)
THEOREM IDsAlwaysAscend == Spec => IDsAscend
<1>1. StoreInv /\ [Next]_vars => [claims' > claims => lastID' > lastID]_vars
  <2> SUFFICES ASSUME StoreInv, Next, claims' > claims PROVE lastID' > lastID
    OBVIOUS
  <2>0. claims \in Nat
    BY DEF StoreInv, IDTypes
  <2>1. ~(claims' = claims)
    BY <2>0
  <2>2. ASSUME InitializeIDs PROVE FALSE
    BY <2>0, <2>2 DEF InitializeIDs
  <2>3. PICK t \in Threads : TakeID(t) /\ (ClaimID(t) \/ (t \in Clients /\ AddUserReport(t)))
    BY <2>1, <2>2 DEF Next, Tick, Launch, PruneReport, Kill, Die, Stop, BeginReport,
        CaptureStep, OpenReport, WriteReport, RenameReport, ReopenReport, EmbedOld,
        RemoveOld, RewriteReport, Recrash, ClientStep, ClientCall, AddOpen, AddWrite,
        GetReportIDs, ReadReport, CountReports, DeleteReport, DeleteAll, DeleteNext,
        ids, locals, Threads, ClaimID, AddUserReport
  <2>4. stage = "up" /\ (t = Handler => pc[t] = "claim")
    BY <2>3, StoreAssumption DEF ClaimID, AddUserReport, At, Running
  <2>5. claims < IDsPerSecond
    BY <2>3, <2>4, StoreAssumption DEF TakeID, StoreInv, CountsFromBase, IDTypes
  <2> QED
    BY <2>3, <2>4, <2>5, NextIsAhead DEF TakeID
<1> QED
  BY <1>1, StoreInvariant, PTL DEF Spec, IDsAscend

-----------------------------------------------------------------------------
(* The array of IDs, sorted.                                                 *)

(* What a function makes of a finite set is finite, and no larger.           *)
LEMMA FiniteImage ==
    ASSUME NEW S, IsFiniteSet(S), NEW T, NEW f \in [S -> T],
           \A y \in T : \E x \in S : f[x] = y
    PROVE  /\ IsFiniteSet(T)
           /\ Cardinality(T) <= Cardinality(S)
<1>1. f \in Surjection(S, T)
  BY DEF Surjection
<1> QED
  BY <1>1, FS_Surjection

(* IDs are numbers, and there are finitely many files: the last ID bounds    *)
(* them.                                                                     *)
LEMMA EntriesFinite ==
    ASSUME StoreInv
    PROVE  /\ IsFiniteSet(DOMAIN reports) /\ IsFiniteSet(old)
           /\ IsFiniteSet(Entries)
           /\ Cardinality(Entries) \in Nat
           /\ ListedIDs \subseteq Nat
           /\ DOMAIN reports \subseteq ListedIDs
<1> DEFINE top == IF lastID < 0 THEN 0 ELSE lastID
           js == {<<id, "json">> : id \in DOMAIN reports}
           os == {<<id, "old">> : id \in old}
<1>1. DOMAIN reports \subseteq Nat /\ old \subseteq Nat /\ lastID \in Int
  BY DEF StoreInv, IDTypes
<1>2. top \in Nat /\ \A id \in DOMAIN reports \cup old : id <= top
  <2>1. \A id \in DOMAIN reports \cup old : id \in Nat /\ id <= lastID
    BY <1>1 DEF StoreInv, NothingAhead
  <2> QED
    BY <1>1, <2>1
<1>3. IsFiniteSet(DOMAIN reports) /\ IsFiniteSet(old)
  <2> HIDE DEF top
  <2>1. DOMAIN reports \in SUBSET Nat /\ old \in SUBSET Nat
    BY <1>1
  <2> QED
    BY <1>2, <2>1, FS_BoundedSetOfNaturals
<1>4. IsFiniteSet(js)
  <2> DEFINE f == [id \in DOMAIN reports |-> <<id, "json">>]
  <2>1. f \in [DOMAIN reports -> js] /\ \A y \in js : \E x \in DOMAIN reports : f[x] = y
    OBVIOUS
  <2> HIDE DEF f, js
  <2> QED
    BY <1>3, <2>1, FiniteImage
<1>5. IsFiniteSet(os)
  <2> DEFINE f == [id \in old |-> <<id, "old">>]
  <2>1. f \in [old -> os] /\ \A y \in os : \E x \in old : f[x] = y
    OBVIOUS
  <2> HIDE DEF f, os
  <2> QED
    BY <1>3, <2>1, FiniteImage
<1>6. IsFiniteSet(Entries)
  <2>1. Entries = js \cup os
    BY DEF Entries
  <2> HIDE DEF js, os
  <2> QED
    BY <1>4, <1>5, <2>1, FS_Union
<1>7. Cardinality(Entries) \in Nat
  BY <1>6, FS_CardinalityType
<1>8. ListedIDs \subseteq Nat
  <2>1. ASSUME NEW e \in Entries PROVE e[1] \in Nat
    <3>1. CASE \E id \in DOMAIN reports : e = <<id, "json">>
      BY <1>1, <3>1
    <3>2. CASE \E id \in old : e = <<id, "old">>
      BY <1>1, <3>2
    <3> QED
      BY <3>1, <3>2 DEF Entries
  <2> QED
    BY <2>1 DEF ListedIDs
<1>9. DOMAIN reports \subseteq ListedIDs
  <2> SUFFICES ASSUME NEW id \in DOMAIN reports PROVE id \in ListedIDs
    OBVIOUS
  <2>1. <<id, "json">> \in Entries /\ <<id, "json">>[1] = id
    BY DEF Entries
  <2> QED
    BY <2>1, Zenon DEF ListedIDs
<1> QED
  BY <1>3, <1>6, <1>7, <1>8, <1>9

(* The entries below an ID, and up to it, count what they should.            *)
LEMMA RankBounds ==
    ASSUME StoreInv, NEW v \in Nat
    PROVE  /\ Cardinality(Below(v)) \in Nat /\ Cardinality(UpTo(v)) \in Nat
           /\ Cardinality(Below(v)) <= Cardinality(UpTo(v))
           /\ Cardinality(UpTo(v)) <= Cardinality(Entries)
           /\ \A w \in Nat : v < w => Cardinality(UpTo(v)) <= Cardinality(Below(w))
           /\ v \in ListedIDs => Cardinality(Below(v)) < Cardinality(UpTo(v))
<1>1. IsFiniteSet(Entries) /\ \A e \in Entries : e[1] \in Nat
  <2>1. \A e \in Entries : e[1] \in ListedIDs
    BY DEF ListedIDs
  <2> QED
    BY <2>1, EntriesFinite
<1>2. UpTo(v) \in SUBSET Entries /\ Below(v) \in SUBSET UpTo(v)
  BY <1>1 DEF Below, UpTo
<1>3. IsFiniteSet(UpTo(v)) /\ Cardinality(UpTo(v)) <= Cardinality(Entries)
  BY <1>1, <1>2, FS_Subset
<1>4. IsFiniteSet(Below(v)) /\ Cardinality(Below(v)) <= Cardinality(UpTo(v))
      /\ (Cardinality(UpTo(v)) = Cardinality(Below(v)) => UpTo(v) = Below(v))
  BY <1>2, <1>3, FS_Subset
<1>5. Cardinality(Below(v)) \in Nat /\ Cardinality(UpTo(v)) \in Nat
  BY <1>3, <1>4, FS_CardinalityType
<1>6. ASSUME NEW w \in Nat, v < w
      PROVE  Cardinality(UpTo(v)) <= Cardinality(Below(w))
  <2>1. Below(w) \in SUBSET Entries /\ UpTo(v) \in SUBSET Below(w)
    BY <1>1, <1>6 DEF Below, UpTo
  <2> QED
    BY <1>1, <2>1, FS_Subset
<1>7. ASSUME v \in ListedIDs PROVE Cardinality(Below(v)) < Cardinality(UpTo(v))
  <2>1. PICK e \in Entries : e[1] = v
    BY <1>7 DEF ListedIDs
  <2>2. e \in UpTo(v) /\ e \notin Below(v)
    BY <2>1 DEF Below, UpTo
  <2> QED
    BY <1>4, <1>5, <2>2
<1> QED
  BY <1>3, <1>4, <1>5, <1>6, <1>7

(* A nonempty set of numbers has a least one.                                *)
LEMMA LeastNumber ==
    ASSUME NEW S \in SUBSET Nat, S # {}
    PROVE  \E x \in S : \A y \in S : x <= y
<1> DEFINE R == {p \in Nat \X Nat : p[1] < p[2]}
<1>1. IsWellFoundedOn(R, Nat)
  BY NatLessThanWellFounded DEF OpToRel
<1>2. \A x, y \in Nat : y < x => <<y, x>> \in R
  OBVIOUS
<1> HIDE DEF R
<1>3. PICK x \in S : \A y \in S : <<y, x>> \notin R
  BY <1>1, WFMin, Zenon
<1>4. \A y \in S : ~(y < x)
  BY <1>2, <1>3
<1> QED
  BY <1>4

(* Sorting: there is an ID for each place, they ascend, and every listed ID  *)
(* has a place.                                                              *)
LEMMA SortedIDs ==
    ASSUME StoreInv
    PROVE  /\ Sorted \in [1..Cardinality(Entries) -> ListedIDs]
           /\ \A i, j \in 1..Cardinality(Entries) : i <= j => Sorted[i] <= Sorted[j]
           /\ \A id \in ListedIDs :
                 \E i \in 1..Cardinality(Entries) : Sorted[i] = id
<1> DEFINE n == Cardinality(Entries)
           Placed(i, id) == Cardinality(Below(id)) < i /\ i <= Cardinality(UpTo(id))
<1>1. n \in Nat /\ ListedIDs \subseteq Nat
  BY EntriesFinite
<1>2. \A e \in Entries : e[1] \in ListedIDs /\ e[1] \in Nat
  BY <1>1 DEF ListedIDs
<1>3. ASSUME NEW i \in 1..n PROVE \E id \in ListedIDs : Placed(i, id)
  <2> DEFINE S == {v \in Nat : i <= Cardinality(UpTo(v))}
  <2>1. S # {}
    <3> DEFINE top == IF lastID < 0 THEN 0 ELSE lastID
    <3>1. lastID \in Int /\ top \in Nat /\ \A id \in DOMAIN reports \cup old : id <= top
      <4>1. lastID \in Int /\ \A id \in DOMAIN reports \cup old : id \in Nat /\ id <= lastID
        BY DEF StoreInv, IDTypes, NothingAhead
      <4> QED
        BY <4>1
    <3>2. \A e \in Entries : e[1] <= top
      <4> HIDE DEF top
      <4> SUFFICES ASSUME NEW e \in Entries PROVE e[1] <= top
        OBVIOUS
      <4>1. CASE \E id \in DOMAIN reports : e = <<id, "json">>
        BY <3>1, <4>1
      <4>2. CASE \E id \in old : e = <<id, "old">>
        BY <3>1, <4>2
      <4> QED
        BY <4>1, <4>2 DEF Entries
    <3>3. UpTo(top) = Entries
      BY <3>2 DEF UpTo
    <3> QED
      BY <1>1, <3>1, <3>3
  <2>2. PICK x \in S : \A y \in S : x <= y
    <3>1. S \in SUBSET Nat
      OBVIOUS
    <3> HIDE DEF S
    <3> QED
      BY <2>1, <3>1, LeastNumber
  <2>3. x \in Nat /\ i <= Cardinality(UpTo(x))
    OBVIOUS
  <2>4. Cardinality(Below(x)) < i
    <3>1. CASE x = 0
      <4>1. Below(x) = {}
        <5>1. \A e \in Entries : ~(e[1] < x)
          BY <1>2, <3>1
        <5> QED
          BY <5>1 DEF Below
      <4> QED
        BY <4>1, FS_EmptySet
    <3>2. CASE x > 0
      <4>1. x - 1 \in Nat /\ x - 1 \notin S
        BY <2>2, <2>3, <3>2
      <4>2. Cardinality(UpTo(x - 1)) \in Nat
        BY <4>1, RankBounds
      <4>3. Below(x) = UpTo(x - 1)
        <5>1. \A e \in Entries : e[1] < x <=> e[1] <= x - 1
          BY <1>2, <2>3
        <5> QED
          BY <5>1 DEF Below, UpTo
      <4> QED
        BY <1>1, <4>1, <4>2, <4>3
    <3> QED
      BY <2>3, <3>1, <3>2
  <2>5. Below(x) # UpTo(x)
    BY <1>1, <2>3, <2>4, RankBounds
  <2>6. PICK e \in Entries : e[1] <= x /\ ~(e[1] < x)
    <3>1. \A e \in Entries : e[1] < x => e[1] <= x
      BY <1>2, <2>3
    <3> QED
      BY <2>5, <3>1 DEF Below, UpTo
  <2>7. x \in ListedIDs
    BY <1>1, <1>2, <2>3, <2>6
  <2> QED
    BY <2>3, <2>4, <2>7
<1> HIDE DEF n
<1>4. Sorted = [i \in 1..n |-> CHOOSE id \in ListedIDs : Placed(i, id)]
  BY DEF Sorted, n
<1>5. ASSUME NEW i \in 1..n PROVE Sorted[i] \in ListedIDs /\ Placed(i, Sorted[i])
  <2> HIDE DEF Placed
  <2>1. \E id \in ListedIDs : Placed(i, id)
    BY <1>3
  <2>2. Sorted[i] = CHOOSE id \in ListedIDs : Placed(i, id)
    BY <1>4
  <2> QED
    BY <2>1, <2>2, Zenon
<1>6. Sorted \in [1..n -> ListedIDs]
  <2> HIDE DEF Placed
  <2> QED
    BY <1>4, <1>5
<1>7. ASSUME NEW i \in 1..n, NEW j \in 1..n, i <= j, NEW u \in ListedIDs, NEW v \in ListedIDs,
             Placed(i, u), Placed(j, v)
      PROVE  u <= v
  <2> SUFFICES ASSUME v < u PROVE FALSE
    BY <1>1
  <2>1. Cardinality(UpTo(v)) <= Cardinality(Below(u))
        /\ Cardinality(UpTo(v)) \in Nat /\ Cardinality(Below(u)) \in Nat
    BY <1>1, RankBounds
  <2> QED
    BY <1>1, <1>7, <2>1
<1>8. ASSUME NEW id \in ListedIDs PROVE \E i \in 1..n : Sorted[i] = id
  <2> DEFINE i == Cardinality(UpTo(id))
  <2>1. /\ i \in Nat /\ Cardinality(Below(id)) \in Nat
        /\ Cardinality(Below(id)) < i /\ i <= n
    BY <1>1, RankBounds DEF n
  <2>2. i \in 1..n /\ Placed(i, id)
    BY <1>1, <2>1
  <2> HIDE DEF i
  <2>3. Sorted[i] \in ListedIDs /\ Placed(i, Sorted[i])
    BY <1>5, <2>2
  <2>4. Sorted[i] <= id /\ id <= Sorted[i]
    <3> HIDE DEF Placed
    <3>1. i <= i
      BY <1>1, <2>2
    <3> QED
      BY <1>7, <2>2, <2>3, <3>1
  <2>5. Sorted[i] \in Nat /\ id \in Nat
    BY <1>1, <2>3
  <2>6. Sorted[i] = id
    BY <2>4, <2>5
  <2> QED
    BY <2>2, <2>6, Zenon
<1>9. ASSUME NEW i \in 1..n, NEW j \in 1..n, i <= j PROVE Sorted[i] <= Sorted[j]
  <2> HIDE DEF Placed
  <2> QED
    BY <1>5, <1>7, <1>9
<1> QED
  <2> HIDE DEF Placed
  <2> QED
    BY <1>6, <1>8, <1>9 DEF n
-----------------------------------------------------------------------------
(* Launches prune the oldest reports.                                        *)

(* pruneReports chooses the first IDs of the sorted array: the others are    *)
(* newer, and no more than the maximum.                                      *)
LEMMA LaunchChooses ==
    ASSUME StoreInv, Launch
    PROVE  doomed' \in Seq(Nat) /\ PruneOrder' /\ PruneEnough'
<1> DEFINE n == Cardinality(Entries)
           k == IF 1 <= n - MaxReportCount THEN n - MaxReportCount ELSE 0
<1>1. /\ n \in Nat /\ ListedIDs \subseteq Nat /\ DOMAIN reports \subseteq ListedIDs
      /\ MaxReportCount \in Nat
  BY EntriesFinite, StoreAssumption
<1>2. /\ Sorted \in [1..n -> ListedIDs]
      /\ \A i, j \in 1..n : i <= j => Sorted[i] <= Sorted[j]
      /\ \A id \in ListedIDs : \E i \in 1..n : Sorted[i] = id
  BY SortedIDs
<1>3. reports' = reports /\ doomed' = SubSeq(Sorted, 1, Len(Sorted) - MaxReportCount)
  BY DEF Launch, disk
<1> HIDE DEF n
<1>4. Len(Sorted) = n /\ \A i \in 1..n : Sorted[i] \in Nat
  <2>1. DOMAIN Sorted = 1..n /\ Sorted \in Seq(ListedIDs)
    BY <1>1, <1>2
  <2>2. \A i \in 1..n : Sorted[i] \in Nat
    BY <1>1, <1>2
  <2>3. Len(Sorted) = n
    BY <1>1, <1>2, <2>1, LenProperties
  <2> QED
    BY <2>2, <2>3
<1>5. k \in 0..n /\ n - k <= MaxReportCount /\ n - MaxReportCount \in Int
  BY <1>1
<1>6. /\ doomed' \in Seq(Nat) /\ Len(doomed') = k
      /\ \A i \in 1..k : doomed'[i] = Sorted[i]
  <2>1. \A i \in 1..(n - MaxReportCount) : Sorted[i] \in Nat
    BY <1>1, <1>4
  <2>2. /\ doomed' \in Seq(Nat) /\ Len(doomed') = k
        /\ \A i \in 1..(n - MaxReportCount - 1 + 1) : doomed'[i] = Sorted[1 + i - 1]
    BY <1>1, <1>3, <1>4, <2>1, SubSeqProperties
  <2>3. \A i \in 1..k : i \in 1..(n - MaxReportCount - 1 + 1) /\ 1 + i - 1 = i
    BY <1>1
  <2> QED
    BY <2>2, <2>3
<1> HIDE DEF k
<1>7. ASSUME NEW id \in DOMAIN reports, \A i \in 1..k : doomed'[i] # id
      PROVE  \E j \in (k + 1)..n : Sorted[j] = id
  <2>1. PICK j \in 1..n : Sorted[j] = id
    BY <1>1, <1>2
  <2>2. j \notin 1..k
    BY <1>6, <1>7, <2>1
  <2> QED
    BY <1>1, <1>5, <2>1, <2>2
<1>8. PruneOrder'
  <2>1. ASSUME NEW i \in 1..k, NEW j \in 1..k, i <= j PROVE doomed'[i] <= doomed'[j]
    <3>1. i \in 1..n /\ j \in 1..n
      BY <1>1, <1>5
    <3> QED
      BY <1>2, <1>6, <2>1, <3>1
  <2>2. ASSUME NEW id \in DOMAIN reports, NEW i \in 1..k, \A j \in 1..k : doomed'[j] # id
        PROVE  id > doomed'[i]
    <3>1. PICK j \in (k + 1)..n : Sorted[j] = id
      BY <1>7, <2>2
    <3>2. i \in 1..n /\ j \in 1..n /\ i <= j
      BY <1>1, <1>5
    <3>3. doomed'[i] <= id /\ doomed'[i] # id /\ doomed'[i] \in Nat /\ id \in Nat
      BY <1>1, <1>2, <1>4, <1>6, <2>2, <3>1, <3>2
    <3> QED
      BY <3>3
  <2> QED
    BY <1>3, <1>6, <2>1, <2>2 DEF PruneOrder
<1>9. PruneEnough'
  <2> DEFINE T == {Sorted[j] : j \in (k + 1)..n}
             f == [j \in (k + 1)..n |-> Sorted[j]]
  <2>1. f \in [(k + 1)..n -> T] /\ \A y \in T : \E j \in (k + 1)..n : f[j] = y
    OBVIOUS
  <2>2. IsFiniteSet((k + 1)..n) /\ Cardinality((k + 1)..n) = n - k
    <3>1. k + 1 \in Int /\ n \in Int
      BY <1>1, <1>5
    <3>2. /\ IsFiniteSet((k + 1)..n)
          /\ Cardinality((k + 1)..n) = IF k + 1 > n THEN 0 ELSE n - (k + 1) + 1
      BY <3>1, FS_Interval
    <3> QED
      BY <1>1, <1>5, <3>2
  <2>3. Spared' \in SUBSET T
    BY <1>3, <1>6, <1>7 DEF Spared
  <2> HIDE DEF T, f
  <2>4. IsFiniteSet(T) /\ Cardinality(T) <= n - k
    BY <2>1, <2>2, FiniteImage
  <2>5. IsFiniteSet(Spared') /\ Cardinality(Spared') <= Cardinality(T)
    BY <2>3, <2>4, FS_Subset
  <2>6. Cardinality(Spared') \in Nat /\ Cardinality(T) \in Nat
    BY <2>4, <2>5, FS_CardinalityType
  <2>7. MaxReportCount' = MaxReportCount
    OBVIOUS
  <2>8. Cardinality(Spared') <= MaxReportCount
    BY <1>1, <1>5, <2>4, <2>5, <2>6
  <2> QED
    BY <2>8 DEF PruneEnough
<1> QED
  BY <1>6, <1>8, <1>9

(* Each deletion leaves the rest of the choice as good.                      *)
LEMMA PruneGoesOn ==
    ASSUME StoreInv, TypeOK, PruneOrder, PruneEnough, PruneReport
    PROVE  /\ doomed' \in Seq(Nat) /\ PruneOrder' /\ PruneEnough'
           /\ \A gone \in DOMAIN reports \ DOMAIN reports', kept \in DOMAIN reports' :
                  gone < kept
<1>1. stage = "pruning" /\ doomed # <<>> /\ doomed \in Seq(Nat)
  BY DEF PruneReport, TypeOK
<1>2. /\ doomed' \in Seq(Nat) /\ Len(doomed) \in Nat \ {0}
      /\ Len(doomed') = Len(doomed) - 1
      /\ \A i \in 1..Len(doomed') : i + 1 \in 1..Len(doomed) /\ doomed'[i] = doomed[i + 1]
      /\ Head(doomed) = doomed[1]
      /\ \A i \in 1..Len(doomed) : doomed[i] \in Nat
  <2>1. doomed' = Tail(doomed)
    BY DEF PruneReport
  <2>2. Len(doomed) \in Nat \ {0}
    BY <1>1
  <2>3. /\ doomed' \in Seq(Nat) /\ Len(doomed') = Len(doomed) - 1
        /\ \A i \in 1..Len(doomed') : doomed'[i] = doomed[i + 1]
    BY <1>1, <2>1, HeadTailProperties
  <2> QED
    BY <1>1, <2>2, <2>3
<1>3. DOMAIN reports' = DOMAIN reports \ {doomed[1]}
  BY <1>2 DEF PruneReport, WithoutReport
<1>4. /\ \A i, j \in 1..Len(doomed) : i <= j => doomed[i] <= doomed[j]
      /\ \A id \in DOMAIN reports, i \in 1..Len(doomed) :
            id > doomed[i] \/ \E j \in 1..Len(doomed) : id = doomed[j]
  BY <1>1 DEF PruneOrder
<1>5. 1 \in 1..Len(doomed) /\ DOMAIN reports \subseteq Nat
  BY <1>2 DEF StoreInv, IDTypes
<1>6. ASSUME NEW id \in DOMAIN reports', NEW j \in 1..Len(doomed), id = doomed[j]
      PROVE  \E m \in 1..Len(doomed') : id = doomed'[m]
  <2>1. j # 1
    BY <1>3, <1>6
  <2>2. j - 1 \in 1..Len(doomed') /\ (j - 1) + 1 = j
    BY <1>2, <2>1
  <2> QED
    BY <1>2, <1>6, <2>2
<1>7. PruneOrder'
  <2>1. ASSUME NEW i \in 1..Len(doomed'), NEW j \in 1..Len(doomed'), i <= j
        PROVE  doomed'[i] <= doomed'[j]
    <3>1. i + 1 <= j + 1
      BY <2>1
    <3> QED
      BY <1>2, <1>4, <3>1
  <2>2. ASSUME NEW id \in DOMAIN reports', NEW i \in 1..Len(doomed')
        PROVE  id > doomed'[i] \/ \E j \in 1..Len(doomed') : id = doomed'[j]
    BY <1>2, <1>3, <1>4, <1>6
  <2> QED
    BY <2>1, <2>2 DEF PruneOrder
<1>8. PruneEnough'
  <2>1. Spared' \in SUBSET Spared
    <3> SUFFICES ASSUME NEW id \in Spared' PROVE id \in Spared
      OBVIOUS
    <3>1. id \in DOMAIN reports' /\ \A i \in 1..Len(doomed') : doomed'[i] # id
      BY DEF Spared
    <3>2. \A i \in 1..Len(doomed) : doomed[i] # id
      BY <1>6, <3>1
    <3> QED
      BY <1>3, <3>1, <3>2 DEF Spared
  <2>2. IsFiniteSet(Spared)
    <3>1. Spared \in SUBSET DOMAIN reports
      BY DEF Spared
    <3> QED
      BY <3>1, EntriesFinite, FS_Subset
  <2>3. /\ IsFiniteSet(Spared') /\ Cardinality(Spared') <= Cardinality(Spared)
        /\ Cardinality(Spared') \in Nat /\ Cardinality(Spared) \in Nat
    BY <2>1, <2>2, FS_Subset, FS_CardinalityType
  <2> QED
    BY <1>1, <2>3, StoreAssumption DEF PruneEnough
<1>9. ASSUME NEW gone \in DOMAIN reports \ DOMAIN reports', NEW kept \in DOMAIN reports'
      PROVE  gone < kept
  <2>1. gone = doomed[1] /\ kept # doomed[1] /\ kept \in Nat /\ gone \in Nat
    BY <1>3, <1>5
  <2>2. gone <= kept
    BY <1>2, <1>3, <1>4, <1>5, <2>1
  <2> QED
    BY <2>1, <2>2
<1> QED
  BY <1>2, <1>7, <1>8, <1>9
-----------------------------------------------------------------------------
(* Types, the lock and the prune, through every step.                        *)

Values ==
    /\ \A id \in DOMAIN reports : reports[id] \in Report
    /\ mutex \in Clients \cup {None}
    /\ count \in [Threads -> Nat]
    /\ placed \in [Threads -> Nat]

Pruning == doomed \in Seq(Nat) /\ PruneOrder /\ PruneEnough

(* The invariant again, in the parts that steps disturb.                     *)
LEMMA CallInvParts ==
    /\ CallInv <=> StoreInv /\ Values /\ Pruning /\ LockHeld
    /\ CallInv' <=> StoreInv' /\ Values' /\ Pruning' /\ LockHeld'
  BY DEF CallInv, StoreInv, TypeOK, Values, Pruning

(* Outside of a prune nothing is left to say about it.                       *)
LEMMA NoPrune ==
    ASSUME Pruning, doomed' \in {doomed, <<>>}, stage' # "pruning"
    PROVE  Pruning'
<1>1. doomed' \in Seq(Nat)
  <2>1. CASE doomed' = doomed
    BY <2>1 DEF Pruning
  <2>2. CASE doomed' = <<>>
    BY <2>2
  <2> QED
    BY <2>1, <2>2
<1>2. PruneOrder' /\ PruneEnough'
  BY DEF PruneOrder, PruneEnough
<1> QED
  BY <1>1, <1>2 DEF Pruning

(* The files after each of the file operations.                              *)
LEMMA FileValues ==
    ASSUME \A id \in DOMAIN reports : reports[id] \in Report, NEW id, NEW r \in Report,
           reports' \in {reports, WithReport(id, r), WithoutReport(id), Rewritten(id, r)}
    PROVE  \A x \in DOMAIN reports' : reports'[x] \in Report
  BY DEF WithReport, WithoutReport, Rewritten

(* Launches and deaths keep the parts ...                                    *)
LEMMA LaunchParts ==
    ASSUME CallInv, Tick \/ Launch \/ PruneReport \/ InitializeIDs \/ Stop
    PROVE  CallInv'
<1> USE DEF ids, disk, locals
<1>1. StoreInv' /\ StoreInv /\ Values /\ Pruning /\ LockHeld
  BY LaunchKeeps, CallInvParts
<1>2. Values'
  <2>1. CASE Tick \/ Launch \/ InitializeIDs
    BY <1>1, <2>1 DEF Tick, Launch, InitializeIDs, Values
  <2>2. CASE PruneReport
    BY <1>1, <2>2 DEF PruneReport, WithoutReport, Values
  <2>3. CASE Stop
    BY <1>1, <2>3 DEF Stop, Values
  <2> QED
    BY <2>1, <2>2, <2>3
<1>3. Pruning'
  <2>1. CASE Tick
    BY <1>1, <2>1 DEF Tick, Pruning, PruneOrder, PruneEnough, Spared
  <2>2. CASE Launch
    BY <1>1, <2>2, LaunchChooses DEF Pruning
  <2>3. CASE PruneReport
    BY <1>1, <2>3, PruneGoesOn DEF Pruning, CallInv
  <2>4. CASE InitializeIDs \/ Stop
    BY <1>1, <2>4, NoPrune DEF InitializeIDs, Stop
  <2> QED
    BY <2>1, <2>2, <2>3, <2>4
<1>4. LockHeld'
  <2>1. CASE Tick \/ Launch \/ PruneReport \/ InitializeIDs
    BY <1>1, <2>1 DEF Tick, Launch, PruneReport, InitializeIDs, LockHeld
  <2>2. CASE Stop
    BY <2>2 DEF Stop, LockHeld, Locked, Threads
  <2> QED
    BY <2>1, <2>2
<1> QED
  BY <1>1, <1>2, <1>3, <1>4, CallInvParts

(* ... so do the steps of a captured event ...                               *)
LEMMA CaptureParts ==
    ASSUME CallInv, NEW t \in Threads, BeginReport(t) \/ CaptureStep(t) \/ Recrash(t)
    PROVE  CallInv'
<1> USE DEF At, Goto, ids, disk, locals
<1>1. StoreInv' /\ StoreInv /\ Values /\ Pruning /\ LockHeld
  BY CaptureKeeps, CallInvParts
<1>2. pc \in [Threads -> Phases]
  BY <1>1 DEF StoreInv, IDTypes
<1>3. CASE Die(t)
  BY <1>3, LaunchParts DEF Die
<1>4. CASE ~Die(t)
  <2>1. /\ stage' = "up" /\ UNCHANGED <<doomed, mutex, count, placed>>
        /\ pc'[t] \notin Locked /\ \A u \in Threads \ {t} : pc'[u] = pc[u]
    BY <1>2, <1>4 DEF BeginReport, Recrash, CaptureStep, ClaimID, OpenReport, WriteReport,
        RenameReport, ReopenReport, EmbedOld, RemoveOld, RewriteReport, EndReport, TakeID,
        Running, Locked
  <2>2. \E id \in Nat, r \in Report :
            reports' \in {reports, WithReport(id, r), WithoutReport(id), Rewritten(id, r)}
    <3>1. reportID[t] \in Nat /\ "empty" \in Report /\ "short" \in Report /\ "whole" \in Report
      BY <1>1 DEF StoreInv, IDTypes, Report
    <3> QED
      BY <1>4, <3>1 DEF BeginReport, Recrash, CaptureStep, ClaimID, OpenReport,
          WriteReport, RenameReport, ReopenReport, EmbedOld, RemoveOld, RewriteReport
  <2>3. Values'
    BY <1>1, <2>1, <2>2, FileValues DEF Values
  <2>4. Pruning'
    BY <1>1, <2>1, NoPrune
  <2>5. LockHeld'
    BY <1>1, <2>1 DEF LockHeld, Threads
  <2> QED
    BY <1>1, <2>3, <2>4, <2>5, CallInvParts
<1> QED
  BY <1>3, <1>4

(* ... and those of an API call, which takes the mutex when it is free and   *)
(* releases none but its own.                                                *)
LEMMA ClientParts ==
    ASSUME CallInv, NEW t \in Clients, ClientStep(t) \/ ClientCall(t)
    PROVE  CallInv'
<1> USE DEF At, Goto, ids, disk, locals
<1>1. StoreInv' /\ StoreInv /\ Values /\ Pruning /\ LockHeld
  BY ClientKeeps, CallInvParts
<1>2. /\ pc \in [Threads -> Phases] /\ t \in Threads /\ reportID[t] \in Nat
      /\ None \notin Clients /\ count \in [Threads -> Nat] /\ placed \in [Threads -> Nat]
  BY <1>1, StoreAssumption DEF StoreInv, IDTypes, Threads, Values
<1>3. stage' = "up" /\ UNCHANGED doomed /\ \A u \in Threads \ {t} : pc'[u] = pc[u]
  BY <1>2 DEF ClientStep, ClientCall, AddUserReport, AddOpen, AddWrite, GetReportIDs,
      ReadReport, CountReports, DeleteReport, DeleteAll, DeleteNext, EndReport, TakeID,
      Running
<1>4. \/ mutex' = mutex /\ (pc'[t] \in Locked => pc[t] \in Locked)
      \/ mutex = None /\ mutex' = t
      \/ mutex' = None /\ pc[t] \in Locked /\ pc'[t] \notin Locked
  BY <1>2 DEF ClientStep, ClientCall, AddUserReport, AddOpen, AddWrite, GetReportIDs,
      ReadReport, CountReports, DeleteReport, DeleteAll, DeleteNext, EndReport, Locked,
      Acquire, Release
<1>5. LockHeld'
  <2> SUFFICES ASSUME NEW u \in Clients, pc'[u] \in Locked PROVE mutex' = u
    BY DEF LockHeld
  <2>1. u # t => pc[u] \in Locked /\ mutex = u
    BY <1>1, <1>3 DEF LockHeld, Threads
  <2>2. pc[t] \in Locked => mutex = t
    BY <1>1 DEF LockHeld
  <2> QED
    BY <1>2, <1>4, <2>1, <2>2
<1>6. mutex' \in Clients \cup {None}
  BY <1>1, <1>4 DEF Values
<1>7. count' \in [Threads -> Nat]
  BY <1>1, <1>2, EntriesFinite DEF ClientStep, ClientCall, AddUserReport, AddOpen, AddWrite,
      GetReportIDs, ReadReport, CountReports, DeleteReport, DeleteAll, DeleteNext
<1>8. placed' \in [Threads -> Nat]
  <2>1. ASSUME GetReportIDs(t) PROVE placed' \in [Threads -> Nat]
    <3>1. PICK a \in Filled(count[t]) : placed' = [placed EXCEPT ![t] = Len(a)]
      BY <2>1 DEF GetReportIDs
    <3>2. PICK n \in Nat : a \in [1..n -> ListedIDs]
      BY <1>1, <1>2, EntriesFinite DEF Filled
    <3>3. Len(a) \in Nat
      BY <3>2
    <3> QED
      BY <1>2, <3>1, <3>3
  <2> QED
    BY <1>2, <2>1 DEF ClientStep, ClientCall, AddUserReport, AddOpen, AddWrite, ReadReport,
        CountReports, DeleteReport, DeleteAll, DeleteNext
<1>9. \A id \in DOMAIN reports' : reports'[id] \in Report
  <2>1. \E id, r : /\ r \in Report
                   /\ reports' \in {reports, WithReport(id, r), WithoutReport(id),
                                    Rewritten(id, r)}
    <3>1. "empty" \in Report
      BY DEF Report
    <3>2. CASE DeleteNext(t)
      BY <3>1, <3>2 DEF DeleteNext
    <3>3. CASE DeleteReport(t)
      BY <3>1, <3>3 DEF DeleteReport
    <3>4. CASE ~DeleteNext(t) /\ ~DeleteReport(t)
      BY <3>1, <3>4 DEF ClientStep, ClientCall, AddUserReport, AddOpen, AddWrite,
          GetReportIDs, ReadReport, CountReports, DeleteAll
    <3> QED
      BY <3>2, <3>3, <3>4
  <2> QED
    BY <1>1, <2>1, FileValues DEF Values
<1>10. Values' /\ Pruning'
  BY <1>1, <1>3, <1>6, <1>7, <1>8, <1>9, NoPrune DEF Values
<1> QED
  BY <1>1, <1>5, <1>10, CallInvParts

(* The invariant holds at the start ...                                      *)
LEMMA CallInitially == Init => CallInv
<1> SUFFICES ASSUME Init PROVE CallInv
  OBVIOUS
<1>1. StoreInv
  BY StoreInit
<1>2. Values
  BY DEF Init, Values
<1>3. Pruning
  BY DEF Init, Pruning, PruneOrder, PruneEnough
<1>4. LockHeld
  BY DEF Init, LockHeld, Locked, Threads
<1> QED
  BY <1>1, <1>2, <1>3, <1>4, CallInvParts

(* ... and after every step.                                                 *)
LEMMA CallKeeps == CallInv /\ [Next]_vars => CallInv'
<1> SUFFICES ASSUME CallInv, [Next]_vars PROVE CallInv'
  OBVIOUS
<1>1. CASE UNCHANGED vars
  <2>1. StoreInv' /\ StoreInv /\ Values /\ Pruning /\ LockHeld
    BY <1>1, StoreStutter, CallInvParts
  <2>2. Values' /\ Pruning' /\ LockHeld'
    BY <1>1, <2>1 DEF vars, ids, disk, locals, Values, Pruning, PruneOrder, PruneEnough,
        Spared, LockHeld
  <2> QED
    BY <2>1, <2>2, CallInvParts
<1>2. CASE Next
  BY <1>2, LaunchParts, CaptureParts, ClientParts DEF Next, Kill
<1> QED
  BY <1>1, <1>2

(* In every reachable state the types are right, the prune list is the       *)
(* oldest reports in order, and the mutex is held by whoever needs it.       *)
THEOREM CallInvariant == Spec => []CallInv
  BY CallInitially, CallKeeps, PTL DEF Spec

(* The store is always well typed: every file has one of the three states,   *)
(* the prune list holds IDs, counts are counts.                              *)
THEOREM StoreTypes == Spec => []TypeOK
<1>1. CallInv => TypeOK
  BY DEF CallInv
<1> QED
  BY <1>1, CallInvariant, PTL

(* For any directory and any maximum, pruneReports deletes oldest first:     *)
(* cut short anywhere, it has deleted nothing newer than what it leaves.     *)
THEOREM OldestGoFirst == Spec => PruneTakesOldest
<1>1. CallInv /\ [Next]_vars =>
        [stage = "pruning" =>
            \A gone \in DOMAIN reports \ DOMAIN reports', kept \in DOMAIN reports' :
                gone < kept]_vars
  <2> SUFFICES ASSUME CallInv, Next, stage = "pruning",
                      NEW gone \in DOMAIN reports \ DOMAIN reports',
                      NEW kept \in DOMAIN reports'
               PROVE  gone < kept
    BY DEF vars
  <2>1. CASE PruneReport
    BY <2>1, PruneGoesOn DEF CallInv
  <2>2. CASE ~PruneReport
    <3>1. reports' = reports
      BY <2>2 DEF Next, Tick, Launch, InitializeIDs, Kill, Stop, BeginReport, CaptureStep,
          Recrash, ClaimID, OpenReport, WriteReport, RenameReport, ReopenReport, EmbedOld,
          RemoveOld, RewriteReport, Die, ClientStep, ClientCall, AddUserReport, AddOpen,
          AddWrite, GetReportIDs, ReadReport, CountReports, DeleteReport, DeleteAll,
          DeleteNext, At, Running, disk
    <3> QED
      BY <3>1
  <2> QED
    BY <2>1, <2>2
<1> QED
  BY <1>1, CallInvariant, PTL DEF Spec, PruneTakesOldest

(* A prune that comes to its end leaves at most MaxReportCount reports.      *)
THEOREM PrunedEnough == Spec => PruneSuffices
<1>1. CallInv /\ [Next]_vars =>
        [stage = "pruning" /\ stage' = "up" =>
            Cardinality(DOMAIN reports) <= MaxReportCount]_vars
  <2> SUFFICES ASSUME CallInv, Next, stage = "pruning", stage' = "up"
               PROVE  Cardinality(DOMAIN reports) <= MaxReportCount
    BY DEF vars
  <2>1. doomed = <<>>
    BY DEF Next, Tick, Launch, PruneReport, InitializeIDs, Kill, Stop, BeginReport,
        CaptureStep, Recrash, ClaimID, OpenReport, WriteReport, RenameReport,
        ReopenReport, EmbedOld, RemoveOld, RewriteReport, Die, ClientStep, ClientCall,
        AddUserReport, AddOpen, AddWrite, GetReportIDs, ReadReport, CountReports,
        DeleteReport, DeleteAll, DeleteNext, At, Running
  <2>2. Spared = DOMAIN reports
    BY <2>1 DEF Spared
  <2> QED
    BY <2>2 DEF CallInv, PruneEnough
<1> QED
  BY <1>1, CallInvariant, PTL DEF Spec, PruneSuffices

(* Whoever reads a report reads none that a crasheecrs_addUserReport has     *)
(* still to write: the writer holds g_mutex, and the reader has to take it.  *)
THEOREM ReadsAreSettled == Spec => ReadsSettled
<1>1. CallInv /\ [Next]_vars =>
        [\A t \in Clients :
            ReadReport(t) /\ array[t] # <<>> =>
                \A u \in Clients : pc[u] = "addWrite" => reportID[u] # Head(array[t])]_vars
  <2> SUFFICES ASSUME CallInv, NEW t \in Clients, ReadReport(t), array[t] # <<>>,
                      NEW u \in Clients, pc[u] = "addWrite"
               PROVE  FALSE
    BY DEF vars
  <2>1. mutex = None
    BY DEF ReadReport
  <2>2. mutex = u
    BY DEF CallInv, LockHeld, Locked
  <2> QED
    BY <2>1, <2>2, StoreAssumption DEF Threads
<1> QED
  BY <1>1, CallInvariant, PTL DEF Spec, ReadsSettled

-----------------------------------------------------------------------------
(* The upload.                                                              *)

(* The fields of a call.                                                     *)
LEMMA CallFields ==
    ASSUME UploadTypeOK, NEW c \in Calls
    PROVE  /\ call[c] \in CallType
           /\ call[c].stage \in Stages /\ call[c].owner \in Setups \cup {NoSetup}
           /\ call[c].status \in Statuses \cup {NoSetup}
           /\ call[c].seen \subseteq Reports /\ call[c].reports \subseteq Reports
<1>1. call[c] \in CallType
  BY DEF UploadTypeOK
<1> QED
  BY <1>1 DEF CallType

(* A body has been on disk.                                                  *)
LEMMA BodyWritten ==
    ASSUME UploadInv, NEW c \in Calls
    PROVE  Body(c) \subseteq call[c].reports /\ Body(c) \subseteq written
  BY DEF UploadInv, Carried, Body

(* The directory holds reports that have been written.                       *)
LEMMA OnDiskWritten ==
    ASSUME UploadTypeOK
    PROVE  OnDisk \subseteq written /\ OnDisk \subseteq Reports
  BY DEF UploadTypeOK, OnDisk

(* The invariant holds at first.                                             *)
LEMMA InitUpload == UploadInit => UploadInv
<1> SUFFICES ASSUME UploadInit PROVE UploadInv
  OBVIOUS
<1>1. Idle \in CallType
  BY DEF Idle, CallType, Stages
<1>2. call = [c \in Calls |-> Idle]
  BY DEF UploadInit
<1>3. \A c \in Calls : call[c].reports = {} /\ call[c].stage = "idle"
  BY <1>2 DEF Idle
<1>4. call \in [Calls -> CallType]
  BY <1>1, <1>2
<1>5. launches \in 1..Launches
  BY UploadAssumption DEF UploadInit
<1>6. UploadTypeOK
  BY <1>3, <1>4, <1>5 DEF UploadTypeOK, UploadInit
<1>7. Carried
  BY <1>3 DEF Carried
<1> QED
  BY <1>6, <1>7 DEF UploadInv

(* A step of one call that reads the directory, if at all, and touches       *)
(* nothing else.                                                             *)
LEMMA CallStep ==
    ASSUME UploadInv, NEW c \in Calls, NEW d \in CallType,
           call' = [call EXCEPT ![c] = d],
           UNCHANGED <<stored, written, received, installed, setup, held, launches>>,
           d.reports \subseteq written,
           d.reports \subseteq d.seen \ Unreadable,
           d.stage # "idle",
           d.stage = "waiting" => d.reports = d.seen \ Unreadable,
           d.stage = "succeeded" /\ Method[d.owner] \in {"POST", "PUT"}
               => d.seen \ Unreadable \subseteq received
    PROVE  UploadInv'
<1>1. call \in [Calls -> CallType]
  BY DEF UploadInv, UploadTypeOK
<1>2. call'[c] = d /\ \A e \in Calls \ {c} : call'[e] = call[e]
  BY <1>1
<1>3. UploadTypeOK'
  BY <1>1, <1>2 DEF UploadInv, UploadTypeOK
<1>4. Carried'
  BY <1>2 DEF UploadInv, Carried
<1> QED
  BY <1>3, <1>4 DEF UploadInv

(* A step that leaves the calls alone, and takes no report from the server.  *)
LEMMA NoCallStep ==
    ASSUME UploadInv, UNCHANGED <<call, launches>>,
           stored' \subseteq written', written \subseteq written',
           written' \subseteq Reports,
           received \subseteq received', received' \subseteq written',
           installed' \in BOOLEAN, setup' \in Setups \cup {NoSetup}, held' \subseteq Setups
    PROVE  UploadInv'
<1>1. UploadTypeOK'
  BY DEF UploadInv, UploadTypeOK
<1>2. Carried'
  BY DEF UploadInv, Carried
<1> QED
  BY <1>1, <1>2 DEF UploadInv

(* The invariant is kept by every step.                                      *)
LEMMA UploadStep ==
    ASSUME UploadInv, [UploadNext]_uploadVars
    PROVE  UploadInv'
<1> USE DEF UploadInv
<1>1. ASSUME NEW s \in Setups, SetUp(s) PROVE UploadInv'
  BY <1>1, NoCallStep DEF SetUp, UploadTypeOK
<1>2. ASSUME NEW s \in Setups, LetGo(s) PROVE UploadInv'
  BY <1>2, NoCallStep DEF LetGo, UploadTypeOK
<1>3. ASSUME NEW c \in Calls, Send(c) PROVE UploadInv'
  <2> DEFINE p == IF setup = NoSetup THEN "silent"
                  ELSE IF AllReports = {} THEN "succeeded" ELSE "listed"
             d == [call[c] EXCEPT !.owner = setup, !.seen = OnDisk, !.stage = p]
  <2>1. /\ call[c].stage = "idle"
        /\ call' = [call EXCEPT ![c].owner = setup, ![c].seen = OnDisk, ![c].stage = p]
        /\ UNCHANGED <<stored, written, received, installed, setup, held, launches>>
    BY <1>3 DEF Send
  <2>2. call \in [Calls -> CallType] /\ call[c].reports \subseteq written
    BY DEF UploadTypeOK, Carried
  <2>3. call' = [call EXCEPT ![c] = d]
    BY <2>1, <2>2 DEF CallType
  <2>4. p \in Stages /\ setup \in Setups \cup {NoSetup} /\ OnDisk \subseteq Reports
    BY OnDiskWritten DEF Stages, UploadTypeOK
  <2>5. /\ d \in CallType
        /\ d.reports = call[c].reports /\ d.seen = OnDisk /\ d.stage = p
    BY <2>2, <2>4, CallFields DEF CallType
  <2>6. d.reports = {} /\ d.stage \notin {"idle", "waiting"}
    BY <2>1, <2>5 DEF Carried
  <2>7. d.stage = "succeeded" => d.seen \ Unreadable = {}
    BY <2>5 DEF AllReports
  <2> HIDE DEF d, p
  <2> QED
    BY <2>1, <2>3, <2>5, <2>6, <2>7, CallStep
<1>4. ASSUME NEW c \in Calls, SendAgain(c) PROVE UploadInv'
  <2> DEFINE d == [call[c] EXCEPT !.stage = "waiting", !.seen = OnDisk,
                                  !.reports = AllReports]
  <2>1. /\ call' = [call EXCEPT ![c].stage = "waiting", ![c].seen = OnDisk,
                                ![c].reports = AllReports]
        /\ UNCHANGED <<stored, written, received, installed, setup, held, launches>>
    BY <1>4 DEF SendAgain
  <2>2. call \in [Calls -> CallType]
    BY DEF UploadTypeOK
  <2>3. call' = [call EXCEPT ![c] = d]
    BY <2>1, <2>2 DEF CallType
  <2>4. AllReports = OnDisk \ Unreadable /\ OnDisk \subseteq written /\ OnDisk \subseteq Reports
    BY OnDiskWritten DEF AllReports
  <2>5. /\ d \in CallType
        /\ d.reports = AllReports /\ d.seen = OnDisk /\ d.stage = "waiting"
    BY <2>2, <2>4, CallFields DEF CallType, Stages
  <2> HIDE DEF d
  <2> QED
    BY <2>1, <2>3, <2>4, <2>5, CallStep
<1>5. ASSUME NEW c \in Calls, Arrive(c) PROVE UploadInv'
  BY <1>5, BodyWritten, NoCallStep DEF Arrive, UploadTypeOK
<1>6. ASSUME NEW c \in Calls, DeleteAllAfter(c) PROVE UploadInv'
  <2> DEFINE d == [call[c] EXCEPT !.stage = "deleted"]
  <2>1. /\ call' = [call EXCEPT ![c].stage = "deleted"]
        /\ stored' = IF setup # NoSetup /\ installed THEN {} ELSE stored
        /\ UNCHANGED <<written, received, installed, setup, held, launches>>
    BY <1>6 DEF DeleteAllAfter
  <2>2. call \in [Calls -> CallType]
    BY DEF UploadTypeOK
  <2>3. d \in CallType /\ d.reports = call[c].reports /\ d.seen = call[c].seen
        /\ d.stage = "deleted"
    BY <2>2 DEF CallType, Stages
  <2>4. call' = [call EXCEPT ![c] = d]
    BY <2>1, <2>2 DEF CallType
  <2> HIDE DEF d
  <2>5. call'[c] = d /\ \A e \in Calls \ {c} : call'[e] = call[e]
    BY <2>2, <2>4
  <2>6. call' \in [Calls -> CallType]
    BY <2>2, <2>3, <2>4
  <2>7. stored' \subseteq written
    BY <2>1 DEF UploadTypeOK
  <2>8. UploadTypeOK'
    BY <2>1, <2>3, <2>5, <2>6, <2>7 DEF UploadTypeOK
  <2>9. Carried'
    BY <2>1, <2>3, <2>5 DEF Carried
  <2> QED
    BY <2>8, <2>9
<1>7. ASSUME NEW c \in Calls, NEW status \in Statuses, Answer(c, status) PROVE UploadInv'
  <2> DEFINE p == Outcome(c, status)
             d == [call[c] EXCEPT !.stage = p, !.status = status]
  <2>1. /\ call[c].stage = "waiting"
        /\ status = "success" => Body(c) \subseteq received
        /\ call' = [call EXCEPT ![c].stage = p, ![c].status = status]
        /\ UNCHANGED <<stored, written, received, installed, setup, held, launches>>
    BY <1>7 DEF Answer
  <2>2. call \in [Calls -> CallType]
    BY DEF UploadTypeOK
  <2>3. call' = [call EXCEPT ![c] = d]
    BY <2>1, <2>2 DEF CallType
  <2>4. p \in {"ignored", "succeeded", "failed"} /\ (p = "succeeded" => status = "success")
    BY DEF Outcome
  <2>5. /\ d \in CallType /\ d.reports = call[c].reports /\ d.seen = call[c].seen
        /\ d.stage = p /\ d.owner = call[c].owner
    BY <2>2, <2>4 DEF CallType, Stages
  <2>6. d.reports = d.seen \ Unreadable /\ d.reports \subseteq written
    BY <2>1, <2>5 DEF Carried
  <2>7. d.stage = "succeeded" /\ Method[d.owner] \in {"POST", "PUT"}
          => d.seen \ Unreadable \subseteq received
    BY <2>1, <2>4, <2>5, <2>6 DEF Body
  <2> HIDE DEF d, p
  <2> QED
    BY <2>1, <2>3, <2>4, <2>5, <2>6, <2>7, CallStep
<1>8. ASSUME NEW r \in Reports, UserReport(r) PROVE UploadInv'
  BY <1>8, NoCallStep DEF UserReport, Appear, UploadTypeOK
<1>9. CASE Relaunch
  <2> DEFINE d(c) == IF call[c].stage = "idle" THEN Idle
                     ELSE [(IF call[c].stage = "waiting" THEN call[c] ELSE Idle)
                             EXCEPT !.stage = "gone"]
  <2>1. /\ call' = [c \in Calls |-> d(c)]
        /\ launches < Launches /\ launches' = launches + 1
        /\ installed' = FALSE /\ setup' = NoSetup /\ held' = Setups
        /\ received' = received
    BY <1>9 DEF Relaunch
  <2>2. stored' \subseteq written' /\ written \subseteq written' /\ written' \subseteq Reports
    BY <1>9 DEF Relaunch, Appear, UploadTypeOK
  <2>3. Idle \in CallType /\ Idle.reports = {} /\ Idle.seen = {}
    BY DEF Idle, CallType, Stages
  <2>4. ASSUME NEW c \in Calls
        PROVE  /\ d(c) \in CallType
               /\ d(c).stage \in {"idle", "gone"}
               /\ d(c).reports \subseteq call[c].reports
               /\ d(c).reports \subseteq d(c).seen \ Unreadable
               /\ d(c).stage = "idle" => d(c).reports = {}
    <3>1. CASE call[c].stage = "idle"
      BY <2>3, <3>1 DEF Idle
    <3>2. CASE call[c].stage = "waiting"
      <4>1. d(c) = [call[c] EXCEPT !.stage = "gone"]
        BY <3>2
      <4>2. call[c] \in CallType /\ call[c].reports \subseteq call[c].seen \ Unreadable
        BY DEF UploadTypeOK
      <4> QED
        BY <4>1, <4>2 DEF CallType, Stages
    <3>3. CASE call[c].stage \notin {"idle", "waiting"}
      <4>1. d(c) = [Idle EXCEPT !.stage = "gone"]
        BY <3>3
      <4> QED
        BY <2>3, <4>1 DEF CallType, Stages
    <3> QED
      BY <3>1, <3>2, <3>3
  <2> HIDE DEF d
  <2>5. \A c \in Calls : call'[c] = d(c)
    BY <2>1
  <2>6. UploadTypeOK'
    <3>1. call' \in [Calls -> CallType]
      BY <2>1, <2>4
    <3>2. launches' \in 1..Launches
      BY <2>1, UploadAssumption DEF UploadTypeOK
    <3>3. \A c \in Calls : call'[c].reports \subseteq call'[c].seen \ Unreadable
      BY <2>4, <2>5
    <3> QED
      BY <2>1, <2>2, <3>1, <3>2, <3>3 DEF UploadTypeOK
  <2>7. Carried'
    BY <2>2, <2>4, <2>5 DEF Carried
  <2> QED
    BY <2>6, <2>7
<1>10. CASE UNCHANGED uploadVars
  BY <1>10, NoCallStep DEF uploadVars, UploadTypeOK
<1> QED
  BY <1>1, <1>2, <1>3, <1>4, <1>5, <1>6, <1>7, <1>8, <1>9, <1>10 DEF UploadNext

-----------------------------------------------------------------------------
(* What is carried by a request was seen, readable and on disk; an answer of *)
(* success means that the server has read it: over all launches.             *)
THEOREM UploadInvariant == UploadSpec => []UploadInv
<1>1. UploadInv /\ [UploadNext]_uploadVars => UploadInv'
  BY UploadStep
<1> QED
  BY <1>1, InitUpload, PTL DEF UploadSpec

(* The types of Upload, for every set of calls, reports and setups; in them, *)
(* that a request carries only reports its call has seen and can decode.     *)
THEOREM UploadTypes == UploadSpec => []UploadTypeOK
<1>1. UploadInv => UploadTypeOK
  BY DEF UploadInv
<1> QED
  BY <1>1, UploadInvariant, PTL

(* A client that deletes all reports because its call succeeded (the         *)
(* completion of CrashReporter.sendAllReports) loses none that its call had  *)
(* listed and could decode and that the server has not read.                 *)
THEOREM DeletionsAreSafe == UploadSpec => DeletesSent
<1>1. ASSUME UploadInv, UploadNext, NEW c \in Calls,
             call[c].stage = "succeeded", Method[call[c].owner] \in {"POST", "PUT"}
      PROVE  (stored \cap call[c].seen) \ Unreadable \subseteq received \cup stored'
  BY <1>1 DEF UploadInv, Carried
<1> DEFINE A == \A c \in Calls :
                    /\ call[c].stage = "succeeded" /\ call'[c].stage = "deleted"
                    /\ Method[call[c].owner] \in {"POST", "PUT"}
                    => (stored \cap call[c].seen) \ Unreadable \subseteq received \cup stored'
<1>2. UploadInv /\ [UploadNext]_uploadVars => [A]_uploadVars
  BY <1>1
<1> QED
  BY <1>2, UploadInvariant, PTL DEF UploadSpec, DeletesSent
=============================================================================
