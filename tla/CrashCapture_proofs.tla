------------------------ MODULE CrashCapture_proofs ------------------------
(* Proofs about CrashCapture, for any number of threads: the inductive     *)
(* invariant CaptureInv, the lock that the suspensions are, and what comes *)
(* of a crash - the old handlers are put back, the handlers keep apart, a  *)
(* process that dies leaves a report, and a finished report is kept.       *)
EXTENDS CrashCapture, FiniteSetTheorems, SequenceTheorems, TLAPS

-----------------------------------------------------------------------------
(* Counting the handlers that hold a thread.                                *)

(* The thread set of the process is finite.                                 *)
LEMMA ThreadsFinite == IsFiniteSet(Threads)
<1>1. IsFiniteSet(AppThreads)
  BY ThreadsAssumption
<1>2. IsFiniteSet({Primary}) /\ IsFiniteSet({Secondary})
  BY FS_Singleton
<1>3. IsFiniteSet({Primary} \cup {Secondary})
  BY <1>2, FS_Union
<1>4. IsFiniteSet(AppThreads \cup ({Primary} \cup {Secondary}))
  BY <1>1, <1>3, FS_Union
<1>5. Threads = AppThreads \cup ({Primary} \cup {Secondary})
  BY DEF Threads, Handlers
<1> QED
  BY <1>4, <1>5

(* The holders of a thread are finitely many.                               *)
LEMMA HoldersCount ==
    ASSUME NEW lists, NEW u
    PROVE  /\ IsFiniteSet(HoldersIn(lists, u))
           /\ Cardinality(HoldersIn(lists, u)) \in Nat
<1>1. HoldersIn(lists, u) \subseteq Threads
  BY DEF HoldersIn
<1>2. IsFiniteSet(HoldersIn(lists, u))
  BY <1>1, ThreadsFinite, FS_Subset
<1> QED
  BY <1>2, FS_CardinalityType

(* When one more list holds a thread, it has one more holder.               *)
LEMMA OneMoreHolder ==
    ASSUME NEW f, NEW g, NEW u, NEW t \in Threads,
           \A s \in Threads \ {t} : u \in g[s] <=> u \in f[s],
           u \notin f[t],
           u \in g[t]
    PROVE  Cardinality(HoldersIn(g, u)) = Cardinality(HoldersIn(f, u)) + 1
<1>1. HoldersIn(g, u) = HoldersIn(f, u) \cup {t}
  BY DEF HoldersIn
<1>2. t \notin HoldersIn(f, u)
  BY DEF HoldersIn
<1>3. IsFiniteSet(HoldersIn(f, u))
  BY HoldersCount
<1> QED
  BY <1>1, <1>2, <1>3, FS_AddElement

(* When no list changes its mind about a thread, its holders are the same.  *)
LEMMA SameHolders ==
    ASSUME NEW f, NEW g, NEW u,
           \A s \in Threads : u \in g[s] <=> u \in f[s]
    PROVE  HoldersIn(g, u) = HoldersIn(f, u)
  BY DEF HoldersIn

(* A thread in somebody's list has a holder.                                *)
LEMMA HeldIsCounted ==
    ASSUME NEW f, NEW u, NEW t \in Threads, u \in f[t]
    PROVE  Cardinality(HoldersIn(f, u)) > 0
<1>1. t \in HoldersIn(f, u)
  BY DEF HoldersIn
<1>2. IsFiniteSet(HoldersIn(f, u))
  BY HoldersCount
<1>3. Cardinality(HoldersIn(f, u)) # 0
  BY <1>1, <1>2, FS_EmptySet
<1> QED
  BY <1>3, HoldersCount

-----------------------------------------------------------------------------
(* What a suspended thread owes to its holder.                              *)

(* A thread that a list holds does not run.                                 *)
LEMMA HeldDoesNotRun ==
    ASSUME TypeOK, SuspendsBalance,
           NEW t \in Threads, NEW u \in AppThreads, u \in held[t]
    PROVE  suspendCount[u] > 0 /\ ~Running(u)
<1>1. Cardinality(HoldersIn(held, u)) > 0
  BY HeldIsCounted
<1>2. Cardinality(HoldersIn(abandoned, u)) \in Nat /\ Cardinality(HoldersIn(held, u)) \in Nat
  BY HoldersCount
<1>3. suspendCount[u] = Cardinality(HoldersIn(held, u))
                          + Cardinality(HoldersIn(abandoned, u))
  BY DEF SuspendsBalance
<1>4. suspendCount[u] > 0
  BY <1>1, <1>2, <1>3
<1> QED
  BY <1>4 DEF Running

(* The invariant implies that the environment of a reporting handler is     *)
(* frozen.                                                                  *)
LEMMA FrozenFollows ==
    ASSUME CaptureInv
    PROVE  EnvironmentFrozen
<1> SUFFICES ASSUME NEW t \in Threads, NEW u \in EarlyThreads \ {t}, InWindow(t)
             PROVE  ~Running(u)
  BY DEF EnvironmentFrozen
<1>1. u \in held[t]
  BY DEF CaptureInv, ListsCover
<1>2. u \in AppThreads
  BY DEF EarlyThreads
<1> QED
  BY <1>1, <1>2, HeldDoesNotRun DEF CaptureInv

-----------------------------------------------------------------------------
(* Steps that leave the lists and the suspend counts alone.                 *)

ListsInv == ListsFit /\ ListsCover /\ SuspendsBalance /\ ExclusiveWindow

Stays(u) == pc'[u] = pc[u] /\ capture'[u] = capture[u]

(* Thread u moves on without entering a suspension or a window, and, if it  *)
(* leaves the handler, with an empty list.                                  *)
Leaves(u) ==
    /\ pc'[u] \notin Suspending \cup {"unborn"}
    /\ pc'[u] \in Window => \/ pc[u] \in Window /\ capture'[u] = capture[u]
                            \/ ~Suspends(capture'[u])
    /\ pc'[u] \in Outside \cup {"finish"} => pc'[u] = "terminated" \/ held[u] = {}

LocalStep ==
    /\ pending' = pending
    /\ held' = held
    /\ abandoned' = abandoned
    /\ target' = target
    /\ \A u \in AppThreads : suspendCount'[u] = suspendCount[u]
    /\ \A u \in Threads : Stays(u) \/ Leaves(u)

(* Such a step brings no thread into the window.                            *)
LEMMA NoEntry ==
    ASSUME LocalStep, NEW u \in Threads, InWindow(u)'
    PROVE  InWindow(u)
  BY DEF LocalStep, Stays, Leaves, InWindow, Window, Noting, Disarming, Reporting

(* Such a step preserves what is said of the lists.                         *)
LEMMA LocalKeeps ==
    ASSUME CaptureInv, LocalStep
    PROVE  ListsInv'
<1> USE DEF CaptureInv
<1>1. ListsFit'
  <2> SUFFICES ASSUME NEW t \in Threads
               PROVE  /\ pending'[t] \cap held'[t] = {}
                      /\ pc'[t] \in Suspending => Suspends(capture'[t])
                      /\ pc'[t] = "inSuspend" => target'[t] \in pending'[t]
                      /\ pc'[t] \in Outside \cup {"finish"} =>
                            pc'[t] = "terminated" \/ held'[t] = {}
    BY DEF ListsFit, Suspends
  <2>1. CASE Stays(t)
    BY <2>1 DEF ListsFit, LocalStep, Stays
  <2>2. CASE Leaves(t)
    BY <2>2 DEF ListsFit, LocalStep, Leaves, Suspending
  <2> QED
    BY <2>1, <2>2 DEF LocalStep
<1>2. ListsCover'
  <2>1. ASSUME NEW t \in Threads
        PROVE  /\ t \in EarlyThreads => pc'[t] # "unborn"
               /\ pc'[t] \in Suspending =>
                    EarlyThreads \ {t} \subseteq pending'[t] \cup held'[t]
    <3>1. CASE Stays(t)
      BY <3>1 DEF ListsCover, LocalStep, Stays
    <3>2. CASE Leaves(t)
      BY <3>2 DEF Leaves
    <3> QED
      BY <2>1, <3>1, <3>2 DEF LocalStep
  <2>2. ASSUME NEW t \in Threads, InWindow(t)'
        PROVE  EarlyThreads \ {t} \subseteq held'[t]
    BY <2>2, NoEntry DEF ListsCover, LocalStep
  <2> QED
    BY <2>1, <2>2 DEF ListsCover, InWindow
<1>3. SuspendsBalance'
  BY DEF SuspendsBalance, LocalStep, HoldersIn
<1>4. ExclusiveWindow'
  <2> SUFFICES ASSUME NEW t \in EarlyThreads, NEW u \in EarlyThreads,
                      InWindow(t)', InWindow(u)'
               PROVE  t = u
    BY DEF ExclusiveWindow, InWindow
  <2>1. t \in Threads /\ u \in Threads
    BY DEF EarlyThreads, Threads
  <2> QED
    BY <2>1, NoEntry DEF ExclusiveWindow
<1> QED
  BY <1>1, <1>2, <1>3, <1>4 DEF ListsInv

-----------------------------------------------------------------------------
(* Steps that take and drop suspensions.                                    *)

OthersStay(t) == \A u \in Threads \ {t} : Stays(u)

(* A thread starts to suspend the others.                                   *)
LEMMA BeginKeeps ==
    ASSUME CaptureInv, NEW t \in Threads, NEW k \in Captures,
           pc[t] \in Outside \ {"terminated"}, Begin(t, k)
    PROVE  ListsInv'
<1> USE DEF CaptureInv
<1>1. /\ held' = held
      /\ abandoned' = abandoned
      /\ target' = target
      /\ suspendCount' = suspendCount
      /\ capture'[t] = k
      /\ OthersStay(t)
  BY DEF Begin, Goto, TypeOK, OthersStay, Stays
<1>2. held[t] = {}
  BY DEF ListsFit
<1>3. CASE ~Suspends(k)
  <2>1. pending' = pending /\ pc'[t] = AfterSuspension(k)
    BY <1>3 DEF Begin, Goto, TypeOK
  <2>2. AfterSuspension(k) \in {"resuming", "notify", "fill"}
    BY DEF AfterSuspension
  <2>3. Leaves(t)
    BY <1>1, <1>2, <1>3, <2>1, <2>2 DEF Leaves, Suspending, Outside
  <2>4. LocalStep
    BY <1>1, <2>1, <2>3 DEF LocalStep, OthersStay
  <2> QED
    BY <2>4, LocalKeeps
<1>4. CASE Suspends(k)
  <2>1. /\ pending'[t] = Snapshot(t)
        /\ \A u \in Threads \ {t} : pending'[u] = pending[u]
        /\ pc'[t] = "suspending"
    BY <1>4 DEF Begin, Goto, TypeOK
  <2>2. EarlyThreads \ {t} \subseteq Snapshot(t)
    BY DEF ListsCover, Snapshot, EarlyThreads, Threads
  <2>3. \A u \in Threads : InWindow(u)' => u # t /\ InWindow(u)
    BY <1>1, <2>1 DEF InWindow, OthersStay, Stays, Window, Noting, Disarming,
                      Reporting
  <2>4. ListsFit'
    <3> SUFFICES ASSUME NEW u \in Threads
                 PROVE  /\ pending'[u] \cap held'[u] = {}
                        /\ pc'[u] \in Suspending => Suspends(capture'[u])
                        /\ pc'[u] = "inSuspend" => target'[u] \in pending'[u]
                        /\ pc'[u] \in Outside \cup {"finish"} =>
                              pc'[u] = "terminated" \/ held'[u] = {}
      BY DEF ListsFit, Suspends
    <3>1. CASE u = t
      BY <1>1, <1>2, <1>4, <2>1, <3>1
    <3>2. CASE u # t
      BY <1>1, <2>1, <3>2 DEF ListsFit, OthersStay, Stays
    <3> QED
      BY <3>1, <3>2
  <2>5. ListsCover'
    <3>1. ASSUME NEW u \in Threads
          PROVE  /\ u \in EarlyThreads => pc'[u] # "unborn"
                 /\ pc'[u] \in Suspending =>
                      EarlyThreads \ {u} \subseteq pending'[u] \cup held'[u]
      <4>1. CASE u = t
        BY <2>1, <2>2, <4>1
      <4>2. CASE u # t
        BY <1>1, <2>1, <4>2 DEF ListsCover, OthersStay, Stays
      <4> QED
        BY <4>1, <4>2
    <3>2. ASSUME NEW u \in Threads, InWindow(u)'
          PROVE  EarlyThreads \ {u} \subseteq held'[u]
      BY <1>1, <2>3, <3>2 DEF ListsCover
    <3> QED
      BY <3>1, <3>2 DEF ListsCover, InWindow
  <2>6. SuspendsBalance'
    BY <1>1 DEF SuspendsBalance, HoldersIn
  <2>7. ExclusiveWindow'
    BY <2>3 DEF ExclusiveWindow, EarlyThreads, Threads, InWindow
  <2> QED
    BY <2>4, <2>5, <2>6, <2>7 DEF ListsInv
<1> QED
  BY <1>3, <1>4

(* The call of thread_suspend names a thread of the list.                   *)
LEMMA EnterSuspendKeeps ==
    ASSUME CaptureInv, NEW t \in Threads, EnterSuspend(t)
    PROVE  ListsInv'
<1> USE DEF CaptureInv
<1>1. PICK v \in pending[t] : target' = [target EXCEPT ![t] = v]
  BY DEF EnterSuspend
<1>2. /\ pending' = pending
      /\ held' = held
      /\ abandoned' = abandoned
      /\ suspendCount' = suspendCount
      /\ capture' = capture
      /\ pc[t] = "suspending"
      /\ pc'[t] = "inSuspend"
      /\ target'[t] \in pending[t]
      /\ \A u \in Threads \ {t} : pc'[u] = pc[u] /\ target'[u] = target[u]
  BY <1>1 DEF EnterSuspend, At, Goto, frame, TypeOK
<1>3. \A u \in Threads : InWindow(u)' => InWindow(u)
  BY <1>2 DEF InWindow, Window, Noting, Disarming, Reporting
<1>4. ListsFit'
  BY <1>2 DEF ListsFit, Suspending, Outside, Suspends
<1>5. ListsCover'
  BY <1>2, <1>3 DEF ListsCover, Suspending
<1>6. SuspendsBalance'
  BY <1>2 DEF SuspendsBalance, HoldersIn
<1>7. ExclusiveWindow'
  BY <1>3 DEF ExclusiveWindow, EarlyThreads, Threads, InWindow
<1> QED
  BY <1>4, <1>5, <1>6, <1>7 DEF ListsInv

(* Inside the kernel the target gains a suspension and a holder.            *)
LEMMA SuspendTargetKeeps ==
    ASSUME CaptureInv, NEW t \in Threads, SuspendTarget(t)
    PROVE  ListsInv'
<1> USE DEF CaptureInv
<1> DEFINE v == target[t]
<1>1. /\ v \in pending[t]
      /\ v \notin held[t]
      /\ v \in AppThreads
      /\ pc[t] = "inSuspend"
      /\ Suspends(capture[t])
  BY DEF SuspendTarget, ListsFit, Suspending, TypeOK
<1>2. /\ abandoned' = abandoned
      /\ capture' = capture
      /\ pc'[t] = "suspending"
      /\ pending'[t] = pending[t] \ {v}
      /\ held'[t] = held[t] \cup {v}
      /\ \A u \in Threads \ {t} : /\ pc'[u] = pc[u]
                                  /\ target'[u] = target[u]
                                  /\ pending'[u] = pending[u]
                                  /\ held'[u] = held[u]
  BY DEF SuspendTarget, Goto, frame, TypeOK
<1>3. \A u \in Threads : InWindow(u)' => u # t /\ InWindow(u)
  BY <1>2 DEF InWindow, Window, Noting, Disarming, Reporting
<1>4. ListsFit'
  <2> SUFFICES ASSUME NEW u \in Threads
               PROVE  /\ pending'[u] \cap held'[u] = {}
                      /\ pc'[u] \in Suspending => Suspends(capture'[u])
                      /\ pc'[u] = "inSuspend" => target'[u] \in pending'[u]
                      /\ pc'[u] \in Outside \cup {"finish"} =>
                            pc'[u] = "terminated" \/ held'[u] = {}
    BY DEF ListsFit, Suspends
  <2>1. CASE u = t
    BY <1>1, <1>2, <2>1 DEF ListsFit, Suspending, Outside
  <2>2. CASE u # t
    BY <1>2, <2>2 DEF ListsFit
  <2> QED
    BY <2>1, <2>2
<1>5. ListsCover'
  <2>1. ASSUME NEW u \in Threads
        PROVE  /\ u \in EarlyThreads => pc'[u] # "unborn"
               /\ pc'[u] \in Suspending =>
                    EarlyThreads \ {u} \subseteq pending'[u] \cup held'[u]
    <3>1. CASE u = t
      BY <1>1, <1>2, <3>1 DEF ListsCover, Suspending
    <3>2. CASE u # t
      BY <1>2, <3>2 DEF ListsCover
    <3> QED
      BY <3>1, <3>2
  <2>2. ASSUME NEW u \in Threads, InWindow(u)'
        PROVE  EarlyThreads \ {u} \subseteq held'[u]
    BY <1>2, <1>3, <2>2 DEF ListsCover
  <2> QED
    BY <2>1, <2>2 DEF ListsCover, InWindow
<1>6. SuspendsBalance'
  <2> SUFFICES ASSUME NEW u \in AppThreads
               PROVE  suspendCount'[u] = Cardinality(HoldersIn(held', u))
                                          + Cardinality(HoldersIn(abandoned, u))
    BY <1>2 DEF SuspendsBalance, HoldersIn
  <2>1. /\ suspendCount[u] = Cardinality(HoldersIn(held, u))
                               + Cardinality(HoldersIn(abandoned, u))
        /\ Cardinality(HoldersIn(held, u)) \in Nat
        /\ Cardinality(HoldersIn(abandoned, u)) \in Nat
    BY HoldersCount DEF SuspendsBalance
  <2>2. CASE u = v
    <3>1. suspendCount'[u] = suspendCount[u] + 1
      BY <2>2 DEF SuspendTarget, TypeOK, Threads
    <3>2. Cardinality(HoldersIn(held', u)) = Cardinality(HoldersIn(held, u)) + 1
      <4>1. u \notin held[t] /\ u \in held'[t]
        BY <1>1, <1>2, <2>2
      <4>2. \A x \in Threads \ {t} : u \in held'[x] <=> u \in held[x]
        BY <1>2
      <4> QED
        BY <4>1, <4>2, OneMoreHolder
    <3> QED
      BY <2>1, <3>1, <3>2
  <2>3. CASE u # v
    <3>1. suspendCount'[u] = suspendCount[u]
      BY <2>3 DEF SuspendTarget, TypeOK, Threads
    <3>2. HoldersIn(held', u) = HoldersIn(held, u)
      BY <1>2, <2>3, SameHolders
    <3> QED
      BY <2>1, <3>1, <3>2
  <2> QED
    BY <2>2, <2>3
<1>7. ExclusiveWindow'
  BY <1>3 DEF ExclusiveWindow, EarlyThreads, Threads, InWindow
<1> QED
  BY <1>4, <1>5, <1>6, <1>7 DEF ListsInv

(* The last thread of the list is suspended: a thread that gets here runs,  *)
(* so that no other holds it, and is alone in the window.                   *)
LEMMA SuspendCompleteKeeps ==
    ASSUME CaptureInv, NEW t \in Threads, SuspendComplete(t)
    PROVE  ListsInv'
<1> USE DEF CaptureInv
<1>1. /\ pending' = pending
      /\ held' = held
      /\ abandoned' = abandoned
      /\ target' = target
      /\ suspendCount' = suspendCount
      /\ capture' = capture
      /\ pc[t] = "suspending"
      /\ Running(t)
      /\ pending[t] = {}
      /\ pc'[t] = AfterSuspension(capture[t])
      /\ \A u \in Threads \ {t} : pc'[u] = pc[u]
  BY DEF SuspendComplete, At, Goto, scheduling, frame, TypeOK
<1>2. pc'[t] \in {"resuming", "notify", "fill"}
  BY <1>1 DEF AfterSuspension
<1>3. EarlyThreads \ {t} \subseteq held[t]
  BY <1>1 DEF ListsCover, Suspending
<1>4. \A u \in Threads : InWindow(u)' => u = t \/ InWindow(u)
  BY <1>1 DEF InWindow
<1>5. ListsFit'
  <2> SUFFICES ASSUME NEW u \in Threads
               PROVE  /\ pending'[u] \cap held'[u] = {}
                      /\ pc'[u] \in Suspending => Suspends(capture'[u])
                      /\ pc'[u] = "inSuspend" => target'[u] \in pending'[u]
                      /\ pc'[u] \in Outside \cup {"finish"} =>
                            pc'[u] = "terminated" \/ held'[u] = {}
    BY DEF ListsFit, Suspends
  <2>1. CASE u = t
    BY <1>1, <1>2, <2>1 DEF ListsFit, Suspending, Outside
  <2>2. CASE u # t
    BY <1>1, <2>2 DEF ListsFit
  <2> QED
    BY <2>1, <2>2
<1>6. ListsCover'
  <2>1. ASSUME NEW u \in Threads
        PROVE  /\ u \in EarlyThreads => pc'[u] # "unborn"
               /\ pc'[u] \in Suspending =>
                    EarlyThreads \ {u} \subseteq pending'[u] \cup held'[u]
    BY <1>1, <1>2 DEF ListsCover, Suspending
  <2>2. ASSUME NEW u \in Threads, InWindow(u)'
        PROVE  EarlyThreads \ {u} \subseteq held'[u]
    BY <1>1, <1>3, <1>4, <2>2 DEF ListsCover
  <2> QED
    BY <2>1, <2>2 DEF ListsCover, InWindow
<1>7. SuspendsBalance'
  BY <1>1 DEF SuspendsBalance, HoldersIn
<1>8. ExclusiveWindow'
  <2>1. ASSUME NEW u \in EarlyThreads, u # t, InWindow(u), t \in EarlyThreads
        PROVE  FALSE
    <3>1. u \in Threads /\ t \in AppThreads
      BY <2>1 DEF EarlyThreads, Threads
    <3>2. t \in held[u]
      BY <2>1, <3>1 DEF ListsCover
    <3> QED
      BY <1>1, <3>1, <3>2, HeldDoesNotRun
  <2> SUFFICES ASSUME NEW x \in EarlyThreads, NEW y \in EarlyThreads,
                      InWindow(x)', InWindow(y)'
               PROVE  x = y
    BY DEF ExclusiveWindow, InWindow
  <2>2. x \in Threads /\ y \in Threads
    BY DEF EarlyThreads, Threads
  <2> QED
    BY <1>4, <2>1, <2>2 DEF ExclusiveWindow
<1> QED
  BY <1>5, <1>6, <1>7, <1>8 DEF ListsInv

(* thread_resume undoes one suspension and drops one holder.                *)
LEMMA ResumeKeeps ==
    ASSUME CaptureInv, NEW t \in Threads, Resume(t)
    PROVE  ListsInv'
<1> USE DEF CaptureInv
<1>1. CASE held[t] = {}
  <2>1. /\ UNCHANGED <<suspendCount, held, pending, abandoned, target, capture>>
        /\ pc'[t] = "finish"
        /\ \A u \in Threads \ {t} : pc'[u] = pc[u]
    BY <1>1 DEF Resume, Goto, frame, TypeOK
  <2>2. Leaves(t)
    BY <1>1, <2>1 DEF Leaves, Suspending, Window, Noting, Disarming, Reporting
  <2>3. LocalStep
    BY <2>1, <2>2 DEF LocalStep, Stays
  <2> QED
    BY <2>3, LocalKeeps
<1>2. CASE held[t] # {}
  <2>1. PICK v \in held[t] :
            /\ suspendCount' = [suspendCount EXCEPT
                                  ![v] = IF @ > 0 THEN @ - 1 ELSE 0]
            /\ held' = [held EXCEPT ![t] = @ \ {v}]
    BY <1>2 DEF Resume
  <2>2. /\ UNCHANGED <<pc, pending, abandoned, target, capture>>
        /\ pc[t] = "resuming"
        /\ v \in AppThreads
        /\ held'[t] = held[t] \ {v}
        /\ \A u \in Threads \ {t} : held'[u] = held[u]
    BY <1>2, <2>1 DEF Resume, At, frame, TypeOK
  <2>3. ~InWindow(t) /\ pc[t] \notin Suspending
    BY <2>2 DEF InWindow, Window, Noting, Disarming, Reporting, Suspending
  <2>4. ListsFit'
    BY <2>2, <2>3 DEF ListsFit, Outside, Suspends
  <2>5. ListsCover'
    <3> SUFFICES ASSUME NEW u \in Threads
                 PROVE  /\ u \in EarlyThreads => pc[u] # "unborn"
                        /\ pc[u] \in Suspending =>
                             EarlyThreads \ {u} \subseteq pending[u] \cup held'[u]
                        /\ InWindow(u) => EarlyThreads \ {u} \subseteq held'[u]
      BY <2>2 DEF ListsCover, InWindow
    <3> QED
      BY <2>2, <2>3 DEF ListsCover
  <2>6. SuspendsBalance'
    <3> SUFFICES ASSUME NEW u \in AppThreads
                 PROVE  suspendCount'[u] = Cardinality(HoldersIn(held', u))
                                            + Cardinality(HoldersIn(abandoned, u))
      BY <2>2 DEF SuspendsBalance, HoldersIn
    <3>1. /\ suspendCount[u] = Cardinality(HoldersIn(held, u))
                                 + Cardinality(HoldersIn(abandoned, u))
          /\ Cardinality(HoldersIn(held, u)) \in Nat
          /\ Cardinality(HoldersIn(held', u)) \in Nat
          /\ Cardinality(HoldersIn(abandoned, u)) \in Nat
      BY HoldersCount DEF SuspendsBalance
    <3>2. CASE u = v
      <4>1. suspendCount[u] > 0
        BY <2>1, <2>2, <3>2, HeldDoesNotRun
      <4>2. suspendCount'[u] = suspendCount[u] - 1
        BY <2>1, <3>2, <4>1 DEF TypeOK, Threads
      <4>3. u \in held[t] /\ u \notin held'[t]
        BY <2>1, <2>2, <3>2
      <4>4. \A x \in Threads \ {t} : u \in held[x] <=> u \in held'[x]
        BY <2>2
      <4>5. Cardinality(HoldersIn(held, u)) = Cardinality(HoldersIn(held', u)) + 1
        BY <4>3, <4>4, OneMoreHolder
      <4> QED
        BY <3>1, <4>2, <4>5
    <3>3. CASE u # v
      <4>1. suspendCount'[u] = suspendCount[u]
        BY <2>1, <3>3 DEF TypeOK, Threads
      <4>2. HoldersIn(held', u) = HoldersIn(held, u)
        BY <2>2, <3>3, SameHolders
      <4> QED
        BY <3>1, <4>1, <4>2
    <3> QED
      BY <3>2, <3>3
  <2>7. ExclusiveWindow'
    BY <2>2 DEF ExclusiveWindow, InWindow
  <2> QED
    BY <2>4, <2>5, <2>6, <2>7 DEF ListsInv
<1> QED
  BY <1>1, <1>2

(* A fault in a handler moves its list to the frame it abandons.            *)
LEMMA CrashInHandlerKeeps ==
    ASSUME CaptureInv, NEW t \in Threads, CrashInHandler(t)
    PROVE  ListsInv'
<1> USE DEF CaptureInv
<1>1. /\ UNCHANGED <<suspendCount, pending, target, capture>>
      /\ pc'[t] \in {"blocked", "signaled"}
      /\ abandoned[t] = {}
      /\ abandoned'[t] = held[t]
      /\ held'[t] = {}
      /\ \A u \in Threads \ {t} : /\ pc'[u] = pc[u]
                                  /\ held'[u] = held[u]
                                  /\ abandoned'[u] = abandoned[u]
  BY DEF CrashInHandler, Fault, Goto, frame, TypeOK
<1>2. /\ pc'[t] \notin Suspending \cup {"unborn"}
      /\ ~InWindow(t)'
  BY <1>1 DEF InWindow, Window, Noting, Disarming, Reporting, Suspending
<1>3. \A u \in Threads : InWindow(u)' => u # t /\ InWindow(u)
  BY <1>1, <1>2 DEF InWindow
<1>4. ListsFit'
  <2> SUFFICES ASSUME NEW u \in Threads
               PROVE  /\ pending'[u] \cap held'[u] = {}
                      /\ pc'[u] \in Suspending => Suspends(capture'[u])
                      /\ pc'[u] = "inSuspend" => target'[u] \in pending'[u]
                      /\ pc'[u] \in Outside \cup {"finish"} =>
                            pc'[u] = "terminated" \/ held'[u] = {}
    BY DEF ListsFit, Suspends
  <2>1. CASE u = t
    BY <1>1, <1>2, <2>1
  <2>2. CASE u # t
    BY <1>1, <2>2 DEF ListsFit
  <2> QED
    BY <2>1, <2>2
<1>5. ListsCover'
  <2>1. ASSUME NEW u \in Threads
        PROVE  /\ u \in EarlyThreads => pc'[u] # "unborn"
               /\ pc'[u] \in Suspending =>
                    EarlyThreads \ {u} \subseteq pending'[u] \cup held'[u]
    BY <1>1, <1>2 DEF ListsCover
  <2>2. ASSUME NEW u \in Threads, InWindow(u)'
        PROVE  EarlyThreads \ {u} \subseteq held'[u]
    BY <1>1, <1>3, <2>2 DEF ListsCover
  <2> QED
    BY <2>1, <2>2 DEF ListsCover, InWindow
<1>6. SuspendsBalance'
  <2> SUFFICES ASSUME NEW u \in AppThreads
               PROVE  suspendCount[u] = Cardinality(HoldersIn(held', u))
                                          + Cardinality(HoldersIn(abandoned', u))
    BY <1>1 DEF SuspendsBalance, HoldersIn
  <2>1. /\ suspendCount[u] = Cardinality(HoldersIn(held, u))
                               + Cardinality(HoldersIn(abandoned, u))
        /\ Cardinality(HoldersIn(held', u)) \in Nat
        /\ Cardinality(HoldersIn(abandoned, u)) \in Nat
    BY HoldersCount DEF SuspendsBalance
  <2>2. CASE u \in held[t]
    <3>1. u \notin held'[t] /\ u \notin abandoned[t] /\ u \in abandoned'[t]
      BY <1>1, <2>2
    <3>2. \A x \in Threads \ {t} : /\ u \in held[x] <=> u \in held'[x]
                                   /\ u \in abandoned'[x] <=> u \in abandoned[x]
      BY <1>1
    <3>3. Cardinality(HoldersIn(held, u)) = Cardinality(HoldersIn(held', u)) + 1
      BY <2>2, <3>1, <3>2, OneMoreHolder
    <3>4. Cardinality(HoldersIn(abandoned', u))
            = Cardinality(HoldersIn(abandoned, u)) + 1
      BY <2>2, <3>1, <3>2, OneMoreHolder
    <3> QED
      BY <2>1, <3>3, <3>4
  <2>3. CASE u \notin held[t]
    <3>1. \A x \in Threads : /\ u \in held'[x] <=> u \in held[x]
                             /\ u \in abandoned'[x] <=> u \in abandoned[x]
      BY <1>1, <2>3
    <3>2. HoldersIn(held', u) = HoldersIn(held, u)
      BY <3>1, SameHolders
    <3>3. HoldersIn(abandoned', u) = HoldersIn(abandoned, u)
      BY <3>1, SameHolders
    <3> QED
      BY <2>1, <3>2, <3>3
  <2> QED
    BY <2>2, <2>3
<1>7. ExclusiveWindow'
  BY <1>3 DEF ExclusiveWindow, EarlyThreads, Threads, InWindow
<1> QED
  BY <1>4, <1>5, <1>6, <1>7 DEF ListsInv

-----------------------------------------------------------------------------
(* Type correctness.                                                        *)

(* The start of a capture keeps the types of what it changes.               *)
LEMMA BeginTypes ==
    ASSUME TypeOK, NEW t \in Threads, NEW k \in Captures, Begin(t, k)
    PROVE  /\ pc' \in [Threads -> Phases]
           /\ capture' \in [Threads -> Captures \cup {"none"}]
           /\ pending' \in [Threads -> SUBSET AppThreads]
           /\ recorded' \in [Threads -> BOOLEAN]
           /\ UNCHANGED <<suspendCount, held, abandoned, target, reportID>>
<1>1. AfterSuspension(k) \in Phases
  BY DEF AfterSuspension, Phases, Noting, Reporting
<1>2. "suspending" \in Phases
  BY DEF Phases, Suspending
<1>3. Snapshot(t) \subseteq AppThreads
  BY DEF Snapshot
<1>4. pc' \in [Threads -> Phases]
  BY <1>1, <1>2 DEF Begin, Goto, TypeOK
<1>5. pending' \in [Threads -> SUBSET AppThreads]
  BY <1>3 DEF Begin, TypeOK
<1> QED
  BY <1>4, <1>5 DEF Begin, TypeOK

(* A fault keeps the types of what it changes.                              *)
LEMMA FaultTypes ==
    ASSUME TypeOK, NEW t \in Threads, Fault(t)
    PROVE  pc' \in [Threads -> Phases] /\ queue' \in Seq(Threads)
<1>1. pc' \in [Threads -> Phases]
  BY DEF Fault, Goto, TypeOK, Phases, Outside
<1>2. queue \in Seq(Threads) /\ queue' \in {queue, Append(queue, t)}
  BY DEF Fault, TypeOK
<1>3. Append(queue, t) \in Seq(Threads)
  BY <1>2, AppendProperties
<1> QED
  BY <1>1, <1>2, <1>3

(* An event of the bound is spent.                                          *)
LEMMA SpendTypes ==
    ASSUME TypeOK, NEW kind \in EventKinds, Spend(kind)
    PROVE  budget' \in [EventKinds -> Nat]
  BY DEF Spend, TypeOK

(* The types hold at the start ...                                          *)
LEMMA TypeInit == Init => TypeOK
<1> SUFFICES ASSUME Init PROVE TypeOK
  OBVIOUS
<1>1. pc \in [Threads -> Phases]
  BY DEF Init, Phases, Outside
<1>2. budget \in [EventKinds -> Nat] /\ enabled \subseteq Monitors
  BY MonitorsAssumption DEF Init
<1>3. /\ DOMAIN files \subseteq Nat /\ \A id \in DOMAIN files : files[id] \in File
      /\ DOMAIN old \subseteq Nat /\ \A id \in DOMAIN old : old[id] \in File
  <2>1. files = <<>> /\ old = <<>>
    BY DEF Init
  <2>2. <<>> \in Seq(Nat) /\ Len(<<>>) = 0
    BY EmptySeq
  <2>3. DOMAIN <<>> = {}
    BY <2>2, LenProperties
  <2> QED
    BY <2>1, <2>3
<1>4. queue \in Seq(Threads)
  BY DEF Init
<1> QED
  BY <1>1, <1>2, <1>3, <1>4 DEF Init, TypeOK

(* ... and the events of the environment keep them.                         *)
LEMMA TypeEnvironment ==
    ASSUME CaptureInv, NEW t \in Threads, Environment(t)
    PROVE  TypeOK'
<1> USE DEF CaptureInv, At, Goto, scheduling, frame, monitoring, store, process
<1>1. CASE CreateThread(t)
  BY <1>1 DEF CreateThread, TypeOK, Phases, Outside
<1>2. CASE CrashWithFault(t)
  BY <1>2, FaultTypes, SpendTypes DEF CrashWithFault, TypeOK, EventKinds
<1>3. CASE CrashWithSignal(t)
  BY <1>3, SpendTypes DEF CrashWithSignal, TypeOK, EventKinds, Phases, Outside
<1>4. CASE CrashWithException(t)
  <2>1. /\ pc' \in [Threads -> Phases]
        /\ capture' \in [Threads -> Captures \cup {"none"}]
        /\ pending' \in [Threads -> SUBSET AppThreads]
        /\ recorded' \in [Threads -> BOOLEAN]
        /\ UNCHANGED <<suspendCount, held, abandoned, target, reportID>>
    <3>1. CASE "cpp" \in enabled
      <4>1. PICK k \in Captures : Begin(t, k)
        BY <1>4, <3>1 DEF CrashWithException, Captures
      <4> QED
        BY <4>1, BeginTypes
    <3>2. CASE "cpp" \notin enabled
      BY <1>4, <3>2 DEF CrashWithException, TypeOK, Phases, Outside
    <3> QED
      BY <3>1, <3>2
  <2> QED
    BY <1>4, <2>1, SpendTypes DEF CrashWithException, TypeOK, EventKinds
<1>5. CASE ReportUserException(t)
  <2>1. PICK k \in ReportKinds : Begin(t, k) /\ fatalSeen' = (fatalSeen \/ Fatal(k))
    BY <1>5 DEF ReportUserException
  <2>2. k \in Captures
    BY MonitorsAssumption DEF Captures
  <2>3. fatalSeen' \in BOOLEAN
    BY <2>1 DEF TypeOK, Fatal
  <2> QED
    BY <1>5, <2>1, <2>2, <2>3, BeginTypes, SpendTypes
       DEF ReportUserException, TypeOK, EventKinds
<1>6. CASE CrashInHandler(t)
  BY <1>6, FaultTypes, SpendTypes DEF CrashInHandler, TypeOK, EventKinds
<1> QED
  BY <1>1, <1>2, <1>3, <1>4, <1>5, <1>6 DEF Environment

(* The types of a directory of report files.                                *)
IsDirectory(dir) == DOMAIN dir \subseteq Nat /\ \A id \in DOMAIN dir : dir[id] \in File

(* The steps on report files keep the types of both directories.            *)
LEMMA FileTypes ==
    ASSUME CaptureInv, NEW t \in Threads,
           \/ OpenReport(t) \/ WriteReport(t) \/ RenameToOld(t) \/ OpenRecrash(t)
           \/ EmbedOld(t) \/ RemoveOld(t) \/ WriteRecrash(t)
    PROVE  IsDirectory(files)' /\ IsDirectory(old)'
<1> USE DEF CaptureInv
<1>1. IsDirectory(files) /\ IsDirectory(old)
  BY DEF TypeOK, IsDirectory
<1>2. reportID[t] \in Nat /\ lastPath \in Nat
  BY DEF TypeOK
<1>3. NewFile(t) \in File
  BY DEF NewFile, File, Fatal
<1>4. \A dir, id, f : IsDirectory(dir) /\ id \in Nat /\ f \in File =>
            IsDirectory(WithFile(dir, id, f)) /\ IsDirectory(WithoutFile(dir, id))
  BY DEF IsDirectory, WithFile, WithoutFile
<1>5. ASSUME NEW dir, NEW keeps \in BOOLEAN, IsDirectory(dir)
      PROVE  IsDirectory(Completed(dir, t, keeps))
  BY <1>5 DEF IsDirectory, Completed, File
<1>6. CASE OpenReport(t) \/ OpenRecrash(t)
  BY <1>1, <1>2, <1>3, <1>4, <1>6 DEF OpenReport, OpenRecrash
<1>7. CASE WriteReport(t) \/ WriteRecrash(t)
  BY <1>1, <1>5, <1>7 DEF WriteReport, WriteRecrash
<1>8. CASE RenameToOld(t)
  <2>1. CASE lastPath \in DOMAIN files
    <3>1. files[lastPath] \in File
      BY <1>1, <2>1 DEF IsDirectory
    <3> QED
      BY <1>1, <1>2, <1>4, <1>8, <2>1, <3>1 DEF RenameToOld
  <2>2. CASE lastPath \notin DOMAIN files
    BY <1>1, <1>8, <2>2 DEF RenameToOld
  <2> QED
    BY <2>1, <2>2
<1>9. CASE EmbedOld(t)
  <2>1. old' = old
    BY <1>9 DEF EmbedOld
  <2>2. files' = files \/ \E b \in BOOLEAN :
            /\ reportID[t] \in DOMAIN files
            /\ files' = [files EXCEPT ![reportID[t]].saved = b]
    BY <1>1, <1>9 DEF EmbedOld, IsDirectory, File
  <2> QED
    BY <1>1, <2>1, <2>2 DEF IsDirectory, File
<1>10. CASE RemoveOld(t)
  BY <1>1, <1>2, <1>3, <1>4, <1>10 DEF RemoveOld
<1> QED
  BY <1>6, <1>7, <1>8, <1>9, <1>10

(* The steps of the handlers keep the types.                                *)
LEMMA TypeProgress ==
    ASSUME CaptureInv, NEW t \in Threads, Progress(t)
    PROVE  TypeOK'
<1> USE DEF CaptureInv, At, Goto, scheduling, frame, monitoring, store, process
<1>1. CASE TakeSignal(t)
  <2>1. Begin(t, "signal") /\ "signal" \in Captures
    BY <1>1 DEF TakeSignal, Captures
  <2> QED
    BY <1>1, <2>1, BeginTypes DEF TakeSignal, TypeOK
<1>2. CASE DieOfSignal(t)
  BY <1>2 DEF DieOfSignal, TypeOK
<1>3. CASE SuspendSelf(t)
  BY <1>3 DEF SuspendSelf, TypeOK, Phases, Outside
<1>4. CASE ReceiveException(t)
  <2>1. /\ pc' \in [Threads -> Phases]
        /\ capture' \in [Threads -> Captures \cup {"none"}]
        /\ pending' \in [Threads -> SUBSET AppThreads]
        /\ recorded' \in [Threads -> BOOLEAN]
        /\ UNCHANGED <<suspendCount, held, abandoned, target, reportID>>
    <3>1. "mach" \in Captures /\ "finish" \in Phases
      BY DEF Captures, Phases
    <3>2. CASE "mach" \in enabled
      BY <1>4, <3>1, <3>2, BeginTypes DEF ReceiveException
    <3>3. CASE "mach" \notin enabled
      <4>1. /\ pc' = [pc EXCEPT ![t] = "finish"]
            /\ capture' = [capture EXCEPT ![t] = "mach"]
            /\ UNCHANGED <<suspendCount, pending, held, abandoned, target,
                           recorded, reportID>>
        BY <1>4, <3>3 DEF ReceiveException
      <4> QED
        BY <3>1, <4>1 DEF TypeOK
    <3> QED
      BY <3>2, <3>3
  <2>2. queue \in Seq(Threads) /\ queue # <<>>
    BY <1>4 DEF ReceiveException, TypeOK
  <2>3. Head(queue) \in Threads /\ Tail(queue) \in Seq(Threads)
    BY <2>2, HeadTailProperties
  <2>4. queue' \in Seq(Threads) /\ victim' \in [Threads -> Threads \cup {None}]
    BY <1>4, <2>3 DEF ReceiveException, TypeOK
  <2> QED
    BY <1>4, <2>1, <2>4 DEF ReceiveException, TypeOK
<1>5. CASE EnterSuspend(t)
  BY <1>5 DEF EnterSuspend, TypeOK, Phases, Suspending
<1>6. CASE SuspendTarget(t)
  <2>1. target[t] \in AppThreads
    BY <1>6 DEF SuspendTarget, ListsFit, TypeOK
  <2>2. /\ "suspending" \in Phases
        /\ target[t] \in Threads
    BY <2>1 DEF Phases, Suspending, Threads
  <2>3. pc' \in [Threads -> Phases]
    BY <1>6, <2>2 DEF SuspendTarget, TypeOK
  <2>4. suspendCount' \in [Threads -> Nat]
    <3>1. suspendCount[target[t]] + 1 \in Nat
      BY <2>2 DEF TypeOK
    <3> QED
      BY <1>6, <2>2, <3>1 DEF SuspendTarget, TypeOK
  <2>5. held' \in [Threads -> SUBSET AppThreads]
    <3>1. held[t] \cup {target[t]} \in SUBSET AppThreads
      BY <2>1 DEF TypeOK
    <3> QED
      BY <1>6, <3>1 DEF SuspendTarget, TypeOK
  <2>6. pending' \in [Threads -> SUBSET AppThreads]
    <3>1. pending[t] \ {target[t]} \in SUBSET AppThreads
      BY DEF TypeOK
    <3> QED
      BY <1>6, <3>1 DEF SuspendTarget, TypeOK
  <2>7. target' \in [Threads -> AppThreads \cup {None}]
    BY <1>6 DEF SuspendTarget, TypeOK
  <2> QED
    BY <1>6, <2>3, <2>4, <2>5, <2>6, <2>7 DEF SuspendTarget, TypeOK
<1>7. CASE SuspendComplete(t)
  <2>1. AfterSuspension(capture[t]) \in Phases
    BY DEF AfterSuspension, Phases, Noting, Reporting
  <2> QED
    BY <1>7, <2>1 DEF SuspendComplete, TypeOK
<1>8. CASE Resume(t)
  <2>1. CASE held[t] = {}
    BY <1>8, <2>1 DEF Resume, TypeOK, Phases
  <2>2. CASE held[t] # {}
    <3>1. PICK u \in held[t] :
              /\ suspendCount' = [suspendCount EXCEPT
                                    ![u] = IF @ > 0 THEN @ - 1 ELSE 0]
              /\ held' = [held EXCEPT ![t] = @ \ {u}]
      BY <1>8, <2>2 DEF Resume
    <3>2. suspendCount' \in [Threads -> Nat]
      <4>1. u \in Threads /\ suspendCount[u] \in Nat
        BY DEF TypeOK, Threads
      <4>2. (IF suspendCount[u] > 0 THEN suspendCount[u] - 1 ELSE 0) \in Nat
        BY <4>1
      <4> QED
        BY <3>1, <4>1, <4>2 DEF TypeOK
    <3>3. held' \in [Threads -> SUBSET AppThreads]
      BY <3>1 DEF TypeOK
    <3> QED
      BY <1>8, <2>2, <3>2, <3>3 DEF Resume, TypeOK
  <2> QED
    BY <2>1, <2>2
<1>9. CASE NotifyTest(t)
  BY <1>9 DEF NotifyTest, TypeOK, Phases, Noting
<1>10. CASE NotifySet(t)
  BY <1>10 DEF NotifySet, TypeOK, AfterNotification, Phases, Noting, Disarming,
               Reporting
<1>11. CASE Disarm(t)
  BY <1>11 DEF Disarm, TypeOK, Phases, Disarming
<1>12. CASE Unhook(t)
  BY <1>12 DEF Unhook, TypeOK, Phases, Outside, Disarming
<1>13. CASE DisarmRest(t)
  BY <1>13 DEF DisarmRest, TypeOK, AfterNotification, Phases, Noting, Reporting
<1>14. CASE SwapHandler(t)
  BY <1>14 DEF SwapHandler, TypeOK, Phases, Reporting, Threads, Handlers
<1>15. CASE FillContext(t)
  BY <1>15 DEF FillContext, TypeOK, Phases, Reporting, StaticContext
<1>16. CASE HandleException(t)
  BY <1>16 DEF HandleException, TypeOK, Phases, Reporting
<1>17. CASE ClaimID(t)
  BY <1>17 DEF ClaimID, TypeOK, Phases, Reporting
<1>18. CASE PublishPath(t)
  BY <1>18 DEF PublishPath, TypeOK, Phases, Reporting
<1>19. CASE OpenReport(t)
  BY <1>19, FileTypes DEF OpenReport, TypeOK, IsDirectory, Phases, Reporting
<1>20. CASE WriteReport(t)
  BY <1>20, FileTypes DEF WriteReport, TypeOK, IsDirectory, Phases, Reporting
<1>21. CASE AnnounceReport(t)
  BY <1>21 DEF AnnounceReport, TypeOK, Phases, Reporting
<1>22. CASE RenameToOld(t)
  BY <1>22, FileTypes DEF RenameToOld, TypeOK, IsDirectory, Phases, Reporting
<1>23. CASE OpenRecrash(t)
  BY <1>23, FileTypes DEF OpenRecrash, TypeOK, IsDirectory, Phases, Reporting
<1>24. CASE EmbedOld(t)
  BY <1>24, FileTypes DEF EmbedOld, TypeOK, IsDirectory, Phases, Reporting
<1>25. CASE RemoveOld(t)
  BY <1>25, FileTypes DEF RemoveOld, TypeOK, IsDirectory, Phases, Reporting
<1>26. CASE WriteRecrash(t)
  BY <1>26, FileTypes DEF WriteRecrash, TypeOK, IsDirectory, Phases, Reporting
<1>27. CASE AfterEvent(t)
  BY <1>27 DEF AfterEvent, TypeOK, Phases, Disarming
<1>28. CASE Finish(t)
  BY <1>28 DEF Finish, TypeOK, Phases, Outside
<1> QED
  BY <1>1, <1>2, <1>3, <1>4, <1>5, <1>6, <1>7, <1>8, <1>9, <1>10, <1>11, <1>12,
     <1>13, <1>14, <1>15, <1>16, <1>17, <1>18, <1>19, <1>20, <1>21, <1>22, <1>23,
     <1>24, <1>25, <1>26, <1>27, <1>28 DEF Progress

-----------------------------------------------------------------------------
(* The invariant, step by step.                                             *)

(* What is said of the lists holds at the start, when they are all empty, *)
LEMMA ListsInit == Init => ListsInv
<1> SUFFICES ASSUME Init PROVE ListsInv
  OBVIOUS
<1>1. \A t \in Threads : /\ pc[t] \in {"unborn", "app", "terminated", "waiting",
                                       "starting"}
                         /\ pending[t] = {} /\ held[t] = {} /\ abandoned[t] = {}
  BY DEF Init
<1>2. \A t \in Threads : pc[t] \notin Suspending /\ ~InWindow(t)
  BY <1>1 DEF Suspending, InWindow, Window, Noting, Disarming, Reporting
<1>3. ListsFit
  BY <1>1, <1>2 DEF ListsFit, Suspending
<1>4. ListsCover
  <2>1. \A t \in EarlyThreads : pc[t] = "app"
    BY DEF Init, EarlyThreads, Threads
  <2> QED
    BY <1>2, <2>1 DEF ListsCover
<1>5. SuspendsBalance
  <2> SUFFICES ASSUME NEW u \in AppThreads
               PROVE  suspendCount[u] = Cardinality(HoldersIn(held, u))
                                          + Cardinality(HoldersIn(abandoned, u))
    BY DEF SuspendsBalance
  <2>1. HoldersIn(held, u) = {} /\ HoldersIn(abandoned, u) = {}
    BY <1>1 DEF HoldersIn
  <2>2. Cardinality({}) = 0
    BY FS_EmptySet
  <2>3. suspendCount[u] = 0
    BY DEF Init, Threads
  <2> QED
    BY <2>1, <2>2, <2>3
<1>6. ExclusiveWindow
  BY <1>2 DEF ExclusiveWindow, EarlyThreads, Threads
<1> QED
  BY <1>3, <1>4, <1>5, <1>6 DEF ListsInv

(* A step of one thread that leaves every list and count alone.             *)
LEMMA OneMoves ==
    ASSUME CaptureInv, NEW t \in Threads, NEW p \in Phases,
           UNCHANGED <<pending, held, abandoned, target, capture>>,
           \A u \in AppThreads : suspendCount'[u] = suspendCount[u],
           pc' = [pc EXCEPT ![t] = p],
           p \notin Suspending \cup {"unborn"},
           p \in Window => pc[t] \in Window,
           p \in Outside \cup {"finish"} => pc[t] \in Outside \ {"terminated"}
    PROVE  ListsInv'
<1> USE DEF CaptureInv
<1>1. Leaves(t)
  BY DEF Leaves, TypeOK, ListsFit
<1>2. \A u \in Threads \ {t} : Stays(u)
  BY DEF Stays, TypeOK
<1>3. LocalStep
  BY <1>1, <1>2 DEF LocalStep
<1> QED
  BY <1>3, LocalKeeps

(* ... the events of the application and the kernel keep it ...            *)
LEMMA ListsEnvironment ==
    ASSUME CaptureInv, NEW t \in Threads, Environment(t)
    PROVE  ListsInv'
<1> USE DEF At, Goto, scheduling, frame
<1>1. CASE CreateThread(t)
  BY <1>1, OneMoves DEF CreateThread, Phases, Outside, Suspending, Window, Noting,
                        Disarming, Reporting
<1>2. CASE CrashWithFault(t)
  BY <1>2, OneMoves DEF CrashWithFault, Fault, Phases, Outside, Suspending, Window,
                        Noting, Disarming, Reporting
<1>3. CASE CrashWithSignal(t)
  BY <1>3, OneMoves DEF CrashWithSignal, Phases, Outside, Suspending, Window,
                        Noting, Disarming, Reporting
<1>4. CASE CrashWithException(t)
  <2>1. CASE "cpp" \in enabled
    BY <1>4, <2>1, BeginKeeps DEF CrashWithException, Captures, Outside
  <2>2. CASE "cpp" \notin enabled
    BY <1>4, <2>2, OneMoves DEF CrashWithException, Phases, Outside, Suspending,
                                Window, Noting, Disarming, Reporting
  <2> QED
    BY <2>1, <2>2
<1>5. CASE ReportUserException(t)
  BY <1>5, BeginKeeps, MonitorsAssumption DEF ReportUserException, Captures, Outside
<1>6. CASE CrashInHandler(t)
  BY <1>6, CrashInHandlerKeeps
<1> QED
  BY <1>1, <1>2, <1>3, <1>4, <1>5, <1>6 DEF Environment

(* The phases of a window, one list for the steps that stay in it.          *)
LEMMA WindowPhases ==
    \A p : p \in Window => /\ p \in Phases
                           /\ p \notin Suspending \cup {"unborn", "finish"}
                           /\ p \notin Outside
  BY DEF Window, Noting, Disarming, Reporting, Phases, Suspending, Outside

(* A step from a phase of the window to another, or to the resumption.      *)
LEMMA WindowMoves ==
    ASSUME CaptureInv, NEW t \in Threads, NEW p,
           UNCHANGED <<pending, held, abandoned, target, capture>>,
           \A u \in AppThreads : suspendCount'[u] = suspendCount[u],
           pc' = [pc EXCEPT ![t] = p],
           pc[t] \in Window,
           p \in Window \cup {"resuming"}
    PROVE  ListsInv'
<1>1. p \in Phases /\ p \notin Suspending \cup Outside \cup {"unborn", "finish"}
  BY WindowPhases DEF Phases, Suspending, Outside
<1> QED
  BY <1>1, OneMoves

(* ... and so does every step of a handler.                                *)
LEMMA ListsProgress ==
    ASSUME CaptureInv, NEW t \in Threads, Progress(t)
    PROVE  ListsInv'
<1> USE DEF At, Goto, scheduling, frame
<1>1. CASE TakeSignal(t)
  BY <1>1, BeginKeeps DEF TakeSignal, Captures, Outside
<1>2. CASE DieOfSignal(t)
  <2>1. LocalStep
    BY <1>2 DEF DieOfSignal, LocalStep, Stays
  <2> QED
    BY <2>1, LocalKeeps
<1>3. CASE SuspendSelf(t)
  <2>1. \A u \in AppThreads : u # t
    BY <1>3, ThreadsAssumption DEF SuspendSelf
  <2>2. \A u \in AppThreads : suspendCount'[u] = suspendCount[u]
    BY <1>3, <2>1 DEF SuspendSelf, CaptureInv, TypeOK, Threads
  <2> QED
    BY <1>3, <2>2, OneMoves DEF SuspendSelf, Phases, Outside, Suspending, Window,
                                Noting, Disarming, Reporting
<1>4. CASE ReceiveException(t)
  <2>1. CASE "mach" \in enabled
    BY <1>4, <2>1, BeginKeeps DEF ReceiveException, Captures, Outside
  <2>2. CASE "mach" \notin enabled
    <3>1. pc[t] = "waiting" /\ pc'[t] = "finish" /\ held[t] = {}
      BY <1>4, <2>2 DEF ReceiveException, CaptureInv, TypeOK, ListsFit, Outside
    <3>2. Leaves(t)
      BY <3>1 DEF Leaves, Suspending, Window, Noting, Disarming, Reporting
    <3>3. \A u \in Threads \ {t} : Stays(u)
      BY <1>4, <2>2 DEF ReceiveException, Stays, CaptureInv, TypeOK
    <3>4. LocalStep
      BY <1>4, <2>2, <3>2, <3>3 DEF ReceiveException, LocalStep
    <3> QED
      BY <3>4, LocalKeeps
  <2> QED
    BY <2>1, <2>2
<1>5. CASE EnterSuspend(t)
  BY <1>5, EnterSuspendKeeps
<1>6. CASE SuspendTarget(t)
  BY <1>6, SuspendTargetKeeps
<1>7. CASE SuspendComplete(t)
  BY <1>7, SuspendCompleteKeeps
<1>8. CASE Resume(t)
  BY <1>8, ResumeKeeps
<1>9. CASE NotifyTest(t)
  BY <1>9, WindowMoves DEF NotifyTest, Window, Noting
<1>10. CASE NotifySet(t)
  BY <1>10, WindowMoves DEF NotifySet, AfterNotification, Window, Noting,
                            Disarming, Reporting
<1>11. CASE Disarm(t)
  BY <1>11, WindowMoves DEF Disarm, Window, Disarming
<1>12. CASE Unhook(t)
  <2>1. PICK stopped \in SUBSET (Handlers \ {t}) :
            pc' = [u \in Threads |-> IF u \in stopped THEN "terminated"
                                     ELSE IF u = t THEN "disarmRest"
                                     ELSE pc[u]]
    BY <1>12 DEF Unhook
  <2>2. \A u \in stopped : Leaves(u)
    BY <2>1 DEF Leaves, Threads, Suspending, Window, Noting, Disarming, Reporting
  <2>3. Leaves(t)
    BY <1>12, <2>1 DEF Unhook, Leaves, Suspending, Outside, Window, Disarming
  <2>4. \A u \in Threads \ (stopped \cup {t}) : Stays(u)
    BY <1>12, <2>1 DEF Unhook, Stays
  <2>5. LocalStep
    BY <1>12, <2>2, <2>3, <2>4 DEF Unhook, LocalStep
  <2> QED
    BY <2>5, LocalKeeps
<1>13. CASE DisarmRest(t)
  BY <1>13, WindowMoves DEF DisarmRest, AfterNotification, Window, Noting,
                            Disarming, Reporting
<1>14. CASE SwapHandler(t)
  <2>1. \A u \in AppThreads : suspendCount'[u] = suspendCount[u]
    BY <1>14, ThreadsAssumption DEF SwapHandler, CaptureInv, TypeOK, Threads
  <2> QED
    BY <1>14, <2>1, WindowMoves DEF SwapHandler, Window, Noting, Reporting
<1>15. CASE FillContext(t)
  BY <1>15, WindowMoves DEF FillContext, Window, Reporting
<1>16. CASE HandleException(t)
  BY <1>16, WindowMoves DEF HandleException, Window, Reporting
<1>17. CASE ClaimID(t)
  BY <1>17, WindowMoves DEF ClaimID, Window, Reporting
<1>18. CASE PublishPath(t)
  BY <1>18, WindowMoves DEF PublishPath, Window, Reporting
<1>19. CASE OpenReport(t)
  BY <1>19, WindowMoves DEF OpenReport, Window, Reporting
<1>20. CASE WriteReport(t)
  BY <1>20, WindowMoves DEF WriteReport, Window, Reporting
<1>21. CASE AnnounceReport(t)
  BY <1>21, WindowMoves DEF AnnounceReport, Window, Reporting
<1>22. CASE RenameToOld(t)
  BY <1>22, WindowMoves DEF RenameToOld, Window, Reporting
<1>23. CASE OpenRecrash(t)
  BY <1>23, WindowMoves DEF OpenRecrash, Window, Reporting
<1>24. CASE EmbedOld(t)
  BY <1>24, WindowMoves DEF EmbedOld, Window, Reporting
<1>25. CASE RemoveOld(t)
  BY <1>25, WindowMoves DEF RemoveOld, Window, Reporting
<1>26. CASE WriteRecrash(t)
  BY <1>26, WindowMoves DEF WriteRecrash, Window, Reporting
<1>27. CASE AfterEvent(t)
  BY <1>27, WindowMoves DEF AfterEvent, Window, Disarming, Reporting
<1>28. CASE Finish(t)
  <2>1. \A u \in Threads : pc'[u] = pc[u] \/ pc'[u] \in {"terminated", "signaled", "app"}
    BY <1>28 DEF Finish, CaptureInv, TypeOK
  <2>2. \A u \in Threads : pc'[u] # pc[u] => u = t \/ pc[u] = "blocked"
    BY <1>28 DEF Finish, CaptureInv, TypeOK
  <2>3. pc[t] = "finish" /\ pc'[t] # pc[t]
    BY <1>28 DEF Finish, CaptureInv, TypeOK
  <2>4. \A u \in Threads : pc'[u] # pc[u] => Leaves(u)
    BY <2>1, <2>2, <2>3 DEF Leaves, CaptureInv, ListsFit, Outside, Suspending,
                            Window, Noting, Disarming, Reporting
  <2>5. \A u \in Threads : pc'[u] = pc[u] => Stays(u)
    BY <1>28, <2>3 DEF Finish, Stays, CaptureInv, TypeOK
  <2>6. LocalStep
    BY <1>28, <2>4, <2>5 DEF Finish, LocalStep
  <2> QED
    BY <2>6, LocalKeeps
<1> QED
  BY <1>1, <1>2, <1>3, <1>4, <1>5, <1>6, <1>7, <1>8, <1>9, <1>10, <1>11, <1>12,
     <1>13, <1>14, <1>15, <1>16, <1>17, <1>18, <1>19, <1>20, <1>21, <1>22, <1>23,
     <1>24, <1>25, <1>26, <1>27, <1>28 DEF Progress

-----------------------------------------------------------------------------
(* The theorems.                                                            *)

(* A step that changes nothing keeps the invariant.                         *)
LEMMA Stutter ==
    ASSUME CaptureInv, UNCHANGED vars
    PROVE  CaptureInv'
<1>1. TypeOK'
  BY DEF CaptureInv, TypeOK, vars, scheduling, frame, monitoring, store, process
<1>2. LocalStep
  BY DEF vars, scheduling, frame, LocalStep, Stays
<1> QED
  BY <1>1, <1>2, LocalKeeps DEF CaptureInv, ListsInv

(* The inductive invariant holds in every reachable state.                  *)
THEOREM CaptureInvariant == Spec => []CaptureInv
<1>1. Init => CaptureInv
  BY TypeInit, ListsInit DEF CaptureInv, ListsInv
<1>2. CaptureInv /\ [Next]_vars => CaptureInv'
  <2> SUFFICES ASSUME CaptureInv, [Next]_vars PROVE CaptureInv'
    OBVIOUS
  <2>1. CASE UNCHANGED vars
    BY <2>1, Stutter
  <2>2. CASE Next
    <3>1. PICK t \in Threads : Environment(t) \/ Progress(t)
      BY <2>2 DEF Next
    <3>2. TypeOK'
      BY <3>1, TypeEnvironment, TypeProgress
    <3>3. ListsInv'
      BY <3>1, ListsEnvironment, ListsProgress
    <3> QED
      BY <3>2, <3>3 DEF CaptureInv, ListsInv
  <2> QED
    BY <2>1, <2>2
<1> QED
  BY <1>1, <1>2, PTL DEF Spec

(* For any number of threads every variable keeps its type: in particular a *)
(* suspend count is never driven below zero by thread_resume.               *)
THEOREM TypeCorrect == Spec => []TypeOK
<1>1. CaptureInv => TypeOK
  BY DEF CaptureInv
<1> QED
  BY <1>1, CaptureInvariant, PTL

(* For any number of threads and any overlap of crashes, the suspend count  *)
(* of a thread is the number of handlers that hold it                       *)
(* (crasheemc_suspendEnvironment and crasheemc_resumeEnvironment).          *)
THEOREM SuspensionsBalance == Spec => []SuspendsBalance
<1>1. CaptureInv => SuspendsBalance
  BY DEF CaptureInv
<1> QED
  BY <1>1, CaptureInvariant, PTL

(* For any number of threads, two of those that existed from the start are  *)
(* never both past crasheemc_suspendEnvironment.                            *)
THEOREM WindowIsExclusive == Spec => []ExclusiveWindow
<1>1. CaptureInv => ExclusiveWindow
  BY DEF CaptureInv
<1> QED
  BY <1>1, CaptureInvariant, PTL

(* For any number of threads, no thread that existed from the start runs    *)
(* while another one's handler works on a report.                           *)
THEOREM EnvironmentIsFrozen == Spec => []EnvironmentFrozen
<1>1. CaptureInv => EnvironmentFrozen
  BY FrozenFollows
<1> QED
  BY <1>1, CaptureInvariant, PTL

-----------------------------------------------------------------------------
(* The suspensions implement a lock.                                        *)

SameWindow(u) == InWindow(u)' <=> InWindow(u)

(* Only the thread that takes a step can enter or leave the window.         *)
LEMMA OthersKeepWindow ==
    ASSUME TypeOK, NEW t \in Threads, Environment(t) \/ Progress(t),
           NEW u \in EarlyThreads \ {t}
    PROVE  SameWindow(u)
<1> DEFINE One == /\ pc'[u] = pc[u]
                  /\ capture'[u] = capture[u]
<1>1. u \in AppThreads /\ u \in Threads /\ u # t /\ u \notin Handlers
  BY ThreadsAssumption DEF EarlyThreads, Threads, Handlers
<1>2. One => SameWindow(u)
  BY DEF SameWindow, InWindow
<1> USE <1>1 DEF TypeOK, At, Goto, frame, scheduling
<1>3. CASE Environment(t)
  <2>1. One
    BY <1>3 DEF Environment, CreateThread, CrashWithFault, CrashWithSignal,
                CrashWithException, ReportUserException, CrashInHandler, Fault, Begin
  <2> QED
    BY <1>2, <2>1
<1>4. CASE TakeSignal(t) \/ DieOfSignal(t) \/ SuspendSelf(t) \/ ReceiveException(t)
           \/ EnterSuspend(t) \/ SuspendTarget(t) \/ SuspendComplete(t) \/ Resume(t)
  <2>1. One
    BY <1>4 DEF TakeSignal, DieOfSignal, SuspendSelf, ReceiveException, Begin,
                EnterSuspend, SuspendTarget, SuspendComplete, Resume
  <2> QED
    BY <1>2, <2>1
<1>5. CASE NotifyTest(t) \/ NotifySet(t) \/ Disarm(t) \/ Unhook(t) \/ DisarmRest(t)
           \/ SwapHandler(t) \/ FillContext(t) \/ HandleException(t) \/ ClaimID(t)
  <2>1. One
    BY <1>5 DEF NotifyTest, NotifySet, Disarm, Unhook, DisarmRest, SwapHandler,
                FillContext, HandleException, ClaimID
  <2> QED
    BY <1>2, <2>1
<1>6. CASE PublishPath(t) \/ OpenReport(t) \/ WriteReport(t) \/ AnnounceReport(t)
           \/ RenameToOld(t) \/ OpenRecrash(t) \/ EmbedOld(t) \/ RemoveOld(t)
           \/ WriteRecrash(t) \/ AfterEvent(t)
  <2>1. One
    BY <1>6 DEF PublishPath, OpenReport, WriteReport, AnnounceReport, RenameToOld,
                OpenRecrash, EmbedOld, RemoveOld, WriteRecrash, AfterEvent
  <2> QED
    BY <1>2, <2>1
<1>7. CASE Finish(t)
  <2>1. capture'[u] = capture[u]
    BY <1>7 DEF Finish
  <2>2. pc'[u] = pc[u] \/ (pc[u] = "blocked" /\ pc'[u] = "signaled")
    BY <1>7 DEF Finish
  <2> QED
    BY <2>1, <2>2 DEF SameWindow, InWindow, Window, Noting, Disarming, Reporting
<1> QED
  BY <1>3, <1>4, <1>5, <1>6, <1>7 DEF Progress

(* The thread in the window owns the lock, and nobody else does.            *)
LEMMA OwnerInWindow ==
    ASSUME ExclusiveWindow
    PROVE  /\ \A t \in EarlyThreads : InWindow(t) <=> Owner = t
           /\ Owner = None \/ Owner \in EarlyThreads
<1>1. \A t \in EarlyThreads : t # None
  BY ThreadsAssumption DEF EarlyThreads, Threads
<1> QED
  BY <1>1 DEF ExclusiveWindow, Owner

(* A step takes the lock, gives it back or leaves it alone.                 *)
LEMMA StepOfLock ==
    ASSUME CaptureInv, CaptureInv', [Next]_vars
    PROVE  Lock!Next \/ UNCHANGED Owner
<1>1. CASE UNCHANGED vars
  BY <1>1 DEF vars, scheduling, frame, Owner, InWindow
<1>2. CASE Next
  <2>1. PICK t \in Threads : Environment(t) \/ Progress(t)
    BY <1>2 DEF Next
  <2>2. \A u \in EarlyThreads \ {t} : InWindow(u)' <=> InWindow(u)
    BY <2>1, OthersKeepWindow DEF CaptureInv, SameWindow
  <2>3. /\ \A u \in EarlyThreads : InWindow(u) <=> Owner = u
        /\ Owner = None \/ Owner \in EarlyThreads
    BY OwnerInWindow DEF CaptureInv
  <2>4. /\ \A u \in EarlyThreads : InWindow(u)' <=> Owner' = u
        /\ Owner' = None \/ Owner' \in EarlyThreads
    <3>1. ExclusiveWindow'
      BY DEF CaptureInv
    <3> QED
      BY <3>1, OwnerInWindow, ThreadsAssumption
          DEF ExclusiveWindow, Owner, EarlyThreads, Threads
  <2>5. None \notin EarlyThreads
    BY ThreadsAssumption DEF EarlyThreads, Threads
  <2> QED
    BY <2>2, <2>3, <2>4, <2>5 DEF Lock!Next, Lock!Acquire, Lock!Release
<1> QED
  BY <1>1, <1>2

(* For any number of threads the suspensions of                             *)
(* crasheemc_suspendEnvironment are a lock of the threads that existed from *)
(* the start: the owner of the window changes only by an acquisition from   *)
(* nobody or a release to nobody.                                           *)
THEOREM SuspensionsImplementLock == Spec => ImplementsLock
<1>1. Init => Lock!Init
  BY ListsInit, ThreadsAssumption DEF Init, Lock!Init, Owner, InWindow, Window,
     Noting, Disarming, Reporting, EarlyThreads, Threads
<1>2. CaptureInv /\ CaptureInv' /\ [Next]_vars => [Lock!Next]_Owner
  BY StepOfLock
<1> QED
  BY <1>1, <1>2, CaptureInvariant, PTL DEF Spec, ImplementsLock, Lock!Spec

-----------------------------------------------------------------------------
(* What a step of one thread may do to the others.                          *)

(* It leaves thread u alone, or terminates a handler thread from            *)
(* uninstallExceptionHandler, or answers the exception u waits for.         *)
LeftAlone(t, u) ==
    /\ capture'[u] = capture[u]
    /\ recorded'[u] = recorded[u]
    /\ reportID'[u] = reportID[u]
    /\ \/ pc'[u] = pc[u]
       \/ pc'[u] = "terminated" /\ u \in Handlers /\ pc[t] = "unhook"
       \/ pc'[u] = "signaled" /\ pc[u] = "blocked"

LEMMA OthersAreLeft ==
    ASSUME TypeOK, NEW t \in Threads, Environment(t) \/ Progress(t),
           NEW u \in Threads \ {t}
    PROVE  LeftAlone(t, u)
<1> USE DEF TypeOK, At, Goto, frame, scheduling, LeftAlone
<1>1. CASE Environment(t)
  BY <1>1 DEF Environment, CreateThread, CrashWithFault, CrashWithSignal,
              CrashWithException, ReportUserException, CrashInHandler, Fault, Begin
<1>2. CASE TakeSignal(t) \/ DieOfSignal(t) \/ SuspendSelf(t) \/ ReceiveException(t)
  BY <1>2 DEF TakeSignal, DieOfSignal, SuspendSelf, ReceiveException, Begin
<1>3. CASE EnterSuspend(t) \/ SuspendTarget(t) \/ SuspendComplete(t) \/ Resume(t)
  BY <1>3 DEF EnterSuspend, SuspendTarget, SuspendComplete, Resume
<1>4. CASE NotifyTest(t) \/ NotifySet(t) \/ Disarm(t) \/ Unhook(t) \/ DisarmRest(t)
           \/ SwapHandler(t) \/ FillContext(t) \/ HandleException(t) \/ ClaimID(t)
  BY <1>4 DEF NotifyTest, NotifySet, Disarm, Unhook, DisarmRest, SwapHandler,
              FillContext, HandleException, ClaimID
<1>5. CASE PublishPath(t) \/ OpenReport(t) \/ WriteReport(t) \/ AnnounceReport(t)
           \/ RenameToOld(t) \/ OpenRecrash(t) \/ EmbedOld(t) \/ RemoveOld(t)
           \/ WriteRecrash(t) \/ AfterEvent(t)
  BY <1>5 DEF PublishPath, OpenReport, WriteReport, AnnounceReport, RenameToOld,
              OpenRecrash, EmbedOld, RemoveOld, WriteRecrash, AfterEvent
<1>6. CASE Finish(t)
  BY <1>6 DEF Finish
<1> QED
  BY <1>1, <1>2, <1>3, <1>4, <1>5, <1>6 DEF Progress

(* What has been switched off stays off, and what has been noted stays.     *)
Settling ==
    /\ handling => handling'
    /\ crashedDuring => crashedDuring'
    /\ enabled' \subseteq enabled
    /\ ports = "original" => ports' = "original"

LEMMA NothingIsRearmed ==
    ASSUME TypeOK, NEW t \in Threads, Environment(t) \/ Progress(t)
    PROVE  Settling
<1> USE DEF Settling, monitoring, TypeOK
<1>1. CASE Environment(t)
  BY <1>1 DEF Environment, CreateThread, CrashWithFault, CrashWithSignal,
              CrashWithException, ReportUserException, CrashInHandler, Fault
<1>2. CASE TakeSignal(t) \/ DieOfSignal(t) \/ SuspendSelf(t) \/ ReceiveException(t)
  BY <1>2 DEF TakeSignal, DieOfSignal, SuspendSelf, ReceiveException
<1>3. CASE EnterSuspend(t) \/ SuspendTarget(t) \/ SuspendComplete(t) \/ Resume(t)
  BY <1>3 DEF EnterSuspend, SuspendTarget, SuspendComplete, Resume
<1>4. CASE NotifyTest(t) \/ NotifySet(t) \/ Disarm(t) \/ Unhook(t) \/ DisarmRest(t)
           \/ SwapHandler(t) \/ FillContext(t) \/ HandleException(t) \/ ClaimID(t)
  BY <1>4 DEF NotifyTest, NotifySet, Disarm, Unhook, DisarmRest, SwapHandler,
              FillContext, HandleException, ClaimID
<1>5. CASE PublishPath(t) \/ OpenReport(t) \/ WriteReport(t) \/ AnnounceReport(t)
           \/ RenameToOld(t) \/ OpenRecrash(t) \/ EmbedOld(t) \/ RemoveOld(t)
           \/ WriteRecrash(t) \/ AfterEvent(t) \/ Finish(t)
  BY <1>5 DEF PublishPath, OpenReport, WriteReport, AnnounceReport, RenameToOld,
              OpenRecrash, EmbedOld, RemoveOld, WriteRecrash, AfterEvent, Finish
<1> QED
  BY <1>1, <1>2, <1>3, <1>4, <1>5 DEF Progress

-----------------------------------------------------------------------------
(* The old handlers are put back.                                           *)

(* The flags precede the phases of the thread that takes the step ...       *)
LEMMA OwnFlags ==
    ASSUME TypeOK, RestoreInv, NEW t \in Threads, Environment(t) \/ Progress(t)
    PROVE  FlagsPrecede(t)'
<1> USE DEF RestoreInv, FlagsPrecede, TypeOK, At, Goto, frame, scheduling, monitoring
<1> USE DEF Suspending, Noting, Disarming, Reporting
<1>1. CASE CreateThread(t) \/ CrashWithFault(t) \/ CrashWithSignal(t) \/ CrashInHandler(t)
  BY <1>1 DEF CreateThread, CrashWithFault, CrashWithSignal, CrashInHandler, Fault
<1>2. CASE CrashWithException(t)
  <2>1. CASE "cpp" \in enabled
    <3>1. PICK k \in {"cpp", "nsexc"} : Begin(t, k)
      BY <1>2, <2>1 DEF CrashWithException
    <3>2. pc'[t] = "suspending" /\ ~recorded'[t]
      BY <3>1 DEF Begin, Suspends
    <3> QED
      BY <3>2
  <2>2. CASE "cpp" \notin enabled
    <3>1. pc'[t] = "signaled"
      BY <1>2, <2>2 DEF CrashWithException
    <3> QED
      BY <3>1
  <2> QED
    BY <2>1, <2>2
<1>3. CASE ReportUserException(t)
  BY <1>3, MonitorsAssumption
     DEF ReportUserException, Begin, AfterSuspension, Fatal, Suspends, Notes
<1>4. CASE TakeSignal(t) \/ DieOfSignal(t) \/ SuspendSelf(t)
  BY <1>4 DEF TakeSignal, DieOfSignal, SuspendSelf, Begin, Suspends
<1>5. CASE ReceiveException(t)
  <2>1. CASE "mach" \in enabled
    <3>1. Begin(t, "mach")
      BY <1>5, <2>1 DEF ReceiveException
    <3>2. pc'[t] = "suspending" /\ ~recorded'[t]
      BY <3>1 DEF Begin, Suspends
    <3> QED
      BY <3>2
  <2>2. CASE "mach" \notin enabled
    BY <1>5, <2>2 DEF ReceiveException
  <2> QED
    BY <2>1, <2>2
<1>6. CASE EnterSuspend(t) \/ SuspendTarget(t)
  BY <1>6 DEF EnterSuspend, SuspendTarget
<1>7. CASE SuspendComplete(t)
  BY <1>7 DEF SuspendComplete, AfterSuspension
<1>8. CASE Resume(t)
  BY <1>8 DEF Resume
<1>9. CASE NotifyTest(t) \/ NotifySet(t)
  BY <1>9 DEF NotifyTest, NotifySet, AfterNotification
<1>10. CASE Disarm(t) \/ Unhook(t)
  BY <1>10 DEF Disarm, Unhook
<1>11. CASE DisarmRest(t)
  BY <1>11 DEF DisarmRest, AfterNotification
<1>12. CASE SwapHandler(t) \/ FillContext(t) \/ HandleException(t) \/ ClaimID(t)
  BY <1>12 DEF SwapHandler, FillContext, HandleException, ClaimID
<1>13. CASE PublishPath(t) \/ OpenReport(t) \/ WriteReport(t) \/ AnnounceReport(t)
  BY <1>13 DEF PublishPath, OpenReport, WriteReport, AnnounceReport
<1>14. CASE RenameToOld(t) \/ OpenRecrash(t) \/ EmbedOld(t) \/ RemoveOld(t)
            \/ WriteRecrash(t)
  BY <1>14 DEF RenameToOld, OpenRecrash, EmbedOld, RemoveOld, WriteRecrash
<1>15. CASE AfterEvent(t)
  BY <1>15 DEF AfterEvent
<1>16. CASE Finish(t)
  BY <1>16 DEF Finish
<1> QED
  BY <1>1, <1>2, <1>3, <1>4, <1>5, <1>6, <1>7, <1>8, <1>9, <1>10, <1>11, <1>12,
     <1>13, <1>14, <1>15, <1>16 DEF Environment, Progress

(* ... and those of every other thread.                                     *)
LEMMA OtherFlags ==
    ASSUME TypeOK, RestoreInv, NEW t \in Threads, Environment(t) \/ Progress(t),
           NEW u \in Threads \ {t}
    PROVE  FlagsPrecede(u)'
<1>1. LeftAlone(t, u) /\ Settling
  BY OthersAreLeft, NothingIsRearmed
<1>2. FlagsPrecede(u)
  BY DEF RestoreInv
<1> QED
  BY <1>1, <1>2 DEF LeftAlone, Settling, FlagsPrecede, Suspending, Disarming, Reporting

(* Which step of a thread touches which flag, and what follows a phase of   *)
(* the restoration.                                                         *)
FlagSteps(t) ==
    /\ pc[t] # "disarm" /\ "mach" \in enabled => "mach" \in enabled'
    /\ pc[t] # "disarmRest" /\ "signal" \in enabled => "signal" \in enabled'
    /\ pc[t] # "notify" => crashedDuring' = crashedDuring
    /\ pc[t] = "notify" => pc'[t] = "notified"
    /\ pc[t] = "notified" /\ crashedDuring => pc'[t] = "disarm"
    /\ pc[t] = "disarm" => pc'[t] = IF "mach" \in enabled THEN "unhook" ELSE "disarmRest"
    /\ pc[t] = "unhook" => pc'[t] = "disarmRest" /\ ports' = "original"
    /\ pc[t] = "disarmRest" => "signal" \notin enabled'

LEMMA StepsOfFlags ==
    ASSUME TypeOK, NEW t \in Threads, Environment(t) \/ Progress(t)
    PROVE  FlagSteps(t)
<1> USE DEF TypeOK, At, Goto, FlagSteps, monitoring
<1>1. CASE Environment(t)
  <2>1. pc[t] \in {"unborn", "app"} \cup Dangerous /\ UNCHANGED <<enabled, crashedDuring>>
    BY <1>1 DEF Environment, CreateThread, CrashWithFault, CrashWithSignal,
                CrashWithException, ReportUserException, CrashInHandler
  <2> QED
    BY <2>1 DEF Dangerous
<1>2. CASE TakeSignal(t) \/ DieOfSignal(t) \/ SuspendSelf(t) \/ ReceiveException(t)
  BY <1>2 DEF TakeSignal, DieOfSignal, SuspendSelf, ReceiveException
<1>3. CASE EnterSuspend(t) \/ SuspendTarget(t) \/ SuspendComplete(t) \/ Resume(t)
  BY <1>3 DEF EnterSuspend, SuspendTarget, SuspendComplete, Resume
<1>4. CASE NotifyTest(t) \/ NotifySet(t) \/ Disarm(t)
  BY <1>4 DEF NotifyTest, NotifySet, Disarm
<1>5. CASE Unhook(t) \/ DisarmRest(t)
  BY <1>5 DEF Unhook, DisarmRest
<1>6. CASE SwapHandler(t) \/ FillContext(t) \/ HandleException(t) \/ ClaimID(t)
  BY <1>6 DEF SwapHandler, FillContext, HandleException, ClaimID
<1>7. CASE PublishPath(t) \/ OpenReport(t) \/ WriteReport(t) \/ AnnounceReport(t)
           \/ RenameToOld(t) \/ OpenRecrash(t) \/ EmbedOld(t) \/ RemoveOld(t)
           \/ WriteRecrash(t) \/ AfterEvent(t) \/ Finish(t)
  BY <1>7 DEF PublishPath, OpenReport, WriteReport, AnnounceReport, RenameToOld,
              OpenRecrash, EmbedOld, RemoveOld, WriteRecrash, AfterEvent, Finish
<1> QED
  BY <1>1, <1>2, <1>3, <1>4, <1>5, <1>6, <1>7 DEF Progress

(* A thread that sets out to give the ports back does so.                   *)
LEMMA PortsStillFollow ==
    ASSUME TypeOK, PortsFollow, NEW t \in Threads, Environment(t) \/ Progress(t)
    PROVE  PortsFollow'
<1>1. Settling /\ FlagSteps(t)
  BY NothingIsRearmed, StepsOfFlags
<1>2. \A u \in Threads \ {t} : LeftAlone(t, u)
  BY OthersAreLeft
<1>3. CASE pc[t] = "unhook"
  BY <1>1, <1>3 DEF FlagSteps, PortsFollow
<1>4. CASE pc[t] = "disarm" /\ "mach" \in enabled
  BY <1>1, <1>4 DEF FlagSteps, PortsFollow
<1>5. CASE pc[t] # "unhook" /\ ~(pc[t] = "disarm" /\ "mach" \in enabled)
  <2> SUFFICES ASSUME "mach" \notin enabled'
               PROVE  ports' = "original" \/ \E u \in Threads : pc'[u] = "unhook"
    BY DEF PortsFollow
  <2>1. "mach" \notin enabled
    BY <1>1, <1>5 DEF FlagSteps
  <2>2. ASSUME NEW u \in Threads, pc[u] = "unhook"
        PROVE  pc'[u] = "unhook"
    BY <1>2, <1>5, <2>2 DEF LeftAlone
  <2> QED
    BY <1>1, <2>1, <2>2 DEF PortsFollow, Settling
<1> QED
  BY <1>3, <1>4, <1>5

(* After a second event the signal handlers and the ports are gone, or some *)
(* thread is on its way to remove them.                                     *)
LEMMA StillRestoring ==
    ASSUME TypeOK, RestoreInv, NEW t \in Threads, Environment(t) \/ Progress(t),
           PortsFollow'
    PROVE  SomeoneRestores'
<1> SUFFICES ASSUME crashedDuring'
             PROVE  \/ ports' = "original" /\ "signal" \notin enabled'
                    \/ \E u \in Threads : Restoring(u)'
  BY DEF SomeoneRestores
<1> USE DEF Restoring, Disarming
<1>1. Settling /\ FlagSteps(t)
  BY NothingIsRearmed, StepsOfFlags
<1>2. \A u \in Threads \ {t} : LeftAlone(t, u)
  BY OthersAreLeft
<1>3. CASE pc[t] = "notify" \/ (Restoring(t) /\ pc[t] # "disarmRest")
  <2>1. Restoring(t)'
    <3>1. pc[t] = "notified" => crashedDuring
      BY <1>1 DEF FlagSteps
    <3> QED
      BY <1>1, <1>3, <3>1 DEF FlagSteps
  <2> QED
    BY <2>1
<1>4. CASE pc[t] = "disarmRest"
  <2>1. "mach" \notin enabled'
    BY <1>1, <1>4 DEF RestoreInv, FlagsPrecede, Settling
  <2>2. "signal" \notin enabled'
    BY <1>1, <1>4 DEF FlagSteps
  <2> QED
    BY <2>1, <2>2 DEF PortsFollow
<1>5. CASE pc[t] # "notify" /\ ~Restoring(t)
  <2>1. crashedDuring
    BY <1>1, <1>5 DEF FlagSteps
  <2>2. ASSUME NEW u \in Threads, Restoring(u)
        PROVE  Restoring(u)'
    <3>1. u # t /\ LeftAlone(t, u)
      BY <1>2, <1>5, <2>2
    <3> QED
      BY <1>5, <2>2, <3>1 DEF LeftAlone
  <2> QED
    BY <1>1, <2>1, <2>2 DEF RestoreInv, SomeoneRestores, Settling
<1> QED
  BY <1>3, <1>4, <1>5

(* The invariant holds in every reachable state.                            *)
THEOREM RestoreInvariant == Spec => []RestoreInv
<1>1. Init => RestoreInv
  <2> SUFFICES ASSUME Init PROVE RestoreInv
    OBVIOUS
  <2>1. \A t \in Threads : /\ pc[t] \in {"unborn", "app", "terminated", "waiting",
                                         "starting"}
                           /\ ~recorded[t]
    BY DEF Init
  <2>2. PortsFollow /\ SomeoneRestores
    BY DEF Init, PortsFollow, SomeoneRestores
  <2> QED
    BY <2>1, <2>2 DEF RestoreInv, FlagsPrecede, Disarming, Reporting
<1>2. TypeOK /\ RestoreInv /\ [Next]_vars => RestoreInv'
  <2> SUFFICES ASSUME TypeOK, RestoreInv, [Next]_vars PROVE RestoreInv'
    OBVIOUS
  <2>1. CASE UNCHANGED vars
    BY <2>1 DEF vars, frame, monitoring, RestoreInv, FlagsPrecede, PortsFollow,
                SomeoneRestores, Restoring
  <2>2. CASE Next
    <3>1. PICK t \in Threads : Environment(t) \/ Progress(t)
      BY <2>2 DEF Next
    <3>2. \A u \in Threads : FlagsPrecede(u)'
      BY <3>1, OwnFlags, OtherFlags
    <3>3. PortsFollow'
      BY <3>1, PortsStillFollow DEF RestoreInv
    <3>4. SomeoneRestores'
      BY <3>1, <3>3, StillRestoring
    <3> QED
      BY <3>2, <3>3, <3>4 DEF RestoreInv
  <2> QED
    BY <2>1, <2>2
<1> QED
  BY <1>1, <1>2, TypeCorrect, PTL DEF Spec

(* For any number of threads and crashes: a handler that has recorded a     *)
(* fatal event re-raises its signal, or replies to the exception message,   *)
(* only when the old handlers are back or another thread is bringing them   *)
(* back (crasheecm_handleException and its callers).                        *)
THEOREM HandlersAreRestored == Spec => []HandlersRestored
<1>1. RestoreInv => HandlersRestored
  <2> SUFFICES ASSUME RestoreInv, NEW t \in Threads,
                      pc[t] = "finish", recorded[t], Fatal(capture[t])
               PROVE  \/ ports = "original" /\ "signal" \notin enabled
                      \/ \E u \in Threads \ {t} : Restoring(u)
    BY DEF HandlersRestored
  <2>1. ~Restoring(t) /\ pc[t] # "unhook"
    BY DEF Restoring, Disarming
  <2>2. CASE crashedDuring
    BY <2>1, <2>2 DEF RestoreInv, SomeoneRestores
  <2>3. CASE {"signal", "mach"} \cap enabled = {}
    BY <2>1, <2>3 DEF RestoreInv, PortsFollow, Restoring, Disarming
  <2> QED
    BY <2>2, <2>3 DEF RestoreInv, FlagsPrecede
<1> QED
  BY <1>1, RestoreInvariant, PTL

-----------------------------------------------------------------------------
(* A death leaves a report.                                                 *)

(* No user report and no crash inside a handler mixes in: the bound of the  *)
(* events forbids them.                                                     *)
LEMMA StillQuiet ==
    ASSUME TypeOK, QuietEvents, NEW t \in Threads, Environment(t) \/ Progress(t)
    PROVE  QuietEvents' /\ ~ReportUserException(t) /\ ~CrashInHandler(t)
<1> USE DEF QuietEvents, process
<1>1. ~ReportUserException(t) /\ ~CrashInHandler(t)
  BY DEF ReportUserException, CrashInHandler, Spend
<1>2. CASE CreateThread(t) \/ CrashWithFault(t) \/ CrashWithSignal(t)
           \/ CrashWithException(t)
  BY <1>1, <1>2 DEF CreateThread, CrashWithFault, CrashWithSignal, CrashWithException,
              Spend, TypeOK, EventKinds
<1>3. CASE TakeSignal(t) \/ DieOfSignal(t) \/ SuspendSelf(t) \/ ReceiveException(t)
           \/ EnterSuspend(t) \/ SuspendTarget(t) \/ SuspendComplete(t) \/ Resume(t)
  BY <1>1, <1>3 DEF TakeSignal, DieOfSignal, SuspendSelf, ReceiveException, EnterSuspend,
              SuspendTarget, SuspendComplete, Resume
<1>4. CASE NotifyTest(t) \/ NotifySet(t) \/ Disarm(t) \/ Unhook(t) \/ DisarmRest(t)
           \/ SwapHandler(t) \/ FillContext(t) \/ HandleException(t) \/ ClaimID(t)
  BY <1>1, <1>4 DEF NotifyTest, NotifySet, Disarm, Unhook, DisarmRest, SwapHandler,
              FillContext, HandleException, ClaimID
<1>5. CASE PublishPath(t) \/ OpenReport(t) \/ WriteReport(t) \/ AnnounceReport(t)
           \/ RenameToOld(t) \/ OpenRecrash(t) \/ EmbedOld(t) \/ RemoveOld(t)
           \/ WriteRecrash(t) \/ AfterEvent(t) \/ Finish(t)
  BY <1>1, <1>5 DEF PublishPath, OpenReport, WriteReport, AnnounceReport, RenameToOld,
              OpenRecrash, EmbedOld, RemoveOld, WriteRecrash, AfterEvent, Finish
<1> QED
  BY <1>1, <1>2, <1>3, <1>4, <1>5 DEF Environment, Progress

(* Then only crashes are captured, and nothing by a thread that is not in a *)
(* handler.                                                                 *)
LEMMA NoNotesByOwn ==
    ASSUME NEW t \in Threads, TypeOK, NoNotes(t), Environment(t) \/ Progress(t),
           ~ReportUserException(t), ~CrashInHandler(t)
    PROVE  NoNotes(t)'
<1> USE DEF TypeOK, NoNotes, At, Goto, frame, Idle
<1>1. \A k \in {"mach", "signal", "cpp", "nsexc", "none"} : k \notin Notes
  BY DEF Notes
<1>2. ASSUME NEW k \in {"mach", "signal", "cpp", "nsexc"}, Begin(t, k)
      PROVE  NoNotes(t)'
  BY <1>1, <1>2 DEF Begin, Suspends
<1>3. CASE CreateThread(t) \/ CrashWithFault(t) \/ CrashWithSignal(t)
  BY <1>3 DEF CreateThread, CrashWithFault, CrashWithSignal, Fault
<1>4. CASE CrashWithException(t)
  BY <1>2, <1>4 DEF CrashWithException
<1>5. CASE TakeSignal(t)
  BY <1>2, <1>5 DEF TakeSignal
<1>10. CASE ReceiveException(t)
  <2>1. CASE "mach" \in enabled
    BY <1>2, <1>10, <2>1 DEF ReceiveException
  <2>2. CASE "mach" \notin enabled
    <3>1. capture'[t] = "mach" /\ pc'[t] = "finish"
      BY <1>10, <2>2 DEF ReceiveException
    <3> QED
      BY <1>1, <3>1
  <2> QED
    BY <2>1, <2>2
<1>6. CASE DieOfSignal(t) \/ SuspendSelf(t) \/ EnterSuspend(t) \/ SuspendTarget(t)
           \/ SuspendComplete(t) \/ Resume(t)
  BY <1>6 DEF DieOfSignal, SuspendSelf, EnterSuspend, SuspendTarget, SuspendComplete,
              Resume, AfterSuspension
<1>7. CASE NotifyTest(t) \/ NotifySet(t) \/ Disarm(t) \/ Unhook(t) \/ DisarmRest(t)
           \/ SwapHandler(t) \/ FillContext(t) \/ HandleException(t) \/ ClaimID(t)
  BY <1>7 DEF NotifyTest, NotifySet, Disarm, Unhook, DisarmRest, SwapHandler,
              FillContext, HandleException, ClaimID, AfterNotification
<1>8. CASE PublishPath(t) \/ OpenReport(t) \/ WriteReport(t) \/ AnnounceReport(t)
           \/ RenameToOld(t) \/ OpenRecrash(t) \/ EmbedOld(t) \/ RemoveOld(t)
           \/ WriteRecrash(t) \/ AfterEvent(t)
  BY <1>8 DEF PublishPath, OpenReport, WriteReport, AnnounceReport, RenameToOld,
              OpenRecrash, EmbedOld, RemoveOld, WriteRecrash, AfterEvent
<1>9. CASE Finish(t)
  BY <1>1, <1>9 DEF Finish
<1> QED
  BY <1>3, <1>4, <1>5, <1>6, <1>7, <1>8, <1>9, <1>10 DEF Environment, Progress

(* The same for every thread.                                               *)
LEMMA OnlyCrashes ==
    ASSUME TypeOK, CrashesOnly, NEW t \in Threads, Environment(t) \/ Progress(t)
    PROVE  CrashesOnly'
<1>1. QuietEvents' /\ ~ReportUserException(t) /\ ~CrashInHandler(t)
  BY StillQuiet DEF CrashesOnly
<1>2. NoNotes(t)'
  BY <1>1, NoNotesByOwn DEF CrashesOnly
<1>3. ASSUME NEW u \in Threads \ {t} PROVE NoNotes(u)'
  <2>1. LeftAlone(t, u) /\ NoNotes(u)
    BY OthersAreLeft DEF CrashesOnly
  <2> QED
    BY <2>1 DEF NoNotes, LeftAlone, Idle
<1> QED
  BY <1>1, <1>2, <1>3 DEF CrashesOnly

(* Until a second event meets the first, files are only added, under an ID  *)
(* its owner claimed, and finished.                                         *)
FilesGrow(t) ==
    /\ nextID' \in Nat /\ nextID =< nextID'
    /\ DOMAIN files \subseteq DOMAIN files'
    /\ DOMAIN files' # DOMAIN files =>
            pc[t] = "open" /\ DOMAIN files' = DOMAIN files \cup {reportID[t]}
    /\ \A id \in DOMAIN files : /\ files'[id].writer = files[id].writer
                                /\ files'[id].fatal = files[id].fatal
                                /\ files[id].saved => files'[id].saved

LEMMA OnlyNewFiles ==
    ASSUME TypeOK, NEW t \in Threads, pc[t] \notin Recrashing,
           Environment(t) \/ Progress(t)
    PROVE  FilesGrow(t)
<1> USE DEF At, Goto, store
<1>1. ASSUME UNCHANGED <<nextID, files>> PROVE FilesGrow(t)
  BY <1>1 DEF FilesGrow, TypeOK
<1>2. CASE Environment(t)
  BY <1>1, <1>2 DEF Environment, CreateThread, CrashWithFault, CrashWithSignal,
              CrashWithException, ReportUserException, CrashInHandler
<1>3. CASE TakeSignal(t) \/ DieOfSignal(t) \/ SuspendSelf(t) \/ ReceiveException(t)
           \/ EnterSuspend(t) \/ SuspendTarget(t) \/ SuspendComplete(t) \/ Resume(t)
  BY <1>1, <1>3 DEF TakeSignal, DieOfSignal, SuspendSelf, ReceiveException,
              EnterSuspend, SuspendTarget, SuspendComplete, Resume
<1>4. CASE NotifyTest(t) \/ NotifySet(t) \/ Disarm(t) \/ Unhook(t) \/ DisarmRest(t)
           \/ SwapHandler(t) \/ FillContext(t) \/ HandleException(t)
  BY <1>1, <1>4 DEF NotifyTest, NotifySet, Disarm, Unhook, DisarmRest, SwapHandler,
              FillContext, HandleException
<1>5. CASE PublishPath(t) \/ AnnounceReport(t) \/ AfterEvent(t) \/ Finish(t)
  BY <1>1, <1>5 DEF PublishPath, AnnounceReport, AfterEvent, Finish
<1>6. CASE ClaimID(t)
  BY <1>6 DEF ClaimID, FilesGrow, TypeOK
<1>7. CASE OpenReport(t)
  <2>1. nextID' = nextID /\ nextID \in Nat /\ pc[t] = "open"
    BY <1>7 DEF OpenReport, TypeOK
  <2>2. CASE reportID[t] \in DOMAIN files
    BY <1>1, <1>7, <2>2 DEF OpenReport
  <2>3. CASE reportID[t] \notin DOMAIN files
    <3>1. files' = WithFile(files, reportID[t], NewFile(t))
      BY <1>7, <2>3 DEF OpenReport
    <3> QED
      BY <2>1, <2>3, <3>1 DEF FilesGrow, WithFile
  <2> QED
    BY <2>2, <2>3
<1>8. CASE WriteReport(t)
  <2>1. nextID' = nextID /\ nextID \in Nat /\ files' = Completed(files, t, TRUE)
    BY <1>8 DEF WriteReport, TypeOK
  <2>2. DOMAIN files' = DOMAIN files
    BY <2>1 DEF Completed
  <2>3. ASSUME NEW id \in DOMAIN files
        PROVE  /\ files'[id].writer = files[id].writer
               /\ files'[id].fatal = files[id].fatal
               /\ files[id].saved => files'[id].saved
    <3>1. files[id] \in File
      BY DEF TypeOK
    <3>2. \/ files'[id] = files[id]
          \/ files'[id] = [files[id] EXCEPT !.whole = TRUE,
                                            !.saved = files[id].saved \/ TRUE]
      BY <2>1 DEF Completed
    <3> QED
      BY <3>1, <3>2 DEF File
  <2>4. nextID' \in Nat /\ nextID =< nextID'
    BY <2>1
  <2> QED
    BY <2>2, <2>3, <2>4 DEF FilesGrow
<1>9. CASE RenameToOld(t) \/ OpenRecrash(t) \/ EmbedOld(t) \/ RemoveOld(t)
           \/ WriteRecrash(t)
  BY <1>9 DEF RenameToOld, OpenRecrash, EmbedOld, RemoveOld, WriteRecrash, Recrashing
<1> QED
  BY <1>2, <1>3, <1>4, <1>5, <1>6, <1>7, <1>8, <1>9 DEF Progress

(* A recorded event stays recorded.                                         *)
LEMMA StaysRecorded ==
    ASSUME NEW t, FilesGrow(t), Recorded
    PROVE  Recorded'
  BY DEF FilesGrow, Recorded

(* What a thread relies on stays true while another one takes a step.       *)
LEMMA OthersKeepFiles ==
    ASSUME TypeOK, FirstFiles, NEW t \in Threads, NEW u \in Threads \ {t},
           FilesGrow(t), LeftAlone(t, u)
    PROVE  OwnFile(u)'
<1> USE DEF Claimed, Disarming, Recrashing
<1>1. OwnFile(u) /\ ClaimsDiffer
  BY DEF FirstFiles
<1>2. pc'[u] # "signaled" /\ pc'[u] # "terminated" => pc'[u] = pc[u]
  BY DEF LeftAlone
<1>3. reportID'[u] = reportID[u] /\ reportID[u] \in Nat /\ nextID \in Nat
  BY DEF LeftAlone, TypeOK
<1>4. pc'[u] \in Claimed => reportID'[u] < nextID'
  BY <1>1, <1>2, <1>3 DEF FilesGrow, OwnFile
<1>5. pc'[u] \in {"publish", "open"} => reportID'[u] \notin DOMAIN files'
  BY <1>1, <1>2, <1>3 DEF FilesGrow, OwnFile, ClaimsDiffer
<1>6. pc'[u] = "write" => /\ reportID'[u] \in DOMAIN files'
                          /\ files'[reportID'[u]].writer = u
                          /\ files'[reportID'[u]].fatal
  BY <1>1, <1>2, <1>3 DEF FilesGrow, OwnFile
<1>7. pc'[u] \in {"announce", "after"} \cup Disarming => Recorded'
  BY <1>1, <1>2, StaysRecorded DEF OwnFile
<1>8. pc'[u] \notin Recrashing
  BY <1>1, <1>2 DEF OwnFile
<1> QED
  BY <1>4, <1>5, <1>6, <1>7, <1>8 DEF OwnFile

(* Its own step: the phases after the file was written follow only on a     *)
(* report that is there.                                                    *)
LEMMA OwnFileKept ==
    ASSUME TypeOK, FirstCrashInv, RestoreInv, ~crashedDuring', NEW t \in Threads,
           Environment(t) \/ Progress(t), FilesGrow(t)
    PROVE  OwnFile(t)'
<1> USE DEF TypeOK, At, Goto, frame, scheduling, monitoring, store
<1> USE DEF Claimed, Disarming, Recrashing
<1> DEFINE Elsewhere == pc'[t] \notin Claimed \cup {"announce", "after"} \cup Disarming
                                      \cup Recrashing
<1>1. OwnFile(t) /\ FilesNumbered /\ ~crashedDuring /\ CrashesOnly
  BY NothingIsRearmed DEF FirstCrashInv, FirstFiles, Settling
<1>2. Elsewhere => OwnFile(t)'
  BY DEF OwnFile
<1>3. Recorded => Recorded'
  BY StaysRecorded
<1>4. CASE Environment(t)
  <2>1. CASE CreateThread(t) \/ CrashWithFault(t) \/ CrashWithSignal(t)
    BY <1>2, <2>1 DEF CreateThread, CrashWithFault, CrashWithSignal, Fault
  <2>2. CASE CrashWithException(t)
    BY <1>2, <2>2 DEF CrashWithException, Begin, Suspends
  <2>3. ~ReportUserException(t) /\ ~CrashInHandler(t)
    BY <1>1, StillQuiet, <1>4 DEF CrashesOnly
  <2> QED
    BY <1>4, <2>1, <2>2, <2>3 DEF Environment
<1>5. CASE TakeSignal(t) \/ DieOfSignal(t) \/ SuspendSelf(t)
  BY <1>2, <1>5 DEF TakeSignal, DieOfSignal, SuspendSelf, Begin, Suspends
<1>6. CASE ReceiveException(t)
  <2>1. CASE "mach" \in enabled
    <3>1. Begin(t, "mach")
      BY <1>6, <2>1 DEF ReceiveException
    <3> QED
      BY <1>2, <3>1 DEF Begin, Suspends
  <2>2. CASE "mach" \notin enabled
    BY <1>2, <1>6, <2>2 DEF ReceiveException
  <2> QED
    BY <2>1, <2>2
<1>7. CASE EnterSuspend(t) \/ SuspendTarget(t) \/ SuspendComplete(t) \/ Resume(t)
  BY <1>2, <1>7 DEF EnterSuspend, SuspendTarget, SuspendComplete, Resume,
                    AfterSuspension
<1>8. CASE NotifyTest(t) \/ NotifySet(t) \/ SwapHandler(t) \/ FillContext(t)
  BY <1>1, <1>2, <1>8 DEF NotifyTest, NotifySet, SwapHandler, FillContext,
                          AfterNotification
<1>9. CASE Disarm(t) \/ Unhook(t) \/ DisarmRest(t) \/ AnnounceReport(t) \/ AfterEvent(t)
  <2>1. Recorded'
    BY <1>1, <1>3, <1>9 DEF OwnFile, Disarm, Unhook, DisarmRest, AnnounceReport,
                            AfterEvent
  <2>2. pc'[t] \notin Claimed \cup Recrashing
    BY <1>9 DEF Disarm, Unhook, DisarmRest, AnnounceReport, AfterEvent,
                AfterNotification
  <2> QED
    BY <2>1, <2>2 DEF OwnFile
<1>10. CASE HandleException(t)
  BY <1>1, <1>2, <1>10 DEF HandleException
<1>11. CASE ClaimID(t)
  <2>1. /\ pc'[t] = "publish"
        /\ reportID'[t] = nextID
        /\ nextID' = nextID + 1
        /\ files' = files
    BY <1>11 DEF ClaimID
  <2>2. nextID \in Nat /\ nextID \notin DOMAIN files
    BY <1>1 DEF FilesNumbered
  <2> QED
    BY <2>1, <2>2 DEF OwnFile
<1>12. CASE PublishPath(t)
  BY <1>1, <1>12 DEF PublishPath, OwnFile
<1>13. CASE OpenReport(t)
  <2>1. /\ reportID[t] \notin DOMAIN files
        /\ pc'[t] = "write"
        /\ files' = WithFile(files, reportID[t], NewFile(t))
        /\ reportID' = reportID
        /\ nextID' = nextID
    BY <1>1, <1>13 DEF OpenReport, OwnFile
  <2>2. Fatal(capture[t])
    BY <1>1 DEF CrashesOnly, NoNotes, Fatal, Notes
  <2>3. NewFile(t).writer = t /\ NewFile(t).fatal
    BY <2>2 DEF NewFile
  <2>4. /\ reportID[t] \in DOMAIN files'
        /\ files'[reportID[t]] = NewFile(t)
    BY <2>1 DEF WithFile
  <2> QED
    BY <1>1, <1>13, <2>1, <2>3, <2>4 DEF OwnFile, OpenReport
<1>14. CASE WriteReport(t)
  <2>1. /\ reportID[t] \in DOMAIN files
        /\ files[reportID[t]].writer = t
        /\ files[reportID[t]].fatal
        /\ files[reportID[t]] \in File
    BY <1>1, <1>14 DEF WriteReport, OwnFile
  <2>2. files' = Completed(files, t, TRUE) /\ pc'[t] = "announce"
    BY <1>14 DEF WriteReport
  <2>3. reportID[t] \in DOMAIN files' /\ files'[reportID[t]].saved
    BY <2>1, <2>2 DEF Completed, File
  <2>4. Recorded'
    BY <2>1, <2>3 DEF Recorded, FilesGrow
  <2> QED
    BY <2>2, <2>4 DEF OwnFile
<1>15. CASE RenameToOld(t) \/ OpenRecrash(t) \/ EmbedOld(t) \/ RemoveOld(t)
            \/ WriteRecrash(t)
  BY <1>1, <1>15 DEF OwnFile, RenameToOld, OpenRecrash, EmbedOld, RemoveOld,
                     WriteRecrash
<1>16. CASE Finish(t)
  BY <1>2, <1>16 DEF Finish
<1> QED
  BY <1>4, <1>5, <1>6, <1>7, <1>8, <1>9, <1>10, <1>11, <1>12, <1>13, <1>14, <1>15,
     <1>16 DEF Progress

(* A thread enters the phases of an open report with a fresh ID.            *)
LEMMA FreshClaim ==
    ASSUME TypeOK, NEW t \in Threads, Environment(t) \/ Progress(t),
           CrashesOnly, pc'[t] \in Claimed
    PROVE  \/ pc[t] \in Claimed /\ reportID'[t] = reportID[t]
           \/ reportID'[t] = nextID /\ nextID' = nextID + 1
<1> USE DEF TypeOK, At, Goto, frame, scheduling, Claimed
<1>1. CASE Environment(t)
  <2>1. ~ReportUserException(t) /\ ~CrashInHandler(t)
    BY <1>1, StillQuiet DEF CrashesOnly
  <2> QED
    BY <1>1, <2>1 DEF Environment, CreateThread, CrashWithFault, CrashWithSignal,
                      CrashWithException, Fault, Begin, Suspends
<1>2. CASE TakeSignal(t) \/ DieOfSignal(t) \/ SuspendSelf(t)
  BY <1>2 DEF TakeSignal, DieOfSignal, SuspendSelf, Begin, Suspends
<1>3. CASE ReceiveException(t)
  <2>1. pc'[t] \in {"suspending", "finish"}
    BY <1>3 DEF ReceiveException, Begin, Suspends
  <2> QED
    BY <2>1
<1>4. CASE EnterSuspend(t) \/ SuspendTarget(t) \/ SuspendComplete(t) \/ Resume(t)
  BY <1>4 DEF EnterSuspend, SuspendTarget, SuspendComplete, Resume, AfterSuspension
<1>5. CASE NotifyTest(t) \/ NotifySet(t) \/ Disarm(t) \/ Unhook(t) \/ DisarmRest(t)
           \/ SwapHandler(t) \/ FillContext(t) \/ HandleException(t)
  BY <1>5 DEF NotifyTest, NotifySet, Disarm, Unhook, DisarmRest, SwapHandler,
              FillContext, HandleException, AfterNotification
<1>6. CASE ClaimID(t)
  BY <1>6 DEF ClaimID
<1>7. CASE PublishPath(t) \/ OpenReport(t) \/ WriteReport(t) \/ AnnounceReport(t)
           \/ RenameToOld(t) \/ OpenRecrash(t) \/ EmbedOld(t) \/ RemoveOld(t)
           \/ WriteRecrash(t) \/ AfterEvent(t)
  BY <1>7 DEF PublishPath, OpenReport, WriteReport, AnnounceReport, RenameToOld,
              OpenRecrash, EmbedOld, RemoveOld, WriteRecrash, AfterEvent
<1>8. CASE Finish(t)
  <2>1. pc'[t] \in {"terminated", "signaled", "blocked", "app"}
    BY <1>8 DEF Finish
  <2> QED
    BY <2>1
<1> QED
  BY <1>1, <1>2, <1>3, <1>4, <1>5, <1>6, <1>7, <1>8 DEF Progress

(* So no two threads ever work on a report of the same ID.                  *)
LEMMA ClaimsStillDiffer ==
    ASSUME TypeOK, FirstFiles, CrashesOnly, NEW t \in Threads,
           Environment(t) \/ Progress(t)
    PROVE  ClaimsDiffer'
<1> DEFINE Kept1(u) == pc[u] \in Claimed /\ reportID'[u] = reportID[u]
           New1 == reportID'[t] = nextID
<1>1. ASSUME NEW u \in Threads \ {t}, pc'[u] \in Claimed
      PROVE  Kept1(u) /\ reportID[u] # nextID
  <2>1. Kept1(u)
    BY <1>1, OthersAreLeft DEF LeftAlone, Claimed
  <2>2. reportID[u] < nextID /\ reportID[u] \in Nat /\ nextID \in Nat
    BY <2>1 DEF FirstFiles, OwnFile, TypeOK
  <2> QED
    BY <2>1, <2>2
<1>2. pc'[t] \in Claimed => Kept1(t) \/ New1
  BY FreshClaim
<1>3. ASSUME NEW u \in Threads \ {t}, pc'[u] \in Claimed, pc'[t] \in Claimed,
             reportID'[u] = reportID'[t]
      PROVE  FALSE
  BY <1>1, <1>2, <1>3 DEF FirstFiles, ClaimsDiffer
<1>4. ASSUME NEW u \in Threads \ {t}, NEW v \in Threads \ {t},
             pc'[u] \in Claimed, pc'[v] \in Claimed, reportID'[u] = reportID'[v]
      PROVE  u = v
  BY <1>1, <1>4 DEF FirstFiles, ClaimsDiffer
<1> QED
  BY <1>3, <1>4 DEF ClaimsDiffer

(* Until a second event meets the first, the files keep to their rules.     *)
LEMMA FirstFilesKept ==
    ASSUME TypeOK, FirstCrashInv, RestoreInv, ~crashedDuring', NEW t \in Threads,
           Environment(t) \/ Progress(t)
    PROVE  FirstFiles'
<1>1. FirstFiles /\ CrashesOnly
  BY NothingIsRearmed DEF FirstCrashInv, Settling
<1>2. FilesGrow(t)
  BY <1>1, OnlyNewFiles DEF FirstFiles, OwnFile
<1>3. FilesNumbered'
  <2> SUFFICES ASSUME NEW id \in DOMAIN files' PROVE id < nextID'
    BY DEF FilesNumbered
  <2>1. id \in DOMAIN files \/ (id = reportID[t] /\ pc[t] = "open")
    BY <1>2 DEF FilesGrow
  <2>2. id \in Nat /\ id < nextID
    BY <1>1, <2>1 DEF FirstFiles, FilesNumbered, OwnFile, Claimed, TypeOK
  <2>3. nextID \in Nat /\ nextID' \in Nat /\ nextID =< nextID'
    BY <1>2 DEF FilesGrow, TypeOK
  <2> QED
    BY <2>2, <2>3
<1>4. ClaimsDiffer'
  BY <1>1, ClaimsStillDiffer
<1>5. ASSUME NEW u \in Threads PROVE OwnFile(u)'
  <2>1. CASE u = t
    BY <1>2, <2>1, OwnFileKept
  <2>2. CASE u # t
    <3>1. LeftAlone(t, u)
      BY <2>2, OthersAreLeft
    <3> QED
      BY <1>1, <1>2, <2>2, <3>1, OthersKeepFiles
  <2> QED
    BY <2>1, <2>2
<1>6. "signal" \notin enabled' => Recorded'
  <2>1. "signal" \notin enabled => Recorded'
    BY <1>1, <1>2, StaysRecorded DEF FirstFiles
  <2>2. pc[t] = "disarmRest" => Recorded'
    BY <1>1, <1>2, StaysRecorded DEF FirstFiles, OwnFile, Disarming
  <2> QED
    BY <2>1, <2>2, StepsOfFlags DEF FlagSteps
<1> QED
  BY <1>3, <1>4, <1>5, <1>6 DEF FirstFiles

(* What has been said of the first crash and its report holds in every      *)
(* reachable state.                                                         *)
THEOREM FirstCrashInvariant ==
    ASSUME Budget["report"] = 0, Budget["nested"] = 0, "signal" \in Installed
    PROVE  Spec => []FirstCrashInv
<1>1. Init => FirstCrashInv
  <2> SUFFICES ASSUME Init PROVE FirstCrashInv
    OBVIOUS
  <2>1. CrashesOnly
    BY DEF Init, CrashesOnly, QuietEvents, NoNotes, Notes
  <2>2. \A t \in Threads : pc[t] \in Idle \cup {"terminated"}
    BY DEF Init, Idle
  <2>3. FirstFiles
    <3>1. DOMAIN files = {} /\ enabled = Installed
      BY DEF Init
    <3>2. \A t \in Threads : OwnFile(t)
      BY <2>2 DEF OwnFile, Idle, Claimed, Disarming, Recrashing
    <3> QED
      BY <2>2, <3>1, <3>2 DEF FirstFiles, FilesNumbered, ClaimsDiffer, Idle, Claimed
  <2> QED
    BY <2>1, <2>3 DEF FirstCrashInv
<1>2. TypeOK /\ RestoreInv /\ FirstCrashInv /\ [Next]_vars => FirstCrashInv'
  <2> SUFFICES ASSUME TypeOK, RestoreInv, FirstCrashInv, [Next]_vars
               PROVE  FirstCrashInv'
    OBVIOUS
  <2>1. CASE UNCHANGED vars
    BY <2>1 DEF vars, frame, monitoring, store, process, FirstCrashInv, CrashesOnly,
                QuietEvents, NoNotes, FirstFiles, FilesNumbered, ClaimsDiffer,
                OwnFile, Recorded
  <2>2. CASE Next
    <3>1. PICK t \in Threads : Environment(t) \/ Progress(t)
      BY <2>2 DEF Next
    <3>2. CrashesOnly'
      BY <3>1, OnlyCrashes DEF FirstCrashInv
    <3>3. ~crashedDuring' => FirstFiles'
      BY <3>1, FirstFilesKept
    <3> QED
      BY <3>2, <3>3 DEF FirstCrashInv
  <2> QED
    BY <2>1, <2>2
<1> QED
  BY <1>1, <1>2, TypeCorrect, RestoreInvariant, PTL DEF Spec

(* The process dies only of a signal that no handler of ours takes.         *)
LEMMA HowItDies ==
    ASSUME TypeOK, NEW t \in Threads, Environment(t) \/ Progress(t), dead', ~dead
    PROVE  DieOfSignal(t)
<1> USE DEF process
<1>1. ~Environment(t)
  BY DEF Environment, CreateThread, CrashWithFault, CrashWithSignal,
         CrashWithException, ReportUserException, CrashInHandler
<1>2. ~(\/ TakeSignal(t) \/ SuspendSelf(t) \/ ReceiveException(t) \/ EnterSuspend(t)
        \/ SuspendTarget(t) \/ SuspendComplete(t) \/ Resume(t))
  BY DEF TakeSignal, SuspendSelf, ReceiveException, EnterSuspend, SuspendTarget,
         SuspendComplete, Resume
<1>3. ~(\/ NotifyTest(t) \/ NotifySet(t) \/ Disarm(t) \/ Unhook(t) \/ DisarmRest(t)
        \/ SwapHandler(t) \/ FillContext(t) \/ HandleException(t) \/ ClaimID(t))
  BY DEF NotifyTest, NotifySet, Disarm, Unhook, DisarmRest, SwapHandler,
         FillContext, HandleException, ClaimID
<1>4. ~(\/ PublishPath(t) \/ OpenReport(t) \/ WriteReport(t) \/ AnnounceReport(t)
        \/ RenameToOld(t) \/ OpenRecrash(t) \/ EmbedOld(t) \/ RemoveOld(t)
        \/ WriteRecrash(t) \/ AfterEvent(t) \/ Finish(t))
  BY DEF PublishPath, OpenReport, WriteReport, AnnounceReport, RenameToOld,
         OpenRecrash, EmbedOld, RemoveOld, WriteRecrash, AfterEvent, Finish
<1> QED
  BY <1>1, <1>2, <1>3, <1>4 DEF Progress

(* For any number of threads and crashes, with the signal monitor installed *)
(* and neither a user report nor a crash inside a handler mixed in: a       *)
(* process that dies without a second event having met the first leaves a   *)
(* finished report of a fatal event (onCrash, and the order in which        *)
(* crasheecm_handleException records and disarms).                          *)
THEOREM DeathIsRecorded ==
    ASSUME Budget["report"] = 0, Budget["nested"] = 0, "signal" \in Installed
    PROVE  Spec => []DeathRecorded
<1>1. Init => DeathRecorded
  BY DEF Init, DeathRecorded
<1>2. TypeOK /\ FirstCrashInv /\ FirstCrashInv' /\ DeathRecorded /\ [Next]_vars
        => DeathRecorded'
  <2> SUFFICES ASSUME TypeOK, FirstCrashInv, FirstCrashInv', DeathRecorded,
                      [Next]_vars, dead', ~crashedDuring'
               PROVE  Recorded'
    BY DEF DeathRecorded
  <2>1. CASE UNCHANGED vars
    BY <2>1 DEF vars, monitoring, process, store, DeathRecorded, Recorded
  <2>2. CASE Next
    <3>1. PICK t \in Threads : Environment(t) \/ Progress(t)
      BY <2>2 DEF Next
    <3>2. ~crashedDuring /\ FirstFiles /\ CrashesOnly
      BY <3>1, NothingIsRearmed DEF FirstCrashInv, Settling
    <3>3. CASE dead
      <4>1. FilesGrow(t)
        BY <3>1, <3>2, OnlyNewFiles DEF FirstFiles, OwnFile
      <4> QED
        BY <3>2, <3>3, <4>1, StaysRecorded DEF DeathRecorded
    <3>4. CASE ~dead
      <4>1. DieOfSignal(t)
        BY <3>1, <3>4, HowItDies
      <4>2. "signal" \notin enabled
        BY <3>2, <4>1 DEF DieOfSignal, CrashesOnly, NoNotes, Idle
      <4> QED
        BY <3>2, <4>1, <4>2 DEF DieOfSignal, FirstFiles, Recorded, store
    <3> QED
      BY <3>3, <3>4
  <2> QED
    BY <2>1, <2>2
<1> QED
  BY <1>1, <1>2, TypeCorrect, FirstCrashInvariant, PTL DEF Spec

-----------------------------------------------------------------------------
(* The handler threads keep to their roles.                                 *)

(* What a frame that never returns holds, it holds for good.                *)
Abandons(t) ==
    /\ \A u \in Threads \ {t} : abandoned'[u] = abandoned[u]
    /\ abandoned'[t] # abandoned[t] => /\ CrashInHandler(t)
                                       /\ abandoned[t] = {}
                                       /\ abandoned'[t] = held[t]

LEMMA AbandonedStays ==
    ASSUME TypeOK, NEW t \in Threads, Environment(t) \/ Progress(t)
    PROVE  Abandons(t)
<1> USE DEF scheduling
<1>1. ASSUME abandoned' = abandoned PROVE Abandons(t)
  BY <1>1 DEF Abandons
<1>2. CASE CreateThread(t) \/ CrashWithFault(t) \/ CrashWithSignal(t)
           \/ CrashWithException(t) \/ ReportUserException(t)
  BY <1>1, <1>2 DEF CreateThread, CrashWithFault, CrashWithSignal,
              CrashWithException, ReportUserException, Begin
<1>3. CASE CrashInHandler(t)
  BY <1>3 DEF CrashInHandler, Abandons, TypeOK
<1>4. CASE TakeSignal(t) \/ DieOfSignal(t) \/ SuspendSelf(t) \/ ReceiveException(t)
           \/ EnterSuspend(t) \/ SuspendTarget(t) \/ SuspendComplete(t) \/ Resume(t)
  BY <1>1, <1>4 DEF TakeSignal, DieOfSignal, SuspendSelf, ReceiveException,
              EnterSuspend, SuspendTarget, SuspendComplete, Resume, Begin
<1>5. CASE NotifyTest(t) \/ NotifySet(t) \/ Disarm(t) \/ Unhook(t) \/ DisarmRest(t)
           \/ SwapHandler(t) \/ FillContext(t) \/ HandleException(t) \/ ClaimID(t)
  BY <1>1, <1>5 DEF NotifyTest, NotifySet, Disarm, Unhook, DisarmRest, SwapHandler,
              FillContext, HandleException, ClaimID
<1>6. CASE PublishPath(t) \/ OpenReport(t) \/ WriteReport(t) \/ AnnounceReport(t)
           \/ RenameToOld(t) \/ OpenRecrash(t) \/ EmbedOld(t) \/ RemoveOld(t)
           \/ WriteRecrash(t) \/ AfterEvent(t) \/ Finish(t)
  BY <1>1, <1>6 DEF PublishPath, OpenReport, WriteReport, AnnounceReport, RenameToOld,
              OpenRecrash, EmbedOld, RemoveOld, WriteRecrash, AfterEvent, Finish
<1> QED
  BY <1>2, <1>3, <1>4, <1>5, <1>6 DEF Environment, Progress

(* A thread of the start that such a frame holds never runs again.          *)
LEMMA AbandonedDoesNotRun ==
    ASSUME TypeOK, SuspendsBalance, NEW h \in Threads,
           NEW u \in EarlyThreads, u \in abandoned[h]
    PROVE  ~Running(u)
<1>1. Cardinality(HoldersIn(abandoned, u)) > 0
  BY HeldIsCounted
<1>2. /\ Cardinality(HoldersIn(abandoned, u)) \in Nat
      /\ Cardinality(HoldersIn(held, u)) \in Nat
  BY HoldersCount
<1>3. suspendCount[u] = Cardinality(HoldersIn(held, u))
                          + Cardinality(HoldersIn(abandoned, u))
  BY DEF SuspendsBalance, EarlyThreads
<1> QED
  BY <1>1, <1>2, <1>3 DEF Running

(* A handler thread that faults in its handler leaves everyone stopped.     *)
LEMMA FaultAbandons ==
    ASSUME CaptureInv, NEW h \in Handlers, HandlerFits(h), CrashInHandler(h)
    PROVE  EarlyThreads \subseteq abandoned'[h]
<1>1. h \in Threads /\ h \notin EarlyThreads
  BY ThreadsAssumption DEF Threads, Handlers, EarlyThreads
<1>2. pc[h] \in Dangerous
  BY DEF CrashInHandler, At
<1>3. pc[h] \in Window /\ pc[h] \notin Outside
  BY <1>2 DEF Dangerous, Window, Reporting, Outside
<1>4. InWindow(h)
  BY <1>3 DEF InWindow, HandlerFits, Suspends
<1>5. EarlyThreads \subseteq held[h]
  BY <1>1, <1>4 DEF CaptureInv, ListsCover
<1>6. abandoned'[h] = held[h]
  BY <1>1 DEF CrashInHandler, CaptureInv, TypeOK
<1> QED
  BY <1>5, <1>6

(* Each step of a handler thread keeps it in its role ...                   *)
LEMMA OwnRole ==
    ASSUME CaptureInv, NEW t \in Handlers, HandlerFits(t), Environment(t) \/ Progress(t)
    PROVE  HandlerFits(t)'
<1> USE DEF At, Goto, frame
<1> DEFINE Stopped(k) == EarlyThreads \subseteq k
<1>0. t \in Threads /\ TypeOK
  BY DEF Threads, CaptureInv
<1>1. Stopped(abandoned[t]) => Stopped(abandoned'[t])
  <2>1. Abandons(t)
    BY <1>0, AbandonedStays
  <2>2. CASE abandoned'[t] = abandoned[t]
    BY <2>2
  <2>3. CASE abandoned'[t] # abandoned[t]
    BY <2>1, <2>3, FaultAbandons DEF Abandons
  <2> QED
    BY <2>2, <2>3
<1>2. CASE Environment(t)
  <2>1. CrashInHandler(t)
    BY <1>2 DEF Environment, HandlerFits, CreateThread, CrashWithFault, CrashWithSignal,
                CrashWithException, ReportUserException
  <2>2. Stopped(abandoned'[t])
    BY <2>1, FaultAbandons
  <2>3. capture' = capture /\ pc'[t] \in {"blocked", "signaled"}
    BY <1>0, <2>1 DEF CrashInHandler, Fault, TypeOK
  <2> QED
    BY <2>2, <2>3 DEF HandlerFits, Outside
<1> USE <1>0 DEF HandlerFits, TypeOK, Outside
<1>3. CASE TakeSignal(t)
  <2>1. Begin(t, "signal") /\ pc[t] = "signaled"
    BY <1>3 DEF TakeSignal
  <2>2. capture'[t] = "signal" /\ pc'[t] = "suspending"
    BY <2>1 DEF Begin, Suspends
  <2> QED
    BY <1>1, <2>1, <2>2
<1>4. CASE DieOfSignal(t) \/ SuspendSelf(t)
  BY <1>1, <1>4 DEF DieOfSignal, SuspendSelf
<1>5. CASE ReceiveException(t)
  <2>1. capture'[t] = "mach" /\ pc'[t] \in {"suspending", "finish"}
    BY <1>5 DEF ReceiveException, Begin, Suspends
  <2> QED
    BY <2>1
<1>6. CASE EnterSuspend(t) \/ SuspendTarget(t) \/ SuspendComplete(t) \/ Resume(t)
  <2>1. /\ capture' = capture
        /\ pc'[t] \in {"suspending", "inSuspend", "notify", "fill", "resuming", "finish"}
        /\ pc[t] \notin Outside
    BY <1>6 DEF EnterSuspend, SuspendTarget, SuspendComplete, Resume, AfterSuspension
  <2> QED
    BY <1>1, <2>1
<1>7. CASE NotifyTest(t) \/ NotifySet(t) \/ Disarm(t) \/ Unhook(t) \/ DisarmRest(t)
           \/ SwapHandler(t) \/ FillContext(t) \/ HandleException(t) \/ ClaimID(t)
  <2>1. /\ capture' = capture
        /\ \/ pc'[t] \in {"notified", "disarm", "unhook", "disarmRest", "fill",
                          "handle", "recrash", "claim", "publish", "resuming"}
           \/ pc'[t] = "swap" /\ capture[t] = "mach"
        /\ pc[t] \notin Outside
    BY <1>7 DEF NotifyTest, NotifySet, Disarm, Unhook, DisarmRest, SwapHandler,
                FillContext, HandleException, ClaimID, AfterNotification
  <2> QED
    BY <1>1, <2>1
<1>8. CASE PublishPath(t) \/ OpenReport(t) \/ WriteReport(t) \/ AnnounceReport(t)
           \/ RenameToOld(t) \/ OpenRecrash(t) \/ EmbedOld(t) \/ RemoveOld(t)
           \/ WriteRecrash(t) \/ AfterEvent(t)
  <2>1. /\ capture' = capture
        /\ pc'[t] \in Reporting \cup {"disarm", "resuming"}
        /\ pc[t] \notin Outside
    BY <1>8 DEF PublishPath, OpenReport, WriteReport, AnnounceReport, RenameToOld,
                OpenRecrash, EmbedOld, RemoveOld, WriteRecrash, AfterEvent, Reporting
  <2> QED
    BY <1>1, <2>1 DEF Reporting
<1>9. CASE Finish(t)
  <2>1. capture'[t] = "none"
    BY <1>9 DEF Finish
  <2>2. \/ capture[t] = "mach" /\ pc'[t] = "terminated"
        \/ capture[t] = "signal" /\ pc'[t] = "signaled"
    BY <1>9 DEF Finish, Fatal
  <2> QED
    BY <1>1, <2>1, <2>2
<1> QED
  BY <1>2, <1>3, <1>4, <1>5, <1>6, <1>7, <1>8, <1>9 DEF Progress

(* ... and so does each step of another thread.                             *)
LEMMA OtherRole ==
    ASSUME CaptureInv, NEW t \in Threads, Environment(t) \/ Progress(t),
           NEW h \in Handlers \ {t}, HandlerFits(h)
    PROVE  HandlerFits(h)'
<1>1. h \in Threads \ {t} /\ TypeOK
  BY DEF Threads, CaptureInv
<1>2. LeftAlone(t, h) /\ Abandons(t)
  BY <1>1, OthersAreLeft, AbandonedStays
<1>3. abandoned'[h] = abandoned[h]
  BY <1>1, <1>2 DEF Abandons
<1> QED
  BY <1>2, <1>3 DEF LeftAlone, HandlerFits, Outside

(* No thread of the application ever waits for an exception.                *)
LEMMA AppRole ==
    ASSUME TypeOK, NEW t \in Threads, Environment(t) \/ Progress(t),
           NEW u \in AppThreads, AppFits(u)
    PROVE  AppFits(u)'
<1> USE DEF At, Goto, frame, scheduling, AppFits, TypeOK
<1>1. CASE u # t
  <2>1. LeftAlone(t, u)
    BY <1>1, OthersAreLeft DEF Threads
  <2> QED
    BY <2>1 DEF LeftAlone
<1>2. CASE u = t
  <2> USE <1>2
  <2>1. u # Secondary /\ u # Primary
    BY ThreadsAssumption
  <2>2. CASE CreateThread(t) \/ CrashWithFault(t) \/ CrashWithSignal(t)
             \/ CrashInHandler(t)
    BY <2>2 DEF CreateThread, CrashWithFault, CrashWithSignal, CrashInHandler, Fault
  <2>3. ASSUME NEW k \in {"signal", "cpp", "nsexc"} \cup Notes, Begin(t, k)
        PROVE  AppFits(u)'
    <3>1. capture'[t] = k /\ pc'[t] \in {"suspending", "notify", "fill", "resuming"}
      BY <2>3 DEF Begin, AfterSuspension
    <3> QED
      BY <3>1 DEF Notes
  <2>4. CASE CrashWithException(t)
    <3>1. CASE "cpp" \in enabled
      BY <2>3, <2>4, <3>1 DEF CrashWithException
    <3>2. CASE "cpp" \notin enabled
      BY <2>4, <3>2 DEF CrashWithException
    <3> QED
      BY <3>1, <3>2
  <2>5. CASE ReportUserException(t)
    BY <2>3, <2>5, MonitorsAssumption DEF ReportUserException
  <2>6. CASE TakeSignal(t)
    BY <2>3, <2>6 DEF TakeSignal
  <2>7. CASE DieOfSignal(t) \/ SuspendSelf(t) \/ ReceiveException(t)
    BY <2>1, <2>7 DEF DieOfSignal, SuspendSelf, ReceiveException
  <2>8. CASE EnterSuspend(t) \/ SuspendTarget(t) \/ SuspendComplete(t) \/ Resume(t)
    BY <2>8 DEF EnterSuspend, SuspendTarget, SuspendComplete, Resume, AfterSuspension
  <2>9. CASE NotifyTest(t) \/ NotifySet(t) \/ Disarm(t) \/ Unhook(t) \/ DisarmRest(t)
             \/ SwapHandler(t) \/ FillContext(t) \/ HandleException(t) \/ ClaimID(t)
    BY <2>9 DEF NotifyTest, NotifySet, Disarm, Unhook, DisarmRest, SwapHandler,
                FillContext, HandleException, ClaimID, AfterNotification
  <2>10. CASE PublishPath(t) \/ OpenReport(t) \/ WriteReport(t) \/ AnnounceReport(t)
              \/ RenameToOld(t) \/ OpenRecrash(t) \/ EmbedOld(t) \/ RemoveOld(t)
              \/ WriteRecrash(t) \/ AfterEvent(t)
    BY <2>10 DEF PublishPath, OpenReport, WriteReport, AnnounceReport, RenameToOld,
                 OpenRecrash, EmbedOld, RemoveOld, WriteRecrash, AfterEvent
  <2>11. CASE Finish(t)
    BY <2>11 DEF Finish
  <2> QED
    BY <2>2, <2>4, <2>5, <2>6, <2>7, <2>8, <2>9, <2>10, <2>11 DEF Environment, Progress
<1> QED
  BY <1>1, <1>2

(* A primary thread that is past the swap never comes back before it.       *)
LEMMA StaysPastSwap ==
    ASSUME TypeOK, PastSwap, NEW t \in Threads, Environment(t) \/ Progress(t),
           HandlerFits(Primary)
    PROVE  PastSwap'
<1> USE DEF At, Goto, frame, scheduling, PastSwap, TypeOK, Suspending, Noting,
            Disarming
<1>0. Primary \in Threads
  BY DEF Threads, Handlers
<1>1. CASE t # Primary
  <2>1. LeftAlone(t, Primary)
    BY <1>0, <1>1, OthersAreLeft
  <2> QED
    BY <2>1 DEF LeftAlone
<1>2. CASE t = Primary
  <2> USE <1>0, <1>2
  <2>1. Primary # Secondary
    BY ThreadsAssumption
  <2>2. CASE Environment(t)
    <3>1. CrashInHandler(t)
      BY <2>2 DEF Environment, HandlerFits, CreateThread, CrashWithFault,
                  CrashWithSignal, CrashWithException, ReportUserException
    <3> QED
      BY <3>1 DEF CrashInHandler, Fault
  <2>3. CASE TakeSignal(t)
    BY <2>3 DEF TakeSignal, Begin, Suspends
  <2>4. CASE DieOfSignal(t) \/ SuspendSelf(t) \/ ReceiveException(t)
    BY <2>1, <2>4 DEF DieOfSignal, SuspendSelf, ReceiveException
  <2>5. CASE EnterSuspend(t) \/ SuspendTarget(t) \/ SuspendComplete(t) \/ Resume(t)
    BY <2>5 DEF EnterSuspend, SuspendTarget, SuspendComplete, Resume, AfterSuspension
  <2>6. CASE NotifyTest(t) \/ NotifySet(t) \/ Disarm(t) \/ Unhook(t) \/ DisarmRest(t)
             \/ SwapHandler(t) \/ FillContext(t) \/ HandleException(t) \/ ClaimID(t)
    BY <2>6 DEF NotifyTest, NotifySet, Disarm, Unhook, DisarmRest, SwapHandler,
                FillContext, HandleException, ClaimID, AfterNotification
  <2>7. CASE PublishPath(t) \/ OpenReport(t) \/ WriteReport(t) \/ AnnounceReport(t)
             \/ RenameToOld(t) \/ OpenRecrash(t) \/ EmbedOld(t) \/ RemoveOld(t)
             \/ WriteRecrash(t)
    <3>1. pc'[t] \in {"open", "write", "announce", "after", "reopen", "embed", "unlink",
                     "rewrite"}
      BY <2>7 DEF PublishPath, OpenReport, WriteReport, AnnounceReport,
                  RenameToOld, OpenRecrash, EmbedOld, RemoveOld, WriteRecrash
    <3> QED
      BY <3>1
  <2>8. CASE AfterEvent(t)
    BY <2>8 DEF AfterEvent
  <2>9. CASE Finish(t)
    <3>1. capture'[t] = "none" /\ pc'[t] \in {"terminated", "signaled", "app"}
      BY <2>9 DEF Finish
    <3> QED
      BY <3>1
  <2> QED
    BY <2>2, <2>3, <2>4, <2>5, <2>6, <2>7, <2>8, <2>9 DEF Progress
<1> QED
  BY <1>1, <1>2

(* The suspend count of the stand-by: only its own call raises it, only     *)
(* the swap lowers it.                                                      *)
LEMMA CountOfSecondary ==
    ASSUME CaptureInv, NEW t \in Threads, Environment(t) \/ Progress(t)
    PROVE  \/ suspendCount'[Secondary] = suspendCount[Secondary]
           \/ SuspendSelf(t)
           \/ t = Primary /\ SwapHandler(t)
<1> USE DEF scheduling, CaptureInv, TypeOK
<1>1. Secondary \in Threads /\ Secondary \notin AppThreads
  BY ThreadsAssumption DEF Threads, Handlers
<1>2. CASE Environment(t)
  BY <1>2 DEF Environment, CreateThread, CrashWithFault, CrashWithSignal,
              CrashWithException, ReportUserException, CrashInHandler, Begin
<1>3. CASE TakeSignal(t) \/ DieOfSignal(t) \/ ReceiveException(t) \/ EnterSuspend(t)
           \/ SuspendComplete(t)
  BY <1>3 DEF TakeSignal, DieOfSignal, ReceiveException, Begin, EnterSuspend,
              SuspendComplete
<1>4. CASE SuspendTarget(t)
  <2>1. target[t] \in AppThreads
    BY <1>4 DEF SuspendTarget, ListsFit
  <2> QED
    BY <1>1, <1>4, <2>1 DEF SuspendTarget
<1>5. CASE Resume(t)
  <2>1. CASE held[t] = {}
    BY <1>5, <2>1 DEF Resume
  <2>2. CASE held[t] # {}
    <3>1. PICK u \in held[t] :
              suspendCount' = [suspendCount EXCEPT ![u] = IF @ > 0 THEN @ - 1 ELSE 0]
      BY <1>5, <2>2 DEF Resume
    <3> QED
      BY <1>1, <3>1
  <2> QED
    BY <2>1, <2>2
<1>6. CASE NotifyTest(t) \/ NotifySet(t) \/ Disarm(t) \/ Unhook(t) \/ DisarmRest(t)
           \/ FillContext(t) \/ HandleException(t) \/ ClaimID(t)
  BY <1>6 DEF NotifyTest, NotifySet, Disarm, Unhook, DisarmRest, FillContext,
              HandleException, ClaimID
<1>7. CASE SwapHandler(t)
  BY <1>7 DEF SwapHandler
<1>8. CASE PublishPath(t) \/ OpenReport(t) \/ WriteReport(t) \/ AnnounceReport(t)
           \/ RenameToOld(t) \/ OpenRecrash(t) \/ EmbedOld(t) \/ RemoveOld(t)
           \/ WriteRecrash(t) \/ AfterEvent(t) \/ Finish(t)
  BY <1>8 DEF PublishPath, OpenReport, WriteReport, AnnounceReport, RenameToOld,
              OpenRecrash, EmbedOld, RemoveOld, WriteRecrash, AfterEvent, Finish
<1> QED
  BY <1>2, <1>3, <1>4, <1>5, <1>6, <1>7, <1>8 DEF Progress

(* The stand-by takes its own steps only once the handlers are swapped, but *)
(* for suspending itself.                                                   *)
LEMMA SecondaryAwake ==
    ASSUME RolesInv, NEW t \in Threads, t = Secondary,
           Environment(t) \/ Progress(t), ~SuspendSelf(t)
    PROVE  Swapped /\ pc[t] \notin {"starting", "terminated", "unborn", "app"}
<1>1. pc[t] \notin {"unborn", "app"}
  BY DEF RolesInv, HandlerFits, Handlers
<1>2. pc[t] \notin {"starting", "terminated"}
       /\ (pc[t] = "waiting" => suspendCount[t] = 0)
  <2> USE DEF At, Running
  <2>1. CASE Environment(t)
    BY <1>1, <2>1 DEF Environment, CreateThread, CrashWithFault, CrashWithSignal,
                CrashWithException, ReportUserException, CrashInHandler, Dangerous
  <2>2. CASE TakeSignal(t) \/ DieOfSignal(t) \/ ReceiveException(t)
             \/ EnterSuspend(t) \/ SuspendTarget(t) \/ SuspendComplete(t) \/ Resume(t)
    BY <2>2 DEF TakeSignal, DieOfSignal, ReceiveException, EnterSuspend,
                SuspendTarget, SuspendComplete, Resume
  <2>3. CASE NotifyTest(t) \/ NotifySet(t) \/ Disarm(t) \/ Unhook(t) \/ DisarmRest(t)
             \/ SwapHandler(t) \/ FillContext(t) \/ HandleException(t) \/ ClaimID(t)
    BY <2>3 DEF NotifyTest, NotifySet, Disarm, Unhook, DisarmRest, SwapHandler,
                FillContext, HandleException, ClaimID
  <2>4. CASE PublishPath(t) \/ OpenReport(t) \/ WriteReport(t) \/ AnnounceReport(t)
             \/ RenameToOld(t) \/ OpenRecrash(t) \/ EmbedOld(t) \/ RemoveOld(t)
             \/ WriteRecrash(t) \/ AfterEvent(t) \/ Finish(t)
    BY <2>4 DEF PublishPath, OpenReport, WriteReport, AnnounceReport, RenameToOld,
                OpenRecrash, EmbedOld, RemoveOld, WriteRecrash, AfterEvent, Finish
  <2> QED
    BY <2>1, <2>2, <2>3, <2>4 DEF Progress
<1> QED
  BY <1>1, <1>2 DEF RolesInv, StandBy

(* The swap is made.                                                        *)
LEMMA SwapKept ==
    ASSUME TypeOK, RolesInv, Swapped, NEW t \in Threads, Environment(t) \/ Progress(t)
    PROVE  Swapped'
<1>1. Settling /\ PastSwap
  BY NothingIsRearmed DEF Swapped
<1>2. HandlerFits(Primary)
  BY DEF RolesInv, Handlers
<1>3. PastSwap'
  BY <1>1, <1>2, StaysPastSwap
<1> QED
  BY <1>1, <1>3 DEF Swapped, Settling

LEMMA StillStandBy ==
    ASSUME CaptureInv, RestoreInv, RolesInv, NEW t \in Threads,
           Environment(t) \/ Progress(t)
    PROVE  StandBy'
<1>0. Secondary \in Threads /\ Primary \in Threads /\ Primary # Secondary /\ TypeOK
  BY ThreadsAssumption DEF Threads, Handlers, CaptureInv
<1>1. CASE Swapped
  BY <1>0, <1>1, SwapKept DEF StandBy
<1>2. CASE ~Swapped /\ t = Secondary
  <2>1. SuspendSelf(t)
    BY <1>2, SecondaryAwake
  <2> QED
    BY <1>0, <1>2, <2>1 DEF SuspendSelf, At, Goto, StandBy, TypeOK
<1>3. CASE ~Swapped /\ t # Secondary
  <2>1. \/ pc[Secondary] \in {"starting", "terminated"}
        \/ pc[Secondary] = "waiting" /\ suspendCount[Secondary] > 0
    BY <1>3 DEF RolesInv, StandBy
  <2>2. LeftAlone(t, Secondary)
    BY <1>0, <1>3, OthersAreLeft
  <2>3. pc'[Secondary] \in {pc[Secondary], "terminated"}
    BY <2>1, <2>2 DEF LeftAlone
  <2>4. CASE suspendCount'[Secondary] = suspendCount[Secondary]
    BY <2>1, <2>3, <2>4 DEF StandBy
  <2>5. CASE t = Primary /\ SwapHandler(t)
    <3>1. CASE ports = "ours"
      <4>1. /\ ports' = "original"
            /\ handling' = handling
            /\ pc[Primary] = "swap"
            /\ pc'[Primary] = "fill"
            /\ capture' = capture
        BY <1>0, <2>5, <3>1 DEF SwapHandler, At, Goto, frame, TypeOK
      <4>2. capture[Primary] = "mach"
        BY <4>1 DEF RolesInv, HandlerFits, Handlers
      <4>3. handling
        BY <1>0, <4>1, <4>2 DEF RestoreInv, FlagsPrecede, Fatal
      <4> QED
        BY <4>1, <4>3 DEF StandBy, Swapped, PastSwap, Suspending, Noting, Disarming
    <3>2. CASE ports # "ours"
      <4>1. suspendCount' = suspendCount
        BY <2>5, <3>2 DEF SwapHandler
      <4> QED
        BY <2>4, <4>1
    <3> QED
      BY <3>1, <3>2
  <2>6. ~SuspendSelf(t)
    BY <1>3 DEF SuspendSelf
  <2> QED
    BY <2>4, <2>5, <2>6, CountOfSecondary
<1> QED
  BY <1>1, <1>2, <1>3

(* What the stand-by captures is the second event: it takes the handlers    *)
(* away before it reports, and is never blocked on the port it serves.      *)
LEMMA SecondaryKept ==
    ASSUME CaptureInv, RestoreInv, RolesInv, NEW t \in Threads,
           Environment(t) \/ Progress(t)
    PROVE  SecondaryFits'
<1>0. /\ Secondary \in Threads /\ TypeOK /\ SecondaryFits
      /\ HandlerFits(Secondary)
  BY DEF Threads, Handlers, CaptureInv, RolesInv
<1>1. Settling
  BY <1>0, NothingIsRearmed
<1>2. CASE t # Secondary
  <2>1. LeftAlone(t, Secondary)
    BY <1>0, <1>2, OthersAreLeft
  <2> QED
    BY <1>0, <1>1, <2>1 DEF LeftAlone, SecondaryFits, Settling, Reporting
<1>3. CASE t = Secondary /\ SuspendSelf(t)
  BY <1>0, <1>3 DEF SuspendSelf, At, Goto, frame, SecondaryFits, TypeOK, Reporting
<1>4. CASE t = Secondary /\ ~SuspendSelf(t)
  <2> USE <1>4
  <2>1. Swapped /\ pc[t] \notin {"starting", "terminated", "unborn", "app"}
    BY SecondaryAwake
  <2>2. ports = "original" /\ handling
    BY <2>1 DEF Swapped
  <2>3. pc[t] \notin Outside => capture[t] = "mach"
    BY <1>0 DEF HandlerFits, SecondaryFits
  <2> USE <1>0 DEF TypeOK, At, Goto, frame, monitoring, Outside, Reporting
  <2> DEFINE Untouched == pc'[t] \notin {"blocked", "notified", "swap", "signaled"}
                                     \cup Reporting
  <2>4. capture' = capture /\ Untouched => SecondaryFits'
    BY DEF SecondaryFits
  <2>5. capture' = capture /\ "signal" \notin enabled'
            /\ pc'[t] \notin {"blocked", "notified"}
        => SecondaryFits'
    BY DEF SecondaryFits
  <2>6. CASE Environment(t)
    <3>1. CrashInHandler(t)
      BY <2>1, <2>6 DEF Environment, CreateThread, CrashWithFault, CrashWithSignal,
                        CrashWithException, ReportUserException
    <3>2. pc[t] \in Dangerous
      BY <3>1 DEF CrashInHandler
    <3>3. "signal" \notin enabled
      BY <3>2 DEF SecondaryFits, Dangerous
    <3>4. pc'[t] = "signaled" /\ capture' = capture
      BY <2>2, <3>1 DEF CrashInHandler, Fault
    <3> QED
      BY <1>1, <2>5, <3>3, <3>4 DEF Settling
  <2>7. ~TakeSignal(t)
    BY DEF TakeSignal, SecondaryFits
  <2>8. CASE DieOfSignal(t)
    BY <2>8 DEF DieOfSignal, SecondaryFits
  <2>9. CASE ReceiveException(t)
    <3>1. capture'[t] = "mach" /\ pc'[t] \in {"suspending", "finish"}
      BY <2>9 DEF ReceiveException, Begin, Suspends
    <3> QED
      BY <3>1 DEF SecondaryFits
  <2>10. CASE EnterSuspend(t) \/ SuspendTarget(t) \/ SuspendComplete(t) \/ Resume(t)
    <3>1. capture' = capture
      BY <2>10 DEF EnterSuspend, SuspendTarget, SuspendComplete, Resume
    <3>2. capture[t] = "mach"
      BY <2>3, <2>10 DEF EnterSuspend, SuspendTarget, SuspendComplete, Resume
    <3>3. pc'[t] \in {"suspending", "inSuspend", "notify", "resuming", "finish"}
      BY <2>10, <3>2 DEF EnterSuspend, SuspendTarget, SuspendComplete, Resume,
                         AfterSuspension, Fatal
    <3> QED
      BY <2>4, <3>1, <3>3
  <2>11. CASE NotifyTest(t)
    BY <2>2, <2>11 DEF NotifyTest, SecondaryFits
  <2>12. CASE NotifySet(t)
    <3>1. crashedDuring
      BY <2>12 DEF NotifySet, SecondaryFits
    <3>2. capture' = capture /\ pc'[t] = "disarm"
      BY <2>12, <3>1 DEF NotifySet
    <3> QED
      BY <2>4, <3>2
  <2>13. CASE Disarm(t) \/ Unhook(t)
    BY <2>4, <2>13 DEF Disarm, Unhook
  <2>14. CASE DisarmRest(t)
    <3>1. capture' = capture /\ "signal" \notin enabled'
      BY <2>14 DEF DisarmRest
    <3>2. pc'[t] \in {"resuming", "swap", "fill"}
      BY <2>14 DEF DisarmRest, AfterNotification
    <3> QED
      BY <2>5, <3>1, <3>2
  <2>15. CASE pc[t] \in {"swap"} \cup Reporting /\ ~Environment(t)
    <3>1. "signal" \notin enabled'
      BY <1>1, <2>15 DEF SecondaryFits, Settling
    <3>2. CASE SwapHandler(t) \/ FillContext(t) \/ HandleException(t) \/ ClaimID(t)
      BY <2>5, <3>1, <3>2 DEF SwapHandler, FillContext, HandleException, ClaimID
    <3>3. CASE PublishPath(t) \/ OpenReport(t) \/ WriteReport(t) \/ AnnounceReport(t)
               \/ RenameToOld(t) \/ OpenRecrash(t) \/ EmbedOld(t) \/ RemoveOld(t)
               \/ WriteRecrash(t)
      BY <2>5, <3>1, <3>3 DEF PublishPath, OpenReport, WriteReport, AnnounceReport,
                  RenameToOld, OpenRecrash, EmbedOld, RemoveOld, WriteRecrash
    <3>4. CASE AfterEvent(t)
      BY <2>5, <3>1, <3>4 DEF AfterEvent
    <3> QED
      BY <2>7, <2>8, <2>9, <2>10, <2>11, <2>12, <2>13, <2>14, <2>15, <3>2, <3>3, <3>4
      DEF Progress, SuspendSelf, Finish
  <2>16. CASE Finish(t)
    <3>1. capture'[t] = "none" /\ pc'[t] = "terminated"
      BY <2>3, <2>16 DEF Finish
    <3> QED
      BY <3>1 DEF SecondaryFits
  <2> QED
    <3>1. CASE pc[t] \in {"swap"} \cup Reporting
      BY <2>6, <2>15, <3>1
    <3>2. CASE pc[t] \notin {"swap"} \cup Reporting
      <4>1. ~(SwapHandler(t) \/ FillContext(t) \/ HandleException(t) \/ ClaimID(t))
        BY <3>2 DEF SwapHandler, FillContext, HandleException, ClaimID
      <4>2. ~(PublishPath(t) \/ OpenReport(t) \/ WriteReport(t) \/ AnnounceReport(t)
               \/ RenameToOld(t) \/ OpenRecrash(t) \/ EmbedOld(t) \/ RemoveOld(t)
               \/ WriteRecrash(t) \/ AfterEvent(t))
        BY <3>2 DEF PublishPath, OpenReport, WriteReport, AnnounceReport, RenameToOld,
                    OpenRecrash, EmbedOld, RemoveOld, WriteRecrash, AfterEvent
      <4> QED
        BY <2>6, <2>7, <2>8, <2>9, <2>10, <2>11, <2>12, <2>13, <2>14, <2>16, <4>1, <4>2
           DEF Progress
    <3> QED
      BY <3>1, <3>2
<1> QED
  BY <1>2, <1>3, <1>4

(* Every role is kept at the start.                                         *)
LEMMA InitRoles == Init => RolesInv
<1> SUFFICES ASSUME Init PROVE RolesInv
  OBVIOUS
<1>1. \A t \in Threads : capture[t] = "none"
  BY DEF Init
<1>2. \A t \in AppThreads : pc[t] \in {"unborn", "app"}
  BY DEF Init, Threads
<1>3. Primary \in Threads /\ pc[Primary] \in {"waiting", "terminated"}
  BY ThreadsAssumption DEF Init, Threads, Handlers
<1>4. Secondary \in Threads /\ pc[Secondary] \in {"starting", "terminated"}
  BY ThreadsAssumption DEF Init, Threads, Handlers
<1>5. \A h \in Handlers : HandlerFits(h)
  BY <1>1, <1>3, <1>4 DEF HandlerFits, Handlers, Outside
<1>6. \A t \in AppThreads : AppFits(t)
  BY <1>1, <1>2 DEF AppFits, Threads
<1>7. StandBy /\ SecondaryFits
  BY <1>1, <1>4 DEF StandBy, SecondaryFits, Reporting
<1> QED
  BY <1>5, <1>6, <1>7 DEF RolesInv

(* The roles are kept in every reachable state.                             *)
THEOREM RolesInvariant == Spec => []RolesInv
<1>1. Init => RolesInv
  BY InitRoles
<1>2. CaptureInv /\ RestoreInv /\ RolesInv /\ [Next]_vars => RolesInv'
  <2> SUFFICES ASSUME CaptureInv, RestoreInv, RolesInv, [Next]_vars PROVE RolesInv'
    OBVIOUS
  <2>1. CASE UNCHANGED vars
    BY <2>1 DEF vars, scheduling, frame, monitoring, RolesInv, HandlerFits, AppFits,
                StandBy, Swapped, PastSwap, SecondaryFits
  <2>2. CASE Next
    <3>1. PICK t \in Threads : Environment(t) \/ Progress(t)
      BY <2>2 DEF Next
    <3>2. \A h \in Handlers : HandlerFits(h)'
      BY <3>1, OwnRole, OtherRole DEF RolesInv
    <3>3. \A u \in AppThreads : AppFits(u)'
      BY <3>1, AppRole DEF RolesInv, CaptureInv
    <3>4. StandBy' /\ SecondaryFits'
      BY <3>1, StillStandBy, SecondaryKept
    <3> QED
      BY <3>2, <3>3, <3>4 DEF RolesInv
  <2> QED
    BY <2>1, <2>2
<1> QED
  BY <1>1, <1>2, CaptureInvariant, RestoreInvariant, PTL DEF Spec

-----------------------------------------------------------------------------
(* The context a handler reports from is its own.                           *)

(* How a thread comes to a phase that reads the context, and who writes it. *)
ReadsContext(t) == pc[t] \in Reporting \ {"fill"}

ContextSteps(t) ==
    /\ context' = context \/ FillContext(t)
    /\ ReadsContext(t)' => \/ FillContext(t)
                           \/ ReadsContext(t) /\ capture'[t] = capture[t] /\ context' = context

LEMMA StepsOfContext ==
    ASSUME TypeOK, NEW t \in Threads, Environment(t) \/ Progress(t)
    PROVE  ContextSteps(t)
<1> USE DEF At, Goto, frame, scheduling, monitoring, TypeOK, ContextSteps, ReadsContext,
            Reporting
<1>0. \A k \in Captures \cup {"none"} :
          /\ AfterSuspension(k) \notin Reporting \ {"fill"}
          /\ AfterNotification(k) \notin Reporting \ {"fill"}
  BY DEF AfterSuspension, AfterNotification
<1>1. ASSUME NEW k \in Captures, Begin(t, k) PROVE ~ReadsContext(t)'
  BY <1>0, <1>1 DEF Begin
<1>2. CASE CreateThread(t) \/ CrashWithFault(t) \/ CrashWithSignal(t) \/ CrashInHandler(t)
  BY <1>2 DEF CreateThread, CrashWithFault, CrashWithSignal, CrashInHandler, Fault
<1>3. CASE CrashWithException(t)
  <2>1. CASE "cpp" \in enabled
    BY <1>1, <1>3, <2>1 DEF CrashWithException, Captures
  <2>2. CASE "cpp" \notin enabled
    BY <1>3, <2>2 DEF CrashWithException
  <2>3. context' = context
    BY <1>3 DEF CrashWithException
  <2> QED
    BY <2>1, <2>2, <2>3
<1>4. CASE ReportUserException(t)
  BY <1>1, <1>4, MonitorsAssumption DEF ReportUserException, Captures
<1>5. CASE TakeSignal(t)
  BY <1>1, <1>5 DEF TakeSignal, Captures
<1>6. CASE ReceiveException(t)
  <2>1. CASE "mach" \in enabled
    BY <1>1, <1>6, <2>1 DEF ReceiveException, Captures
  <2>2. CASE "mach" \notin enabled
    BY <1>6, <2>2 DEF ReceiveException
  <2>3. context' = context
    BY <1>6 DEF ReceiveException
  <2> QED
    BY <2>1, <2>2, <2>3
<1>7. CASE DieOfSignal(t) \/ SuspendSelf(t) \/ EnterSuspend(t) \/ SuspendTarget(t)
           \/ SuspendComplete(t) \/ Resume(t)
  BY <1>0, <1>7 DEF DieOfSignal, SuspendSelf, EnterSuspend, SuspendTarget,
                    SuspendComplete, Resume
<1>8. CASE NotifyTest(t) \/ NotifySet(t) \/ Disarm(t) \/ Unhook(t) \/ DisarmRest(t)
           \/ SwapHandler(t)
  BY <1>0, <1>8 DEF NotifyTest, NotifySet, Disarm, Unhook, DisarmRest, SwapHandler
<1>9. CASE FillContext(t)
  BY <1>9
<1>10. CASE HandleException(t) \/ ClaimID(t) \/ PublishPath(t) \/ OpenReport(t)
            \/ WriteReport(t) \/ AnnounceReport(t)
  BY <1>10 DEF HandleException, ClaimID, PublishPath, OpenReport, WriteReport,
               AnnounceReport
<1>11. CASE RenameToOld(t) \/ OpenRecrash(t) \/ EmbedOld(t) \/ RemoveOld(t)
            \/ WriteRecrash(t) \/ AfterEvent(t)
  BY <1>11 DEF RenameToOld, OpenRecrash, EmbedOld, RemoveOld, WriteRecrash, AfterEvent
<1>12. CASE Finish(t)
  BY <1>12 DEF Finish
<1> QED
  BY <1>2, <1>3, <1>4, <1>5, <1>6, <1>7, <1>8, <1>9, <1>10, <1>11, <1>12
     DEF Environment, Progress

(* When everyone of the start is stopped for good, it stays so.             *)
LEMMA AbandonedForGood ==
    ASSUME TypeOK, AllAbandoned, EarlyThreads # {}, NEW t \in Threads,
           Environment(t) \/ Progress(t)
    PROVE  AllAbandoned'
<1>1. PICK h \in Handlers : EarlyThreads \subseteq abandoned[h]
  BY DEF AllAbandoned
<1>2. Abandons(t) /\ h \in Threads
  BY AbandonedStays DEF Threads
<1>3. abandoned'[h] = abandoned[h]
  BY <1>1, <1>2 DEF Abandons
<1> QED
  BY <1>1, <1>3 DEF AllAbandoned

(* A handler of the start keeps its context: who could write it is a thread *)
(* born since, or is alone in the window, or runs when nobody else does.    *)
LEMMA AppContextKept ==
    ASSUME CaptureInv, RolesInv, NEW t \in Threads, Environment(t) \/ Progress(t),
           NEW u \in EarlyThreads, AppContext(u)
    PROVE  AppContext(u)'
<1>0. /\ TypeOK /\ u \in Threads /\ u \in AppThreads
      /\ u \notin Handlers /\ EarlyThreads # {}
  BY ThreadsAssumption DEF CaptureInv, EarlyThreads, Threads, Handlers
<1> SUFFICES ASSUME ReadsContext(u)', StaticContext(capture'[u])
             PROVE  context'[capture'[u]] \in {u} \cup LateThreads \/ AllAbandoned'
  BY DEF AppContext, ReadsContext
<1>1. ContextSteps(t)
  BY <1>0, StepsOfContext
<1>2. AllAbandoned => AllAbandoned'
  BY <1>0, AbandonedForGood
<1>3. ASSUME ReadsContext(u), capture'[u] = capture[u], context' = context
      PROVE  context'[capture'[u]] \in {u} \cup LateThreads \/ AllAbandoned'
  BY <1>2, <1>3 DEF AppContext, ReadsContext
<1>4. CASE t = u
  <2>1. CASE FillContext(t)
    BY <1>0, <1>4, <2>1 DEF FillContext, frame, StaticContext, TypeOK
  <2> QED
    BY <1>1, <1>3, <1>4, <2>1 DEF ContextSteps
<1>5. CASE t # u
  <2>1. LeftAlone(t, u)
    BY <1>0, <1>5, OthersAreLeft
  <2>2. ReadsContext(u) /\ capture'[u] = capture[u]
    BY <2>1 DEF ReadsContext, LeftAlone, Reporting
  <2>3. CASE context' = context
    BY <1>3, <2>2, <2>3
  <2>4. CASE FillContext(t) /\ capture[t] # capture[u]
    <3>1. context'[capture[u]] = context[capture[u]]
      BY <1>0, <2>2, <2>4 DEF FillContext, StaticContext, TypeOK
    <3> QED
      BY <1>2, <2>2, <3>1 DEF AppContext, ReadsContext
  <2>5. CASE FillContext(t) /\ capture[t] = capture[u]
    <3>1. context'[capture'[u]] = t
      BY <1>0, <2>2, <2>5 DEF FillContext, StaticContext, TypeOK
    <3>2. CASE t \in LateThreads
      BY <3>1, <3>2
    <3>3. CASE t \in EarlyThreads
      <4>1. InWindow(u)
        BY <2>2 DEF InWindow, ReadsContext, StaticContext, Suspends, Window
      <4>2. InWindow(t)
        BY <2>2, <2>5 DEF InWindow, FillContext, At, StaticContext, Suspends, Window,
                          Reporting
      <4> QED
        BY <1>5, <3>3, <4>1, <4>2 DEF CaptureInv, ExclusiveWindow
    <3>4. CASE t \in Handlers
      <4>1. capture[u] # "mach" /\ HandlerFits(t)
        BY <1>0, <3>4 DEF RolesInv, AppFits
      <4>2. capture[t] = "signal"
        BY <2>2, <2>5, <4>1 DEF HandlerFits, StaticContext
      <4>3. AllAbandoned
        BY <3>4, <4>1, <4>2 DEF HandlerFits, AllAbandoned
      <4> QED
        BY <1>2, <4>3
    <3> QED
      BY <3>2, <3>3, <3>4 DEF Threads, EarlyThreads
  <2> QED
    BY <1>1, <2>3, <2>4, <2>5 DEF ContextSteps
<1> QED
  BY <1>4, <1>5

(* A thread of the start that does not run takes no step of its own: the    *)
(* kernel can only end the process, or a suspension in progress.            *)
LEMMA StoppedTakesNoStep ==
    ASSUME CaptureInv, NEW t \in EarlyThreads, ~Running(t),
           Environment(t) \/ Progress(t)
    PROVE  DieOfSignal(t) \/ SuspendTarget(t)
<1>1. ~Running(t)
  OBVIOUS
<1>2. pc[t] # "unborn"
  BY DEF CaptureInv, ListsCover, EarlyThreads, Threads
<1> USE <1>1, <1>2 DEF At
<1>3. ~Environment(t)
  BY DEF Environment, CreateThread, CrashWithFault, CrashWithSignal,
         CrashWithException, ReportUserException, CrashInHandler
<1>4. ~(\/ TakeSignal(t) \/ SuspendSelf(t) \/ ReceiveException(t) \/ EnterSuspend(t)
        \/ SuspendComplete(t) \/ Resume(t))
  BY DEF TakeSignal, SuspendSelf, ReceiveException, EnterSuspend, SuspendComplete, Resume
<1>5. ~(\/ NotifyTest(t) \/ NotifySet(t) \/ Disarm(t) \/ Unhook(t) \/ DisarmRest(t)
        \/ SwapHandler(t) \/ FillContext(t) \/ HandleException(t) \/ ClaimID(t))
  BY DEF NotifyTest, NotifySet, Disarm, Unhook, DisarmRest, SwapHandler,
         FillContext, HandleException, ClaimID
<1>6. ~(\/ PublishPath(t) \/ OpenReport(t) \/ WriteReport(t) \/ AnnounceReport(t)
        \/ RenameToOld(t) \/ OpenRecrash(t) \/ EmbedOld(t) \/ RemoveOld(t)
        \/ WriteRecrash(t) \/ AfterEvent(t) \/ Finish(t))
  BY DEF PublishPath, OpenReport, WriteReport, AnnounceReport, RenameToOld,
         OpenRecrash, EmbedOld, RemoveOld, WriteRecrash, AfterEvent, Finish
<1> QED
  BY <1>3, <1>4, <1>5, <1>6 DEF Progress

(* Another one's window stops it.                                           *)
LEMMA HeldTakesNoStep ==
    ASSUME CaptureInv, NEW t \in EarlyThreads, NEW h \in Threads \ {t}, InWindow(h),
           Environment(t) \/ Progress(t)
    PROVE  DieOfSignal(t) \/ SuspendTarget(t)
<1>1. ~Running(t)
  BY FrozenFollows DEF EnvironmentFrozen
<1> QED
  BY <1>1, StoppedTakesNoStep

(* Who clears the flag of a Mach crash in progress, and how the primary     *)
(* thread comes to the phases that rely on it.                              *)
ReliesOnBusy(t) ==
    /\ capture[t] = "mach"
    /\ \/ pc[t] \in Noting \cup Reporting
       \/ pc[t] \in Disarming /\ ~recorded[t]

BusySteps(t) ==
    /\ machBusy => \/ machBusy'
                   \/ /\ capture[t] = "mach"
                      /\ pc[t] = "after" \/ (pc[t] = "disarmRest" /\ recorded[t])
                      /\ pc'[t] = "resuming"
    /\ ReliesOnBusy(t)' => machBusy' \/ ReliesOnBusy(t)

LEMMA StepsOfBusy ==
    ASSUME TypeOK, NEW t \in Threads, Environment(t) \/ Progress(t)
    PROVE  BusySteps(t)
<1> USE DEF At, Goto, frame, scheduling, monitoring, TypeOK, BusySteps, ReliesOnBusy,
            Noting, Disarming, Reporting
<1>1. CASE CreateThread(t) \/ CrashWithFault(t) \/ CrashWithSignal(t) \/ CrashInHandler(t)
  BY <1>1 DEF CreateThread, CrashWithFault, CrashWithSignal, CrashInHandler, Fault
<1>2. ASSUME NEW k \in Captures, Begin(t, k), Suspends(k) \/ k # "mach"
      PROVE  ~ReliesOnBusy(t)'
  BY <1>2 DEF Begin
<1>3. CASE CrashWithException(t)
  <2>1. machBusy' = machBusy
    BY <1>3 DEF CrashWithException
  <2>2. CASE "cpp" \in enabled
    BY <1>2, <1>3, <2>1, <2>2 DEF CrashWithException, Captures
  <2>3. CASE "cpp" \notin enabled
    BY <1>3, <2>1, <2>3 DEF CrashWithException
  <2> QED
    BY <2>2, <2>3
<1>4. CASE ReportUserException(t)
  BY <1>2, <1>4, MonitorsAssumption DEF ReportUserException, Captures, Notes
<1>5. CASE TakeSignal(t)
  BY <1>2, <1>5 DEF TakeSignal, Captures
<1>6. CASE ReceiveException(t)
  <2>1. machBusy' = machBusy
    BY <1>6 DEF ReceiveException
  <2>2. CASE "mach" \in enabled
    BY <1>2, <1>6, <2>1, <2>2 DEF ReceiveException, Captures, Suspends
  <2>3. CASE "mach" \notin enabled
    BY <1>6, <2>1, <2>3 DEF ReceiveException
  <2> QED
    BY <2>2, <2>3
<1>7. CASE DieOfSignal(t) \/ SuspendSelf(t) \/ EnterSuspend(t) \/ SuspendTarget(t)
           \/ Resume(t)
  BY <1>7 DEF DieOfSignal, SuspendSelf, EnterSuspend, SuspendTarget, Resume
<1>8. CASE SuspendComplete(t)
  BY <1>8 DEF SuspendComplete
<1>9. CASE NotifyTest(t) \/ NotifySet(t) \/ Disarm(t) \/ Unhook(t) \/ SwapHandler(t)
  BY <1>9 DEF NotifyTest, NotifySet, Disarm, Unhook, SwapHandler, AfterNotification
<1>10. CASE DisarmRest(t)
  BY <1>10 DEF DisarmRest, AfterNotification
<1>11. CASE FillContext(t) \/ HandleException(t) \/ ClaimID(t) \/ PublishPath(t)
            \/ OpenReport(t)
  BY <1>11 DEF FillContext, HandleException, ClaimID, PublishPath, OpenReport
<1>12. CASE WriteReport(t) \/ AnnounceReport(t) \/ RenameToOld(t) \/ OpenRecrash(t)
            \/ EmbedOld(t) \/ RemoveOld(t) \/ WriteRecrash(t)
  BY <1>12 DEF WriteReport, AnnounceReport, RenameToOld, OpenRecrash, EmbedOld,
               RemoveOld, WriteRecrash
<1>13. CASE AfterEvent(t)
  BY <1>13 DEF AfterEvent
<1>14. CASE Finish(t)
  BY <1>14 DEF Finish
<1> QED
  BY <1>1, <1>3, <1>4, <1>5, <1>6, <1>7, <1>8, <1>9, <1>10, <1>11, <1>12, <1>13,
     <1>14 DEF Environment, Progress

(* The flag of the Mach crash stays up while the primary thread reports.    *)
LEMMA BusyKept ==
    ASSUME CaptureInv, RolesInv, PrimaryIsBusy, SecondaryBehind,
           NEW t \in Threads, Environment(t) \/ Progress(t)
    PROVE  PrimaryIsBusy'
<1>0. /\ TypeOK /\ Primary \in Threads /\ Primary # Secondary
      /\ Primary \in Handlers /\ Secondary \in Handlers
  BY ThreadsAssumption DEF CaptureInv, Threads, Handlers
<1>1. BusySteps(t)
  BY <1>0, StepsOfBusy
<1> SUFFICES ASSUME ReliesOnBusy(Primary)' PROVE machBusy'
  BY DEF PrimaryIsBusy, ReliesOnBusy
<1>2. ReliesOnBusy(Primary) => machBusy
  BY DEF PrimaryIsBusy, ReliesOnBusy
<1>3. CASE t = Primary
  <2>1. CASE ReliesOnBusy(t)
    <3>1. pc'[t] # "resuming"
      BY <1>3 DEF ReliesOnBusy, Noting, Reporting, Disarming
    <3> QED
      BY <1>1, <1>2, <1>3, <2>1, <3>1 DEF BusySteps
  <2> QED
    BY <1>1, <1>3, <2>1 DEF BusySteps
<1>4. CASE t # Primary
  <2>1. LeftAlone(t, Primary)
    BY <1>0, <1>4, OthersAreLeft
  <2>2. ReliesOnBusy(Primary)
    BY <2>1 DEF LeftAlone, ReliesOnBusy, Noting, Reporting, Disarming
  <2>3. ASSUME ~machBusy'
        PROVE  FALSE
    <3>1. /\ capture[t] = "mach"
          /\ pc[t] = "after" \/ (pc[t] = "disarmRest" /\ recorded[t])
      BY <1>1, <1>2, <2>2, <2>3 DEF BusySteps
    <3>2. t = Secondary
      BY <1>4, <3>1 DEF RolesInv, AppFits, Threads, Handlers
    <3>3. PastSwap
      BY <3>1, <3>2 DEF RolesInv, StandBy, Swapped
    <3>4. PrimaryReports
      BY <2>2, <3>3 DEF PastSwap, ReliesOnBusy, PrimaryReports
    <3> QED
      BY <3>1, <3>2, <3>4 DEF SecondaryBehind, Suspending
  <2> QED
    BY <2>3
<1> QED
  BY <1>3, <1>4

(* What the stand-by does while the primary thread reports.                 *)
BehindPhase(e) ==
    \/ pc[Secondary] \in Suspending \cup {"notify", "notified", "disarm"} /\ "mach" \in e
    \/ pc[Secondary] \in {"unhook", "finish", "terminated"}

LEMMA SecondaryStaysBehind ==
    ASSUME CaptureInv, RolesInv, PrimaryIsBusy, SecondaryBehind, PrimaryReports,
           Environment(Secondary) \/ Progress(Secondary),
           PrimaryReports', capture'[Secondary] = "mach"
    PROVE  BehindPhase(enabled)'
<1> DEFINE t == Secondary
<1>0. /\ TypeOK /\ t \in Threads /\ Primary \in Threads /\ Primary # t
      /\ Primary \in Handlers /\ t \in Handlers
  BY ThreadsAssumption DEF CaptureInv, Threads, Handlers
<1>1. FlagSteps(t)
  BY <1>0, StepsOfFlags
<1>2. HandlerFits(t) /\ SecondaryFits
  BY <1>0 DEF RolesInv
<1> USE <1>0 DEF TypeOK, At, Goto, frame, scheduling, Suspending
<1>3. CASE ReceiveException(t)
  <2>1. CASE "mach" \in enabled
    BY <1>3, <2>1 DEF ReceiveException, Begin, Suspends, BehindPhase
  <2>2. CASE "mach" \notin enabled
    BY <1>3, <2>2 DEF ReceiveException, BehindPhase
  <2> QED
    BY <2>1, <2>2
<1>4. CASE SuspendSelf(t)
  <2>1. capture'[t] = "none"
    BY <1>2, <1>4 DEF SuspendSelf, HandlerFits
  <2> QED
    BY <2>1
<1>5. CASE Environment(t) \/ TakeSignal(t) \/ DieOfSignal(t)
  <2>1. pc[t] \in {"unborn", "app", "signaled"} \cup Dangerous
    BY <1>5 DEF Environment, CreateThread, CrashWithFault, CrashWithSignal,
                CrashWithException, ReportUserException, CrashInHandler, TakeSignal,
                DieOfSignal
  <2>2. capture[t] # "mach"
    BY <2>1 DEF SecondaryBehind, Dangerous
  <2>3. ~(CreateThread(t) \/ CrashWithFault(t) \/ CrashWithSignal(t)
           \/ CrashWithException(t) \/ ReportUserException(t))
    BY <1>2 DEF HandlerFits, CreateThread, CrashWithFault, CrashWithSignal,
                CrashWithException, ReportUserException
  <2>4. capture'[t] # "mach"
    BY <1>5, <2>2, <2>3 DEF Environment, CrashInHandler, TakeSignal, DieOfSignal, Begin
  <2> QED
    BY <2>4
<1>6. ASSUME capture[t] = "mach", pc[t] \in Suspending \cup {"notify", "notified", "disarm"}
      PROVE  BehindPhase(enabled)'
  <2>1. "mach" \in enabled
    BY <1>6 DEF SecondaryBehind
  <2>2. pc[t] # "disarm" => "mach" \in enabled'
    BY <1>1, <2>1 DEF FlagSteps
  <2>3. CASE pc[t] \in Suspending
    <3>1. pc'[t] \in Suspending \cup {"notify"}
      <4>1. EnterSuspend(t) \/ SuspendTarget(t) \/ SuspendComplete(t)
        BY <2>3 DEF Environment, CreateThread, CrashWithFault, CrashWithSignal,
           CrashWithException, ReportUserException, CrashInHandler, Dangerous,
           Progress, TakeSignal, DieOfSignal, SuspendSelf, ReceiveException, Resume,
           NotifyTest, NotifySet, Disarm, Unhook, DisarmRest, SwapHandler, FillContext,
           HandleException, ClaimID, PublishPath, OpenReport, WriteReport,
           AnnounceReport, RenameToOld, OpenRecrash, EmbedOld, RemoveOld, WriteRecrash,
           AfterEvent, Finish
      <4> QED
        BY <1>6, <4>1 DEF EnterSuspend, SuspendTarget, SuspendComplete,
                          AfterSuspension, Fatal
    <3> QED
      BY <2>2, <2>3, <3>1 DEF BehindPhase
  <2>4. CASE pc[t] = "notify"
    BY <1>1, <2>2, <2>4 DEF FlagSteps, BehindPhase
  <2>5. CASE pc[t] = "notified"
    BY <1>1, <1>2, <2>2, <2>5 DEF FlagSteps, SecondaryFits, BehindPhase
  <2>6. CASE pc[t] = "disarm"
    BY <1>1, <2>1, <2>6 DEF FlagSteps, BehindPhase
  <2> QED
    BY <1>6, <2>3, <2>4, <2>5, <2>6
<1>7. ASSUME capture[t] = "mach", pc[t] = "unhook"
      PROVE  FALSE
  <2>1. Unhook(t)
    BY <1>7 DEF Environment, CreateThread, CrashWithFault, CrashWithSignal,
       CrashWithException, ReportUserException, CrashInHandler, Dangerous,
       Progress, TakeSignal, DieOfSignal, SuspendSelf, ReceiveException, EnterSuspend,
       SuspendTarget, SuspendComplete, Resume, NotifyTest, NotifySet, Disarm,
       DisarmRest, SwapHandler, FillContext, HandleException, ClaimID, PublishPath,
       OpenReport, WriteReport, AnnounceReport, RenameToOld, OpenRecrash, EmbedOld,
       RemoveOld, WriteRecrash, AfterEvent, Finish
  <2>2. machBusy
    BY DEF PrimaryIsBusy, PrimaryReports
  <2>3. pc'[Primary] = "terminated"
    BY <2>1, <2>2 DEF Unhook
  <2> QED
    BY <2>3 DEF PrimaryReports, Reporting
<1>8. ASSUME capture[t] = "mach", pc[t] \in {"finish", "terminated"}
      PROVE  FALSE
  <2>1. Finish(t)
    BY <1>8 DEF Environment, CreateThread, CrashWithFault, CrashWithSignal,
       CrashWithException, ReportUserException, CrashInHandler, Dangerous,
       Progress, TakeSignal, DieOfSignal, SuspendSelf, ReceiveException, EnterSuspend,
       SuspendTarget, SuspendComplete, Resume, NotifyTest, NotifySet, Disarm, Unhook,
       DisarmRest, SwapHandler, FillContext, HandleException, ClaimID, PublishPath,
       OpenReport, WriteReport, AnnounceReport, RenameToOld, OpenRecrash, EmbedOld,
       RemoveOld, WriteRecrash, AfterEvent
  <2> QED
    BY <2>1 DEF Finish
<1>9. CASE capture[t] # "mach"
  <2>1. pc[t] \in Outside
    BY <1>2, <1>9 DEF HandlerFits, SecondaryFits
  <2>2. \/ ReceiveException(t) \/ SuspendSelf(t) \/ Environment(t) \/ TakeSignal(t)
        \/ DieOfSignal(t)
    BY <2>1 DEF Outside, Progress, EnterSuspend,
       SuspendTarget, SuspendComplete, Resume, NotifyTest, NotifySet, Disarm, Unhook,
       DisarmRest, SwapHandler, FillContext, HandleException, ClaimID, PublishPath,
       OpenReport, WriteReport, AnnounceReport, RenameToOld, OpenRecrash, EmbedOld,
       RemoveOld, WriteRecrash, AfterEvent, Finish
  <2> QED
    BY <1>3, <1>4, <1>5, <2>2
<1> QED
  BY <1>6, <1>7, <1>8, <1>9 DEF SecondaryBehind

(* How the primary thread comes to its report: through the swap.            *)
LEMMA PrimaryComesFromSwap ==
    ASSUME TypeOK, RolesInv, Environment(Primary) \/ Progress(Primary),
           PrimaryReports', ~PrimaryReports
    PROVE  SwapHandler(Primary) /\ capture[Primary] = "mach"
<1> DEFINE t == Primary
<1>0. t \in Threads /\ HandlerFits(t)
  BY DEF Threads, Handlers, RolesInv
<1> USE <1>0 DEF TypeOK, At, Goto, frame, scheduling, PrimaryReports, Reporting
<1>1. CASE Environment(t)
  <2>1. CrashInHandler(t)
    BY <1>1 DEF HandlerFits, Environment, CreateThread, CrashWithFault, CrashWithSignal,
                CrashWithException, ReportUserException
  <2> QED
    BY <2>1 DEF CrashInHandler, Fault
<1>2. CASE TakeSignal(t) \/ DieOfSignal(t) \/ SuspendSelf(t)
  BY <1>2 DEF TakeSignal, DieOfSignal, SuspendSelf, Begin
<1>3. CASE ReceiveException(t)
  <2>1. pc'[t] \in {"suspending", "finish"}
    BY <1>3 DEF ReceiveException, Begin, Suspends
  <2> QED
    BY <2>1
<1>4. CASE EnterSuspend(t) \/ SuspendTarget(t) \/ SuspendComplete(t) \/ Resume(t)
  BY <1>4 DEF EnterSuspend, SuspendTarget, SuspendComplete, Resume, AfterSuspension,
              Fatal
<1>5. CASE NotifyTest(t) \/ NotifySet(t) \/ Disarm(t) \/ Unhook(t) \/ DisarmRest(t)
  BY <1>5 DEF NotifyTest, NotifySet, Disarm, Unhook, DisarmRest, AfterNotification
<1>6. CASE SwapHandler(t)
  BY <1>6 DEF SwapHandler
<1>7. CASE FillContext(t) \/ HandleException(t) \/ ClaimID(t) \/ PublishPath(t)
           \/ OpenReport(t) \/ WriteReport(t) \/ AnnounceReport(t)
  BY <1>7 DEF FillContext, HandleException, ClaimID, PublishPath, OpenReport,
              WriteReport, AnnounceReport
<1>8. CASE RenameToOld(t) \/ OpenRecrash(t) \/ EmbedOld(t) \/ RemoveOld(t)
           \/ WriteRecrash(t) \/ AfterEvent(t)
  BY <1>8 DEF RenameToOld, OpenRecrash, EmbedOld, RemoveOld, WriteRecrash, AfterEvent
<1>9. CASE Finish(t)
  BY <1>9 DEF Finish
<1> QED
  BY <1>1, <1>2, <1>3, <1>4, <1>5, <1>6, <1>7, <1>8, <1>9 DEF Progress

(* The stand-by never gets to its own report beside the primary thread's.   *)
LEMMA BehindKept ==
    ASSUME CaptureInv, RolesInv, PrimaryIsBusy, SecondaryBehind, LateThreads = {},
           NEW t \in Threads, Environment(t) \/ Progress(t)
    PROVE  SecondaryBehind'
<1>0. /\ TypeOK /\ Secondary \in Threads /\ Primary \in Threads
      /\ Primary # Secondary /\ Primary \in Handlers /\ Secondary \in Handlers
  BY ThreadsAssumption DEF CaptureInv, Threads, Handlers
<1> SUFFICES ASSUME PrimaryReports', capture'[Secondary] = "mach"
             PROVE  BehindPhase(enabled)'
  BY DEF SecondaryBehind, BehindPhase
<1>1. FlagSteps(t)
  BY <1>0, StepsOfFlags
<1>2. CASE t = Secondary
  <2>1. LeftAlone(t, Primary)
    BY <1>0, <1>2, OthersAreLeft
  <2>2. PrimaryReports
    BY <2>1 DEF LeftAlone, PrimaryReports, Reporting
  <2> QED
    BY <1>2, <2>2, SecondaryStaysBehind
<1>3. CASE t # Secondary
  <2>1. LeftAlone(t, Secondary)
    BY <1>0, <1>3, OthersAreLeft
  <2>2. capture[Secondary] = "mach"
    BY <2>1 DEF LeftAlone
  <2>3. CASE ~PrimaryReports
    <3>1. t = Primary
      <4>1. t # Primary => LeftAlone(t, Primary)
        BY <1>0, OthersAreLeft
      <4> QED
        BY <2>3, <4>1 DEF LeftAlone, PrimaryReports, Reporting
    <3>2. SwapHandler(t) /\ capture[t] = "mach"
      BY <1>0, <2>3, <3>1, PrimaryComesFromSwap
    <3>3. ~Swapped
      BY <3>1, <3>2 DEF SwapHandler, At, Swapped, PastSwap, Noting
    <3>4. pc[Secondary] = "terminated"
      BY <1>0, <2>2, <3>3 DEF RolesInv, StandBy, HandlerFits
    <3> QED
      BY <2>1, <3>4 DEF LeftAlone, BehindPhase
  <2>4. CASE PrimaryReports
    <3>1. BehindPhase(enabled)
      BY <2>2, <2>4 DEF SecondaryBehind, BehindPhase
    <3>2. "mach" \in enabled => "mach" \in enabled'
      <4>1. CASE t = Primary
        BY <1>1, <2>4, <4>1 DEF FlagSteps, PrimaryReports, Reporting
      <4>2. CASE t # Primary
        <5>1. t \in EarlyThreads
          BY <1>3, <4>2 DEF Threads, Handlers, EarlyThreads
        <5>2. InWindow(Primary)
          BY <2>4 DEF PrimaryReports, InWindow, Window, Suspends
        <5>3. DieOfSignal(t) \/ SuspendTarget(t)
          BY <1>0, <4>2, <5>1, <5>2, HeldTakesNoStep
        <5> QED
          BY <5>3 DEF DieOfSignal, SuspendTarget, monitoring
      <4> QED
        BY <4>1, <4>2
    <3> QED
      BY <2>1, <3>1, <3>2 DEF LeftAlone, BehindPhase, Suspending
  <2> QED
    BY <2>3, <2>4
<1> QED
  BY <1>2, <1>3

(* A handler thread keeps its context, when no thread was born since.       *)
LEMMA HandlerContextKept ==
    ASSUME CaptureInv, RolesInv, SecondaryBehind, LateThreads = {},
           NEW t \in Threads, Environment(t) \/ Progress(t),
           NEW h \in Handlers, HandlerContext(h)
    PROVE  HandlerContext(h)'
<1>0. TypeOK /\ h \in Threads /\ HandlerFits(h)
  BY DEF CaptureInv, Threads, RolesInv
<1> SUFFICES ASSUME ReadsContext(h)' PROVE context'[capture'[h]] = h
  BY DEF HandlerContext, ReadsContext
<1>1. ContextSteps(t)
  BY <1>0, StepsOfContext
<1>2. ReadsContext(h) /\ capture'[h] = capture[h] /\ context' = context
        => context'[capture'[h]] = h
  BY DEF HandlerContext, ReadsContext
<1>3. CASE t = h
  <2>1. CASE FillContext(t)
    <3>1. capture[h] \in {"mach", "signal"}
      BY <1>0, <1>3, <2>1 DEF FillContext, At, HandlerFits, Outside
    <3> QED
      BY <1>0, <1>3, <2>1, <3>1 DEF FillContext, frame, StaticContext, TypeOK
  <2> QED
    BY <1>1, <1>2, <1>3, <2>1 DEF ContextSteps
<1>4. CASE t # h
  <2>1. LeftAlone(t, h)
    BY <1>0, <1>4, OthersAreLeft
  <2>2. ReadsContext(h) /\ capture'[h] = capture[h]
    BY <2>1 DEF ReadsContext, LeftAlone, Reporting
  <2>3. capture[h] \in {"mach", "signal"}
    BY <1>0, <2>2 DEF HandlerFits, ReadsContext, Reporting, Outside
  <2>4. CASE FillContext(t)
    <3>1. t \in Handlers
      <4>1. ASSUME t \in EarlyThreads PROVE FALSE
        <5>1. InWindow(h)
          BY <2>2, <2>3 DEF ReadsContext, InWindow, Window, Suspends
        <5>2. DieOfSignal(t) \/ SuspendTarget(t)
          BY <1>0, <1>4, <4>1, <5>1, HeldTakesNoStep
        <5> QED
          BY <2>4, <5>2 DEF FillContext, At, DieOfSignal, SuspendTarget
      <4> QED
        BY <4>1 DEF Threads, EarlyThreads
    <3>2. capture[t] # capture[h]
      <4>1. capture[Secondary] # "signal"
        BY DEF RolesInv, SecondaryFits
      <4>2. pc[t] = "fill"
        BY <2>4 DEF FillContext, At
      <4>3. {t, h} = {Primary, Secondary}
        BY <1>4, <3>1 DEF Handlers
      <4>4. capture[Primary] = "mach" /\ capture[Secondary] = "mach" => FALSE
        <5>1. pc[Primary] \in Reporting /\ pc[Secondary] \in Reporting
          BY <2>2, <4>2, <4>3 DEF ReadsContext, Reporting
        <5> QED
          BY <5>1 DEF SecondaryBehind, PrimaryReports, Suspending, Reporting
      <4> QED
        BY <2>3, <4>1, <4>3, <4>4
    <3>3. context'[capture[h]] = context[capture[h]]
      BY <1>0, <2>3, <2>4, <3>2 DEF FillContext, StaticContext, TypeOK
    <3> QED
      BY <2>2, <3>3 DEF HandlerContext, ReadsContext
  <2> QED
    BY <1>1, <1>2, <2>2, <2>4 DEF ContextSteps
<1> QED
  BY <1>3, <1>4

(* The contexts are owned in every reachable state.                         *)
THEOREM ContextInvariant == Spec => []ContextInv
<1>1. Init => ContextInv
  <2> SUFFICES ASSUME Init, RolesInv PROVE ContextInv
    BY InitRoles
  <2>1. \A t \in Threads : pc[t] \in {"unborn", "app", "terminated", "waiting", "starting"}
    BY DEF Init
  <2>2. Primary \in Threads /\ Handlers \subseteq Threads /\ EarlyThreads \subseteq Threads
    BY DEF Threads, Handlers, EarlyThreads
  <2>3. \A t \in Threads : pc[t] \notin Reporting \cup Noting \cup Disarming
    BY <2>1 DEF Reporting, Noting, Disarming
  <2> QED
    BY <2>2, <2>3 DEF ContextInv, AppContext, HandlerContext, PrimaryIsBusy,
                      SecondaryBehind, PrimaryReports
<1>2. /\ CaptureInv /\ CaptureInv' /\ RolesInv' /\ ContextInv /\ [Next]_vars
      => ContextInv'
  <2> SUFFICES ASSUME CaptureInv, RolesInv', ContextInv, [Next]_vars
               PROVE  ContextInv'
    OBVIOUS
  <2>1. CASE UNCHANGED vars
    BY <2>1 DEF vars, scheduling, frame, monitoring, ContextInv, AppContext,
                HandlerContext, PrimaryIsBusy, SecondaryBehind, PrimaryReports,
                AllAbandoned
  <2>2. CASE Next
    <3>1. PICK t \in Threads : Environment(t) \/ Progress(t)
      BY <2>2 DEF Next
    <3>2. \A u \in EarlyThreads : AppContext(u)'
      BY <3>1, AppContextKept DEF ContextInv
    <3>3. LateThreads = {} => /\ PrimaryIsBusy'
                              /\ SecondaryBehind'
                              /\ \A h \in Handlers : HandlerContext(h)'
      BY <3>1, BusyKept, BehindKept, HandlerContextKept DEF ContextInv
    <3> QED
      BY <3>2, <3>3 DEF ContextInv
  <2> QED
    BY <2>1, <2>2
<1> QED
  BY <1>1, <1>2, CaptureInvariant, RolesInvariant, PTL DEF Spec

(* For any number of threads and crashes: a handler that works on a report  *)
(* from one of the static g_monitorContext still finds its own event there, *)
(* unless a thread born during a suspension came in between.                *)
THEOREM ContextIsOwn == Spec => []OwnContext
<1>1. CaptureInv /\ ContextInv => OwnContext
  <2> SUFFICES ASSUME CaptureInv, ContextInv, NEW t \in Threads, ReadsContext(t),
                      StaticContext(capture[t]), Running(t)
               PROVE  \/ context[capture[t]] = t
                      \/ /\ LateThreads # {}
                         /\ t \in EarlyThreads => context[capture[t]] \in LateThreads
    BY DEF OwnContext, ReadsContext
  <2>1. CASE t \in EarlyThreads
    <3>1. ~AllAbandoned
      <4> SUFFICES ASSUME NEW h \in Handlers, EarlyThreads \subseteq abandoned[h]
                   PROVE  FALSE
        BY DEF AllAbandoned
      <4>1. h \in Threads
        BY DEF Threads
      <4> QED
        BY <2>1, <4>1, AbandonedDoesNotRun DEF CaptureInv
    <3> QED
      BY <2>1, <3>1 DEF ContextInv, AppContext, ReadsContext
  <2>2. CASE t \in LateThreads
    BY <2>2 DEF EarlyThreads
  <2>3. CASE t \in Handlers
    <3>1. t \notin EarlyThreads
      BY <2>3, ThreadsAssumption DEF EarlyThreads, Handlers
    <3>2. LateThreads = {} => context[capture[t]] = t
      BY <2>3 DEF ContextInv, HandlerContext, ReadsContext
    <3> QED
      BY <3>1, <3>2
  <2> QED
    BY <2>1, <2>2, <2>3 DEF Threads, EarlyThreads
<1> QED
  BY <1>1, CaptureInvariant, ContextInvariant, PTL

-----------------------------------------------------------------------------
(* A finished report is kept: the recrashes of a process follow one another *)
(* (KeptInv).  First, which steps lead to and from the phases of a report.   *)

(* How a thread comes to the phases of a report, and what it does next.     *)
ReportSteps(t) ==
    /\ pc'[t] = "claim" => HandleException(t) /\ ~crashedDuring
    /\ pc'[t] = "publish" => ClaimID(t)
    /\ pc'[t] = "open" => PublishPath(t)
    /\ pc'[t] = "write" => OpenReport(t)
    /\ pc'[t] = "recrash" => HandleException(t) /\ crashedDuring
    /\ pc'[t] = "reopen" => RenameToOld(t)
    /\ pc'[t] = "embed" => OpenRecrash(t)
    /\ pc'[t] = "unlink" => EmbedOld(t)
    /\ pc'[t] = "rewrite" => RemoveOld(t)

LEMMA StepsOfReport ==
    ASSUME TypeOK, NEW t \in Threads, Environment(t) \/ Progress(t)
    PROVE  ReportSteps(t)
<1> USE DEF At, Goto, frame, scheduling, TypeOK, ReportSteps
<1> DEFINE Path == {"claim", "publish", "open", "write", "recrash", "reopen", "embed",
                    "unlink", "rewrite"}
<1>0. ASSUME pc'[t] \notin Path PROVE ReportSteps(t)
  BY <1>0
<1>1. \A k \in Captures \cup {"none"} :
          AfterSuspension(k) \notin Path /\ AfterNotification(k) \notin Path
  BY DEF AfterSuspension, AfterNotification
<1>2. ASSUME NEW k \in Captures, Begin(t, k) PROVE pc'[t] \notin Path
  BY <1>1, <1>2 DEF Begin
<1>3. CASE CreateThread(t) \/ CrashWithFault(t) \/ CrashWithSignal(t) \/ CrashInHandler(t)
  BY <1>3 DEF CreateThread, CrashWithFault, CrashWithSignal, CrashInHandler, Fault
<1>4. CASE CrashWithException(t)
  <2>1. CASE "cpp" \in enabled
    BY <1>0, <1>2, <1>4, <2>1 DEF CrashWithException, Captures
  <2>2. CASE "cpp" \notin enabled
    BY <1>4, <2>2 DEF CrashWithException
  <2> QED
    BY <2>1, <2>2
<1>5. CASE ReportUserException(t)
  BY <1>0, <1>2, <1>5, MonitorsAssumption DEF ReportUserException, Captures
<1>6. CASE TakeSignal(t)
  BY <1>0, <1>2, <1>6 DEF TakeSignal, Captures
<1>7. CASE ReceiveException(t)
  <2>1. CASE "mach" \in enabled
    BY <1>0, <1>2, <1>7, <2>1 DEF ReceiveException, Captures
  <2>2. CASE "mach" \notin enabled
    BY <1>7, <2>2 DEF ReceiveException
  <2> QED
    BY <2>1, <2>2
<1>8. CASE DieOfSignal(t) \/ SuspendSelf(t) \/ EnterSuspend(t) \/ SuspendTarget(t)
           \/ SuspendComplete(t) \/ Resume(t)
  <2>1. pc'[t] \notin Path
    BY <1>1, <1>8 DEF DieOfSignal, SuspendSelf, EnterSuspend, SuspendTarget,
                      SuspendComplete, Resume
  <2> QED
    BY <1>0, <2>1
<1>9. CASE NotifyTest(t) \/ NotifySet(t) \/ Disarm(t) \/ Unhook(t) \/ DisarmRest(t)
           \/ SwapHandler(t) \/ FillContext(t)
  <2>1. pc'[t] \notin Path
    BY <1>1, <1>9 DEF NotifyTest, NotifySet, Disarm, Unhook, DisarmRest, SwapHandler,
                      FillContext
  <2> QED
    BY <1>0, <2>1
<1>10. CASE HandleException(t) \/ ClaimID(t) \/ PublishPath(t) \/ OpenReport(t)
            \/ WriteReport(t) \/ AnnounceReport(t)
  BY <1>10 DEF HandleException, ClaimID, PublishPath, OpenReport, WriteReport,
               AnnounceReport
<1>11. CASE RenameToOld(t) \/ OpenRecrash(t) \/ EmbedOld(t) \/ RemoveOld(t)
            \/ WriteRecrash(t) \/ AfterEvent(t)
  BY <1>11 DEF RenameToOld, OpenRecrash, EmbedOld, RemoveOld, WriteRecrash, AfterEvent
<1>12. CASE Finish(t)
  BY <1>12 DEF Finish
<1> QED
  BY <1>3, <1>4, <1>5, <1>6, <1>7, <1>8, <1>9, <1>10, <1>11, <1>12
     DEF Environment, Progress

(* Who touches the report files and what names them.                        *)
StoreStep(t) ==
    \/ ClaimID(t) \/ PublishPath(t) \/ OpenReport(t) \/ WriteReport(t)
    \/ RenameToOld(t) \/ OpenRecrash(t) \/ EmbedOld(t) \/ RemoveOld(t) \/ WriteRecrash(t)

LEMMA StepsOfStore ==
    ASSUME NEW t \in Threads, Environment(t) \/ Progress(t), ~StoreStep(t)
    PROVE  UNCHANGED <<nextID, lastPath, files, old, reportID>>
<1> USE DEF store, frame
<1>1. CASE Environment(t)
  BY <1>1 DEF Environment, CreateThread, CrashWithFault, CrashWithSignal,
              CrashWithException, ReportUserException, CrashInHandler, Begin
<1>2. CASE TakeSignal(t) \/ DieOfSignal(t) \/ SuspendSelf(t) \/ ReceiveException(t)
  BY <1>2 DEF TakeSignal, DieOfSignal, SuspendSelf, ReceiveException, Begin
<1>3. CASE EnterSuspend(t) \/ SuspendTarget(t) \/ SuspendComplete(t) \/ Resume(t)
  BY <1>3 DEF EnterSuspend, SuspendTarget, SuspendComplete, Resume
<1>4. CASE NotifyTest(t) \/ NotifySet(t) \/ Disarm(t) \/ Unhook(t) \/ DisarmRest(t)
           \/ SwapHandler(t) \/ FillContext(t) \/ HandleException(t)
  BY <1>4 DEF NotifyTest, NotifySet, Disarm, Unhook, DisarmRest, SwapHandler,
              FillContext, HandleException
<1>5. CASE AnnounceReport(t) \/ AfterEvent(t) \/ Finish(t)
  BY <1>5 DEF AnnounceReport, AfterEvent, Finish
<1> QED
  BY <1>1, <1>2, <1>3, <1>4, <1>5 DEF Progress, StoreStep

(* What a thread in a phase does next.                                      *)
NextSteps(t) ==
    /\ pc[t] = "reopen" => OpenRecrash(t)
    /\ pc[t] = "embed" => EmbedOld(t)
    /\ pc[t] = "after" => AfterEvent(t)
    /\ pc[t] = "resuming" => Resume(t)
    /\ pc[t] = "disarm" => Disarm(t)
    /\ pc[t] = "unhook" => Unhook(t)
    /\ pc[t] = "disarmRest" => DisarmRest(t)
    /\ pc[t] = "finish" => Finish(t)
    /\ pc[t] = "suspending" => EnterSuspend(t) \/ SuspendComplete(t)
    /\ pc[t] = "inSuspend" => SuspendTarget(t)
    /\ pc[t] # "terminated"

LEMMA WhatComesNext ==
    ASSUME NEW t \in Threads, Environment(t) \/ Progress(t)
    PROVE  NextSteps(t)
<1> USE DEF At, NextSteps
<1>1. CASE Environment(t)
  BY <1>1 DEF Environment, CreateThread, CrashWithFault, CrashWithSignal,
              CrashWithException, ReportUserException, CrashInHandler, Dangerous
<1>2. CASE TakeSignal(t) \/ DieOfSignal(t) \/ SuspendSelf(t) \/ ReceiveException(t)
  BY <1>2 DEF TakeSignal, DieOfSignal, SuspendSelf, ReceiveException
<1>3. CASE EnterSuspend(t) \/ SuspendTarget(t) \/ SuspendComplete(t) \/ Resume(t)
  BY <1>3 DEF EnterSuspend, SuspendTarget, SuspendComplete, Resume
<1>4. CASE NotifyTest(t) \/ NotifySet(t) \/ Disarm(t) \/ Unhook(t) \/ DisarmRest(t)
           \/ SwapHandler(t) \/ FillContext(t) \/ HandleException(t) \/ ClaimID(t)
  BY <1>4 DEF NotifyTest, NotifySet, Disarm, Unhook, DisarmRest, SwapHandler,
              FillContext, HandleException, ClaimID
<1>5. CASE PublishPath(t) \/ OpenReport(t) \/ WriteReport(t) \/ AnnounceReport(t)
           \/ RenameToOld(t) \/ OpenRecrash(t) \/ EmbedOld(t) \/ RemoveOld(t)
           \/ WriteRecrash(t) \/ AfterEvent(t) \/ Finish(t)
  BY <1>5 DEF PublishPath, OpenReport, WriteReport, AnnounceReport, RenameToOld,
              OpenRecrash, EmbedOld, RemoveOld, WriteRecrash, AfterEvent, Finish
<1> QED
  BY <1>1, <1>2, <1>3, <1>4, <1>5 DEF Progress

(* A step of one thread leaves the lists of the others alone.               *)
LEMMA OthersHold ==
    ASSUME TypeOK, NEW t \in Threads, Environment(t) \/ Progress(t),
           NEW u \in Threads \ {t}
    PROVE  held'[u] = held[u]
<1> USE DEF TypeOK, scheduling
<1>1. CASE Environment(t)
  BY <1>1 DEF Environment, CreateThread, CrashWithFault, CrashWithSignal,
              CrashWithException, ReportUserException, CrashInHandler, Begin
<1>2. CASE TakeSignal(t) \/ DieOfSignal(t) \/ SuspendSelf(t) \/ ReceiveException(t)
  BY <1>2 DEF TakeSignal, DieOfSignal, SuspendSelf, ReceiveException, Begin
<1>3. CASE EnterSuspend(t) \/ SuspendTarget(t) \/ SuspendComplete(t) \/ Resume(t)
  BY <1>3 DEF EnterSuspend, SuspendTarget, SuspendComplete, Resume
<1>4. CASE NotifyTest(t) \/ NotifySet(t) \/ Disarm(t) \/ Unhook(t) \/ DisarmRest(t)
           \/ SwapHandler(t) \/ FillContext(t) \/ HandleException(t) \/ ClaimID(t)
  BY <1>4 DEF NotifyTest, NotifySet, Disarm, Unhook, DisarmRest, SwapHandler,
              FillContext, HandleException, ClaimID
<1>5. CASE PublishPath(t) \/ OpenReport(t) \/ WriteReport(t) \/ AnnounceReport(t)
           \/ RenameToOld(t) \/ OpenRecrash(t) \/ EmbedOld(t) \/ RemoveOld(t)
           \/ WriteRecrash(t) \/ AfterEvent(t) \/ Finish(t)
  BY <1>5 DEF PublishPath, OpenReport, WriteReport, AnnounceReport, RenameToOld,
              OpenRecrash, EmbedOld, RemoveOld, WriteRecrash, AfterEvent, Finish
<1> QED
  BY <1>1, <1>2, <1>3, <1>4, <1>5 DEF Progress

(* Who starts a report that suspends nobody, and at what cost.              *)
LEMMA StepsOfQuiet ==
    ASSUME TypeOK, NEW t \in Threads, Environment(t) \/ Progress(t)
    PROVE  /\ budget'["report"] \in Nat /\ budget'["report"] =< budget["report"]
           /\ Quiet(t)' => \/ Quiet(t)
                           \/ /\ capture'[t] \in ReportKinds
                              /\ budget["report"] > 0
                              /\ budget'["report"] = budget["report"] - 1
<1> USE DEF TypeOK, frame, process, EventKinds
<1>1. \A k \in {"mach", "signal", "cpp", "nsexc", "none"} : Suspends(k)
  BY DEF Suspends
<1>2. CASE CreateThread(t) \/ CrashWithFault(t) \/ CrashWithSignal(t) \/ CrashInHandler(t)
  BY <1>2 DEF CreateThread, CrashWithFault, CrashWithSignal, CrashInHandler, Spend, Quiet
<1>3. CASE CrashWithException(t)
  <2>1. budget'["report"] = budget["report"]
    BY <1>3 DEF CrashWithException, Spend
  <2>2. capture'[t] \in {capture[t], "cpp", "nsexc"}
    BY <1>3 DEF CrashWithException, Begin
  <2> QED
    BY <1>1, <2>1, <2>2 DEF Quiet
<1>4. CASE ReportUserException(t)
  <2>1. budget["report"] > 0 /\ budget'["report"] = budget["report"] - 1
    BY <1>4 DEF ReportUserException, Spend
  <2>2. capture'[t] \in ReportKinds
    BY <1>4 DEF ReportUserException, Begin
  <2> QED
    BY <2>1, <2>2
<1>5. CASE TakeSignal(t) \/ ReceiveException(t)
  <2>1. capture'[t] \in {"signal", "mach"} /\ budget' = budget
    BY <1>5 DEF TakeSignal, ReceiveException, Begin
  <2> QED
    BY <1>1, <2>1 DEF Quiet
<1>6. ASSUME UNCHANGED <<capture, budget>>
      PROVE  /\ budget'["report"] \in Nat /\ budget'["report"] =< budget["report"]
             /\ Quiet(t)' => Quiet(t)
  BY <1>6 DEF Quiet
<1>7. CASE DieOfSignal(t) \/ SuspendSelf(t) \/ EnterSuspend(t) \/ SuspendTarget(t)
           \/ SuspendComplete(t) \/ Resume(t) \/ NotifyTest(t) \/ NotifySet(t)
           \/ Disarm(t) \/ Unhook(t) \/ DisarmRest(t) \/ SwapHandler(t)
           \/ FillContext(t) \/ HandleException(t) \/ ClaimID(t)
  <2>1. UNCHANGED <<capture, budget>>
    BY <1>7 DEF DieOfSignal, SuspendSelf, EnterSuspend, SuspendTarget, SuspendComplete,
                Resume, NotifyTest, NotifySet, Disarm, Unhook, DisarmRest, SwapHandler,
                FillContext, HandleException, ClaimID
  <2> QED
    BY <1>6, <2>1
<1>8. CASE PublishPath(t) \/ OpenReport(t) \/ WriteReport(t) \/ AnnounceReport(t)
           \/ RenameToOld(t) \/ OpenRecrash(t) \/ EmbedOld(t) \/ RemoveOld(t)
           \/ WriteRecrash(t) \/ AfterEvent(t)
  <2>1. UNCHANGED <<capture, budget>>
    BY <1>8 DEF PublishPath, OpenReport, WriteReport, AnnounceReport, RenameToOld,
                OpenRecrash, EmbedOld, RemoveOld, WriteRecrash, AfterEvent
  <2> QED
    BY <1>6, <2>1
<1>9. CASE Finish(t)
  <2>1. capture'[t] = "none" /\ budget' = budget
    BY <1>9 DEF Finish
  <2> QED
    BY <1>1, <2>1 DEF Quiet
<1> QED
  BY <1>2, <1>3, <1>4, <1>5, <1>6, <1>7, <1>8, <1>9 DEF Environment, Progress

(* No two such reports are under way together.                              *)
LEMMA StillQuietAlone ==
    ASSUME TypeOK, QuietAlone, NEW t \in Threads, Environment(t) \/ Progress(t)
    PROVE  QuietAlone'
<1>1. /\ budget'["report"] \in Nat /\ budget'["report"] =< budget["report"]
      /\ Quiet(t)' => \/ Quiet(t)
                      \/ /\ capture'[t] \in ReportKinds
                         /\ budget["report"] > 0
                         /\ budget'["report"] = budget["report"] - 1
  BY StepsOfQuiet
<1>2. budget["report"] \in Nat
  BY DEF TypeOK, EventKinds
<1>3. ASSUME NEW u \in Threads \ {t} PROVE Quiet(u)' <=> Quiet(u)
  BY OthersAreLeft DEF LeftAlone, Quiet
<1>4. CASE Quiet(t)' /\ ~Quiet(t)
  <2>1. budget["report"] = 1 /\ budget'["report"] = 0
    BY <1>1, <1>2, <1>4 DEF QuietAlone, Quiet
  <2>2. \A u \in Threads : ~Quiet(u)
    BY <2>1 DEF QuietAlone
  <2> QED
    BY <1>3, <2>1, <2>2 DEF QuietAlone
<1>5. CASE Quiet(t)' => Quiet(t)
  <2>1. \A u \in Threads : Quiet(u)' => Quiet(u)
    BY <1>3, <1>5
  <2> QED
    BY <1>1, <1>2, <2>1 DEF QuietAlone
<1> QED
  BY <1>4, <1>5

-----------------------------------------------------------------------------
(* The two handler threads keep apart, and one handler reports at a time.    *)

(* How the primary thread comes to report: through the swap of the handlers.*)
LEMMA PastComesFromSwap ==
    ASSUME TypeOK, RolesInv, NEW t \in Threads, Environment(t) \/ Progress(t),
           PrimaryPast', ~PrimaryPast
    PROVE  /\ t = Primary /\ SwapHandler(t)
           /\ capture[Primary] = "mach" /\ pc[Primary] = "swap"
<1>0. Primary \in Threads /\ HandlerFits(Primary)
  BY DEF Threads, Handlers, RolesInv
<1>1. t = Primary
  <2>1. t # Primary => LeftAlone(t, Primary)
    BY <1>0, OthersAreLeft
  <2> QED
    BY <2>1 DEF LeftAlone, PrimaryPast, Reporting
<1>2. ~PrimaryReports
  BY DEF PrimaryReports, PrimaryPast
<1>3. CASE PrimaryReports'
  <2>1. SwapHandler(Primary) /\ capture[Primary] = "mach"
    BY <1>1, <1>2, <1>3, PrimaryComesFromSwap
  <2> QED
    BY <1>1, <2>1 DEF SwapHandler, At
<1>4. CASE ~PrimaryReports'
  <2> USE <1>0, <1>1 DEF TypeOK, At, Goto, frame, scheduling, PrimaryReports, PrimaryPast,
          Reporting
  <2>1. capture[t] \in {"none", "mach"}
    BY DEF HandlerFits
  <2>2. ~Environment(t) /\ ~TakeSignal(t)
    BY DEF HandlerFits, Environment, CreateThread, CrashWithFault, CrashWithSignal,
           CrashWithException, ReportUserException, CrashInHandler, Dangerous, TakeSignal
  <2>3. CASE ReceiveException(t)
    <3>1. capture'[t] = "mach" /\ pc'[t] \in {"suspending", "finish"}
      BY <2>3 DEF ReceiveException, Begin, Suspends
    <3> QED
      BY <3>1
  <2>4. CASE DieOfSignal(t) \/ SuspendSelf(t) \/ EnterSuspend(t) \/ SuspendTarget(t)
             \/ Resume(t) \/ NotifyTest(t) \/ Disarm(t) \/ Unhook(t)
    BY <2>4 DEF DieOfSignal, SuspendSelf, EnterSuspend, SuspendTarget, Resume, NotifyTest,
                Disarm, Unhook
  <2>5. pc[t] \notin Outside => capture[t] = "mach"
    BY <2>1 DEF HandlerFits
  <2>6. CASE SuspendComplete(t)
    BY <2>5, <2>6 DEF SuspendComplete, AfterSuspension, Outside, Fatal
  <2>7. CASE NotifySet(t) \/ DisarmRest(t) \/ SwapHandler(t)
    BY <1>4, <2>5, <2>7 DEF NotifySet, DisarmRest, SwapHandler, AfterNotification, Outside
  <2>8. CASE FillContext(t) \/ HandleException(t) \/ ClaimID(t) \/ PublishPath(t)
             \/ OpenReport(t) \/ WriteReport(t) \/ AnnounceReport(t)
    BY <2>8 DEF FillContext, HandleException, ClaimID, PublishPath, OpenReport,
                WriteReport, AnnounceReport
  <2>9. CASE RenameToOld(t) \/ OpenRecrash(t) \/ EmbedOld(t) \/ RemoveOld(t)
             \/ WriteRecrash(t) \/ AfterEvent(t)
    BY <2>9 DEF RenameToOld, OpenRecrash, EmbedOld, RemoveOld, WriteRecrash, AfterEvent
  <2>10. CASE Finish(t)
    BY <2>5, <2>10 DEF Finish, Outside
  <2> QED
    BY <2>2, <2>3, <2>4, <2>6, <2>7, <2>8, <2>9, <2>10 DEF Progress
<1> QED
  BY <1>3, <1>4

(* From then on no thread of the start runs: its window holds them all, or  *)
(* the frame it faulted in does.                                            *)
LEMMA PastStopsAll ==
    ASSUME CaptureInv, RolesInv, PrimaryPast, NEW t \in EarlyThreads
    PROVE  ~Running(t)
<1>0. Primary \in Handlers /\ Primary \in Threads /\ t \in Threads /\ t # Primary
  BY ThreadsAssumption DEF Handlers, Threads, EarlyThreads
<1>1. HandlerFits(Primary)
  BY <1>0 DEF RolesInv
<1>2. CASE EarlyThreads \subseteq abandoned[Primary]
  BY <1>0, <1>2, AbandonedDoesNotRun DEF CaptureInv
<1>3. CASE pc[Primary] \in Reporting
  <2>1. InWindow(Primary)
    BY <1>1, <1>3 DEF HandlerFits, InWindow, Window, Suspends, Reporting, Outside
  <2> QED
    BY <1>0, <2>1, FrozenFollows DEF EnvironmentFrozen
<1> QED
  BY <1>1, <1>2, <1>3 DEF PrimaryPast, HandlerFits

(* What the two handler threads rely on to keep apart.                      *)
ApartInv == CaptureInv /\ RolesInv /\ PrimaryIsBusy /\ StillBusy /\ HandlersApart

(* The stand-by takes a step.                                               *)
LEMMA ApartBySecondary ==
    ASSUME ApartInv, Environment(Secondary) \/ Progress(Secondary), PrimaryPast'
    PROVE  StillBusy' /\ HandlersApart'
<1> DEFINE t == Secondary
<1>0. /\ TypeOK /\ t \in Threads /\ Primary \in Threads /\ Primary # t
      /\ Primary \in Handlers /\ t \in Handlers
  BY ThreadsAssumption DEF ApartInv, CaptureInv, Threads, Handlers
<1>1. HandlerFits(t) /\ SecondaryFits
  BY <1>0 DEF ApartInv, RolesInv
<1>2. LeftAlone(t, Primary)
  BY <1>0, OthersAreLeft
<1>3. PrimaryPast
  BY <1>0, PastComesFromSwap DEF ApartInv
<1>4. CASE pc'[Primary] = "terminated"
  BY <1>4 DEF StillBusy, HandlersApart
<1>5. CASE pc'[Primary] # "terminated"
  <2>1. pc[Primary] # "terminated"
    BY <1>2, <1>5 DEF LeftAlone
  <2>2. /\ FlagSteps(t) /\ NextSteps(t) /\ BusySteps(t) /\ Settling
    BY <1>0, StepsOfFlags, WhatComesNext, StepsOfBusy, NothingIsRearmed
  <2>3. capture[t] \in {"none", "mach"} /\ (pc[t] \notin Outside => capture[t] = "mach")
    BY <1>1 DEF HandlerFits, SecondaryFits
  <2>4. pc[t] \in {"resuming", "finish"} => pc'[t] \in {"resuming", "finish", "terminated"}
    <3>1. CASE pc[t] = "resuming"
      BY <1>0, <2>2, <3>1 DEF NextSteps, Resume, Goto, TypeOK
    <3>2. CASE pc[t] = "finish"
      <4>1. Finish(t) /\ capture[t] = "mach"
        BY <2>2, <2>3, <3>2 DEF NextSteps, Outside
      <4>2. victim[t] # t \/ pc[t] # "blocked"
        BY <3>2
      <4> QED
        BY <1>0, <3>2, <4>1 DEF Finish, TypeOK
    <3> QED
      BY <3>1, <3>2
  <2>5. pc[t] # "terminated"
    BY <2>2 DEF NextSteps
  <2>6. StillBusy'
    BY <1>3, <2>1, <2>2, <2>4, <2>5 DEF StillBusy, ApartInv, BusySteps
  <2>7. HandlersApart'
    <3> SUFFICES ASSUME capture'[t] = "mach"
                 PROVE  \/ BehindPhase(enabled)'
                        \/ pc'[t] = "resuming"
                        \/ /\ capture'[Primary] = "signal" /\ pc'[Primary] = "unhook"
                           /\ "mach" \notin enabled'
      BY DEF HandlersApart, BehindPhase
    <3>1. CASE capture[t] = "none"
      <4>1. pc[t] \in Outside
        BY <2>3, <3>1
      <4> USE <1>0 DEF TypeOK, At, Goto, frame, scheduling
      <4>2. ~(Environment(t) \/ TakeSignal(t) \/ DieOfSignal(t) \/ SuspendSelf(t))
        BY <1>1, <3>1, <4>1 DEF HandlerFits, Environment, CreateThread, CrashWithFault,
           CrashWithSignal, CrashWithException, ReportUserException, CrashInHandler,
           Dangerous, TakeSignal, DieOfSignal, SuspendSelf, Begin, Outside
      <4>3. ReceiveException(t)
        BY <4>1, <4>2 DEF Outside, Progress, EnterSuspend,
           SuspendTarget, SuspendComplete, Resume, NotifyTest, NotifySet, Disarm, Unhook,
           DisarmRest, SwapHandler, FillContext, HandleException, ClaimID, PublishPath,
           OpenReport, WriteReport, AnnounceReport, RenameToOld, OpenRecrash, EmbedOld,
           RemoveOld, WriteRecrash, AfterEvent, Finish
      <4>4. CASE "mach" \in enabled
        BY <4>3, <4>4 DEF ReceiveException, Begin, Suspends, BehindPhase, Suspending
      <4>5. CASE "mach" \notin enabled
        BY <4>3, <4>5 DEF ReceiveException, BehindPhase
      <4> QED
        BY <4>4, <4>5
    <3>2. CASE /\ capture[t] = "mach" /\ "mach" \in enabled
               /\ pc[t] \in Suspending \cup {"notify", "notified", "disarm"}
      <4>1. pc[t] # "disarm" => "mach" \in enabled'
        BY <2>2, <3>2 DEF FlagSteps
      <4>2. CASE pc[t] \in Suspending
        <5>1. pc'[t] \in Suspending \cup {"notify"}
          <6>1. EnterSuspend(t) \/ SuspendTarget(t) \/ SuspendComplete(t)
            BY <2>2, <4>2 DEF NextSteps, Suspending
          <6> QED
            BY <1>0, <3>2, <6>1 DEF TypeOK, Goto, EnterSuspend, SuspendTarget,
                 SuspendComplete, AfterSuspension, Fatal, Suspending
        <5> QED
          BY <4>1, <4>2, <5>1 DEF BehindPhase, Suspending
      <4>3. CASE pc[t] = "notify"
        BY <2>2, <4>1, <4>3 DEF FlagSteps, BehindPhase
      <4>4. CASE pc[t] = "notified"
        BY <1>1, <2>2, <4>1, <4>4 DEF FlagSteps, SecondaryFits, BehindPhase
      <4>5. CASE pc[t] = "disarm"
        BY <2>2, <3>2, <4>5 DEF FlagSteps, BehindPhase
      <4> QED
        BY <3>2, <4>2, <4>3, <4>4, <4>5
    <3>3. CASE pc[t] \in {"resuming", "finish"}
      BY <2>4, <3>3 DEF BehindPhase
    <3>4. CASE pc[t] = "unhook"
      <4>1. machBusy
        BY <1>3, <2>1, <3>4 DEF StillBusy, ApartInv
      <4>2. Unhook(t)
        BY <2>2, <3>4 DEF NextSteps
      <4>3. pc'[Primary] = "terminated"
        BY <1>0, <4>1, <4>2 DEF Unhook
      <4> QED
        BY <1>5, <4>3
    <3>5. CASE /\ capture[Primary] = "signal" /\ pc[Primary] = "unhook"
               /\ "mach" \notin enabled
      BY <1>2, <1>5, <2>2, <3>5 DEF LeftAlone, Settling
    <3> QED
      BY <1>3, <2>1, <2>3, <2>5, <3>1, <3>2, <3>3, <3>4, <3>5 DEF HandlersApart, ApartInv
  <2> QED
    BY <2>6, <2>7
<1> QED
  BY <1>4, <1>5

(* The primary thread takes a step.                                         *)
LEMMA ApartByPrimary ==
    ASSUME ApartInv, Environment(Primary) \/ Progress(Primary), PrimaryPast'
    PROVE  StillBusy' /\ HandlersApart'
<1> DEFINE t == Primary
<1>0. /\ TypeOK /\ t \in Threads /\ Secondary \in Threads /\ Secondary # t
      /\ Secondary \in Handlers /\ t \in Handlers
  BY ThreadsAssumption DEF ApartInv, CaptureInv, Threads, Handlers
<1>1. LeftAlone(t, Secondary)
  BY <1>0, OthersAreLeft
<1>2. /\ FlagSteps(t) /\ NextSteps(t) /\ BusySteps(t) /\ Settling
  BY <1>0, StepsOfFlags, WhatComesNext, StepsOfBusy, NothingIsRearmed
<1>3. CASE ~PrimaryPast
  <2>1. SwapHandler(t) /\ capture[t] = "mach" /\ pc[t] = "swap"
    BY <1>0, <1>3, PastComesFromSwap DEF ApartInv
  <2>2. machBusy'
    <3>1. machBusy
      BY <2>1 DEF ApartInv, PrimaryIsBusy, Noting
    <3> QED
      BY <2>1, <3>1 DEF SwapHandler
  <2>3. capture[Secondary] = "mach" => pc[Secondary] = "terminated"
    <3>1. ~Swapped
      BY <2>1 DEF Swapped, PastSwap, Noting
    <3> QED
      BY <1>0, <3>1 DEF ApartInv, RolesInv, StandBy, HandlerFits
  <2> QED
    BY <1>1, <2>2, <2>3 DEF StillBusy, HandlersApart, LeftAlone
<1>4. CASE PrimaryPast
  <2>1. pc[t] # "terminated"
    BY <1>2 DEF NextSteps
  <2>2. machBusy => machBusy'
    <3> SUFFICES ASSUME machBusy, ~machBusy' PROVE FALSE
      OBVIOUS
    <3>1. /\ capture[t] = "mach" /\ pc'[t] = "resuming"
          /\ pc[t] = "after" \/ pc[t] = "disarmRest"
      BY <1>2 DEF BusySteps
    <3>2. AfterEvent(t) \/ DisarmRest(t)
      BY <1>2, <3>1 DEF NextSteps
    <3>3. capture'[t] = "mach"
      BY <3>1, <3>2 DEF AfterEvent, DisarmRest, frame
    <3> QED
      BY <3>1, <3>3 DEF PrimaryPast, Reporting
  <2>3. StillBusy'
    BY <1>1, <1>4, <2>1, <2>2 DEF StillBusy, ApartInv, LeftAlone
  <2>4. HandlersApart'
    <3> SUFFICES ASSUME capture[Secondary] = "mach",
                        pc'[Secondary] # "terminated"
                 PROVE  \/ /\ pc'[Secondary] \in Suspending \cup {"notify", "notified", "disarm"}
                           /\ "mach" \in enabled'
                        \/ pc'[Secondary] \in {"unhook", "resuming", "finish"}
                        \/ /\ capture'[t] = "signal" /\ pc'[t] = "unhook"
                           /\ "mach" \notin enabled'
      BY <1>1 DEF HandlersApart, LeftAlone
    <3>1. /\ \/ pc'[Secondary] = pc[Secondary]
             \/ pc[Secondary] = "blocked" /\ pc'[Secondary] = "signaled"
          /\ pc[Secondary] # "terminated"
      BY <1>1 DEF LeftAlone
    <3>2. CASE pc[t] = "unhook"
      <4>1. Unhook(t)
        BY <1>2, <3>2 DEF NextSteps
      <4>2. ~machBusy
        BY <1>0, <4>1 DEF Unhook
      <4>3. pc[Secondary] \in {"resuming", "finish"}
        BY <1>4, <2>1, <3>1, <4>2 DEF StillBusy, ApartInv
      <4> QED
        BY <3>1, <4>3
    <3>3. CASE pc[t] = "disarm" /\ "mach" \in enabled
      <4>1. pc'[t] = "unhook"
        BY <1>2, <3>3 DEF FlagSteps
      <4>2. capture'[t] = "signal"
        BY <4>1 DEF PrimaryPast, Reporting
      <4>3. "mach" \notin enabled'
        BY <1>2, <3>3 DEF NextSteps, Disarm
      <4> QED
        BY <4>1, <4>2, <4>3
    <3>4. CASE pc[t] # "unhook" /\ ~(pc[t] = "disarm" /\ "mach" \in enabled)
      <4>1. "mach" \in enabled => "mach" \in enabled'
        BY <1>2, <3>4 DEF FlagSteps
      <4> QED
        BY <1>4, <2>1, <3>1, <3>4, <4>1 DEF HandlersApart, ApartInv, Suspending
    <3> QED
      BY <3>2, <3>3, <3>4
  <2> QED
    BY <2>3, <2>4
<1> QED
  BY <1>3, <1>4

(* The two handler threads keep apart.                                      *)
LEMMA StillApart ==
    ASSUME ApartInv, LateThreads = {}, NEW t \in Threads, Environment(t) \/ Progress(t)
    PROVE  StillBusy' /\ HandlersApart'
<1>0. /\ TypeOK /\ Secondary \in Threads /\ Primary \in Threads
  BY DEF ApartInv, CaptureInv, Threads, Handlers
<1>1. CASE ~PrimaryPast'
  BY <1>1 DEF StillBusy, HandlersApart
<1>2. CASE PrimaryPast' /\ t \in Handlers
  BY <1>2, ApartByPrimary, ApartBySecondary DEF Handlers
<1>3. CASE PrimaryPast' /\ t \notin Handlers
  <2>1. t \in EarlyThreads /\ t # Primary /\ t # Secondary
    BY <1>3 DEF Threads, Handlers, EarlyThreads
  <2>2. PrimaryPast
    BY <1>0, <1>3, <2>1, PastComesFromSwap DEF ApartInv
  <2>3. DieOfSignal(t) \/ SuspendTarget(t)
    BY <2>1, <2>2, PastStopsAll, StoppedTakesNoStep DEF ApartInv
  <2>4. /\ UNCHANGED <<capture, enabled, machBusy>>
        /\ pc'[Primary] = pc[Primary] /\ pc'[Secondary] = pc[Secondary]
    BY <1>0, <2>1, <2>3 DEF DieOfSignal, SuspendTarget, Goto, frame, monitoring, TypeOK
  <2> QED
    BY <2>2, <2>4 DEF StillBusy, HandlersApart, ApartInv
<1> QED
  BY <1>1, <1>2, <1>3

(* They never work on reports side by side.                                 *)
LEMMA OneHandlerReports ==
    ASSUME ApartInv, NEW g \in Handlers, NEW h \in Handlers,
           pc[g] \in Reporting, pc[h] \in Reporting
    PROVE  g = h
<1> SUFFICES ASSUME pc[Primary] \in Reporting, pc[Secondary] \in Reporting
             PROVE  FALSE
  BY DEF Handlers
<1>1. capture[Secondary] = "mach"
  BY DEF ApartInv, RolesInv, HandlerFits, SecondaryFits, Handlers, Reporting, Outside
<1> QED
  BY <1>1 DEF ApartInv, HandlersApart, PrimaryPast, Reporting, Suspending

-----------------------------------------------------------------------------
(* The order of the recrashes, and who mends a torn report.                 *)

(* The same, by what comes before.                                          *)
LEMMA PathOfReport ==
    ASSUME TypeOK, NEW t \in Threads, Environment(t) \/ Progress(t)
    PROVE  /\ pc'[t] \in Claiming \cup Recrashing => capture'[t] = capture[t]
           /\ pc'[t] \in Claiming =>
                 pc[t] \in Claiming \/ (pc[t] = "handle" /\ ~crashedDuring)
           /\ pc'[t] \in Recrashing =>
                 \/ pc[t] \in Recrashing
                 \/ At(t, "handle") /\ crashedDuring /\ pc'[t] = "recrash"
<1>1. ReportSteps(t)
  BY StepsOfReport
<1>2. CASE pc'[t] \in Claiming
  <2>1. \/ HandleException(t) /\ ~crashedDuring
        \/ ClaimID(t) \/ PublishPath(t) \/ OpenReport(t)
    BY <1>1, <1>2 DEF ReportSteps, Claiming, Claimed
  <2> QED
    BY <1>2, <2>1 DEF HandleException, ClaimID, PublishPath, OpenReport, At, frame,
                      Claiming, Claimed, Recrashing
<1>3. CASE pc'[t] \in Recrashing
  <2>1. \/ HandleException(t) /\ crashedDuring /\ pc'[t] = "recrash"
        \/ RenameToOld(t) \/ OpenRecrash(t) \/ EmbedOld(t) \/ RemoveOld(t)
    BY <1>1, <1>3 DEF ReportSteps, Recrashing
  <2> QED
    BY <1>3, <2>1 DEF HandleException, RenameToOld, OpenRecrash, EmbedOld, RemoveOld, At,
                      frame, Claiming, Claimed, Recrashing
<1> QED
  BY <1>2, <1>3

(* A thread that reports and suspends is in the window.                     *)
LEMMA ReportingIsWindow ==
    ASSUME NEW t \in Threads, pc[t] \in Reporting, ~Quiet(t)
    PROVE  InWindow(t)
  BY DEF InWindow, Quiet, Window

(* A second event is noted before it becomes a recrash ...                  *)
LEMMA RecrashStillSecond ==
    ASSUME CaptureInv, LateThreads = {}, RecrashIsSecond,
           NEW t \in Threads, Environment(t) \/ Progress(t)
    PROVE  RecrashIsSecond'
<1>0. TypeOK
  BY DEF CaptureInv
<1>1. Settling
  BY <1>0, NothingIsRearmed
<1>2. \A u \in Threads \ {t} : LeftAlone(t, u)
  BY <1>0, OthersAreLeft
<1>3. /\ pc'[t] \in Claiming \cup Recrashing => capture'[t] = capture[t]
      /\ pc'[t] \in Claiming =>
            pc[t] \in Claiming \/ (pc[t] = "handle" /\ ~crashedDuring)
      /\ pc'[t] \in Recrashing =>
            \/ pc[t] \in Recrashing
            \/ At(t, "handle") /\ crashedDuring /\ pc'[t] = "recrash"
  BY <1>0, PathOfReport
<1>4. ASSUME NEW u \in Threads \ {t}
      PROVE  /\ pc'[u] \in Claiming => pc[u] \in Claiming
             /\ pc'[u] \in Recrashing => pc[u] \in Recrashing
             /\ Quiet(u)' <=> Quiet(u)
  BY <1>2 DEF LeftAlone, Claiming, Claimed, Recrashing, Quiet
<1>5. ASSUME NEW v \in Threads, pc'[v] \in Recrashing, v # t
      PROVE  /\ crashedDuring'
             /\ v \in AppThreads =>
                   \A u \in Threads \ {v} : pc'[u] \in Claiming => Quiet(u)'
  <2>1. pc[v] \in Recrashing
    BY <1>4, <1>5
  <2>2. crashedDuring
    BY <2>1 DEF RecrashIsSecond
  <2>3. ASSUME v \in AppThreads, NEW u \in Threads \ {v}, pc'[u] \in Claiming
        PROVE  Quiet(u)'
    <3>1. CASE u # t
      BY <1>4, <2>1, <2>3, <3>1 DEF RecrashIsSecond
    <3>2. CASE u = t
      <4>1. pc[t] \in Claiming /\ capture'[t] = capture[t]
        BY <1>3, <2>2, <2>3, <3>2
      <4> QED
        BY <2>1, <2>3, <3>2, <4>1 DEF RecrashIsSecond, Quiet
    <3> QED
      BY <3>1, <3>2
  <2> QED
    BY <1>1, <2>2, <2>3 DEF Settling
<1>6. ASSUME pc'[t] \in Recrashing
      PROVE  /\ crashedDuring'
             /\ t \in AppThreads =>
                   \A u \in Threads \ {t} : pc'[u] \in Claiming => Quiet(u)'
  <2>1. CASE pc[t] \in Recrashing
    BY <1>1, <1>4, <2>1 DEF RecrashIsSecond, Settling
  <2>2. CASE At(t, "handle") /\ crashedDuring
    <3>1. ASSUME t \in AppThreads, NEW u \in Threads \ {t}, pc'[u] \in Claiming, ~Quiet(u)'
          PROVE  FALSE
      <4>1. pc[u] \in Reporting /\ ~Quiet(u)
        BY <1>4, <3>1 DEF Claiming, Claimed, Reporting
      <4>2. InWindow(u) /\ t \in EarlyThreads
        BY <3>1, <4>1, ReportingIsWindow DEF EarlyThreads
      <4> QED
        BY <2>2, <3>1, <4>2, FrozenFollows DEF EnvironmentFrozen, At
    <3> QED
      BY <1>1, <2>2, <3>1 DEF Settling
  <2> QED
    BY <1>3, <1>6, <2>1, <2>2
<1> QED
  BY <1>5, <1>6 DEF RecrashIsSecond

(* Report IDs start at one.                                                 *)
LEMMA StillFromOne ==
    ASSUME TypeOK, NumbersFromOne, NEW t \in Threads, Environment(t) \/ Progress(t)
    PROVE  NumbersFromOne'
<1> USE DEF TypeOK
<1>1. ReportSteps(t)
  BY StepsOfReport
<1>2. \A u \in Threads \ {t} : LeftAlone(t, u)
  BY OthersAreLeft
<1>3. ASSUME NEW u \in Threads, pc'[u] \in {"publish", "open"}
      PROVE  reportID'[u] > 0
  <2>1. CASE u # t
    BY <1>2, <1>3, <2>1 DEF LeftAlone, NumbersFromOne
  <2>2. CASE u = t
    <3>1. ClaimID(t) \/ PublishPath(t)
      BY <1>1, <1>3, <2>2 DEF ReportSteps
    <3>2. CASE ClaimID(t)
      BY <2>2, <3>2 DEF ClaimID, NumbersFromOne
    <3>3. CASE PublishPath(t)
      BY <2>2, <3>3 DEF PublishPath, At, frame, NumbersFromOne
    <3> QED
      BY <3>1, <3>2, <3>3
  <2> QED
    BY <2>1, <2>2
<1>4. nextID' > 0 /\ 0 \notin DOMAIN files' \cup DOMAIN old'
  <2>1. CASE UNCHANGED <<nextID, files, old>>
    BY <2>1 DEF NumbersFromOne
  <2>2. CASE ClaimID(t) \/ PublishPath(t)
    BY <2>2 DEF ClaimID, PublishPath, NumbersFromOne
  <2>3. CASE OpenReport(t)
    BY <2>3 DEF OpenReport, At, WithFile, NumbersFromOne
  <2>4. CASE WriteReport(t) \/ WriteRecrash(t)
    BY <2>4 DEF WriteReport, WriteRecrash, Completed, NumbersFromOne
  <2>5. CASE RenameToOld(t)
    BY <2>5 DEF RenameToOld, WithFile, WithoutFile, NumbersFromOne
  <2>6. CASE OpenRecrash(t)
    BY <2>6 DEF OpenRecrash, WithFile, NumbersFromOne
  <2>7. CASE EmbedOld(t)
    BY <2>7 DEF EmbedOld, NumbersFromOne
  <2>8. CASE RemoveOld(t)
    BY <2>8 DEF RemoveOld, WithoutFile, NumbersFromOne
  <2> QED
    BY <2>1, <2>2, <2>3, <2>4, <2>5, <2>6, <2>7, <2>8, StepsOfStore DEF StoreStep
<1> QED
  BY <1>3, <1>4 DEF NumbersFromOne

(* The recrashes of a report follow one another.                            *)

OrderInv == ApartInv /\ LateThreads = {} /\ KeptInv

(* While a thread recrashes, whoever else works on a report has overtaken   *)
(* it.                                                                      *)
LEMMA OthersOvertake ==
    ASSUME OrderInv, NEW t \in Threads, StoreStep(t),
           NEW u \in Threads \ {t}, pc[u] \in Recrashing
    PROVE  u \in AppThreads /\ ~Quiet(t) /\ pc[t] \notin Claiming
<1>0. CaptureInv
  BY DEF OrderInv, ApartInv
<1>1. Running(t) /\ pc[t] \in Reporting
  BY DEF StoreStep, ClaimID, PublishPath, OpenReport, WriteReport, RenameToOld,
         OpenRecrash, EmbedOld, RemoveOld, WriteRecrash, At, Reporting
<1>2. pc[u] \in Reporting
  BY DEF Recrashing, Reporting
<1>3. \A h \in Handlers : pc[h] \in Reporting => ~Quiet(h)
  BY DEF OrderInv, ApartInv, RolesInv, HandlerFits, Quiet, Suspends
<1>4. t \in AppThreads => Quiet(u)
  <2> SUFFICES ASSUME t \in AppThreads, ~Quiet(u) PROVE FALSE
    OBVIOUS
  <2>1. InWindow(u) /\ t \in EarlyThreads
    BY <1>2, ReportingIsWindow DEF OrderInv, EarlyThreads
  <2> QED
    BY <1>0, <1>1, <2>1, FrozenFollows DEF EnvironmentFrozen
<1>5. u \in AppThreads
  <2> SUFFICES ASSUME u \in Handlers PROVE FALSE
    BY DEF Threads
  <2>1. t \in Handlers
    BY <1>2, <1>3, <1>4 DEF Threads
  <2> QED
    BY <1>1, <1>2, <2>1, OneHandlerReports DEF OrderInv
<1>6. ~Quiet(t)
  <2>1. CASE t \in AppThreads
    BY <1>4, <2>1 DEF OrderInv, KeptInv, QuietAlone
  <2>2. CASE t \in Handlers
    BY <1>1, <1>3, <2>2
  <2> QED
    BY <2>1, <2>2 DEF Threads
<1>7. pc[t] \notin Claiming
  BY <1>5, <1>6 DEF OrderInv, KeptInv, RecrashIsSecond
<1> QED
  BY <1>5, <1>6, <1>7

(* A thread that runs has not been overtaken.                               *)
LEMMA OvertakenDoesNotRun ==
    ASSUME OrderInv, NEW t \in Threads, Overtaken(t)
    PROVE  ~Running(t)
<1>0. CaptureInv /\ t \in EarlyThreads
  BY DEF OrderInv, ApartInv, Overtaken, EarlyThreads
<1>1. ASSUME NEW u \in Threads \ {t}, Rebuilding(u) PROVE ~Running(t)
  <2>1. InWindow(u)
    BY <1>1, ReportingIsWindow DEF Rebuilding, Reporting
  <2> QED
    BY <1>0, <2>1, FrozenFollows DEF EnvironmentFrozen
<1>2. ASSUME NEW h \in Handlers, EarlyThreads \subseteq held[h] PROVE ~Running(t)
  BY <1>0, <1>2, HeldDoesNotRun DEF CaptureInv, Threads, Overtaken
<1> QED
  BY <1>1, <1>2 DEF Overtaken

(* A thread that leaves the rebuilding has mended the report.               *)
Mends(t) == EmbedOld(t) \/ (OpenRecrash(t) /\ pc'[t] = "after")

LEMMA MendsReport ==
    ASSUME OrderInv, ~LongElements, NEW t \in Threads, Mends(t)
    PROVE  ~Torn'
<1>0. TypeOK /\ NumbersFromOne /\ RecrashFits(t) /\ Running(t)
  BY DEF OrderInv, ApartInv, CaptureInv, KeptInv, Mends, EmbedOld, OpenRecrash, At
<1>1. ~Overtaken(t)
  BY <1>0, OvertakenDoesNotRun
<1>2. CASE OpenRecrash(t) /\ pc'[t] = "after"
  <2>1. /\ pc[t] = "reopen" /\ UNCHANGED <<files, old, lastPath>>
        /\ lastPath = 0 \/ lastPath \in DOMAIN files
    BY <1>0, <1>2 DEF OpenRecrash, At, Goto, TypeOK
  <2>2. ~Torn
    BY <1>0, <1>1, <2>1 DEF RecrashFits, NumbersFromOne, Torn
  <2> QED
    BY <2>1, <2>2 DEF Torn
<1>3. CASE EmbedOld(t)
  <2>1. pc[t] = "embed" /\ reportID[t] = lastPath /\ UNCHANGED <<old, lastPath>>
    BY <1>0, <1>3 DEF EmbedOld, At, RecrashFits
  <2>2. CASE lastPath \in DOMAIN files /\ lastPath \in DOMAIN old /\ files[lastPath].writer = t
    <3>1. files' = [files EXCEPT ![lastPath].saved = old[lastPath].saved]
      <4>1. old[lastPath].saved \in BOOLEAN
        BY <1>0, <2>2 DEF TypeOK, File
      <4>2. PICK complete \in {TRUE, ~LongElements} :
               files' = [files EXCEPT ![lastPath].saved = old[lastPath].saved /\ complete]
        BY <1>3, <2>1, <2>2 DEF EmbedOld
      <4>3. (old[lastPath].saved /\ complete) = old[lastPath].saved
        BY <4>1, <4>2
      <4> QED
        BY <4>2, <4>3
    <3>2. files'[lastPath].saved = old[lastPath].saved /\ DOMAIN files' = DOMAIN files
      BY <1>0, <2>2, <3>1 DEF TypeOK, File
    <3> QED
      BY <2>1, <2>2, <3>2 DEF Torn
  <2>3. CASE ~(lastPath \in DOMAIN files /\ lastPath \in DOMAIN old
               /\ files[lastPath].writer = t)
    <3>1. files' = files
      BY <1>3, <2>1, <2>3 DEF EmbedOld
    <3>2. ~Torn
      BY <1>0, <1>1, <2>1, <2>3 DEF RecrashFits, Torn
    <3> QED
      BY <2>1, <3>1, <3>2 DEF Torn
  <2> QED
    BY <2>2, <2>3
<1> QED
  BY <1>2, <1>3 DEF Mends

(* Who was overtaken stays so until then.                                   *)
LEMMA OvertakenOrMended ==
    ASSUME OrderInv, NEW t \in Threads, Environment(t) \/ Progress(t),
           NEW u \in Threads, Overtaken(u)
    PROVE  Overtaken(u)' \/ (t # u /\ Mends(t))
<1>0. TypeOK /\ CaptureInv /\ u \in AppThreads
  BY DEF OrderInv, ApartInv, CaptureInv, Overtaken
<1>1. NextSteps(t)
  BY WhatComesNext
<1>2. ASSUME NEW h \in Handlers, pc[h] = "terminated", EarlyThreads \subseteq held[h]
      PROVE  Overtaken(u)'
  <2>1. h \in Threads /\ h # t
    BY <1>1, <1>2 DEF NextSteps, Threads
  <2>2. pc'[h] = "terminated" /\ held'[h] = held[h]
    BY <1>0, <1>2, <2>1, OthersAreLeft, OthersHold DEF LeftAlone
  <2> QED
    BY <1>0, <1>2, <2>2 DEF Overtaken
<1>3. ASSUME NEW v \in Threads \ {u}, Rebuilding(v)
      PROVE  Overtaken(u)' \/ (t # u /\ Mends(t))
  <2>1. CASE v = t
    <3>1. OpenRecrash(t) \/ EmbedOld(t)
      BY <1>1, <1>3, <2>1 DEF Rebuilding, NextSteps
    <3>2. CASE OpenRecrash(t) /\ pc'[t] # "after"
      <4>1. pc'[t] = "embed" /\ capture' = capture
        BY <1>0, <3>2 DEF OpenRecrash, Goto, frame, TypeOK
      <4>2. Rebuilding(t)'
        BY <1>3, <2>1, <4>1 DEF Rebuilding, Quiet
      <4> QED
        BY <1>0, <2>1, <4>2 DEF Overtaken
    <3> QED
      BY <1>3, <2>1, <3>1, <3>2 DEF Mends
  <2>2. CASE v # t
    <3>1. LeftAlone(t, v)
      BY <1>0, <2>2, OthersAreLeft
    <3>2. CASE pc'[v] = pc[v]
      <4>1. Rebuilding(v)'
        BY <1>3, <3>1, <3>2 DEF Rebuilding, Quiet, LeftAlone
      <4> QED
        BY <1>0, <4>1 DEF Overtaken
    <3>3. CASE pc'[v] # pc[v]
      <4>1. pc'[v] = "terminated" /\ v \in Handlers
        BY <1>3, <3>1, <3>3 DEF LeftAlone, Rebuilding
      <4>2. InWindow(v)
        BY <1>3, ReportingIsWindow DEF Rebuilding, Reporting
      <4>3. EarlyThreads \subseteq held[v]
        BY <1>0, <4>1, <4>2, ThreadsAssumption
           DEF CaptureInv, ListsCover, EarlyThreads, Handlers
      <4>4. held'[v] = held[v]
        BY <1>0, <2>2, OthersHold
      <4> QED
        BY <1>0, <4>1, <4>3, <4>4 DEF Overtaken
    <3> QED
      BY <3>2, <3>3
  <2> QED
    BY <2>1, <2>2
<1> QED
  BY <1>2, <1>3 DEF Overtaken

-----------------------------------------------------------------------------
(* No step loses a finished report.                                         *)

(* A step touches no finished part of a file another thread has opened.     *)
LEMMA FilesOfOthers ==
    ASSUME TypeOK, NEW t \in Threads, Environment(t) \/ Progress(t),
           NEW u \in Threads \ {t}, NEW id \in DOMAIN files', files'[id].writer = u
    PROVE  /\ id \in DOMAIN files /\ files[id].writer = u
           /\ files'[id].saved = files[id].saved
<1> USE DEF TypeOK, File
<1>1. CASE UNCHANGED files
  BY <1>1
<1>2. CASE ClaimID(t) \/ PublishPath(t) \/ RemoveOld(t)
  BY <1>2 DEF ClaimID, PublishPath, RemoveOld
<1>3. CASE OpenReport(t) \/ OpenRecrash(t)
  <2>1. CASE \E x : files' = WithFile(files, x, NewFile(t))
    <3>1. PICK x : files' = WithFile(files, x, NewFile(t))
      BY <2>1
    <3>2. id # x
      BY <3>1 DEF WithFile, NewFile
    <3> QED
      BY <3>1, <3>2 DEF WithFile
  <2> QED
    BY <1>1, <1>3, <2>1 DEF OpenReport, OpenRecrash
<1>4. CASE WriteReport(t) \/ WriteRecrash(t)
  <2>1. PICK keeps \in BOOLEAN : files' = Completed(files, t, keeps)
    BY <1>4 DEF WriteReport, WriteRecrash
  <2>2. id \in DOMAIN files /\ files'[id].writer = files[id].writer
    BY <2>1 DEF Completed
  <2>3. files'[id] = files[id]
    BY <2>1, <2>2 DEF Completed
  <2> QED
    BY <2>2, <2>3
<1>5. CASE RenameToOld(t)
  BY <1>5 DEF RenameToOld, WithoutFile
<1>6. CASE EmbedOld(t)
  <2>1. CASE reportID[t] \in DOMAIN files /\ files[reportID[t]].writer = t
    <3>1. \A x \in DOMAIN files : x # reportID[t] => files'[x] = files[x]
      BY <1>6 DEF EmbedOld
    <3>2. DOMAIN files' = DOMAIN files /\ files'[reportID[t]].writer = t
      BY <1>6, <2>1 DEF EmbedOld
    <3>3. id # reportID[t]
      BY <3>2
    <3> QED
      BY <3>1, <3>2, <3>3
  <2>2. CASE ~(reportID[t] \in DOMAIN files /\ files[reportID[t]].writer = t)
    BY <1>6, <2>2 DEF EmbedOld
  <2> QED
    BY <2>1, <2>2
<1> QED
  BY <1>1, <1>2, <1>3, <1>4, <1>5, <1>6, StepsOfStore DEF StoreStep

(* The thread that recrashes takes its steps over what it found ...         *)
LEMMA OwnRecrash ==
    ASSUME OrderInv, ~LongElements, NEW t \in Threads, Environment(t) \/ Progress(t)
    PROVE  RecrashFits(t)'
<1>0. TypeOK /\ NumbersFromOne /\ RecrashFits(t)
  BY DEF OrderInv, ApartInv, CaptureInv, KeptInv
<1>1. ReportSteps(t)
  BY <1>0, StepsOfReport
<1>2. CASE pc'[t] \notin {"reopen", "embed", "unlink"}
  BY <1>2 DEF RecrashFits
<1>3. CASE pc'[t] = "reopen"
  <2>1. RenameToOld(t)
    BY <1>1, <1>3 DEF ReportSteps
  <2>2. reportID'[t] = lastPath' /\ lastPath' \notin DOMAIN files'
    BY <1>0, <2>1 DEF RenameToOld, WithoutFile, TypeOK
  <2> QED
    BY <1>3, <2>2 DEF RecrashFits
<1>4. CASE pc'[t] = "embed"
  <2>1. OpenRecrash(t) /\ pc[t] = "reopen"
    BY <1>1, <1>4 DEF ReportSteps, OpenRecrash, At
  <2>2. /\ files' = WithFile(files, lastPath, NewFile(t))
        /\ lastPath' = lastPath /\ reportID' = reportID
    BY <1>0, <1>4, <2>1 DEF OpenRecrash, Goto, TypeOK, frame
  <2>3. reportID'[t] = lastPath'
    BY <1>0, <2>1, <2>2 DEF RecrashFits
  <2>4. /\ lastPath' \in DOMAIN files' /\ files'[lastPath'].writer = t
        /\ ~files'[lastPath'].saved
    BY <2>2 DEF WithFile, NewFile
  <2> QED
    BY <1>4, <2>3, <2>4 DEF RecrashFits
<1>5. CASE pc'[t] = "unlink"
  <2>1. EmbedOld(t) /\ pc[t] = "embed"
    BY <1>1, <1>5 DEF ReportSteps, EmbedOld, At
  <2>2. reportID'[t] = lastPath'
    BY <1>0, <2>1 DEF EmbedOld, frame, RecrashFits
  <2>3. ~Torn'
    BY <2>1, MendsReport DEF Mends
  <2> QED
    BY <1>5, <2>2, <2>3 DEF RecrashFits
<1> QED
  BY <1>2, <1>3, <1>4, <1>5

(* ... and what another thread does meanwhile it is free to do: it has      *)
(* overtaken it, or mended the report.                                      *)
LEMMA OthersRecrash ==
    ASSUME OrderInv, ~LongElements, NEW t \in Threads, Environment(t) \/ Progress(t),
           NEW u \in Threads \ {t}
    PROVE  RecrashFits(u)'
<1>0. TypeOK /\ RecrashFits(u)
  BY DEF OrderInv, ApartInv, CaptureInv, KeptInv
<1>1. LeftAlone(t, u)
  BY <1>0, OthersAreLeft
<1> SUFFICES ASSUME pc'[u] \in {"reopen", "embed", "unlink"}
             PROVE  RecrashFits(u)'
  BY DEF RecrashFits
<1>2. pc'[u] = pc[u] /\ reportID'[u] = reportID[u] /\ pc[u] \in Recrashing
  BY <1>1 DEF LeftAlone, Recrashing
<1>3. StoreStep(t) => u \in AppThreads /\ ~Quiet(t) /\ pc[t] \notin Claiming
  BY <1>2, OthersOvertake
<1>4. reportID'[u] = lastPath'
  <2>1. lastPath' = lastPath
    <3>1. CASE ~StoreStep(t)
      BY <3>1, StepsOfStore
    <3>2. CASE StoreStep(t)
      <4>1. ~PublishPath(t)
        BY <1>3, <3>2 DEF PublishPath, At, Claiming, Claimed
      <4> QED
        BY <3>2, <4>1 DEF StoreStep, ClaimID, OpenReport, WriteReport, RenameToOld,
                 OpenRecrash, EmbedOld, RemoveOld, WriteRecrash
    <3> QED
      BY <3>1, <3>2
  <2> QED
    BY <1>0, <1>2, <2>1 DEF RecrashFits
<1>5. ASSUME pc[u] = "embed", reportID[u] \in DOMAIN files', files'[reportID[u]].writer = u
      PROVE  ~files'[reportID[u]].saved
  BY <1>0, <1>5, FilesOfOthers DEF RecrashFits
<1>6. ASSUME Torn'
      PROVE  \/ Overtaken(u)'
             \/ pc[u] = "reopen" /\ lastPath' \notin DOMAIN files'
             \/ /\ pc[u] = "embed"
                /\ lastPath' \in DOMAIN files' /\ files'[lastPath'].writer = u
  <2>1. ~Mends(t)
    BY <1>6, MendsReport
  <2>2. CASE Overtaken(u)
    BY <2>1, <2>2, OvertakenOrMended
  <2>3. CASE ~Overtaken(u) /\ ~StoreStep(t)
    <3>1. UNCHANGED <<lastPath, files, old>>
      BY <2>3, StepsOfStore
    <3> QED
      BY <1>0, <1>2, <1>6, <2>3, <3>1 DEF RecrashFits, Torn
  <2>4. CASE ~Overtaken(u) /\ StoreStep(t)
    <3>1. u \in AppThreads /\ ~Quiet(t)
      BY <1>3, <2>4
    <3>2. ~(ClaimID(t) \/ PublishPath(t) \/ OpenReport(t) \/ WriteReport(t))
      BY <1>3, <2>4 DEF ClaimID, PublishPath, OpenReport, WriteReport, At, Claiming, Claimed
    <3>3. CASE RenameToOld(t) \/ OpenRecrash(t)
      <4>1. pc'[t] \in {"reopen", "embed"} /\ capture' = capture
        BY <1>0, <2>1, <3>3 DEF RenameToOld, OpenRecrash, Mends, Goto, frame, TypeOK
      <4>2. Rebuilding(t)'
        BY <3>1, <4>1 DEF Rebuilding, Quiet
      <4> QED
        BY <3>1, <4>2 DEF Overtaken
    <3>4. CASE RemoveOld(t)
      <4>1. reportID[t] = lastPath
        BY <3>4 DEF RemoveOld, At, OrderInv, KeptInv, RecrashFits
      <4> QED
        BY <1>6, <3>4, <4>1 DEF RemoveOld, WithoutFile, Torn
    <3>5. CASE WriteRecrash(t)
      <4>1. /\ DOMAIN files' = DOMAIN files /\ UNCHANGED <<lastPath, old>>
            /\ \A id \in DOMAIN files : /\ files'[id].writer = files[id].writer
                                        /\ files'[id].saved = files[id].saved
        BY <1>0, <3>5 DEF WriteRecrash, Completed, TypeOK, File
      <4>2. Torn
        BY <1>6, <4>1 DEF Torn
      <4> QED
        BY <1>0, <1>2, <2>4, <4>1, <4>2 DEF RecrashFits
    <3> QED
      BY <2>1, <2>4, <3>2, <3>3, <3>4, <3>5 DEF StoreStep, Mends
  <2> QED
    BY <2>2, <2>3, <2>4
<1> QED
  BY <1>2, <1>4, <1>5, <1>6 DEF RecrashFits

(* The hypotheses: elements that the decoder can read back, no thread born  *)
(* during a suspension, and not two reports that let the others run.        *)
OrderlyReports ==
    /\ ~LongElements
    /\ LateThreads = {}
    /\ Budget["report"] =< 1 \/ \A k \in ReportKinds : Suspends(k)

(* The recrashes follow one another in every reachable state.               *)
THEOREM KeptInvariant == OrderlyReports /\ Spec => []KeptInv
<1> SUFFICES ASSUME OrderlyReports PROVE Spec => []KeptInv
  OBVIOUS
<1>1. Init => KeptInv
  <2> SUFFICES ASSUME Init PROVE KeptInv
    OBVIOUS
  <2>1. \A t \in Threads : /\ pc[t] \in {"unborn", "app", "terminated", "waiting",
                                         "starting"}
                           /\ capture[t] = "none" /\ ~Quiet(t)
    BY DEF Init, Quiet, Suspends
  <2>2. Primary \in Threads
    BY DEF Threads, Handlers
  <2>3. QuietAlone
    BY <2>1 DEF Init, QuietAlone, OrderlyReports
  <2>4. ~PrimaryPast
    BY <2>1, <2>2 DEF PrimaryPast, Reporting
  <2>5. NumbersFromOne
    BY <2>1 DEF Init, NumbersFromOne
  <2>6. RecrashIsSecond /\ \A t \in Threads : RecrashFits(t)
    BY <2>1 DEF RecrashIsSecond, RecrashFits, Recrashing
  <2> QED
    BY <2>3, <2>4, <2>5, <2>6 DEF KeptInv, StillBusy, HandlersApart
<1>2. /\ CaptureInv /\ ContextInv /\ KeptInv /\ [Next]_vars
      => KeptInv'
  <2> SUFFICES ASSUME CaptureInv, ContextInv, KeptInv, [Next]_vars
               PROVE  KeptInv'
    OBVIOUS
  <2>1. CASE UNCHANGED vars
    BY <2>1 DEF vars, scheduling, frame, monitoring, store, process, KeptInv, QuietAlone,
                Quiet, RecrashIsSecond, StillBusy, HandlersApart, PrimaryPast,
                NumbersFromOne, RecrashFits, Torn, Overtaken, Rebuilding
  <2>2. CASE Next
    <3>1. PICK t \in Threads : Environment(t) \/ Progress(t)
      BY <2>2 DEF Next
    <3>2. OrderInv /\ ApartInv /\ TypeOK
      BY DEF OrderInv, ApartInv, ContextInv, OrderlyReports, KeptInv, CaptureInv
    <3>3. QuietAlone' /\ NumbersFromOne' /\ RecrashIsSecond'
      BY <3>1, <3>2, StillQuietAlone, StillFromOne, RecrashStillSecond
         DEF KeptInv, OrderInv
    <3>4. StillBusy' /\ HandlersApart'
      BY <3>1, <3>2, StillApart DEF OrderInv
    <3>5. \A u \in Threads : RecrashFits(u)'
      BY <3>1, <3>2, OwnRecrash, OthersRecrash DEF OrderlyReports
    <3> QED
      BY <3>3, <3>4, <3>5 DEF KeptInv
  <2> QED
    BY <2>1, <2>2
<1> QED
  BY <1>1, <1>2, CaptureInvariant, ContextInvariant, PTL DEF Spec

(* A step of a process in that order loses no finished report.              *)
NothingLost ==
    \A id \in DOMAIN files \cup DOMAIN old : Kept(id) => Kept(id)' \/ OldReplaced(id)

LEMMA StepKeeps ==
    ASSUME OrderInv, ~LongElements, NEW t \in Threads, Environment(t) \/ Progress(t)
    PROVE  NothingLost
<1>0. TypeOK /\ RecrashFits(t)
  BY DEF OrderInv, ApartInv, CaptureInv, KeptInv
<1> SUFFICES ASSUME NEW id \in DOMAIN files \cup DOMAIN old, Kept(id)
             PROVE  Kept(id)' \/ OldReplaced(id)
  BY DEF NothingLost
<1> USE <1>0 DEF Kept, TypeOK, File
<1>1. CASE UNCHANGED <<files, old>>
  BY <1>1
<1>2. CASE ClaimID(t) \/ PublishPath(t)
  BY <1>2 DEF ClaimID, PublishPath
<1>3. CASE OpenReport(t) \/ OpenRecrash(t)
  <2>1. CASE \E x : x \notin DOMAIN files /\ files' = WithFile(files, x, NewFile(t))
    <3>1. \A y \in DOMAIN files : y \in DOMAIN files' /\ files'[y] = files[y]
      BY <2>1 DEF WithFile
    <3>2. old' = old
      BY <1>3 DEF OpenReport, OpenRecrash
    <3> QED
      BY <3>1, <3>2
  <2>2. CASE UNCHANGED files
    BY <1>3, <2>2 DEF OpenReport, OpenRecrash
  <2> QED
    BY <1>3, <2>1, <2>2 DEF OpenReport, OpenRecrash
<1>4. CASE WriteReport(t)
  <2>1. \A y \in DOMAIN files : /\ y \in DOMAIN files'
                                /\ files[y].saved => files'[y].saved
    BY <1>4 DEF WriteReport, Completed
  <2>2. \A y \in DOMAIN old : /\ y \in DOMAIN old'
                              /\ old[y].saved => old'[y].saved
    BY <1>4 DEF WriteReport, Completed
  <2> QED
    BY <2>1, <2>2
<1>5. CASE WriteRecrash(t)
  <2>1. \A y \in DOMAIN files : /\ y \in DOMAIN files'
                                /\ files[y].saved => files'[y].saved
    BY <1>5 DEF WriteRecrash, Completed
  <2>2. old' = old
    BY <1>5 DEF WriteRecrash
  <2> QED
    BY <2>1, <2>2
<1>6. CASE RenameToOld(t)
  <2>1. CASE lastPath \notin DOMAIN files
    BY <1>6, <2>1 DEF RenameToOld
  <2>2. CASE lastPath \in DOMAIN files /\ id = lastPath /\ id \in DOMAIN old
    <3>1. pc[t] = "recrash" /\ pc'[t] = "reopen"
      BY <1>6 DEF RenameToOld, At, Goto
    <3> QED
      BY <2>2, <3>1 DEF OldReplaced
  <2>3. CASE lastPath \in DOMAIN files /\ id = lastPath /\ id \notin DOMAIN old
    <3>1. id \in DOMAIN old' /\ old'[id] = files[id]
      BY <1>6, <2>3 DEF RenameToOld, WithFile
    <3> QED
      BY <2>3, <3>1
  <2>4. CASE lastPath \in DOMAIN files /\ id # lastPath
    <3>1. /\ id \in DOMAIN files => id \in DOMAIN files' /\ files'[id] = files[id]
          /\ id \in DOMAIN old => id \in DOMAIN old' /\ old'[id] = old[id]
      BY <1>6, <2>4 DEF RenameToOld, WithFile, WithoutFile
    <3> QED
      BY <3>1
  <2> QED
    BY <2>1, <2>2, <2>3, <2>4
<1>7. CASE EmbedOld(t)
  <2>1. CASE id # reportID[t] \/ UNCHANGED files
    <3>1. /\ id \in DOMAIN files => id \in DOMAIN files' /\ files'[id] = files[id]
          /\ old' = old
      BY <1>7, <2>1 DEF EmbedOld
    <3> QED
      BY <3>1
  <2>2. CASE id = reportID[t] /\ files' # files
    <3>1. id = lastPath
      BY <1>7, <2>2 DEF EmbedOld, At, RecrashFits
    <3>2. ~files[id].saved /\ id \in DOMAIN old /\ old' = old
      BY <1>7, <2>2 DEF EmbedOld, At, RecrashFits
    <3> QED
      BY <3>2
  <2> QED
    BY <2>1, <2>2
<1>8. CASE RemoveOld(t)
  <2>1. ~Torn /\ reportID[t] = lastPath
    <3>1. Running(t) /\ pc[t] = "unlink"
      BY <1>8 DEF RemoveOld, At
    <3>2. ~Overtaken(t)
      BY <3>1, OvertakenDoesNotRun
    <3> QED
      BY <3>1, <3>2 DEF RecrashFits
  <2>2. files' = files /\ old' = WithoutFile(old, lastPath)
    BY <1>8, <2>1 DEF RemoveOld
  <2>3. CASE id = lastPath
    BY <2>1, <2>2, <2>3 DEF Torn
  <2>4. CASE id # lastPath
    BY <2>2, <2>4 DEF WithoutFile
  <2> QED
    BY <2>3, <2>4
<1> QED
  BY <1>1, <1>2, <1>3, <1>4, <1>5, <1>6, <1>7, <1>8, StepsOfStore DEF StoreStep

(* For any number of threads, crashes and crashes of handlers: a finished   *)
(* report stays in its file, in the ".old" file or in the recrash report,   *)
(* unless a further recrash replaces the ".old" file                        *)
(* (crasheecrashreport_writeRecrashReport).                                 *)
THEOREM ReportsAreKept == OrderlyReports /\ Spec => ReportsKept
<1> SUFFICES ASSUME OrderlyReports PROVE Spec => ReportsKept
  OBVIOUS
<1>1. CaptureInv /\ ContextInv /\ KeptInv /\ [Next]_vars => [NothingLost]_vars
  <2> SUFFICES ASSUME CaptureInv, ContextInv, KeptInv, NEW t \in Threads,
                      Environment(t) \/ Progress(t)
               PROVE  NothingLost
    BY DEF Next
  <2>1. OrderInv
    BY DEF OrderInv, ApartInv, ContextInv, OrderlyReports, KeptInv
  <2> QED
    BY <2>1, StepKeeps DEF OrderlyReports
<1> QED
  BY <1>1, CaptureInvariant, ContextInvariant, KeptInvariant, PTL
     DEF Spec, ReportsKept, NothingLost
=============================================================================
