-------------------------- MODULE CachedData_proofs --------------------------
(***************************************************************************)
(* What holds of the cache of thread names for any number of threads, of   *)
(* handlers and of updates.                                                *)
(*                                                                         *)
(* The inductive invariant says, for every point of an update, which       *)
(* tables are the old ones and which the new ones, what the counts are,    *)
(* and exactly what is allocated.  The properties follow from it.          *)
(***************************************************************************)
EXTENDS CachedData, FiniteSetTheorems, TLAPS

Last == Len(made)
Quiet == {"poll", "list", "sleep"}
Swapping == {"clamp", "swap", "count"}

(* The kinds before the one that has been reached are done.                 *)
Swapped(k) ==
    \/ step \in Quiet \cup {"count", "free"}
    \/ step = "swap" /\ k < at

TablesInv ==
    /\ step \notin Quiet => Last > 0
    /\ step = "count" => at = 1
    /\ \A k \in 1 .. 4 :
         /\ table[k] = IF Swapped(k) THEN Last ELSE Last - 1
         /\ step \notin Quiet /\ Swapped(k) => old[k] = Last - 1

CountInv ==
    /\ step \in Quiet \cup {"free"} => count = Length(Last)
    /\ step = "clamp" => count = Length(Last - 1)
    /\ step \in {"swap", "count"} => count = Smaller(Length(Last - 1), Length(Last))
    /\ step \notin Quiet => oldCount = Length(Last - 1)

(* The update n's table of kind k has been made and not yet freed.          *)
Alive(k, n) ==
    /\ n > 0
    /\ \/ n = Last
       \/ n = Last - 1 /\ (step \in Swapping \/ (step = "free" /\ at <= k))

Piece(k, n, i) ==
    \/ i = 0
    \/ Kinds[k] \in Names /\ i \in 1 .. Length(n)

LiveInv ==
    \A k \in 1 .. 4, n \in Nat, i \in Nat :
        <<k, n, i>> \in live <=> Alive(k, n) /\ Piece(k, n, i)

LookupInv ==
    \A h \in Suspending :
        /\ pc[h] \in {"bound", "compare", "take"} => look[h].i > 0
        /\ pc[h] \in {"compare", "take"} => look[h].i <= count
        /\ pc[h] = "use" =>
             \E i \in 1 .. count : look[h].got = <<look[h].of, table[look[h].of], i>>

SemaphoreInv == semaphore = Cardinality(Holders)

CacheInv == TypeOK /\ TablesInv /\ CountInv /\ LiveInv
IInv == CacheInv /\ LookupInv

LEMMA InitInv == Init => IInv
<1> SUFFICES ASSUME Init PROVE IInv
  OBVIOUS
<1>1. made = <<>> /\ Last = 0
  BY DEF Init, Last
<1>2. TypeOK
  <2>1. made \in Seq(Seq(Threads)) /\ Len(made) <= MaxUpdates
    BY <1>1, CachedDataAssumption DEF Init
  <2> QED
    BY <1>1, <2>1 DEF Init, TypeOK, NoTables, Frozen, Last
<1>3. TablesInv
  BY <1>1 DEF Init, TablesInv, Quiet, Swapped, NoTables
<1>4. CountInv
  BY <1>1 DEF Init, CountInv, Quiet, Length
<1>5. LiveInv
  BY <1>1 DEF Init, LiveInv, Alive, Swapping
<1>6. LookupInv
  BY CachedDataAssumption DEF Init, LookupInv
<1> QED
  BY <1>2, <1>3, <1>4, <1>5, <1>6 DEF IInv, CacheInv

(* A handler's step leaves the cache as it is.                              *)
LEMMA HandleCache ==
    ASSUME CacheInv, UNCHANGED cache,
           semaphore' \in Nat,
           pc' \in [Handlers -> {"away", "freeze", "done"} \cup Frozen],
           look' \in [Handlers -> [of : {3, 4}, i : Nat, got : (1 .. 4) \X Nat \X Nat]]
    PROVE  CacheInv'
<1>1. TypeOK'
  BY DEF CacheInv, TypeOK, cache, Frozen
<1>2. TablesInv' /\ CountInv'
  BY DEF CacheInv, TablesInv, CountInv, cache, Last, Swapped, Length
<1>3. LiveInv'
  BY DEF CacheInv, LiveInv, cache, Last, Alive, Piece, Length
<1> QED
  BY <1>1, <1>2, <1>3 DEF CacheInv

(* The lengths of the lists.                                                *)
LEMMA LengthType ==
    ASSUME TypeOK
    PROVE  /\ Last \in Nat
           /\ \A n \in 0 .. Last : Length(n) \in Nat
<1>1. Last \in Nat /\ made \in Seq(Seq(Threads))
  BY DEF TypeOK, Last
<1>2. ASSUME NEW n \in 0 .. Last, n # 0 PROVE Len(made[n]) \in Nat
  <2>1. made[n] \in Seq(Threads)
    BY <1>1, <1>2 DEF Last
  <2> QED
    BY <2>1
<1> QED
  BY <1>1, <1>2 DEF Length

(* Steps that only move the cache thread between updates, or fail.          *)
LEMMA QuietStep ==
    ASSUME CacheInv, Poll \/ ListFails \/ Wake, UNCHANGED <<semaphore, pc, look>>
    PROVE  CacheInv'
<1>1. /\ step \in Quiet /\ step' \in Quiet
      /\ UNCHANGED <<at, made, table, old, count, oldCount, live>>
  BY DEF Poll, ListFails, Wake, Quiet
<1>2. TypeOK'
  BY <1>1 DEF CacheInv, TypeOK, Quiet, Frozen
<1>3. TablesInv' /\ CountInv'
  BY <1>1 DEF CacheInv, TablesInv, CountInv, Last, Swapped, Length, Quiet
<1>4. LiveInv'
  <2>1. \A k, n : Alive(k, n) <=> Alive(k, n)'
    BY <1>1 DEF Alive, Last, Quiet, Swapping
  <2>2. \A k, n, i : Piece(k, n, i) <=> Piece(k, n, i)'
    BY <1>1 DEF Piece, Length
  <2> QED
    BY <1>1, <2>1, <2>2 DEF CacheInv, LiveInv
<1> QED
  BY <1>2, <1>3, <1>4 DEF CacheInv

(* The kinds of table that hold strings, and what they consist of.          *)
LEMMA Pieces ==
    ASSUME NEW k \in 1 .. 4, NEW n \in Nat, NEW len \in Nat, NEW l, NEW m, NEW i
    PROVE  <<l, m, i>> \in Table(k, n) \cup Strings(k, n, len)
              <=> l = k /\ m = n /\ (i = 0 \/ (Kinds[k] \in Names /\ i \in 1 .. len))
BY DEF Table, Strings

LEMMA ListStep ==
    ASSUME CacheInv, ListThreads, UNCHANGED <<semaphore, pc, look>>
    PROVE  CacheInv'
<1> USE DEF CacheInv
<1>1. PICK list \in ThreadLists :
        /\ made' = Append(made, list)
        /\ live' = live \cup UNION {Table(k, Len(made) + 1)
                      \cup Strings(k, Len(made) + 1, Len(list)) : k \in 1 .. 4}
  BY DEF ListThreads
<1>2. /\ step = "list" /\ step' = "clamp" /\ oldCount' = count
      /\ UNCHANGED <<at, table, old, count>> /\ Len(made) < MaxUpdates
  BY DEF ListThreads
<1>3. list \in Seq(Threads) /\ Len(list) \in Nat
  BY CachedDataAssumption
<1>4. /\ made' \in Seq(Seq(Threads)) /\ Last \in Nat /\ Last' = Last + 1
      /\ made'[Last + 1] = list /\ \A n \in 1 .. Last : made'[n] = made[n]
  BY <1>1, <1>3 DEF TypeOK, Last
<1>5. Length(Last)' = Len(list) /\ \A n \in 0 .. Last : Length(n)' = Length(n)
  BY <1>4 DEF Length
<1>6. \A l, m, i : <<l, m, i>> \in live' <=>
        \/ <<l, m, i>> \in live
        \/ l \in 1 .. 4 /\ m = Last + 1 /\ (i = 0 \/ (Kinds[l] \in Names /\ i \in 1 .. Len(list)))
  <2>1. ASSUME NEW l, NEW m, NEW i
        PROVE  (\E k \in 1 .. 4 : <<l, m, i>> \in Table(k, Last + 1) \cup Strings(k, Last + 1, Len(list)))
                 <=> l \in 1 .. 4 /\ m = Last + 1
                        /\ (i = 0 \/ (Kinds[l] \in Names /\ i \in 1 .. Len(list)))
    BY <1>3, <1>4, Pieces
  <2> SUFFICES ASSUME NEW l, NEW m, NEW i
               PROVE  <<l, m, i>> \in live' <=>
                        \/ <<l, m, i>> \in live
                        \/ \E k \in 1 .. 4 : <<l, m, i>> \in Table(k, Last + 1)
                                             \cup Strings(k, Last + 1, Len(list))
    BY <2>1
  <2> QED
    BY <1>1 DEF Last
<1>7. TypeOK'
  <2>1. live' \subseteq (1 .. 4) \X Nat \X Nat
    <3> SUFFICES ASSUME NEW x \in live' PROVE x \in (1 .. 4) \X Nat \X Nat
      OBVIOUS
    <3>1. CASE x \in live
      BY <3>1 DEF TypeOK
    <3>2. CASE \E k \in 1 .. 4 : x \in Table(k, Last + 1) \cup Strings(k, Last + 1, Len(list))
      <4>1. PICK k \in 1 .. 4 : x \in Table(k, Last + 1) \cup Strings(k, Last + 1, Len(list))
        BY <3>2
      <4> QED
        BY <4>1, <1>3, <1>4 DEF Table, Strings
    <3> QED
      BY <1>1, <3>1, <3>2 DEF Last
  <2>2. table' \in [1 .. 4 -> 0 .. Len(made')] /\ old' \in [1 .. 4 -> 0 .. Len(made')]
    BY <1>2, <1>4 DEF TypeOK, Last
  <2> QED
    BY <1>2, <1>4, <2>1, <2>2, CachedDataAssumption DEF TypeOK, Last, Frozen
<1>8. TablesInv'
  BY <1>2, <1>4 DEF TablesInv, Swapped, Quiet
<1>9. CountInv'
  BY <1>2, <1>4, <1>5 DEF CountInv, Quiet
<1>10. LiveInv'
  <2> SUFFICES ASSUME NEW k \in 1 .. 4, NEW n \in Nat, NEW i \in Nat
               PROVE  <<k, n, i>> \in live' <=> Alive(k, n)' /\ Piece(k, n, i)'
    BY DEF LiveInv
  <2>1. Alive(k, n)' <=> n > 0 /\ (n = Last + 1 \/ n = Last)
    BY <1>2, <1>4 DEF Alive, Swapping
  <2>2. Alive(k, n) <=> n > 0 /\ n = Last
    BY <1>2, <1>4 DEF Alive, Swapping
  <2>3. <<k, n, i>> \in live <=> n > 0 /\ n = Last /\ Piece(k, n, i)
    BY <2>2 DEF LiveInv
  <2>4. CASE n = Last + 1
    <3>1. Length(n)' = Len(list)
      BY <1>4, <1>5, <2>4
    <3> QED
      BY <1>4, <1>6, <2>1, <2>3, <2>4, <3>1 DEF Piece
  <2>5. CASE n # Last + 1
    <3>1. CASE n = Last
      <4>1. Length(n)' = Length(n)
        BY <1>4, <1>5, <3>1
      <4> QED
        BY <1>4, <1>6, <2>1, <2>3, <2>5, <3>1, <4>1 DEF Piece
    <3>2. CASE n # Last
      BY <1>4, <1>6, <2>1, <2>3, <2>5, <3>2
    <3> QED
      BY <3>1, <3>2
  <2> QED
    BY <2>4, <2>5
<1> QED
  BY <1>7, <1>8, <1>9, <1>10

(* A step that makes and frees nothing leaves every piece where it was.     *)
LEMMA SameLive ==
    ASSUME LiveInv, UNCHANGED <<made, live>>,
           \A k \in 1 .. 4, n \in Nat : Alive(k, n) <=> Alive(k, n)'
    PROVE  LiveInv'
<1>1. \A k, n, i : Piece(k, n, i) <=> Piece(k, n, i)'
  BY DEF Piece, Length
<1> QED
  BY <1>1 DEF LiveInv

LEMMA ClampStep ==
    ASSUME CacheInv, ClampCount, UNCHANGED <<semaphore, pc, look>>
    PROVE  CacheInv'
<1> USE DEF CacheInv
<1>1. /\ step = "clamp" /\ step' = "swap" /\ at' = 1
      /\ count' = Smaller(count, Length(Last))
      /\ UNCHANGED <<made, table, old, oldCount, live>>
  BY DEF ClampCount, Last
<1>2. Last \in Nat /\ Last > 0 /\ Length(Last) \in Nat /\ Last' = Last
  BY <1>1, LengthType DEF TablesInv, Quiet, Last
<1>3. TypeOK'
  BY <1>1, <1>2 DEF TypeOK, Smaller, Frozen
<1>4. TablesInv'
  BY <1>1, <1>2 DEF TablesInv, Swapped, Quiet
<1>5. CountInv'
  BY <1>1, <1>2 DEF CountInv, Quiet, Length
<1>6. LiveInv'
  BY <1>1, <1>2, SameLive DEF Alive, Swapping
<1> QED
  BY <1>3, <1>4, <1>5, <1>6

LEMMA SwapStep ==
    ASSUME CacheInv, SwapTable, UNCHANGED <<semaphore, pc, look>>
    PROVE  CacheInv'
<1> USE DEF CacheInv
<1>1. /\ step = "swap"
      /\ old' = [old EXCEPT ![at] = table[at]]
      /\ table' = [table EXCEPT ![at] = Last]
      /\ at < 4 => at' = at + 1 /\ step' = "swap"
      /\ ~(at < 4) => at' = 1 /\ step' = "count"
      /\ UNCHANGED <<made, count, oldCount, live>>
  BY DEF SwapTable, Last
<1>2. /\ Last \in Nat /\ Last > 0 /\ Last' = Last
      /\ at \in 1 .. 4 /\ table[at] \in 0 .. Last
      /\ table \in [1 .. 4 -> 0 .. Last] /\ old \in [1 .. 4 -> 0 .. Last]
  BY <1>1, LengthType DEF TablesInv, Quiet, TypeOK, Last
<1>3. TypeOK'
  <2>1. table' \in [1 .. 4 -> 0 .. Last] /\ old' \in [1 .. 4 -> 0 .. Last]
    BY <1>1, <1>2
  <2>2. at' \in 1 .. 4 /\ step' \in {"swap", "count"}
    BY <1>1, <1>2
  <2> QED
    BY <1>1, <1>2, <2>1, <2>2 DEF TypeOK, Frozen, Last
<1>4. TablesInv'
  <2> SUFFICES ASSUME NEW k \in 1 .. 4
               PROVE  /\ table'[k] = IF Swapped(k)' THEN Last ELSE Last - 1
                      /\ Swapped(k)' => old'[k] = Last - 1
    BY <1>1, <1>2 DEF TablesInv, Quiet
  <2>1. Swapped(k)' <=> k <= at
    BY <1>1, <1>2 DEF Swapped, Quiet
  <2>2. Swapped(k) <=> k < at
    BY <1>1, <1>2 DEF Swapped, Quiet
  <2>3. /\ table[k] = IF k < at THEN Last ELSE Last - 1
        /\ k < at => old[k] = Last - 1
    BY <1>1, <2>2 DEF TablesInv, Quiet
  <2> QED
    BY <1>1, <1>2, <2>1, <2>3
<1>5. CountInv'
  BY <1>1, <1>2 DEF CountInv, Quiet, Length
<1>6. LiveInv'
  BY <1>1, <1>2, SameLive DEF Alive, Swapping
<1> QED
  BY <1>3, <1>4, <1>5, <1>6

LEMMA CountStep ==
    ASSUME CacheInv, SetCount, UNCHANGED <<semaphore, pc, look>>
    PROVE  CacheInv'
<1> USE DEF CacheInv
<1>1. /\ step = "count" /\ step' = "free" /\ count' = Length(Last)
      /\ UNCHANGED <<at, made, table, old, oldCount, live>>
  BY DEF SetCount, Last
<1>2. Last \in Nat /\ Last > 0 /\ Length(Last) \in Nat /\ Last' = Last
  BY <1>1, LengthType DEF TablesInv, Quiet, Last
<1>3. TypeOK'
  BY <1>1, <1>2 DEF TypeOK, Frozen
<1>4. TablesInv'
  BY <1>1, <1>2 DEF TablesInv, Swapped, Quiet
<1>5. CountInv'
  BY <1>1, <1>2 DEF CountInv, Quiet, Length
<1>6. LiveInv'
  <2>1. at = 1
    BY <1>1 DEF TablesInv
  <2> QED
    BY <1>1, <1>2, <2>1, SameLive DEF Alive, Swapping
<1> QED
  BY <1>3, <1>4, <1>5, <1>6

LEMMA FreeStep ==
    ASSUME CacheInv, FreeTable, UNCHANGED <<semaphore, pc, look>>
    PROVE  CacheInv'
<1> USE DEF CacheInv
<1>1. /\ step = "free"
      /\ live' = live \ (Table(at, old[at]) \cup Strings(at, old[at], oldCount))
      /\ at < 4 => at' = at + 1 /\ step' = "free"
      /\ ~(at < 4) => at' = 1 /\ step' = "sleep"
      /\ UNCHANGED <<made, table, old, count, oldCount>>
  BY DEF FreeTable
<1>2. /\ Last \in Nat /\ Last > 0 /\ Last' = Last /\ at \in 1 .. 4
      /\ oldCount = Length(Last - 1) /\ Length(Last - 1) \in Nat
      /\ old[at] = Last - 1
  <2>1. Last > 0 /\ at \in 1 .. 4 /\ old[at] = Last - 1 /\ oldCount = Length(Last - 1)
    BY <1>1 DEF TablesInv, CountInv, Swapped, Quiet, TypeOK
  <2>2. Last \in Nat /\ \A n \in 0 .. Last : Length(n) \in Nat
    BY LengthType
  <2> QED
    BY <1>1, <2>1, <2>2 DEF Last
<1>3. TypeOK'
  <2>1. at' \in 1 .. 4 /\ step' \in {"free", "sleep"}
    BY <1>1, <1>2
  <2>2. live' \subseteq (1 .. 4) \X Nat \X Nat
    <3>1. live' \subseteq live
      BY <1>1
    <3> QED
      BY <3>1 DEF TypeOK
  <2> QED
    BY <1>1, <1>2, <2>1, <2>2 DEF TypeOK, Frozen
<1>4. TablesInv'
  BY <1>1, <1>2 DEF TablesInv, Swapped, Quiet
<1>5. CountInv'
  BY <1>1, <1>2 DEF CountInv, Quiet, Length
<1>6. LiveInv'
  <2> SUFFICES ASSUME NEW k \in 1 .. 4, NEW n \in Nat, NEW i \in Nat
               PROVE  <<k, n, i>> \in live' <=> Alive(k, n)' /\ Piece(k, n, i)'
    BY DEF LiveInv
  <2>1. <<k, n, i>> \in live <=> Alive(k, n) /\ Piece(k, n, i)
    BY DEF LiveInv
  <2>2. Piece(k, n, i)' <=> Piece(k, n, i)
    BY <1>1 DEF Piece, Length
  <2>3. Alive(k, n)' <=> Alive(k, n) /\ ~(k = at /\ n = Last - 1)
    BY <1>1, <1>2 DEF Alive, Swapping
  <2>4. <<k, n, i>> \in Table(at, Last - 1) \cup Strings(at, Last - 1, Length(Last - 1))
          <=> k = at /\ n = Last - 1 /\ Piece(k, n, i)
    BY <1>2, Pieces DEF Piece
  <2> QED
    BY <1>1, <1>2, <2>1, <2>2, <2>3, <2>4
<1> QED
  BY <1>3, <1>4, <1>5, <1>6

(* What a lookup may rely on wherever the update has come to.               *)
LEMMA Bounds ==
    ASSUME CacheInv
    PROVE  /\ CountFits
           /\ \A k \in 1 .. 4, i \in 1 .. count :
                /\ Readable(k, i)
                /\ k \in {3, 4} => <<k, table[k], i>> \in live
<1> USE DEF CacheInv
<1>1. /\ Last \in Nat /\ count \in Nat
      /\ \A n \in 0 .. Last : Length(n) \in Nat
      /\ \A k \in 1 .. 4 : table[k] \in 0 .. Last
  BY LengthType DEF TypeOK, Last
<1>2. step \notin Quiet => Last - 1 \in 0 .. Last
  BY <1>1 DEF TablesInv
<1>3. ASSUME NEW k \in 1 .. 4
      PROVE  /\ count <= Length(table[k])
             /\ table[k] > 0 => Alive(k, table[k])
  <2>1. table[k] = IF Swapped(k) THEN Last ELSE Last - 1
    BY DEF TablesInv
  <2>2. CASE Swapped(k)
    <3>1. step # "clamp"
      BY <2>2 DEF Swapped, Quiet
    <3>2. step \in {"poll", "list", "sleep", "free", "swap", "count"}
      BY <3>1 DEF TypeOK
    <3>3. count <= Length(Last)
      BY <1>1, <1>2, <3>2 DEF CountInv, Quiet, Smaller
    <3> QED
      BY <2>1, <2>2, <3>3 DEF Alive
  <2>3. CASE ~Swapped(k)
    <3>1. step \in Swapping /\ step # "count"
      BY <2>3 DEF Swapped, Quiet, TypeOK, Swapping
    <3>2. count <= Length(Last - 1)
      BY <1>1, <1>2, <3>1 DEF CountInv, Quiet, Smaller, Swapping
    <3> QED
      BY <2>1, <2>3, <3>1, <3>2 DEF Alive
  <2> QED
    BY <2>2, <2>3
<1>4. ASSUME NEW k \in 1 .. 4, NEW i \in 1 .. count
      PROVE  /\ Readable(k, i)
             /\ k \in {3, 4} => <<k, table[k], i>> \in live
  <2>1. i <= Length(table[k])
    BY <1>1, <1>3
  <2>2. table[k] # 0
    BY <1>1, <2>1 DEF Length
  <2>3. Alive(k, table[k]) /\ table[k] \in Nat
    BY <1>1, <1>3, <2>2
  <2>4. <<k, table[k], 0>> \in live
    BY <2>3 DEF LiveInv, Piece
  <2>5. k \in {3, 4} => Piece(k, table[k], i)
    BY <1>1, <2>1 DEF Piece, Kinds, Names
  <2> QED
    BY <1>1, <2>1, <2>3, <2>4, <2>5 DEF LiveInv, Readable
<1> QED
  BY <1>3, <1>4 DEF CountFits

-----------------------------------------------------------------------------
LEMMA RefreshInv == ASSUME IInv, Refresh PROVE IInv'
<1>1. UNCHANGED <<semaphore, pc, look>>
  BY DEF Refresh
<1>2. CacheInv'
  BY <1>1, QuietStep, ListStep, ClampStep, SwapStep, CountStep, FreeStep DEF Refresh, IInv
<1>3. LookupInv'
  <2> SUFFICES ASSUME NEW h \in Suspending PROVE pc'[h] \in {"away", "done"}
    BY DEF LookupInv
  <2> QED
    BY <1>1 DEF Refresh, Reporting
<1> QED
  BY <1>2, <1>3 DEF IInv

(* What every step of a handler does.                                       *)
LEMMA HandleType ==
    ASSUME TypeOK, NEW h \in Handlers, Handle(h)
    PROVE  /\ UNCHANGED cache
           /\ semaphore' \in Nat
           /\ pc' \in [Handlers -> {"away", "freeze", "done"} \cup Frozen]
           /\ look' \in [Handlers -> [of : {3, 4}, i : Nat, got : (1 .. 4) \X Nat \X Nat]]
           /\ \A g \in Handlers \ {h} : pc'[g] = pc[g] /\ look'[g] = look[g]
<1> DEFINE L == [of : {3, 4}, i : Nat, got : (1 .. 4) \X Nat \X Nat]
<1>1. UNCHANGED cache
  BY DEF Handle
<1>2. /\ semaphore \in Nat /\ look \in [Handlers -> L]
      /\ pc \in [Handlers -> {"away", "freeze", "done"} \cup Frozen]
      /\ look[h] \in L
  BY DEF TypeOK
<1>3. CASE Enter(h) \/ Freeze(h) \/ Bound(h) \/ Use(h) \/ Unfreeze(h)
  BY <1>1, <1>2, <1>3 DEF Enter, Freeze, Bound, Use, Unfreeze, Goto, Frozen
<1>4. CASE Ask(h)
  <2>1. PICK k \in {3, 4} :
          /\ look' = [look EXCEPT ![h].of = k, ![h].i = 1]
          /\ Goto(h, "test", IF table[k] = 0 THEN "unfreeze" ELSE "bound")
          /\ semaphore' = semaphore
    BY <1>4 DEF Ask
  <2> DEFINE r == [look[h] EXCEPT !.of = k, !.i = 1]
  <2>2. look' \in [Handlers -> L] /\ \A g \in Handlers \ {h} : look'[g] = look[g]
    <3>1. r \in L
      BY <1>2
    <3>2. look' = [look EXCEPT ![h] = r]
      BY <2>1
    <3> HIDE DEF r, L
    <3> QED
      BY <1>2, <3>1, <3>2
  <2> QED
    BY <1>1, <1>2, <2>1, <2>2 DEF Goto, Frozen
<1>5. CASE Compare(h)
  <2>1. /\ semaphore' = semaphore
        /\ look' = look \/ look' = [look EXCEPT ![h].i = look[h].i + 1]
        /\ Goto(h, "compare", "take") \/ Goto(h, "compare", "bound")
    BY <1>5 DEF Compare
  <2> DEFINE r == [look[h] EXCEPT !.i = look[h].i + 1]
  <2>2. look' \in [Handlers -> L] /\ \A g \in Handlers \ {h} : look'[g] = look[g]
    <3>1. r \in L
      BY <1>2
    <3>2. look' = look \/ look' = [look EXCEPT ![h] = r]
      BY <2>1
    <3> HIDE DEF r, L
    <3> QED
      BY <1>2, <3>1, <3>2
  <2> QED
    BY <1>1, <1>2, <2>1, <2>2 DEF Goto, Frozen
<1>6. CASE Take(h)
  <2>1. /\ semaphore' = semaphore /\ Goto(h, "take", "use")
        /\ look' = [look EXCEPT ![h].got = <<look[h].of, table[look[h].of], look[h].i>>]
    BY <1>6 DEF Take
  <2>2. table[look[h].of] \in Nat
    BY <1>2 DEF TypeOK
  <2> DEFINE r == [look[h] EXCEPT !.got = <<look[h].of, table[look[h].of], look[h].i>>]
  <2>3. look' \in [Handlers -> L] /\ \A g \in Handlers \ {h} : look'[g] = look[g]
    <3>1. r \in L
      BY <1>2, <2>2
    <3>2. look' = [look EXCEPT ![h] = r]
      BY <2>1
    <3> HIDE DEF r, L
    <3> QED
      BY <1>2, <3>1, <3>2
  <2> QED
    BY <1>1, <1>2, <2>1, <2>3 DEF Goto, Frozen
<1> QED
  BY <1>3, <1>4, <1>5, <1>6 DEF Handle

(* The lookup of a handler that has stopped the cache thread.               *)
LEMMA HandleLookup ==
    ASSUME IInv, NEW h \in Handlers, Handle(h)
    PROVE  LookupInv'
<1>1. /\ UNCHANGED <<table, count>> /\ count \in Nat
      /\ \A g \in Handlers \ {h} : pc'[g] = pc[g] /\ look'[g] = look[g]
      /\ pc \in [Handlers -> {"away", "freeze", "done"} \cup Frozen]
      /\ look \in [Handlers -> [of : {3, 4}, i : Nat, got : (1 .. 4) \X Nat \X Nat]]
  BY HandleType DEF IInv, CacheInv, TypeOK, cache
<1> SUFFICES ASSUME NEW g \in Suspending
             PROVE  /\ pc'[g] \in {"bound", "compare", "take"} => look'[g].i > 0
                    /\ pc'[g] \in {"compare", "take"} => look'[g].i <= count
                    /\ pc'[g] = "use" =>
                         \E i \in 1 .. count : look'[g].got = <<look'[g].of, table[look'[g].of], i>>
  BY <1>1 DEF LookupInv
<1>2. g \in Handlers
  BY CachedDataAssumption
<1>3. /\ pc[g] \in {"bound", "compare", "take"} => look[g].i > 0
      /\ pc[g] \in {"compare", "take"} => look[g].i <= count
      /\ pc[g] = "use" =>
           \E i \in 1 .. count : look[g].got = <<look[g].of, table[look[g].of], i>>
  BY DEF IInv, LookupInv
<1>4. CASE g # h
  BY <1>1, <1>2, <1>3, <1>4
<1>5. CASE g = h
  <2>1. CASE Enter(h) \/ Freeze(h) \/ Use(h) \/ Unfreeze(h)
    BY <1>1, <1>2, <1>5, <2>1 DEF Enter, Freeze, Use, Unfreeze, Goto
  <2>2. CASE Ask(h)
    BY <1>1, <1>2, <1>5, <2>2 DEF Ask, Goto
  <2>3. CASE Bound(h)
    BY <1>1, <1>2, <1>3, <1>5, <2>3 DEF Bound, Goto
  <2>4. CASE Compare(h)
    BY <1>1, <1>2, <1>3, <1>5, <2>4 DEF Compare, Goto
  <2>5. CASE Take(h)
    <3>1. /\ look'[g].got = <<look[g].of, table[look[g].of], look[g].i>>
          /\ look'[g].of = look[g].of /\ pc'[g] = "use" /\ pc[g] = "take"
      BY <1>1, <1>2, <1>5, <2>5 DEF Take, Goto
    <3>2. look[g].i \in 1 .. count
      BY <1>1, <1>2, <1>3, <3>1
    <3> QED
      BY <3>1, <3>2
  <2> QED
    BY <2>1, <2>2, <2>3, <2>4, <2>5 DEF Handle
<1> QED
  BY <1>4, <1>5

LEMMA NextInv == ASSUME IInv, [Next]_vars PROVE IInv'
<1>1. CASE Refresh
  BY <1>1, RefreshInv
<1>2. ASSUME NEW h \in Handlers, Handle(h) PROVE IInv'
  BY <1>2, HandleType, HandleCache, HandleLookup DEF IInv, CacheInv
<1>3. CASE UNCHANGED vars
  <2>1. UNCHANGED cache /\ UNCHANGED <<semaphore, pc, look>>
    BY <1>3 DEF vars, cache
  <2>2. CacheInv'
    BY <2>1, HandleCache DEF IInv, CacheInv, TypeOK
  <2>3. LookupInv'
    BY <2>1 DEF IInv, LookupInv, cache
  <2> QED
    BY <2>2, <2>3 DEF IInv
<1> QED
  BY <1>1, <1>2, <1>3 DEF Next

LEMMA Invariance == Spec => []IInv
<1>1. Init => IInv
  BY InitInv
<1>2. IInv /\ [Next]_vars => IInv'
  BY NextInv
<1> QED
  BY <1>1, <1>2, PTL DEF Spec

(* The variables keep their types: no table is indexed by an update that    *)
(* has not been made, and the semaphore is never negative.                  *)
THEOREM CachedTypeOK == Spec => []TypeOK
<1>1. IInv => TypeOK
  BY DEF IInv, CacheInv
<1> QED
  BY <1>1, Invariance, PTL

(* At every point of an update the published count fits every table.        *)
THEOREM CountAlwaysFits == Spec => []CountFits
<1>1. IInv => CountFits
  BY Bounds DEF IInv
<1> QED
  BY <1>1, Invariance, PTL

(* A handler that has stopped the others reads what is allocated, wherever  *)
(* it has caught the cache thread.                                          *)
THEOREM LookupsAreSafe == Spec => []SafeLookup
<1>1. IInv => SafeLookup
  <2> SUFFICES ASSUME IInv, NEW h \in Suspending
               PROVE  /\ pc[h] = "compare" => Readable(1, look[h].i)
                      /\ pc[h] = "take" => Readable(look[h].of, look[h].i)
                      /\ pc[h] = "use" => look[h].got \in live
    BY DEF SafeLookup
  <2>1. look[h].i \in Nat /\ look[h].of \in {3, 4} /\ count \in Nat
    BY CachedDataAssumption DEF IInv, CacheInv, TypeOK
  <2>2. pc[h] \in {"compare", "take"} => look[h].i \in 1 .. count
    BY <2>1 DEF IInv, LookupInv
  <2>3. \A k \in 1 .. 4, i \in 1 .. count :
          Readable(k, i) /\ (k \in {3, 4} => <<k, table[k], i>> \in live)
    BY Bounds DEF IInv
  <2>4. pc[h] = "use" => \E i \in 1 .. count : look[h].got = <<look[h].of, table[look[h].of], i>>
    BY DEF IInv, LookupInv
  <2>5. pc[h] = "compare" => Readable(1, look[h].i)
    BY <2>2, <2>3
  <2>6. ASSUME pc[h] = "take" PROVE Readable(look[h].of, look[h].i)
    <3>1. look[h].of \in 1 .. 4 /\ look[h].i \in 1 .. count
      BY <2>1, <2>2, <2>6
    <3> QED
      BY <2>3, <3>1
  <2>7. ASSUME pc[h] = "use" PROVE look[h].got \in live
    <3>1. PICK i \in 1 .. count : look[h].got = <<look[h].of, table[look[h].of], i>>
      BY <2>4, <2>7
    <3>2. look[h].of \in 1 .. 4 /\ look[h].of \in {3, 4}
      BY <2>1
    <3>3. <<look[h].of, table[look[h].of], i>> \in live
      BY <2>3, <3>2
    <3> QED
      BY <3>1, <3>3
  <2> QED
    BY <2>5, <2>6, <2>7
<1> QED
  BY <1>1, Invariance, PTL

(* Between two updates the current tables and names are allocated, and      *)
(* nothing else: no update leaks, and none frees what is still in use.      *)
THEOREM NothingEverLeaks == Spec => []NothingLeaks
<1>1. IInv => NothingLeaks
  <2> SUFFICES ASSUME IInv, step \in Quiet PROVE live = Current
    BY DEF NothingLeaks, Quiet
  <2> USE DEF IInv, CacheInv
  <2>1. Last \in Nat /\ Length(Last) \in Nat /\ \A k \in 1 .. 4 : table[k] = Last
    BY LengthType DEF TablesInv, Swapped
  <2>2. ASSUME NEW k \in 1 .. 4, NEW n \in Nat, NEW i \in Nat
        PROVE  <<k, n, i>> \in live <=> n > 0 /\ n = Last /\ Piece(k, n, i)
    BY DEF LiveInv, Alive, Quiet, Swapping
  <2>3. ASSUME NEW l, NEW m, NEW i
        PROVE  <<l, m, i>> \in Current <=>
                 l \in 1 .. 4 /\ Last # 0 /\ m = Last /\ Piece(l, Last, i)
    BY <2>1, Pieces DEF Current, Piece
  <2>4. live \subseteq (1 .. 4) \X Nat \X Nat
    BY DEF TypeOK
  <2>5. Current \subseteq (1 .. 4) \X Nat \X Nat
    <3> SUFFICES ASSUME NEW k \in 1 .. 4, table[k] # 0
                 PROVE  Table(k, table[k]) \cup Strings(k, table[k], Length(table[k]))
                          \subseteq (1 .. 4) \X Nat \X Nat
      BY DEF Current
    <3> QED
      BY <2>1 DEF Table, Strings
  <2>6. ASSUME NEW k \in 1 .. 4, NEW n \in Nat, NEW i \in Nat
        PROVE  <<k, n, i>> \in live <=> <<k, n, i>> \in Current
    BY <2>1, <2>2, <2>3
  <2> QED
    BY <2>4, <2>5, <2>6
<1> QED
  BY <1>1, Invariance, PTL

-----------------------------------------------------------------------------
(* The semaphore, which is what freeze means, for finitely many handlers.   *)

LEMMA SemaphoreStep ==
    ASSUME IsFiniteSet(Handlers), IInv, SemaphoreInv, [Next]_vars
    PROVE  SemaphoreInv'
<1>1. IsFiniteSet(Holders) /\ Holders \subseteq Handlers
  BY FS_Subset DEF Holders
<1>2. CASE UNCHANGED <<semaphore, pc>>
  BY <1>2 DEF SemaphoreInv, Holders
<1>3. ASSUME NEW h \in Handlers, Handle(h), ~UNCHANGED <<semaphore, pc>> PROVE SemaphoreInv'
  <2>1. /\ semaphore \in Nat /\ pc \in [Handlers -> {"away", "freeze", "done"} \cup Frozen]
    BY DEF IInv, CacheInv, TypeOK
  <2>2. CASE Freeze(h)
    <3>1. h \notin Holders /\ Holders' = Holders \cup {h} /\ semaphore' = semaphore + 1
      BY <2>1, <2>2 DEF Freeze, Goto, Holders, Frozen
    <3> QED
      BY <1>1, <3>1, FS_AddElement DEF SemaphoreInv
  <2>3. CASE Unfreeze(h)
    <3>1. h \in Holders /\ Holders' = Holders \ {h}
      BY <2>1, <2>3 DEF Unfreeze, Goto, Holders, Frozen
    <3>2. Cardinality(Holders') = Cardinality(Holders) - 1
      BY <1>1, <3>1, FS_RemoveElement
    <3>3. Cardinality(Holders') \in Nat
      BY <1>1, <3>1, FS_Subset, FS_CardinalityType
    <3> QED
      BY <2>1, <2>3, <3>2, <3>3 DEF Unfreeze, SemaphoreInv
  <2>4. CASE Enter(h) \/ Ask(h) \/ Bound(h) \/ Compare(h) \/ Take(h) \/ Use(h)
    <3>1. semaphore' = semaphore
      BY <2>4 DEF Enter, Ask, Bound, Compare, Take, Use
    <3>2. \A g \in Handlers : pc'[g] \in Frozen <=> pc[g] \in Frozen
      <4>1. \/ Goto(h, "away", "freeze")
            \/ \E from, to \in Frozen : Goto(h, from, to)
        BY <2>4 DEF Enter, Ask, Bound, Compare, Take, Use, Frozen, Goto
      <4> QED
        BY <2>1, <4>1 DEF Goto, Frozen
    <3> QED
      BY <3>1, <3>2 DEF SemaphoreInv, Holders
  <2> QED
    BY <1>3, <2>2, <2>3, <2>4 DEF Handle
<1> QED
  BY <1>2, <1>3 DEF Next, Refresh, vars

(* No update begins while a handler holds the cache, of any finite number   *)
(* of handlers that overlap.                                                *)
THEOREM FreezeAlwaysHolds == IsFiniteSet(Handlers) /\ Spec => FreezeHolds
<1> SUFFICES ASSUME IsFiniteSet(Handlers) PROVE Spec => FreezeHolds
  OBVIOUS
<1>1. Init => SemaphoreInv
  <2>1. ASSUME Init PROVE Holders = {}
    BY <2>1 DEF Init, Holders, Frozen
  <2> QED
    BY <2>1, FS_EmptySet DEF Init, SemaphoreInv
<1>2. IInv /\ SemaphoreInv /\ [Next]_vars => SemaphoreInv'
  BY SemaphoreStep
<1>3. IInv /\ SemaphoreInv /\ [Next]_vars
        => [step = "poll" /\ step' = "list" => Holders = {}]_vars
  <2> SUFFICES ASSUME IInv, SemaphoreInv, [Next]_vars, step = "poll", step' = "list"
               PROVE  Holders = {}
    OBVIOUS
  <2>1. semaphore <= 0
    BY DEF Next, Refresh, Poll, ListThreads, ListFails, ClampCount, SwapTable, SetCount,
           FreeTable, Wake, Handle, cache, vars
  <2>2. semaphore = 0
    BY <2>1 DEF IInv, CacheInv, TypeOK
  <2>3. IsFiniteSet(Holders)
    BY FS_Subset DEF Holders
  <2> QED
    BY <2>2, <2>3, FS_EmptySet DEF SemaphoreInv
<1> QED
  BY <1>1, <1>2, <1>3, Invariance, PTL DEF Spec, FreezeHolds
=============================================================================
