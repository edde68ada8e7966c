------------------------- MODULE ReportWriter_proofs -------------------------
(* Proofs about ReportWriter, for any heap, images, monitor contexts, search *)
(* depth and length of the buffer. The inductive invariant WriterInv bounds  *)
(* the level of the encoder by what the calls to come can lead to, and says  *)
(* that a report's text is as deep as its encoder; OldKept says what a       *)
(* recrash report has done with as much of the old one as can be read back;  *)
(* OutlineInv says what the report and the calls to come have at its root    *)
(* and in its crash section, while the user's text has not spoiled it.       *)
EXTENDS ReportWriter, WellFoundedInduction, FiniteSetTheorems, SequenceTheorems, TLAPS

------------------------------------------------------------------------------
(* Sequences.                                                                *)

(* Induction over the numbers, for a set of them.                            *)
LEMMA SetInduction ==
    ASSUME NEW S \in SUBSET Nat, 0 \in S, \A n \in S : n + 1 \in S
    PROVE  S = Nat
<1> SUFFICES ASSUME Nat \ S # {} PROVE FALSE
  OBVIOUS
<1> DEFINE Below(n) == 0 .. (n - 1)
           T == {Below(n) : n \in Nat \ S}
<1>1. IsWellFoundedOn(StrictSubsetOrdering(Nat), FiniteSubsetsOf(Nat))
  BY FS_StrictSubsetOrderingWellFounded
<1>2. T # {} /\ T \subseteq FiniteSubsetsOf(Nat)
  <2>1. \A n \in Nat : Below(n) \in FiniteSubsetsOf(Nat)
    <3> TAKE n \in Nat
    <3>1. IsFiniteSet(Below(n))
      BY FS_Interval
    <3>2. Below(n) \subseteq Nat
      OBVIOUS
    <3> QED
      BY <3>1, <3>2 DEF FiniteSubsetsOf
  <2> QED
    BY <2>1
<1>3. PICK b \in T : \A c \in T : ~(<<c, b>> \in StrictSubsetOrdering(Nat))
  BY <1>1, <1>2, WFMin
<1>3a. PICK x \in Nat \ S : b = Below(x)
  BY <1>3
<1> HIDE DEF T
<1>4. x # 0 /\ x - 1 \in Nat /\ x - 1 < x
  OBVIOUS
<1>5. CASE x - 1 \in S
  BY <1>4, <1>5
<1>6. CASE x - 1 \notin S
  <2>1. Below(x - 1) \in T
   BY <1>4, <1>6 DEF T
  <2>2. Below(x - 1) \subseteq Below(x) /\ x - 1 \in Below(x) /\ x - 1 \notin Below(x - 1)
   BY <1>4
  <2>3. <<Below(x - 1), Below(x)>> \in StrictSubsetOrdering(Nat)
   BY <2>2 DEF StrictSubsetOrdering
  <2> QED
   BY <2>1, <2>3, <1>3, <1>3a
<1> QED
  BY <1>5, <1>6

(* Of some numbers one is the least.                                         *)
LEMMA Least ==
    ASSUME NEW S \in SUBSET Nat, S # {}
    PROVE  \E n \in S : \A m \in S : n <= m
<1> SUFFICES ASSUME \A n \in S : \E m \in S : ~(n <= m) PROVE FALSE
  OBVIOUS
<1> DEFINE T == {n \in Nat : \A m \in 0 .. n : m \notin S}
<1>1. 0 \in T
  OBVIOUS
<1>2. \A n \in T : n + 1 \in T
  OBVIOUS
<1>3. T \in SUBSET Nat
  OBVIOUS
<1> HIDE DEF T
<1>4. T = Nat
  BY <1>1, <1>2, <1>3, SetInduction
<1>5. PICK n \in S : TRUE
  OBVIOUS
<1>6. n \in T /\ n \in 0 .. n
  BY <1>4
<1> QED
  BY <1>5, <1>6 DEF T

(* FlattenSeq keeps a set of sequences that has the empty one and is closed  *)
(* under concatenation.                                                      *)
LEMMA FlattenClosed ==
    ASSUME NEW T, NEW P \in SUBSET Seq(T), <<>> \in P, \A s, t \in P : s \o t \in P,
           NEW seqs \in Seq(P)
    PROVE  FlattenSeq(seqs) \in P
<1> DEFINE n == Len(seqs)
           Fits(g, i) == g[i] = IF i = 1 THEN seqs[i] ELSE g[i - 1] \o seqs[i]
           Step(f) == [i \in 1 .. n |-> IF i = 1 THEN seqs[i] ELSE f[i - 1] \o seqs[i]]
           Until(k) == \E g \in [1 .. k -> P] : \A i \in 1 .. k : Fits(g, i)
           Upto == {k \in Nat : k <= n => Until(k)}
           f == CHOOSE f : f = Step(f)
<1>0. n \in Nat /\ \A i \in 1 .. n : seqs[i] \in P
  OBVIOUS
<1>1. CASE n = 0
  <2>1. seqs = <<>>
    BY <1>1
  <2> QED
    BY <1>1, <2>1 DEF FlattenSeq
<1>2. CASE n # 0
  <2> HIDE DEF n
  <2>1. 0 \in Upto
    <3>1. [i \in 1 .. 0 |-> <<>>] \in [1 .. 0 -> P]
      OBVIOUS
    <3>2. \A i \in 1 .. 0 : FALSE
      OBVIOUS
    <3> QED
      BY <3>1, <3>2
  <2>2. ASSUME NEW k \in Upto PROVE k + 1 \in Upto
    <3>0. k \in Nat /\ (k <= n => Until(k))
      OBVIOUS
    <3> HIDE DEF Until
    <3> SUFFICES ASSUME k + 1 <= n PROVE Until(k + 1)
      BY <3>0
    <3>a. k <= n
      BY <1>0, <3>0
    <3> USE DEF Until
    <3> HIDE DEF Fits
    <3>1. PICK g \in [1 .. k -> P] : \A i \in 1 .. k : Fits(g, i)
      BY <3>0, <3>a
    <3> DEFINE last == IF k + 1 = 1 THEN seqs[k + 1] ELSE g[k] \o seqs[k + 1]
               h == [i \in 1 .. k + 1 |-> IF i <= k THEN g[i] ELSE last]
    <3>2. last \in P
      <4>1. seqs[k + 1] \in P
        BY <1>0, <3>0
      <4>2. k # 0 => g[k] \in P
        BY <3>0
      <4> QED
        BY <3>0, <4>1, <4>2
    <3>3. h \in [1 .. k + 1 -> P]
      BY <3>0, <3>2
    <3>4. ASSUME NEW i \in 1 .. k + 1 PROVE Fits(h, i)
      <4>1. CASE i <= k
        <5>1. i \in 1 .. k
          BY <3>0, <4>1
        <5>2. Fits(g, i)
          BY <3>1, <5>1
        <5>3. h[i] = g[i] /\ (i # 1 => h[i - 1] = g[i - 1])
          BY <3>0, <5>1
        <5> QED
          BY <5>2, <5>3 DEF Fits
      <4>2. CASE i = k + 1
        BY <3>0, <4>2 DEF Fits
      <4> QED
        BY <3>0, <4>1, <4>2
    <3> HIDE DEF h
    <3> QED
      BY <3>3, <3>4
  <2>3. Upto \in SUBSET Nat
    OBVIOUS
  <2> HIDE DEF Upto
  <2>4. Upto = Nat
    BY <2>1, <2>2, <2>3, SetInduction
  <2>5. n \in Upto
    BY <1>0, <2>4
  <2>6. PICK g \in [1 .. n -> P] : \A i \in 1 .. n : Fits(g, i)
    BY <1>0, <2>5 DEF Upto
  <2>7. g = Step(g)
    BY <2>6 DEF Fits
  <2>8. f = Step(f)
    BY <2>7
  <2>9. FlattenSeq(seqs) = f[n]
    BY <1>2 DEF FlattenSeq, n
  <2> HIDE DEF f
  <2> DEFINE In == {k \in Nat : k <= n /\ k # 0 => f[k] \in P}
  <2>10. 0 \in In /\ In \in SUBSET Nat
    OBVIOUS
  <2>11. ASSUME NEW k \in In PROVE k + 1 \in In
    <3>0. k \in Nat /\ (k <= n /\ k # 0 => f[k] \in P)
      OBVIOUS
    <3> SUFFICES ASSUME k + 1 <= n PROVE f[k + 1] \in P
      BY <3>0
    <3>1. k + 1 \in 1 .. n /\ (k + 1) - 1 = k
      BY <1>0, <3>0
    <3>2. f[k + 1] = IF k + 1 = 1 THEN seqs[k + 1] ELSE f[(k + 1) - 1] \o seqs[k + 1]
      BY <2>8, <3>1
    <3>3. k # 0 => f[k] \in P
      BY <1>0, <3>0
    <3>4. seqs[k + 1] \in P
      BY <1>0, <3>1
    <3> QED
      BY <3>0, <3>1, <3>2, <3>3, <3>4
  <2> HIDE DEF In
  <2>12. In = Nat
    BY <2>10, <2>11, SetInduction
  <2>13. n \in In
    BY <1>0, <2>12
  <2> QED
    BY <1>0, <1>2, <2>9, <2>13 DEF In
<1> QED
  BY <1>1, <1>2

------------------------------------------------------------------------------
(* Levels and limits of calls.                                               *)

(* The names that a report has, and those that classes give their ivars.     *)
Names ==
    STRING \cup
    {"report", "version", "id", "process_name", "timestamp", "type", "",
     "image_addr", "image_vmaddr", "image_size", "name", "uuid", "cpu_type",
     "cpu_subtype", "major_version", "minor_version", "revision_version",
     "binary_images", "process", "last_dealloced_nsexception", "address", "reason",
     "referenced_object", "memory", "size", "usable", "free", "application_stats",
     "application_active", "application_in_foreground",
     "launches_since_last_crash", "sessions_since_last_crash",
     "active_time_since_last_crash", "background_time_since_last_crash",
     "sessions_since_launch", "active_time_since_launch",
     "background_time_since_launch", "system", "system_name", "system_version",
     "machine", "model", "kernel_version", "os_version", "jailbroken", "boot_time",
     "app_start_time", "CFBundleExecutablePath", "CFBundleExecutable",
     "CFBundleIdentifier", "CFBundleName", "CFBundleVersion",
     "CFBundleShortVersionString", "app_uuid", "cpu_arch", "binary_cpu_type",
     "binary_cpu_subtype", "time_zone", "process_id", "parent_process_id",
     "device_app_hash", "build_type", "storage", "cpp_exception", "nsexception",
     "userInfo", "user", "user_reported", "language", "line_of_code", "backtrace",
     "error", "mach", "exception", "exception_name", "code", "code_name",
     "subcode", "signal", "object_name", "object_addr", "symbol_name",
     "symbol_addr", "instruction_addr", "contents", "skipped", "registers",
     "basic", "pc", "sp", "lr", "esr", "far", "fsr", "trapno",
     "err", "faultvaddr", "stack", "grow_direction",
     "dump_start", "dump_end", "stack_pointer", "overflow", "notable",
     "notable_addresses", "index", "crashed", "current_thread", "threads", "root",
     "crash", "custom", "debug", "console_log", "crashed_thread", "recrash_report",
     "json_data", "any", "object", "value", "class", "first_object", "ivars",
     "tagged_payload"}

(* The words that registers, stacks and ivars hold, and those that are       *)
(* objects.                                                                  *)
Words == STRING \cup {Heap[p].ivars[i] : p \in DOMAIN Heap, i \in Nat}
Objects == {p \in Words : ObjectType(p) = "Object"}

(* What a call of the report's writer is.                                    *)
CallType ==
    {<<"end">>, <<"flush">>, <<"limit">>, <<"user">>, <<"close">>, <<"embed">>, <<"remove">>}
    \cup ({"begin"} \X Names) \cup ({"fields"} \X Seq(Names))
    \cup ({"memory"} \X Names \X Words) \cup ({"contents", "ivars"} \X Objects)
    \cup ({"json"} \X Names \X Texts \X BOOLEAN)
    \cup ({"broken"} \X Names \X (0 .. Nesting) \X BOOLEAN)

(* The level and the limit of a memory address add up to no more than this.  *)
Deepest == SearchDepth + 5

(* By how much a call, and all that it leads to, raises the level.           *)
Rise(call) ==
    IF call[1] = "user" \/ (call[1] = "json" /\ ~call[4]) THEN Nesting
    ELSE IF call[1] = "begin" THEN 1 ELSE IF call[1] = "end" THEN -1 ELSE 0

(* A call that may be made at the level h and with the limit l, where the    *)
(* level is at most h2 and the limit at most l2 afterwards: a search starts  *)
(* no deeper than its limit allows, and a text for the encoder opens no more *)
(* containers than it has.                                                   *)
Covers(call, top, h, l, h2, l2) ==
    /\ h2 >= h + Rise(call) /\ l2 >= l
    /\ call[1] = "limit" => l2 >= SearchDepth
    /\ call[1] \in {"json", "user"} => h + Nesting < top
    /\ call[1] = "broken" => /\ call[3] \in Nat /\ h + call[3] <= top
                             /\ ~call[4] => h2 >= h + call[3]
    /\ call[1] = "memory" => h <= Deepest /\ h + l <= Deepest
    /\ call[1] = "contents" => h <= Deepest + 1 /\ (l > 0 => h + l <= Deepest)
    /\ call[1] = "ivars" => h < Deepest /\ h + l <= Deepest
    /\ call[1] = "embed" => h <= 1 /\ h2 >= 1

(* Ceilings h and l of the level and the limit before and after each call.   *)
Ceilings(s, top, h, l) ==
    /\ h \in [0 .. Len(s) -> 0 .. top] /\ l \in [0 .. Len(s) -> Int]
    /\ \A i \in 1 .. Len(s) : Covers(s[i], top, h[i - 1], l[i - 1], h[i], l[i])

(* Calls that may be made one after the other from the level h0 and the      *)
(* limit l0 on, and that lead to h1 and l1 at most.                          *)
Bounded(s, top, h0, l0, h1, l1) ==
    \E h, l :
        /\ Ceilings(s, top, h, l)
        /\ h[0] >= h0 /\ l[0] >= l0
        /\ h[Len(s)] <= h1 /\ l[Len(s)] <= l1

(* The depths are numbers.                                                   *)
LEMMA DeepestInt ==
    SearchDepth \in Nat /\ Deepest \in Nat /\ Nesting \in Nat /\ 1 <= Nesting
  BY WriterAssumption DEF Deepest

(* So is the rise of any call.                                               *)
LEMMA RiseInt == \A call : Rise(call) \in Int
  BY DeepestInt DEF Rise

(* A call may be made at a lower level and with a lower limit.               *)
LEMMA CoversLess ==
    ASSUME NEW call, NEW top \in Nat, NEW h \in Int, NEW l \in Int, NEW h2 \in Int, NEW l2 \in Int,
           Covers(call, top, h, l, h2, l2),
           NEW g \in Int, NEW k \in Int, g <= h, k <= l
    PROVE  Covers(call, top, g, k, h2, l2)
<1>1. Rise(call) \in Int
  BY RiseInt
<1> QED
  BY <1>1, DeepestInt DEF Covers

(* No calls at all.                                                          *)
LEMMA BoundedNone ==
    ASSUME NEW top \in Nat, NEW h0 \in 0 .. top, NEW l0 \in Int,
           NEW h1 \in Int, NEW l1 \in Int, h0 <= h1, l0 <= l1
    PROVE  Bounded(<<>>, top, h0, l0, h1, l1)
<1> DEFINE h == [i \in 0 .. 0 |-> h0]
           l == [i \in 0 .. 0 |-> l0]
<1>1. Len(<<>>) = 0
  OBVIOUS
<1>2. Ceilings(<<>>, top, h, l)
  BY <1>1 DEF Ceilings
<1>3. h[0] = h0 /\ l[0] = l0
  OBVIOUS
<1> HIDE DEF h, l
<1> QED
  BY <1>1, <1>2, <1>3 DEF Bounded

(* One call.                                                                 *)
LEMMA BoundedOne ==
    ASSUME NEW top \in Nat, NEW h0 \in 0 .. top, NEW l0 \in Int,
           NEW h1 \in 0 .. top, NEW l1 \in Int, NEW call \in CallType,
           Covers(call, top, h0, l0, h1, l1)
    PROVE  Bounded(<<call>>, top, h0, l0, h1, l1)
<1> DEFINE h == [i \in 0 .. 1 |-> IF i = 0 THEN h0 ELSE h1]
           l == [i \in 0 .. 1 |-> IF i = 0 THEN l0 ELSE l1]
<1>1. Len(<<call>>) = 1 /\ <<call>>[1] = call
  OBVIOUS
<1>3. h[0] = h0 /\ l[0] = l0 /\ h[1] = h1 /\ l[1] = l1
  OBVIOUS
<1>4. h \in [0 .. 1 -> 0 .. top] /\ l \in [0 .. 1 -> Int]
  OBVIOUS
<1> HIDE DEF h, l
<1>2. Ceilings(<<call>>, top, h, l)
  BY <1>1, <1>3, <1>4 DEF Ceilings
<1> QED
  BY <1>1, <1>2, <1>3 DEF Bounded

(* Calls after calls.                                                        *)
LEMMA BoundedConcat ==
    ASSUME NEW top \in Nat, NEW s \in Seq(CallType), NEW t \in Seq(CallType),
           NEW h0 \in Int, NEW l0 \in Int, NEW h1 \in Int, NEW l1 \in Int,
           NEW h2 \in Int, NEW l2 \in Int,
           Bounded(s, top, h0, l0, h1, l1), Bounded(t, top, h1, l1, h2, l2)
    PROVE  Bounded(s \o t, top, h0, l0, h2, l2)
<1>1. PICK hs, ls : /\ Ceilings(s, top, hs, ls)
                    /\ hs[0] >= h0 /\ ls[0] >= l0
                    /\ hs[Len(s)] <= h1 /\ ls[Len(s)] <= l1
  BY DEF Bounded
<1>2. PICK ht, lt : /\ Ceilings(t, top, ht, lt)
                    /\ ht[0] >= h1 /\ lt[0] >= l1
                    /\ ht[Len(t)] <= h2 /\ lt[Len(t)] <= l2
  BY DEF Bounded
<1> DEFINE m == Len(s)
           n == Len(t)
           h == [i \in 0 .. m + n |-> IF i <= m THEN hs[i] ELSE ht[i - m]]
           l == [i \in 0 .. m + n |-> IF i <= m THEN ls[i] ELSE lt[i - m]]
<1>3. m \in Nat /\ n \in Nat
  OBVIOUS
<1>4. /\ hs \in [0 .. m -> 0 .. top] /\ ls \in [0 .. m -> Int]
      /\ ht \in [0 .. n -> 0 .. top] /\ lt \in [0 .. n -> Int]
  BY <1>1, <1>2 DEF Ceilings
<1>4a. /\ hs[m] \in Int /\ ls[m] \in Int /\ ht[0] \in Int /\ lt[0] \in Int
  <2>1. m \in 0 .. m /\ 0 \in 0 .. n
    BY <1>3
  <2> HIDE DEF m, n
  <2>2. hs[m] \in 0 .. top /\ ls[m] \in Int /\ ht[0] \in 0 .. top /\ lt[0] \in Int
    BY <1>4, <2>1
  <2> QED
    BY <2>2
<1>4b. hs[m] <= ht[0] /\ ls[m] <= lt[0]
  BY <1>1, <1>2, <1>4a
<1>5. /\ s \o t \in Seq(CallType) /\ Len(s \o t) = m + n
      /\ \A i \in 1 .. m + n : (s \o t)[i] = IF i <= m THEN s[i] ELSE t[i - m]
  BY ConcatProperties
<1>6. h \in [0 .. m + n -> 0 .. top] /\ l \in [0 .. m + n -> Int]
  <2> HIDE DEF m, n
  <2>1. ASSUME NEW i \in 0 .. m + n
        PROVE  /\ (IF i <= m THEN hs[i] ELSE ht[i - m]) \in 0 .. top
               /\ (IF i <= m THEN ls[i] ELSE lt[i - m]) \in Int
    <3>1. CASE i <= m
      <4>1. i \in 0 .. m
        BY <1>3, <3>1
      <4> QED
        BY <1>4, <3>1, <4>1
    <3>2. CASE ~(i <= m)
      <4>1. i - m \in 0 .. n
        BY <1>3, <3>2
      <4> QED
        BY <1>4, <3>2, <4>1
    <3> QED
      BY <3>1, <3>2
  <2> QED
    BY <2>1
<1>7. ASSUME NEW i \in 1 .. m + n
      PROVE  Covers((s \o t)[i], top, h[i - 1], l[i - 1], h[i], l[i])
  <2>1. CASE i <= m
    <3>1. h[i - 1] = hs[i - 1] /\ l[i - 1] = ls[i - 1] /\ h[i] = hs[i] /\ l[i] = ls[i]
      BY <1>3, <2>1
    <3>2. (s \o t)[i] = s[i] /\ i \in 1 .. Len(s)
      BY <1>3, <1>5, <2>1
    <3> QED
      BY <1>1, <3>1, <3>2 DEF Ceilings
  <2>2. CASE i = m + 1
    <3>1. h[i - 1] = hs[m] /\ l[i - 1] = ls[m] /\ h[i] = ht[1] /\ l[i] = lt[1] /\ 1 \in 1 .. n
      BY <1>3, <2>2
    <3>2. (s \o t)[i] = t[1]
      BY <1>3, <1>5, <2>2
    <3>3. Covers(t[1], top, ht[1 - 1], lt[1 - 1], ht[1], lt[1])
      BY <1>2, <3>1 DEF Ceilings
    <3>5. ht[1] \in Int /\ lt[1] \in Int
      <4>1. ht[1] \in 0 .. top /\ lt[1] \in Int
        <5>1. 1 \in 0 .. n
          BY <3>1
        <5> HIDE DEF m, n, h, l
        <5> QED
          BY <1>4, <5>1
      <4> QED
        BY <4>1
    <3>6. Covers(t[1], top, hs[m], ls[m], ht[1], lt[1])
      <4>1. 1 - 1 = 0
        OBVIOUS
      <4>2. Covers(t[1], top, ht[0], lt[0], ht[1], lt[1])
        BY <3>3, <4>1
      <4> QED
        BY <1>4a, <1>4b, <3>5, <4>2, CoversLess
    <3> QED
      BY <3>1, <3>2, <3>6
  <2>3. CASE i > m + 1
    <3>1. /\ h[i - 1] = ht[(i - m) - 1] /\ l[i - 1] = lt[(i - m) - 1]
          /\ h[i] = ht[i - m] /\ l[i] = lt[i - m]
      BY <1>3, <2>3
    <3>2. (s \o t)[i] = t[i - m] /\ i - m \in 1 .. Len(t)
      BY <1>3, <1>5, <2>3
    <3> QED
      BY <1>2, <3>1, <3>2 DEF Ceilings
  <2> QED
    BY <1>3, <2>1, <2>2, <2>3
<1>8. h[0] = hs[0] /\ l[0] = ls[0]
  BY <1>3
<1>9. h[m + n] <= h2 /\ l[m + n] <= l2
  <2>1. CASE n = 0
    <3>1. h[m + n] = hs[m] /\ l[m + n] = ls[m]
      BY <1>3, <2>1
    <3>2. ht[0] <= h2 /\ lt[0] <= l2
      BY <1>2, <2>1
    <3> HIDE DEF m, n, h, l
    <3> QED
      BY <1>4a, <1>4b, <3>1, <3>2
  <2>2. CASE n # 0
    <3>1. h[m + n] = ht[n] /\ l[m + n] = lt[n]
      BY <1>3, <2>2
    <3> QED
      BY <1>2, <3>1
  <2> QED
    BY <2>1, <2>2
<1> HIDE DEF h, l
<1>10. Ceilings(s \o t, top, h, l)
  BY <1>5, <1>6, <1>7 DEF Ceilings
<1> QED
  BY <1>1, <1>5, <1>8, <1>9, <1>10 DEF Bounded

(* The first call, and those after it from where it leads.                   *)
LEMMA BoundedTail ==
    ASSUME NEW top \in Nat, NEW s \in Seq(CallType), s # <<>>,
           NEW h0 \in Int, NEW l0 \in Int, NEW h1 \in Int, NEW l1 \in Int,
           Bounded(s, top, h0, l0, h1, l1)
    PROVE  \E h \in 0 .. top, l \in Int :
               /\ Covers(Head(s), top, h0, l0, h, l)
               /\ Bounded(Tail(s), top, h, l, h1, l1)
<1>1. PICK hs, ls : /\ Ceilings(s, top, hs, ls)
                    /\ hs[0] >= h0 /\ ls[0] >= l0
                    /\ hs[Len(s)] <= h1 /\ ls[Len(s)] <= l1
  BY DEF Bounded
<1>2. /\ Head(s) = s[1] /\ Tail(s) \in Seq(CallType) /\ Len(Tail(s)) = Len(s) - 1
      /\ Len(s) \in Nat /\ Len(s) > 0
      /\ \A i \in 1 .. Len(Tail(s)) : Tail(s)[i] = s[i + 1]
  BY HeadTailProperties, LenProperties, EmptySeq
<1>3. hs \in [0 .. Len(s) -> 0 .. top] /\ ls \in [0 .. Len(s) -> Int]
  BY <1>1 DEF Ceilings
<1>4. hs[0] \in Int /\ ls[0] \in Int /\ hs[1] \in 0 .. top /\ ls[1] \in Int
  <2>1. 0 \in 0 .. Len(s) /\ 1 \in 0 .. Len(s)
    BY <1>2
  <2>2. hs[0] \in 0 .. top /\ hs[1] \in 0 .. top
    BY <1>3, <2>1
  <2>3. ls[0] \in Int /\ ls[1] \in Int
    BY <1>3, <2>1
  <2> QED
    BY <2>2, <2>3
<1>5. Covers(s[1], top, hs[1 - 1], ls[1 - 1], hs[1], ls[1])
  BY <1>1, <1>2 DEF Ceilings
<1>6. Covers(s[1], top, h0, l0, hs[1], ls[1])
  BY <1>1, <1>4, <1>5, CoversLess
<1> DEFINE n == Len(s) - 1
           h == [i \in 0 .. n |-> hs[i + 1]]
           l == [i \in 0 .. n |-> ls[i + 1]]
<1>7. h \in [0 .. n -> 0 .. top] /\ l \in [0 .. n -> Int]
  BY <1>2, <1>3
<1>8. ASSUME NEW i \in 1 .. n
      PROVE  Covers(Tail(s)[i], top, h[i - 1], l[i - 1], h[i], l[i])
  <2>1. /\ h[i - 1] = hs[(i + 1) - 1] /\ l[i - 1] = ls[(i + 1) - 1]
        /\ h[i] = hs[i + 1] /\ l[i] = ls[i + 1]
    BY <1>2
  <2>2. i + 1 \in 1 .. Len(s) /\ Tail(s)[i] = s[i + 1]
    BY <1>2
  <2> QED
    BY <1>1, <2>1, <2>2 DEF Ceilings
<1>9. h[0] = hs[1] /\ l[0] = ls[1] /\ h[n] = hs[Len(s)] /\ l[n] = ls[Len(s)]
  BY <1>2
<1> HIDE DEF h, l
<1>10. Ceilings(Tail(s), top, h, l)
  BY <1>2, <1>7, <1>8 DEF Ceilings
<1>11. Bounded(Tail(s), top, hs[1], ls[1], h1, l1)
  BY <1>1, <1>2, <1>4, <1>9, <1>10 DEF Bounded
<1> QED
  BY <1>2, <1>4, <1>6, <1>11

------------------------------------------------------------------------------
(* Calls that stay within a level.                                           *)

(* The calls that begin and end at level h, with any limit that a search may *)
(* have.                                                                     *)
Within(top, h) ==
    {s \in Seq(CallType) : Bounded(s, top, h, SearchDepth, h, SearchDepth)}

(* No calls at all.                                                          *)
LEMMA WithinNone ==
    ASSUME NEW top \in Nat, NEW h \in 0 .. top
    PROVE  <<>> \in Within(top, h)
<1>1. <<>> \in Seq(CallType)
  OBVIOUS
<1>2. h \in Int /\ SearchDepth \in Int
  BY DeepestInt
<1>3. h <= h /\ SearchDepth <= SearchDepth
  BY <1>2
<1>4. Bounded(<<>>, top, h, SearchDepth, h, SearchDepth)
  BY <1>2, <1>3, BoundedNone
<1> QED
  BY <1>1, <1>4 DEF Within

(* Calls after calls.                                                        *)
LEMMA WithinConcat ==
    ASSUME NEW top \in Nat, NEW h \in 0 .. top, NEW s \in Within(top, h), NEW t \in Within(top, h)
    PROVE  s \o t \in Within(top, h)
<1>1. s \in Seq(CallType) /\ t \in Seq(CallType) /\ s \o t \in Seq(CallType)
  BY DEF Within
<1>2. h \in Int /\ SearchDepth \in Int
  BY DeepestInt
<1>3. /\ Bounded(s, top, h, SearchDepth, h, SearchDepth)
      /\ Bounded(t, top, h, SearchDepth, h, SearchDepth)
  BY DEF Within
<1>4. Bounded(s \o t, top, h, SearchDepth, h, SearchDepth)
  BY <1>1, <1>2, <1>3, BoundedConcat
<1> QED
  BY <1>1, <1>4 DEF Within

(* One call.                                                                 *)
LEMMA WithinOne ==
    ASSUME NEW top \in Nat, NEW h \in 0 .. top, NEW call \in CallType,
           Covers(call, top, h, SearchDepth, h, SearchDepth)
    PROVE  <<call>> \in Within(top, h)
<1>1. <<call>> \in Seq(CallType)
  OBVIOUS
<1>2. h \in Int /\ SearchDepth \in Int
  BY DeepestInt
<1>4. Bounded(<<call>>, top, h, SearchDepth, h, SearchDepth)
  BY <1>2, BoundedOne
<1> QED
  BY <1>1, <1>4 DEF Within

(* Elements are added.                                                       *)
LEMMA WithinFields ==
    ASSUME NEW top \in Nat, NEW h \in 0 .. top, NEW names \in Seq(Names)
    PROVE  <<Fields(names)>> \in Within(top, h)
<1>1. Fields(names) \in CallType /\ Fields(names)[1] = "fields"
  BY DEF CallType, Fields
<1>2. Covers(Fields(names), top, h, SearchDepth, h, SearchDepth)
  BY <1>1, DeepestInt DEF Covers, Rise
<1> QED
  BY <1>1, <1>2, WithinOne

(* The buffer is flushed.                                                    *)
LEMMA WithinFlush ==
    ASSUME NEW top \in Nat, NEW h \in 0 .. top
    PROVE  Flush \in Within(top, h)
<1>1. <<"flush">> \in CallType /\ <<"flush">>[1] = "flush"
  BY DEF CallType
<1>2. Covers(<<"flush">>, top, h, SearchDepth, h, SearchDepth)
  BY <1>1, DeepestInt DEF Covers, Rise
<1> QED
  BY <1>1, <1>2, WithinOne DEF Flush

(* A new search, which may start at level 5 and above it.                    *)
LEMMA WithinSearch ==
    ASSUME NEW top \in Nat, NEW h \in 0 .. top, h <= 5, NEW key \in Names, NEW p \in Words
    PROVE  Search(key, p) \in Within(top, h)
<1>1. <<"limit">> \in CallType /\ <<"limit">>[1] = "limit"
  BY DEF CallType
<1>2. Memory(key, p) \in CallType /\ Memory(key, p)[1] = "memory"
  BY DEF CallType, Memory
<1>3. Covers(<<"limit">>, top, h, SearchDepth, h, SearchDepth)
  BY <1>1, DeepestInt DEF Covers, Rise
<1>4. Covers(Memory(key, p), top, h, SearchDepth, h, SearchDepth)
  BY <1>2, DeepestInt DEF Covers, Rise, Deepest
<1>5. <<<<"limit">>>> \in Within(top, h) /\ <<Memory(key, p)>> \in Within(top, h)
  BY <1>1, <1>2, <1>3, <1>4, WithinOne
<1>6. Search(key, p) = <<<<"limit">>>> \o <<Memory(key, p)>>
  BY DEF Search
<1> QED
  BY <1>5, <1>6, WithinConcat

(* A text whose container is closed.                                         *)
LEMMA WithinJSON ==
    ASSUME NEW top \in Nat, NEW h \in 0 .. top, h + Nesting < top,
           NEW key \in Names, NEW text \in Texts
    PROVE  <<<<"json", key, text, TRUE>>>> \in Within(top, h)
<1> DEFINE call == <<"json", key, text, TRUE>>
<1>1. call \in CallType /\ call[1] = "json" /\ call[4]
  BY DEF CallType
<1> HIDE DEF call
<1>2. Covers(call, top, h, SearchDepth, h, SearchDepth)
  BY <1>1, DeepestInt DEF Covers, Rise
<1>3. <<call>> \in Within(top, h)
  BY <1>1, <1>2, WithinOne
<1> QED
  BY <1>3 DEF call

(* A container is begun and ended.                                           *)
LEMMA BeginEnd ==
    ASSUME NEW key \in Names
    PROVE  /\ Begin(key) \in CallType /\ Begin(key)[1] = "begin" /\ Rise(Begin(key)) = 1
           /\ End \in CallType /\ End[1] = "end" /\ Rise(End) = -1
  BY DEF CallType, Begin, End, Rise

(* An object around calls that are bounded one level down.                   *)
LEMMA BoundedObject ==
    ASSUME NEW top \in Nat, NEW h \in 0 .. top, h < top, NEW l \in Int, NEW l2 \in Int,
           NEW key \in Names, NEW body \in Seq(CallType),
           Bounded(body, top, h + 1, l, h + 1, l2)
    PROVE  /\ Object(key, body) \in Seq(CallType)
           /\ Bounded(Object(key, body), top, h, l, h, l2)
<1>1. h + 1 \in 0 .. top /\ h \in Int /\ h + 1 \in Int
  OBVIOUS
<1>2. Covers(Begin(key), top, h, l, h + 1, l)
  BY BeginEnd DEF Covers
<1>3. Covers(End, top, h + 1, l2, h, l2)
  BY BeginEnd DEF Covers
<1>4. /\ Bounded(<<Begin(key)>>, top, h, l, h + 1, l)
      /\ Bounded(<<End>>, top, h + 1, l2, h, l2)
  BY <1>1, <1>2, <1>3, BeginEnd, BoundedOne
<1>5. /\ <<Begin(key)>> \in Seq(CallType) /\ <<End>> \in Seq(CallType)
      /\ <<Begin(key)>> \o body \in Seq(CallType)
  BY BeginEnd
<1>6. Bounded(<<Begin(key)>> \o body, top, h, l, h + 1, l2)
  BY <1>1, <1>4, <1>5, BoundedConcat
<1>7. Bounded((<<Begin(key)>> \o body) \o <<End>>, top, h, l, h, l2)
  BY <1>1, <1>4, <1>5, <1>6, BoundedConcat
<1>8. Object(key, body) = (<<Begin(key)>> \o body) \o <<End>>
  BY DEF Object
<1>9. (<<Begin(key)>> \o body) \o <<End>> \in Seq(CallType)
  BY <1>5, ConcatProperties
<1> QED
  BY <1>7, <1>8, <1>9

(* The same within a level.                                                  *)
LEMMA WithinObject ==
    ASSUME NEW top \in Nat, NEW h \in 0 .. top, h < top,
           NEW key \in Names, NEW body \in Within(top, h + 1)
    PROVE  Object(key, body) \in Within(top, h)
<1>1. SearchDepth \in Int /\ body \in Seq(CallType)
  BY DeepestInt DEF Within
<1>2. Bounded(body, top, h + 1, SearchDepth, h + 1, SearchDepth)
  BY DEF Within
<1>3. /\ Object(key, body) \in Seq(CallType)
      /\ Bounded(Object(key, body), top, h, SearchDepth, h, SearchDepth)
  BY <1>1, <1>2, BoundedObject
<1> QED
  BY <1>3 DEF Within

(* Calls that are made on a condition.                                       *)
LEMMA WithinWhen ==
    ASSUME NEW top \in Nat, NEW h \in 0 .. top, NEW condition, NEW s,
           condition => s \in Within(top, h)
    PROVE  When(condition, s) \in Within(top, h)
  BY WithinNone DEF When

(* Calls for each of several things.                                         *)
LEMMA WithinFlatten ==
    ASSUME NEW top \in Nat, NEW h \in 0 .. top, NEW seqs \in Seq(Within(top, h))
    PROVE  FlattenSeq(seqs) \in Within(top, h)
<1>1. Within(top, h) \in SUBSET Seq(CallType)
  BY DEF Within
<1> QED
  BY <1>1, WithinNone, WithinConcat, FlattenClosed

------------------------------------------------------------------------------
(* The sections of a report.                                                 *)

(* The frames of a stack are a sequence, wherever they come from.            *)
LEMMA FramesAreSequence ==
    ASSUME NEW c \in ContextType, NEW thread \in ThreadType
    PROVE  \E S : Walk(c, thread).frames \in Seq(S)
<1>1. \A cpu \in [pc : Nat, lr : Nat, fp : Nat] : \E S : Chain(cpu.fp) \in Seq(S)
  <2> TAKE cpu \in [pc : Nat, lr : Nat, fp : Nat]
  <2> DEFINE Previous(f) == IF f \in DOMAIN FrameMemory THEN FrameMemory[f].previous ELSE 0
             frame == CHOOSE frame : frame = [k \in 0 .. Threshold |->
                          IF k = 0 THEN cpu.fp ELSE Previous(frame[k - 1])]
             Good(k) == /\ frame[k - 1] \in DOMAIN FrameMemory
                        /\ FrameMemory[frame[k - 1]].previous # 0
                        /\ FrameMemory[frame[k - 1]].return # 0
             Reached(k) == \A j \in 1 .. k : Good(j)
             reached == {k \in 1 .. Threshold : Reached(k)}
             length == Cardinality(reached)
             chain == [k \in 1 .. length |-> FrameMemory[frame[k - 1]].return]
  <2>1. Chain(cpu.fp) = chain
    BY DEF Chain
  <2>2. IsFiniteSet(reached)
    <3>1. Threshold \in Nat
      BY CursorAssumption
    <3>2. IsFiniteSet(1 .. Threshold)
      BY <3>1, FS_Interval
    <3>3. reached \subseteq 1 .. Threshold
      OBVIOUS
    <3> HIDE DEF reached
    <3> QED
      BY <3>2, <3>3, FS_Subset
  <2> HIDE DEF reached
  <2>3. length \in Nat
    BY <2>2, FS_CardinalityType
  <2> HIDE DEF length, frame
  <2> DEFINE V == {FrameMemory[frame[k - 1]].return : k \in 1 .. length}
  <2>4. chain \in Seq(V)
    <3>1. \A k \in 1 .. length : FrameMemory[frame[k - 1]].return \in V
      OBVIOUS
    <3> HIDE DEF V
    <3>2. chain \in [1 .. length -> V]
      BY <3>1
    <3> HIDE DEF chain
    <3> QED
      BY <2>3, <3>2, SeqDef
  <2> QED
    BY <2>1, <2>4
<1>2. thread.cpu \in [pc : Nat, lr : Nat, fp : Nat]
  BY DEF ThreadType
<1>3. \E S : MachineContextFrames(thread.cpu).frames \in Seq(S)
  <2>1. PICK S : Chain(thread.cpu.fp) \in Seq(S)
    BY <1>1, <1>2
  <2> DEFINE U == S \cup Nat
             first == <<thread.cpu.pc>>
             second == IF thread.cpu.lr = 0 THEN <<>> ELSE <<thread.cpu.lr>>
             all == first \o second \o Chain(thread.cpu.fp)
             m == IF Len(all) < Threshold THEN Len(all) ELSE Threshold
  <2>2. first \in Seq(U) /\ second \in Seq(U)
    <3>1. thread.cpu.pc \in Nat /\ thread.cpu.lr \in Nat
      BY <1>2
    <3>2. thread.cpu.pc \in U /\ thread.cpu.lr \in U
      BY <3>1
    <3> HIDE DEF U
    <3> QED
      BY <3>2
  <2>3. Chain(thread.cpu.fp) \in Seq(U)
    BY <2>1, SeqMonotonic
  <2>4. all \in Seq(U)
    BY <2>2, <2>3, ConcatProperties
  <2>5. MachineContextFrames(thread.cpu).frames = SubSeq(all, 1, m)
    BY DEF MachineContextFrames
  <2>6. Threshold \in Nat
    BY CursorAssumption
  <2> HIDE DEF all, U
  <2>7. Len(all) \in Nat
    BY <2>4
  <2>8. m \in Nat /\ m <= Len(all)
    BY <2>6, <2>7
  <2> HIDE DEF m
  <2>9. \A i \in 1 .. m : all[i] \in U
    BY <2>4, <2>7, <2>8
  <2>10. SubSeq(all, 1, m) \in Seq(U)
    BY <2>8, <2>9, SubSeqProperties
  <2> QED
    BY <2>5, <2>10
<1>4. BacktraceFrames(c.backtrace, c.skipped).frames \in Seq(Nat)
  <2> DEFINE rest == SubSeq(c.backtrace, c.skipped + 1, Len(c.backtrace))
             ends == {i \in DOMAIN rest : rest[i] <= 1}
             end == CHOOSE i \in ends : \A j \in ends : i <= j
  <2>1. c.backtrace \in Seq(Nat) /\ c.skipped \in Nat
    BY DEF ContextType
  <2>2. rest \in Seq(Nat)
    BY <2>1, SubSeqProperties
  <2>3. BacktraceFrames(c.backtrace, c.skipped).frames
            = IF ends = {} THEN rest ELSE SubSeq(rest, 1, end - 1)
    BY DEF BacktraceFrames
  <2> HIDE DEF rest
  <2>4. CASE ends # {}
    <3>1. ends \subseteq 1 .. Len(rest) /\ Len(rest) \in Nat
      BY <2>2
    <3>1a. ends \in SUBSET Nat
      BY <3>1
    <3> HIDE DEF ends
    <3>2. \E i \in ends : \A j \in ends : i <= j
      BY <2>4, <3>1a, Least
    <3>3. end \in ends
      BY <3>2
    <3>4. end \in 1 .. Len(rest)
      BY <3>1, <3>3
    <3> HIDE DEF end
    <3>5. end - 1 \in Int /\ \A i \in 1 .. end - 1 : rest[i] \in Nat
      BY <2>2, <3>1, <3>4
    <3>6. SubSeq(rest, 1, end - 1) \in Seq(Nat)
      BY <3>5, SubSeqProperties
    <3> QED
      BY <2>3, <2>4, <3>6
  <2> QED
    BY <2>2, <2>3, <2>4
<1> QED
  BY <1>3, <1>4 DEF Walk

(* What Each puts in a row, for every element of a sequence.                 *)
LEMMA WithinEach ==
    ASSUME NEW top \in Nat, NEW h \in 0 .. top, NEW S, NEW s \in Seq(S), NEW f,
           f = [i \in DOMAIN s |-> f[i]], \A i \in DOMAIN s : f[i] \in Within(top, h)
    PROVE  FlattenSeq(f) \in Within(top, h)
<1>1. DOMAIN s = 1 .. Len(s) /\ Len(s) \in Nat
  OBVIOUS
<1>2. f \in [1 .. Len(s) -> Within(top, h)]
  BY <1>1
<1>3. f \in Seq(Within(top, h))
  BY <1>1, <1>2, SeqDef
<1> QED
  BY <1>3, WithinFlatten

(* An object whose body is within the level k below.                         *)
LEMMA WithinIn ==
    ASSUME NEW top \in Nat, NEW h \in 0 .. top, NEW k \in 0 .. top, k = h + 1,
           NEW key \in Names, NEW body \in Within(top, k)
    PROVE  Object(key, body) \in Within(top, h)
<1>1. h < top
  OBVIOUS
<1> QED
  BY <1>1, WithinObject

(* An object of nothing but elements.                                        *)
LEMMA WithinElements ==
    ASSUME NEW top \in Nat, NEW h \in 0 .. top, NEW k \in 0 .. top, k = h + 1,
           NEW key \in Names, NEW names \in Seq(Names)
    PROVE  Object(key, <<Fields(names)>>) \in Within(top, h)
<1>1. <<Fields(names)>> \in Within(top, k)
  BY WithinFields
<1> QED
  BY <1>1, WithinIn

(* writeReportInfo stays within its level.                                   *)
LEMMA WithinReportInfo ==
    ASSUME NEW top \in Nat, NEW h \in 0 .. top, h < top
    PROVE  WriteReportInfo \in Within(top, h)
<1>1. h + 1 \in 0 .. top
  OBVIOUS
<1>2. <<"version", "id", "process_name", "timestamp", "type">> \in Seq(Names)
      /\ "report" \in Names
  BY DEF Names
<1>3. Object("report", <<Fields(<<"version", "id", "process_name", "timestamp", "type">>)>>)
          \in Within(top, h)
  BY <1>1, <1>2, WithinElements
<1> QED
  BY <1>3 DEF WriteReportInfo

(* writeBinaryImages, which is two levels deep.                              *)
LEMMA WithinBinaryImages ==
    ASSUME NEW top \in Nat, 3 <= top
    PROVE  WriteBinaryImages \in Within(top, 1)
<1>0. 1 \in 0 .. top /\ 2 \in 0 .. top /\ 3 \in 0 .. top /\ 1 < top /\ 2 < top /\ 1 + 1 = 2 /\ 2 + 1 = 3
  OBVIOUS
<1>1. ASSUME NEW image PROVE WriteBinaryImage(image) \in Within(top, 2)
  <2> DEFINE names == <<"image_addr", "image_vmaddr", "image_size", "name", "uuid",
                        "cpu_type", "cpu_subtype", "major_version", "minor_version",
                        "revision_version">>
  <2>1. names \in Seq(Names) /\ "" \in Names
    BY DEF Names
  <2> HIDE DEF names
  <2>2. Object("", <<Fields(names)>>) \in Within(top, 2)
    BY <1>0, <2>1, WithinElements
  <2>3. When(image.header, Object("", <<Fields(names)>>)) \in Within(top, 2)
    BY <1>0, <2>2, WithinWhen
  <2> QED
    BY <2>3 DEF WriteBinaryImage, names
<1> DEFINE each == [i \in DOMAIN Images |-> WriteBinaryImage(Images[i])]
<1>2. Images \in Seq(ImageType)
  BY CursorAssumption
<1>3. FlattenSeq(each) \in Within(top, 2)
  <2>1. \A i \in DOMAIN Images : each[i] \in Within(top, 2)
    BY <1>1
  <2> QED
    BY <1>0, <1>2, <2>1, WithinEach
<1> HIDE DEF each
<1>4. "binary_images" \in Names
  BY DEF Names
<1>5. Object("binary_images", FlattenSeq(each)) \in Within(top, 1)
  BY <1>0, <1>3, <1>4, WithinIn
<1> QED
  BY <1>5 DEF WriteBinaryImages, Each, each

(* writeProcessState, which searches at level 3.                             *)
LEMMA WithinProcessState ==
    ASSUME NEW top \in Nat, 5 <= top, NEW c \in ContextType
    PROVE  WriteProcessState(c) \in Within(top, 1)
<1>0. /\ 1 \in 0 .. top /\ 2 \in 0 .. top /\ 3 \in 0 .. top /\ 1 < top /\ 2 < top /\ 3 <= 5
      /\ 1 + 1 = 2 /\ 2 + 1 = 3
  OBVIOUS
<1>1. c.zombie \in Words /\ "referenced_object" \in Names
  BY DEF ContextType, Words, Names
<1>2. <<"address", "name", "reason">> \in Seq(Names)
  BY DEF Names
<1> DEFINE body == <<Fields(<<"address", "name", "reason">>)>>
                   \o Search("referenced_object", c.zombie)
<1>3. body \in Within(top, 3)
  <2>1. <<Fields(<<"address", "name", "reason">>)>> \in Within(top, 3)
    BY <1>0, <1>2, WithinFields
  <2>2. Search("referenced_object", c.zombie) \in Within(top, 3)
    BY <1>0, <1>1, WithinSearch
  <2> QED
    BY <1>0, <2>1, <2>2, WithinConcat
<1> HIDE DEF body
<1>4. "last_dealloced_nsexception" \in Names /\ "process" \in Names
  BY DEF Names
<1>5. Object("last_dealloced_nsexception", body) \in Within(top, 2)
  BY <1>0, <1>3, <1>4, WithinIn
<1> DEFINE object == When(c.zombie # Null, Object("last_dealloced_nsexception", body))
<1>6. object \in Within(top, 2)
  BY <1>0, <1>5, WithinWhen
<1> HIDE DEF object
<1>7. Object("process", object) \in Within(top, 1)
  BY <1>0, <1>4, <1>6, WithinIn
<1> QED
  BY <1>7 DEF WriteProcessState, object, body

(* writeSystemInfo with the memory and the statistics.                       *)
LEMMA WithinSystemInfo ==
    ASSUME NEW top \in Nat, 5 <= top
    PROVE  WriteSystemInfo \in Within(top, 1)
<1>0. 1 \in 0 .. top /\ 2 \in 0 .. top /\ 3 \in 0 .. top /\ 1 < top /\ 2 < top
      /\ 1 + 1 = 2 /\ 2 + 1 = 3
  OBVIOUS
<1>1. WriteMemoryInfo \in Within(top, 2)
  <2>1. <<"size", "usable", "free">> \in Seq(Names) /\ "memory" \in Names
    BY DEF Names
  <2>2. Object("memory", <<Fields(<<"size", "usable", "free">>)>>) \in Within(top, 2)
    BY <1>0, <2>1, WithinElements
  <2> QED
    BY <2>2 DEF WriteMemoryInfo
<1>2. WriteAppStats \in Within(top, 2)
  <2> DEFINE names == <<"application_active", "application_in_foreground",
                      "launches_since_last_crash", "sessions_since_last_crash",
                      "active_time_since_last_crash", "background_time_since_last_crash",
                      "sessions_since_launch", "active_time_since_launch",
                      "background_time_since_launch">>
  <2>1. names \in Seq(Names) /\ "application_stats" \in Names
    BY DEF Names
  <2> HIDE DEF names
  <2>2. Object("application_stats", <<Fields(names)>>) \in Within(top, 2)
    BY <1>0, <2>1, WithinElements
  <2> QED
    BY <2>2 DEF WriteAppStats, names
<1> DEFINE names == <<"system_name", "system_version", "machine", "model", "kernel_version",
                      "os_version", "jailbroken", "boot_time", "app_start_time",
                      "CFBundleExecutablePath", "CFBundleExecutable", "CFBundleIdentifier",
                      "CFBundleName", "CFBundleVersion", "CFBundleShortVersionString",
                      "app_uuid", "cpu_arch", "cpu_type", "cpu_subtype", "binary_cpu_type",
                      "binary_cpu_subtype", "time_zone", "process_name", "process_id",
                      "parent_process_id", "device_app_hash", "build_type", "storage">>
<1>3. names \in Seq(Names)
  BY DEF Names
<1> HIDE DEF names
<1>4. <<Fields(names)>> \o WriteMemoryInfo \o WriteAppStats \in Within(top, 2)
  <2>1. <<Fields(names)>> \in Within(top, 2)
    BY <1>0, <1>3, WithinFields
  <2>2. <<Fields(names)>> \o WriteMemoryInfo \in Within(top, 2)
    BY <1>0, <1>1, <2>1, WithinConcat
  <2> QED
    BY <1>0, <1>2, <2>2, WithinConcat
<1> DEFINE body == <<Fields(names)>> \o WriteMemoryInfo \o WriteAppStats
<1>5. body \in Within(top, 2) /\ "system" \in Names
  BY <1>4 DEF Names
<1> HIDE DEF body
<1>6. Object("system", body) \in Within(top, 1)
  BY <1>0, <1>5, WithinIn
<1> QED
  BY <1>6 DEF WriteSystemInfo, names, body

(* writeError, which searches at level 4 for an exception's object.          *)
LEMMA WithinError ==
    ASSUME NEW top \in Nat, 5 + Nesting <= top, NEW c \in ContextType
    PROVE  WriteError(c) \in Within(top, 2)
<1>0. /\ 2 \in 0 .. top /\ 3 \in 0 .. top /\ 4 \in 0 .. top /\ 2 < top /\ 3 < top /\ 4 < top
      /\ 4 <= 5 /\ 2 + 1 = 3 /\ 3 + 1 = 4 /\ 4 + Nesting < top
  BY DeepestInt
<1>1. c.reason \in Words /\ "referenced_object" \in Names
  BY DEF ContextType, Words, Names
<1> DEFINE cpp == Object("cpp_exception", <<Fields(<<"name">>)>>)
           nsexception == Object("nsexception",
                          <<Fields(<<"name", "userInfo">>)>>
                          \o When(c.reason # Null, Search("referenced_object", c.reason)))
           user == Object("user_reported",
                          <<Fields(<<"name", "language", "line_of_code">>)>>
                          \o When(c.stackTrace # "NULL",
                                  <<<<"json", "backtrace", c.stackTrace, TRUE>>>>))
           specific == CASE c.type = "cpp" -> cpp
                         [] c.type = "nsexception" -> nsexception
                         [] c.type = "user" -> user
                         [] OTHER -> <<>>
           mach == Object("mach",
                      <<Fields(<<"exception">> \o When(c.exceptionNamed, <<"exception_name">>)
                                    \o <<"code">> \o When(c.codeNamed, <<"code_name">>)
                                    \o <<"subcode">>)>>)
           signal == Object("signal", <<Fields(<<"signal">> \o When(c.signalNamed, <<"name">>)
                                         \o <<"code">> \o When(c.sigCodeNamed, <<"code_name">>))>>)
           rest == <<Fields(<<"address">> \o When(c.reason # Null, <<"reason">>) \o <<"type">>)>>
<1>2. cpp \in Within(top, 3)
  <2>1. <<"name">> \in Seq(Names) /\ "cpp_exception" \in Names
    BY DEF Names
  <2> QED
    BY <1>0, <2>1, WithinElements
<1>3. nsexception \in Within(top, 3)
  <2>1. <<"name", "userInfo">> \in Seq(Names) /\ "nsexception" \in Names
    BY DEF Names
  <2>2. Search("referenced_object", c.reason) \in Within(top, 4)
    BY <1>0, <1>1, WithinSearch
  <2>3. When(c.reason # Null, Search("referenced_object", c.reason)) \in Within(top, 4)
    BY <1>0, <2>2, WithinWhen
  <2>4. <<Fields(<<"name", "userInfo">>)>> \in Within(top, 4)
    BY <1>0, <2>1, WithinFields
  <2> DEFINE body == <<Fields(<<"name", "userInfo">>)>>
                     \o When(c.reason # Null, Search("referenced_object", c.reason))
  <2>5. body \in Within(top, 4)
    BY <1>0, <2>3, <2>4, WithinConcat
  <2> HIDE DEF body
  <2>6. Object("nsexception", body) \in Within(top, 3)
    BY <1>0, <2>1, <2>5, WithinIn
  <2> QED
    BY <2>6 DEF body
<1>4. user \in Within(top, 3)
  <2>1. <<"name", "language", "line_of_code">> \in Seq(Names) /\ "backtrace" \in Names
        /\ "user_reported" \in Names
    BY DEF Names
  <2>2. c.stackTrace # "NULL" => c.stackTrace \in Texts
    BY DEF ContextType, Texts
  <2>3. When(c.stackTrace # "NULL", <<<<"json", "backtrace", c.stackTrace, TRUE>>>>)
            \in Within(top, 4)
    BY <1>0, <2>1, <2>2, WithinJSON, WithinWhen
  <2>4. <<Fields(<<"name", "language", "line_of_code">>)>> \in Within(top, 4)
    BY <1>0, <2>1, WithinFields
  <2> DEFINE body == <<Fields(<<"name", "language", "line_of_code">>)>>
                     \o When(c.stackTrace # "NULL",
                             <<<<"json", "backtrace", c.stackTrace, TRUE>>>>)
  <2>5. body \in Within(top, 4)
    BY <1>0, <2>3, <2>4, WithinConcat
  <2> HIDE DEF body
  <2>6. Object("user_reported", body) \in Within(top, 3)
    BY <1>0, <2>1, <2>5, WithinIn
  <2> QED
    BY <2>6 DEF body
<1>5. <<>> \in Within(top, 3)
  BY <1>0, WithinNone
<1>6. mach \in Within(top, 3)
  <2> DEFINE names == <<"exception">> \o When(c.exceptionNamed, <<"exception_name">>)
                      \o <<"code">> \o When(c.codeNamed, <<"code_name">>) \o <<"subcode">>
  <2>1. /\ <<"exception">> \in Seq(Names) /\ <<"code">> \in Seq(Names)
        /\ <<"subcode">> \in Seq(Names) /\ <<"exception_name">> \in Seq(Names)
        /\ <<"code_name">> \in Seq(Names) /\ <<>> \in Seq(Names)
    BY DEF Names
  <2>1a. names \in Seq(Names)
    BY <2>1, ConcatProperties DEF When
  <2> HIDE DEF names
  <2>2. "mach" \in Names
    BY DEF Names
  <2>3. Object("mach", <<Fields(names)>>) \in Within(top, 3)
    BY <1>0, <2>1a, <2>2, WithinElements
  <2> QED
    BY <2>3 DEF names
<1>7. signal \in Within(top, 3)
  <2> DEFINE names == <<"signal">> \o When(c.signalNamed, <<"name">>)
                      \o <<"code">> \o When(c.sigCodeNamed, <<"code_name">>)
  <2>1. /\ <<"signal">> \in Seq(Names) /\ <<"name">> \in Seq(Names) /\ <<"code">> \in Seq(Names)
        /\ <<"code_name">> \in Seq(Names) /\ <<>> \in Seq(Names)
    BY DEF Names
  <2>1a. names \in Seq(Names)
    BY <2>1, ConcatProperties DEF When
  <2> HIDE DEF names
  <2>2. "signal" \in Names
    BY DEF Names
  <2>3. Object("signal", <<Fields(names)>>) \in Within(top, 3)
    BY <1>0, <2>1a, <2>2, WithinElements
  <2> QED
    BY <2>3 DEF names
<1>8. rest \in Within(top, 3)
  <2> DEFINE names == <<"address">> \o When(c.reason # Null, <<"reason">>) \o <<"type">>
  <2>1. /\ <<"address">> \in Seq(Names) /\ <<"reason">> \in Seq(Names)
        /\ <<"type">> \in Seq(Names) /\ <<>> \in Seq(Names)
    BY DEF Names
  <2>1a. names \in Seq(Names)
    BY <2>1, ConcatProperties DEF When
  <2> HIDE DEF names
  <2>2. <<Fields(names)>> \in Within(top, 3)
    BY <1>0, <2>1a, WithinFields
  <2> QED
    BY <2>2 DEF names
<1> HIDE DEF cpp, nsexception, user, mach, signal, rest
<1>9. specific \in Within(top, 3)
  BY <1>2, <1>3, <1>4, <1>5
<1> HIDE DEF specific
<1>10. mach \o signal \o rest \o specific \in Within(top, 3)
  <2>1. mach \o signal \in Within(top, 3)
    BY <1>0, <1>6, <1>7, WithinConcat
  <2>2. mach \o signal \o rest \in Within(top, 3)
    BY <1>0, <1>8, <2>1, WithinConcat
  <2> QED
    BY <1>0, <1>9, <2>2, WithinConcat
<1>11. Object("error", mach \o signal \o rest \o specific) \in Within(top, 2)
  <2>1. "error" \in Names
    BY DEF Names
  <2> QED
    BY <1>0, <1>10, <2>1, WithinIn
<1>12. WriteError(c) = Object("error", mach \o signal \o rest \o specific)
  BY Zenon DEF WriteError, mach, signal, rest, specific, cpp, nsexception, user
<1> QED
  BY <1>11, <1>12

------------------------------------------------------------------------------
(* A thread.                                                                 *)

(* A stack's frames are two levels below the backtrace.                      *)
LEMMA WithinBacktrace ==
    ASSUME NEW top \in Nat, NEW h \in 0 .. top, h + 3 <= top,
           NEW c \in ContextType, NEW thread \in ThreadType
    PROVE  WriteBacktrace(c, thread) \in Within(top, h)
<1>0. h + 1 \in 0 .. top /\ h + 2 \in 0 .. top /\ h + 3 \in 0 .. top
      /\ h + 2 = (h + 1) + 1 /\ h + 3 = (h + 2) + 1
  OBVIOUS
<1>1. ASSUME NEW address PROVE WriteFrame(address) \in Within(top, h + 2)
  <2> DEFINE symbol == Symbolicate(address)
             names == <<"object_name", "object_addr">>
                      \o When(symbol.symbol # Null, <<"symbol_name">>) \o <<"symbol_addr">>
             body == When(symbol.found, <<Fields(names)>>) \o <<Fields(<<"instruction_addr">>)>>
  <2>1. WriteFrame(address) = Object("", body)
    BY DEF WriteFrame
  <2> HIDE DEF symbol
  <2>2. /\ <<"object_name", "object_addr">> \in Seq(Names) /\ <<"symbol_name">> \in Seq(Names)
        /\ <<"symbol_addr">> \in Seq(Names) /\ <<"instruction_addr">> \in Seq(Names)
        /\ <<>> \in Seq(Names) /\ "" \in Names
    BY DEF Names
  <2>3. names \in Seq(Names)
    BY <2>2, ConcatProperties DEF When
  <2> HIDE DEF names
  <2>4. <<Fields(names)>> \in Within(top, h + 3)
    BY <1>0, <2>3, WithinFields
  <2>5. When(symbol.found, <<Fields(names)>>) \in Within(top, h + 3)
    BY <1>0, <2>4, WithinWhen
  <2>6. <<Fields(<<"instruction_addr">>)>> \in Within(top, h + 3)
    BY <1>0, <2>2, WithinFields
  <2>7. body \in Within(top, h + 3)
    BY <1>0, <2>5, <2>6, WithinConcat
  <2> HIDE DEF body
  <2>8. Object("", body) \in Within(top, h + 2)
    BY <1>0, <2>2, <2>7, WithinIn
  <2> QED
    BY <2>1, <2>8
<1> DEFINE frames == Walk(c, thread).frames
           each == [i \in DOMAIN frames |-> WriteFrame(frames[i])]
<1>2. PICK S : frames \in Seq(S)
  BY FramesAreSequence
<1> HIDE DEF frames
<1>3. \A i \in DOMAIN frames : each[i] \in Within(top, h + 2)
  BY <1>1
<1>4. FlattenSeq(each) \in Within(top, h + 2)
  BY <1>0, <1>2, <1>3, WithinEach
<1> HIDE DEF each
<1>5. "contents" \in Names /\ "backtrace" \in Names /\ <<"skipped">> \in Seq(Names)
  BY DEF Names
<1>6. Object("contents", FlattenSeq(each)) \in Within(top, h + 1)
  BY <1>0, <1>4, <1>5, WithinIn
<1>7. <<Fields(<<"skipped">>)>> \in Within(top, h + 1)
  BY <1>0, <1>5, WithinFields
<1> DEFINE body == Object("contents", FlattenSeq(each)) \o <<Fields(<<"skipped">>)>>
<1>8. body \in Within(top, h + 1)
  BY <1>0, <1>6, <1>7, WithinConcat
<1>9. WriteBacktrace(c, thread) = Object("backtrace", body)
  BY DEF WriteBacktrace, Each, each, frames
<1> HIDE DEF body
<1>10. Object("backtrace", body) \in Within(top, h)
  BY <1>0, <1>5, <1>8, WithinIn
<1> QED
  BY <1>9, <1>10

(* The names of registers.                                                   *)
LEMMA RegisterNames ==
    /\ "basic" \in Names /\ "exception" \in Names /\ "registers" \in Names
    /\ <<"pc">> \in Seq(Names) /\ ExceptionRegisters \in Seq(Names)
<1>1. /\ <<"pc">> \in Seq(Names) /\ <<"exception", "esr", "far">> \in Seq(Names)
      /\ <<"exception", "fsr", "far">> \in Seq(Names)
      /\ <<"trapno", "err", "faultvaddr">> \in Seq(Names)
      /\ "basic" \in Names /\ "exception" \in Names /\ "registers" \in Names
  BY DEF Names
<1> QED
  BY <1>1, Zenon DEF ExceptionRegisters

(* writeRegisters.                                                           *)
LEMMA WithinRegisters ==
    ASSUME NEW top \in Nat, NEW h \in 0 .. top, h + 2 <= top, NEW thread \in ThreadType
    PROVE  WriteRegisters(thread) \in Within(top, h)
<1>0. h + 1 \in 0 .. top /\ h + 2 \in 0 .. top /\ h + 2 = (h + 1) + 1
  OBVIOUS
<1>1. /\ "basic" \in Names /\ "exception" \in Names /\ "registers" \in Names
      /\ <<"pc">> \in Seq(Names) /\ ExceptionRegisters \in Seq(Names)
  BY RegisterNames
<1> DEFINE basic == Object("basic", <<Fields(<<"pc">>)>>)
           exception == Object("exception", <<Fields(ExceptionRegisters)>>)
           body == basic \o When(thread.crashed, exception)
<1>2. basic \in Within(top, h + 1)
  BY <1>0, <1>1, WithinElements
<1>3. exception \in Within(top, h + 1)
  BY <1>0, <1>1, WithinElements
<1> HIDE DEF basic, exception
<1>4. When(thread.crashed, exception) \in Within(top, h + 1)
  BY <1>0, <1>3, WithinWhen
<1>5. body \in Within(top, h + 1)
  BY <1>0, <1>2, <1>4, WithinConcat
<1>6. WriteRegisters(thread) = Object("registers", body)
  BY DEF WriteRegisters, basic, exception
<1> HIDE DEF body
<1>7. Object("registers", body) \in Within(top, h)
  BY <1>0, <1>1, <1>5, WithinIn
<1> QED
  BY <1>6, <1>7

(* writeStackContents.                                                       *)
LEMMA WithinStackContents ==
    ASSUME NEW top \in Nat, NEW h \in 0 .. top, h < top, NEW thread \in ThreadType
    PROVE  WriteStackContents(thread) \in Within(top, h)
<1>0. h + 1 \in 0 .. top
  OBVIOUS
<1> DEFINE last == IF thread.stackReadable THEN "contents" ELSE "error"
           names == <<"grow_direction", "dump_start", "dump_end", "stack_pointer", "overflow",
                      last>>
<1>1. last \in Names /\ "stack" \in Names
  BY DEF Names
<1>2. names \in Seq(Names)
  <2> HIDE DEF last
  <2>1. /\ "grow_direction" \in Names /\ "dump_start" \in Names /\ "dump_end" \in Names
        /\ "stack_pointer" \in Names /\ "overflow" \in Names
    BY DEF Names
  <2> QED
    BY <1>1, <2>1
<1>3. WriteStackContents(thread) = When(thread.stackPointer, Object("stack", <<Fields(names)>>))
  BY DEF WriteStackContents
<1> HIDE DEF names
<1>4. Object("stack", <<Fields(names)>>) \in Within(top, h)
  BY <1>0, <1>1, <1>2, WithinElements
<1> QED
  BY <1>3, <1>4, WithinWhen

(* What registers and the stack point to is searched no deeper than level 5. *)
LEMMA WithinNotableAddresses ==
    ASSUME NEW top \in Nat, NEW h \in 0 .. top, h < top, h + 1 <= 5, NEW thread \in ThreadType
    PROVE  WriteNotableAddresses(thread) \in Within(top, h)
<1>0. h + 1 \in 0 .. top /\ h + 1 <= 5
  OBVIOUS
<1>1. "notable" \in Names /\ "notable_addresses" \in Names
  BY DEF Names
<1>2. ASSUME NEW p \in STRING PROVE WriteIfNotable(p) \in Within(top, h + 1)
  <2>1. p \in Words
    BY DEF Words
  <2>2. Search("notable", p) \in Within(top, h + 1)
    BY <1>0, <1>1, <2>1, WithinSearch
  <2>3. When(IsNotableAddress(p), Search("notable", p)) \in Within(top, h + 1)
    BY <1>0, <2>2, WithinWhen
  <2> QED
    BY <2>3 DEF WriteIfNotable
<1> DEFINE registers == thread.registers
           stack == thread.stack
           ofRegisters == [i \in DOMAIN registers |-> WriteIfNotable(registers[i])]
           ofStack == [i \in DOMAIN stack |-> WriteIfNotable(stack[i])]
           onStack == FlattenSeq(ofStack)
           body == FlattenSeq(ofRegisters) \o When(thread.stackPointer, onStack)
<1>3. registers \in Seq(STRING) /\ stack \in Seq(STRING)
  BY DEF ThreadType
<1>4. WriteNotableAddresses(thread) = Object("notable_addresses", body)
  BY DEF WriteNotableAddresses, Each
<1> HIDE DEF registers, stack
<1>5. FlattenSeq(ofRegisters) \in Within(top, h + 1)
  <2>1. \A i \in DOMAIN registers : ofRegisters[i] \in Within(top, h + 1)
    <3> TAKE i \in DOMAIN registers
    <3>1. registers[i] \in STRING
      BY <1>3
    <3>2. WriteIfNotable(registers[i]) \in Within(top, h + 1)
      BY <1>2, <3>1
    <3> QED
      BY <3>2
  <2> QED
    BY <1>0, <1>3, <2>1, WithinEach
<1>6. onStack \in Within(top, h + 1)
  <2>1. \A i \in DOMAIN stack : ofStack[i] \in Within(top, h + 1)
    <3> TAKE i \in DOMAIN stack
    <3>1. stack[i] \in STRING
      BY <1>3
    <3>2. WriteIfNotable(stack[i]) \in Within(top, h + 1)
      BY <1>2, <3>1
    <3> QED
      BY <3>2
  <2> QED
    BY <1>0, <1>3, <2>1, WithinEach
<1> HIDE DEF ofRegisters, onStack
<1>6a. When(thread.stackPointer, onStack) \in Within(top, h + 1)
  BY <1>0, <1>6, WithinWhen
<1>7. body \in Within(top, h + 1)
  BY <1>0, <1>5, <1>6a, WithinConcat
<1> HIDE DEF body
<1>8. Object("notable_addresses", body) \in Within(top, h)
  BY <1>0, <1>1, <1>7, WithinIn
<1> QED
  BY <1>4, <1>8

(* The names of a thread's elements.                                         *)
LEMMA ThreadNames ==
    /\ "index" \in Names /\ "name" \in Names /\ "crashed" \in Names
    /\ "current_thread" \in Names
  BY DEF Names

(* writeThread, at level 3 at most when it looks for notable addresses.      *)
LEMMA WithinThread ==
    ASSUME NEW top \in Nat, NEW h \in 0 .. top, h + 4 <= top, NEW key \in Names,
           NEW c \in ContextType, NEW thread \in ThreadType, NEW notable, notable => h <= 3
    PROVE  WriteThread(key, c, thread, notable) \in Within(top, h)
<1>0. h + 1 \in 0 .. top /\ (h + 1) + 3 <= top /\ (h + 1) + 2 <= top /\ h + 1 < top
  OBVIOUS
<1> DEFINE names == <<"index">> \o When(thread.name # Null, <<"name">>)
                    \o <<"crashed", "current_thread">>
           backtrace == WriteBacktrace(c, thread)
           registers == When(CanHaveCPUState(thread), WriteRegisters(thread))
           fields == <<Fields(names)>>
           more == When(notable, WriteNotableAddresses(thread))
           memory == When(thread.crashed, WriteStackContents(thread) \o more)
           body == backtrace \o registers \o fields \o memory
<1>1. WriteThread(key, c, thread, notable) = Object(key, body)
  BY DEF WriteThread
<1>2. backtrace \in Within(top, h + 1)
  BY <1>0, WithinBacktrace
<1>3. registers \in Within(top, h + 1)
  <2>1. WriteRegisters(thread) \in Within(top, h + 1)
    BY <1>0, WithinRegisters
  <2> QED
    BY <1>0, <2>1, WithinWhen
<1>4. fields \in Within(top, h + 1)
  <2>1. /\ <<"index">> \in Seq(Names) /\ <<"name">> \in Seq(Names) /\ <<>> \in Seq(Names)
        /\ <<"crashed", "current_thread">> \in Seq(Names)
    BY ThreadNames
  <2>2. names \in Seq(Names)
    BY <2>1, ConcatProperties DEF When
  <2> HIDE DEF names
  <2> QED
    BY <1>0, <2>2, WithinFields
<1>5. more \in Within(top, h + 1)
  <2>1. CASE notable
    <3>1. (h + 1) + 1 <= 5
      BY <2>1
    <3>2. WriteNotableAddresses(thread) \in Within(top, h + 1)
      BY <1>0, <3>1, WithinNotableAddresses
    <3> QED
      BY <2>1, <3>2 DEF When
  <2>2. CASE ~notable
    BY <1>0, <2>2, WithinNone DEF When
  <2> QED
    BY <2>1, <2>2
<1>6. memory \in Within(top, h + 1)
  <2> HIDE DEF more
  <2>1. WriteStackContents(thread) \in Within(top, h + 1)
    BY <1>0, WithinStackContents
  <2>2. WriteStackContents(thread) \o more \in Within(top, h + 1)
    BY <1>0, <1>5, <2>1, WithinConcat
  <2> QED
    BY <1>0, <2>2, WithinWhen
<1> HIDE DEF backtrace, registers, fields, memory
<1>7. body \in Within(top, h + 1)
  <2>1. backtrace \o registers \in Within(top, h + 1)
    BY <1>0, <1>2, <1>3, WithinConcat
  <2>2. backtrace \o registers \o fields \in Within(top, h + 1)
    BY <1>0, <1>4, <2>1, WithinConcat
  <2> QED
    BY <1>0, <1>6, <2>2, WithinConcat
<1> HIDE DEF body
<1>8. Object(key, body) \in Within(top, h)
  BY <1>0, <1>7, WithinIn
<1> QED
  BY <1>1, <1>8

(* writeAllThreads.                                                          *)
LEMMA WithinAllThreads ==
    ASSUME NEW top \in Nat, 7 <= top, NEW c \in ContextType
    PROVE  WriteAllThreads(c) \in Within(top, 2)
<1>0. 2 \in 0 .. top /\ 3 \in 0 .. top /\ 3 = 2 + 1 /\ 3 + 4 <= top /\ 3 <= 3
  OBVIOUS
<1>1. "threads" \in Names /\ "" \in Names
  BY DEF Names
<1> DEFINE threads == c.threads
           each == [i \in DOMAIN threads |-> WriteThread("", c, threads[i], Introspect)]
<1>2. threads \in Seq(ThreadType)
  BY DEF ContextType
<1>3. WriteAllThreads(c) = Object("threads", FlattenSeq(each))
  BY DEF WriteAllThreads, Each
<1> HIDE DEF threads
<1>4. \A i \in DOMAIN threads : each[i] \in Within(top, 3)
  <2> TAKE i \in DOMAIN threads
  <2>1. threads[i] \in ThreadType
    BY <1>2
  <2>2. WriteThread("", c, threads[i], Introspect) \in Within(top, 3)
    BY <1>0, <1>1, <2>1, WithinThread
  <2> QED
    BY <2>2
<1>5. FlattenSeq(each) \in Within(top, 3)
  BY <1>0, <1>2, <1>4, WithinEach
<1> HIDE DEF each
<1>6. Object("threads", FlattenSeq(each)) \in Within(top, 2)
  BY <1>0, <1>1, <1>5, WithinIn
<1> QED
  BY <1>3, <1>6

------------------------------------------------------------------------------
(* The two reports.                                                          *)

(* What membership in Within says.                                           *)
LEMMA WithinBounds ==
    ASSUME NEW top \in Nat, NEW h \in 0 .. top, NEW s \in Within(top, h)
    PROVE  s \in Seq(CallType) /\ Bounded(s, top, h, SearchDepth, h, SearchDepth)
  BY DEF Within

(* The closing, the removal and the embedding.                               *)
LEMMA OtherCalls ==
    ASSUME NEW top \in Nat, NEW h \in 0 .. top
    PROVE  /\ <<<<"close">>>> \in Within(top, h)
           /\ <<<<"remove">>>> \in Within(top, h)
           /\ h = 1 => <<<<"embed">>>> \in Within(top, h)
<1>1. /\ <<"close">> \in CallType /\ <<"close">>[1] = "close"
      /\ <<"remove">> \in CallType /\ <<"remove">>[1] = "remove"
      /\ <<"embed">> \in CallType /\ <<"embed">>[1] = "embed"
  BY DEF CallType
<1>2. Covers(<<"close">>, top, h, SearchDepth, h, SearchDepth)
  BY <1>1, DeepestInt DEF Covers, Rise
<1>3. Covers(<<"remove">>, top, h, SearchDepth, h, SearchDepth)
  BY <1>1, DeepestInt DEF Covers, Rise
<1>4. h = 1 => Covers(<<"embed">>, top, h, SearchDepth, h, SearchDepth)
  BY <1>1, DeepestInt DEF Covers, Rise
<1> QED
  BY <1>1, <1>2, <1>3, <1>4, WithinOne

(* The names of a report's sections.                                         *)
LEMMA ReportNames ==
    /\ "root" \in Names /\ "crash" \in Names /\ "debug" \in Names /\ "console_log" \in Names
    /\ "crashed_thread" \in Names /\ <<"custom">> \in Seq(Names) /\ <<"">> \in Seq(Names)
  BY DEF Names

(* The user's section is begun by a call of its own, which may open all the  *)
(* containers that a text has.                                               *)
LEMMA WithinUser ==
    ASSUME NEW top \in Nat, 7 + Nesting <= top,
           NEW body \in Within(top, 1 + Nesting), NEW before \in Within(top, 1)
    PROVE  LET calls == before \o <<<<"user">>>> \o body \o <<End>>
           IN  /\ calls \in Seq(CallType)
               /\ Bounded(calls, top, 1, SearchDepth, Nesting, SearchDepth)
<1> DEFINE h == 1
           k == 1 + Nesting
<1>1. /\ h \in Int /\ k \in Int /\ SearchDepth \in Int /\ Nesting \in Int /\ top \in Nat
      /\ h \in 0 .. top /\ k \in 0 .. top /\ Nesting \in 0 .. top /\ h + Nesting < top
      /\ k = h + Nesting /\ Nesting = k - 1
  BY DeepestInt
<1>1a. body \in Within(top, k) /\ before \in Within(top, h)
  OBVIOUS
<1> HIDE DEF h, k
<1>2. /\ <<"user">> \in CallType /\ <<"user">>[1] = "user"
      /\ <<<<"user">>>> \in Seq(CallType) /\ <<End>> \in Seq(CallType)
      /\ End \in CallType /\ End[1] = "end" /\ Rise(End) = -1
  BY DEF CallType, End, Rise
<1>3. Covers(<<"user">>, top, h, SearchDepth, k, SearchDepth)
  BY <1>1, <1>2 DEF Covers, Rise
<1>4. Covers(End, top, k, SearchDepth, Nesting, SearchDepth)
  BY <1>1, <1>2 DEF Covers
<1>5. /\ Bounded(<<<<"user">>>>, top, h, SearchDepth, k, SearchDepth)
      /\ Bounded(<<End>>, top, k, SearchDepth, Nesting, SearchDepth)
  BY <1>1, <1>2, <1>3, <1>4, BoundedOne
<1>6. /\ body \in Seq(CallType) /\ Bounded(body, top, k, SearchDepth, k, SearchDepth)
      /\ before \in Seq(CallType) /\ Bounded(before, top, h, SearchDepth, h, SearchDepth)
  BY <1>1, <1>1a, WithinBounds
<1> DEFINE user == <<<<"user">>>>
           last == <<End>>
           one == before \o user
           two == one \o body
<1>5a. /\ user \in Seq(CallType) /\ last \in Seq(CallType)
       /\ Bounded(user, top, h, SearchDepth, k, SearchDepth)
       /\ Bounded(last, top, k, SearchDepth, Nesting, SearchDepth)
  BY <1>2, <1>5
<1> HIDE DEF user, last
<1>7. one \in Seq(CallType)
  BY <1>5a, <1>6, ConcatProperties
<1>8. Bounded(one, top, h, SearchDepth, k, SearchDepth)
  BY <1>1, <1>5a, <1>6, BoundedConcat
<1> HIDE DEF one
<1>9. two \in Seq(CallType)
  BY <1>6, <1>7, ConcatProperties
<1>10. Bounded(two, top, h, SearchDepth, k, SearchDepth)
  BY <1>1, <1>6, <1>7, <1>8, BoundedConcat
<1> HIDE DEF two
<1>11. two \o last \in Seq(CallType)
  BY <1>5a, <1>9, ConcatProperties
<1>12. Bounded(two \o last, top, h, SearchDepth, Nesting, SearchDepth)
  BY <1>1, <1>5a, <1>9, <1>10, BoundedConcat
<1> QED
  BY <1>11, <1>12 DEF two, one, user, last, h

(* What is around calls that lead from level 1 to level Nesting at most is   *)
(* ended no deeper than there.                                               *)
LEMMA BoundedRoot ==
    ASSUME NEW top \in Nat, 7 + Nesting <= top, NEW body \in Seq(CallType),
           Bounded(body, top, 1, SearchDepth, Nesting, SearchDepth)
    PROVE  LET calls == Object("root", body) \o <<<<"close">>>>
           IN  /\ calls \in Seq(CallType)
               /\ Bounded(calls, top, 0, SearchDepth, Nesting, SearchDepth)
<1> DEFINE begin == <<Begin("root")>>
           last == <<End>>
           close == <<<<"close">>>>
           one == begin \o body
           two == one \o last
<1>1. /\ SearchDepth \in Int /\ Nesting \in Int /\ 0 \in Int /\ 1 \in Int
      /\ 0 \in 0 .. top /\ 1 \in 0 .. top /\ Nesting \in 0 .. top
  BY DeepestInt
<1>2. /\ Begin("root") \in CallType /\ Begin("root")[1] = "begin" /\ Rise(Begin("root")) = 1
      /\ End \in CallType /\ End[1] = "end" /\ Rise(End) = -1
  BY ReportNames, BeginEnd
<1>3. /\ Covers(Begin("root"), top, 0, SearchDepth, 1, SearchDepth)
      /\ Covers(End, top, Nesting, SearchDepth, Nesting, SearchDepth)
  BY <1>1, <1>2 DEF Covers
<1>4. /\ begin \in Seq(CallType) /\ Bounded(begin, top, 0, SearchDepth, 1, SearchDepth)
      /\ last \in Seq(CallType) /\ Bounded(last, top, Nesting, SearchDepth, Nesting, SearchDepth)
  BY <1>1, <1>2, <1>3, BoundedOne
<1>5. /\ close \in Seq(CallType)
      /\ Bounded(close, top, Nesting, SearchDepth, Nesting, SearchDepth)
  <2>1. <<<<"close">>>> \in Within(top, Nesting)
    BY <1>1, OtherCalls
  <2> QED
    BY <1>1, <2>1, WithinBounds
<1>6. Object("root", body) \o <<<<"close">>>> = two \o close
  BY DEF Object
<1> HIDE DEF begin, last, close
<1>7. one \in Seq(CallType)
  BY <1>4, ConcatProperties
<1>8. Bounded(one, top, 0, SearchDepth, Nesting, SearchDepth)
  BY <1>1, <1>4, BoundedConcat
<1> HIDE DEF one
<1>9. two \in Seq(CallType)
  BY <1>4, <1>7, ConcatProperties
<1>10. Bounded(two, top, 0, SearchDepth, Nesting, SearchDepth)
  BY <1>1, <1>4, <1>7, <1>8, BoundedConcat
<1> HIDE DEF two
<1>11. two \o close \in Seq(CallType)
  BY <1>5, <1>9, ConcatProperties
<1>12. Bounded(two \o close, top, 0, SearchDepth, Nesting, SearchDepth)
  BY <1>1, <1>5, <1>9, <1>10, BoundedConcat
<1> QED
  BY <1>6, <1>11, <1>12

(* crasheecrashreport_writeStandardReport makes its calls within level 7 if  *)
(* nothing is searched, and the user's text opens nothing.                   *)
LEMMA BoundedStandardReport ==
    ASSUME NEW top \in Nat, 7 + Nesting <= top, NEW c \in ContextType
    PROVE  /\ StandardReport(c) \in Seq(CallType)
           /\ Bounded(StandardReport(c), top, 0, SearchDepth, Nesting, SearchDepth)
           /\ \E body \in Seq(CallType) :
                  StandardReport(c) = Object("root", body) \o <<<<"close">>>>
<1>0. /\ 0 \in 0 .. top /\ 1 \in 0 .. top /\ 2 \in 0 .. top /\ 3 \in 0 .. top
      /\ 1 < top /\ 1 = 0 + 1 /\ 2 = 1 + 1 /\ 3 = 2 + 1 /\ 3 <= top
      /\ 5 + Nesting <= top /\ 7 <= top
  BY DeepestInt
<1>0a. /\ Nesting \in 0 .. top /\ Nesting + 1 \in 0 .. top /\ Nesting + 2 \in 0 .. top
       /\ 1 + Nesting \in 0 .. top /\ Nesting < top /\ Nesting + 1 < top
       /\ Nesting + 2 = (Nesting + 1) + 1 /\ Nesting \in Int /\ SearchDepth \in Int /\ 1 \in Int
  BY DeepestInt
<1>1. /\ WriteReportInfo \in Within(top, 1) /\ WriteBinaryImages \in Within(top, 1)
      /\ WriteProcessState(c) \in Within(top, 1) /\ WriteSystemInfo \in Within(top, 1)
  <2>1. WriteReportInfo \in Within(top, 1)
    BY <1>0, WithinReportInfo
  <2>2. WriteBinaryImages \in Within(top, 1)
    BY <1>0, WithinBinaryImages
  <2>3. WriteProcessState(c) \in Within(top, 1)
    BY <1>0, WithinProcessState
  <2>4. WriteSystemInfo \in Within(top, 1)
    BY <1>0, WithinSystemInfo
  <2> QED
    BY <2>1, <2>2, <2>3, <2>4
<1>2. Flush \in Within(top, 1) /\ Flush \in Within(top, 2)
  BY <1>0, WithinFlush
<1> DEFINE inCrash == WriteError(c) \o Flush \o WriteAllThreads(c) \o Flush
           crashed == Object("crash", inCrash)
           before == WriteReportInfo \o Flush \o WriteBinaryImages \o Flush
                     \o WriteProcessState(c) \o Flush \o WriteSystemInfo \o Flush \o crashed
           custom == When(~c.snapshot, <<Fields(<<"custom">>)>>)
           inUser == When(c.callback, Flush \o custom)
           log == Object("console_log", <<Fields(<<"">>)>>)
           debug == Object("debug", When(c.consoleLog, log))
           user == before \o <<<<"user">>>> \o inUser \o <<End>>
           body == user \o Flush \o debug
<1>3. inCrash \in Within(top, 2)
  <2>1. WriteError(c) \in Within(top, 2)
    BY <1>0, WithinError
  <2>2. WriteAllThreads(c) \in Within(top, 2)
    BY <1>0, WithinAllThreads
  <2>3. WriteError(c) \o Flush \in Within(top, 2)
    BY <1>0, <1>2, <2>1, WithinConcat
  <2>4. WriteError(c) \o Flush \o WriteAllThreads(c) \in Within(top, 2)
    BY <1>0, <2>2, <2>3, WithinConcat
  <2> QED
    BY <1>0, <1>2, <2>4, WithinConcat
<1>4. crashed \in Within(top, 1)
  <2> HIDE DEF inCrash
  <2> QED
    BY <1>0, <1>3, ReportNames, WithinIn
<1>5. before \in Within(top, 1)
  <2> HIDE DEF crashed
  <2>1. WriteReportInfo \o Flush \in Within(top, 1)
    BY <1>0, <1>1, <1>2, WithinConcat
  <2>2. WriteReportInfo \o Flush \o WriteBinaryImages \in Within(top, 1)
    BY <1>0, <1>1, <2>1, WithinConcat
  <2>3. WriteReportInfo \o Flush \o WriteBinaryImages \o Flush \in Within(top, 1)
    BY <1>0, <1>2, <2>2, WithinConcat
  <2>4. WriteReportInfo \o Flush \o WriteBinaryImages \o Flush \o WriteProcessState(c)
            \in Within(top, 1)
    BY <1>0, <1>1, <2>3, WithinConcat
  <2>5. WriteReportInfo \o Flush \o WriteBinaryImages \o Flush \o WriteProcessState(c)
            \o Flush \in Within(top, 1)
    BY <1>0, <1>2, <2>4, WithinConcat
  <2>6. WriteReportInfo \o Flush \o WriteBinaryImages \o Flush \o WriteProcessState(c)
            \o Flush \o WriteSystemInfo \in Within(top, 1)
    BY <1>0, <1>1, <2>5, WithinConcat
  <2>7. WriteReportInfo \o Flush \o WriteBinaryImages \o Flush \o WriteProcessState(c)
            \o Flush \o WriteSystemInfo \o Flush \in Within(top, 1)
    BY <1>0, <1>2, <2>6, WithinConcat
  <2> QED
    BY <1>0, <1>4, <2>7, WithinConcat
<1>6. inUser \in Within(top, 1 + Nesting)
  <2>0. Flush \in Within(top, 1 + Nesting)
    BY <1>0a, WithinFlush
  <2>1. <<Fields(<<"custom">>)>> \in Within(top, 1 + Nesting)
    BY <1>0a, ReportNames, WithinFields
  <2>2. custom \in Within(top, 1 + Nesting)
    BY <1>0a, <2>1, WithinWhen
  <2> HIDE DEF custom
  <2>3. Flush \o custom \in Within(top, 1 + Nesting)
    BY <1>0a, <2>0, <2>2, WithinConcat
  <2> QED
    BY <1>0a, <2>3, WithinWhen
<1>7. debug \in Within(top, Nesting)
  <2>1. log \in Within(top, Nesting + 1)
    BY <1>0a, ReportNames, WithinElements
  <2> HIDE DEF log
  <2> DEFINE maybe == When(c.consoleLog, log)
  <2>2. maybe \in Within(top, Nesting + 1)
    BY <1>0a, <2>1, WithinWhen
  <2> HIDE DEF maybe
  <2>3. Object("debug", maybe) \in Within(top, Nesting)
    BY <1>0a, <2>2, ReportNames, WithinIn
  <2> QED
    BY <2>3 DEF maybe
<1>8. StandardReport(c) = Object("root", body) \o <<<<"close">>>>
  <2>1. WriteReportInfo \o Flush \o WriteBinaryImages \o Flush
           \o WriteProcessState(c) \o Flush \o WriteSystemInfo \o Flush
           \o Object("crash", WriteError(c) \o Flush \o WriteAllThreads(c) \o Flush)
           \o <<<<"user">>>>
           \o When(c.callback, Flush \o When(~c.snapshot, <<Fields(<<"custom">>)>>))
           \o <<End>> \o Flush
           \o Object("debug", When(c.consoleLog, Object("console_log", <<Fields(<<"">>)>>)))
        = body
    OBVIOUS
  <2> QED
    BY <2>1 DEF StandardReport
<1> HIDE DEF before, inUser, debug
<1>9. user \in Seq(CallType) /\ Bounded(user, top, 1, SearchDepth, Nesting, SearchDepth)
  BY <1>0, <1>5, <1>6, WithinUser
<1> HIDE DEF user
<1>10. body \in Seq(CallType) /\ Bounded(body, top, 1, SearchDepth, Nesting, SearchDepth)
  <2> DEFINE rest == Flush \o debug
  <2>1. rest \in Within(top, Nesting)
    BY <1>0a, <1>7, WithinFlush, WithinConcat
  <2> HIDE DEF rest
  <2>2. rest \in Seq(CallType) /\ Bounded(rest, top, Nesting, SearchDepth, Nesting, SearchDepth)
    BY <1>0a, <2>1, WithinBounds
  <2>3. user \o rest \in Seq(CallType)
    BY <1>9, <2>2, ConcatProperties
  <2>4. Bounded(user \o rest, top, 1, SearchDepth, Nesting, SearchDepth)
    BY <1>0a, <1>9, <2>2, BoundedConcat
  <2>5. body = user \o rest
    <3>1. Flush \in Seq(CallType) /\ debug \in Seq(CallType)
      BY <1>0, <1>0a, <1>2, <1>7, WithinBounds
    <3> QED
      BY <1>9, <3>1, ConcatAssociative DEF rest
  <2> QED
    BY <2>3, <2>4, <2>5
<1> HIDE DEF body
<1>11. /\ Object("root", body) \o <<<<"close">>>> \in Seq(CallType)
       /\ Bounded(Object("root", body) \o <<<<"close">>>>, top, 0, SearchDepth, Nesting,
                  SearchDepth)
  BY <1>10, BoundedRoot
<1> QED
  BY <1>8, <1>10, <1>11

(* So does the recrash report, which embeds the old one at level 1.          *)
LEMMA WithinRecrashReport ==
    ASSUME NEW top \in Nat, 7 + Nesting <= top, NEW c \in Crashes
    PROVE  RecrashReport(c) \in Within(top, 0)
<1> DEFINE offending == CHOOSE i \in DOMAIN c.threads : c.threads[i].crashed
           thread == c.threads[offending]
           inCrash == WriteError(c) \o Flush
                      \o WriteThread("crashed_thread", c, thread, FALSE) \o Flush
           embed == <<<<"embed">>>>
           remove == <<<<"remove">>>>
           crashed == Object("crash", inCrash)
           body == embed \o Flush \o remove \o WriteReportInfo \o Flush \o crashed
<1>0. /\ 0 \in 0 .. top /\ 1 \in 0 .. top /\ 2 \in 0 .. top /\ 1 = 0 + 1 /\ 2 = 1 + 1
      /\ 5 + Nesting <= top /\ 1 < top /\ 2 + 4 <= top
  BY DeepestInt
<1>1. c \in ContextType /\ thread \in ThreadType
  <2>1. c \in ContextType /\ \E i \in DOMAIN c.threads : c.threads[i].crashed
    BY WriterAssumption
  <2>2. offending \in DOMAIN c.threads
    BY <2>1
  <2> HIDE DEF offending
  <2>3. c.threads \in Seq(ThreadType)
    BY <2>1 DEF ContextType
  <2> QED
    BY <2>1, <2>2, <2>3
<1>4. RecrashReport(c) = Object("root", body) \o <<<<"close">>>>
  BY DEF RecrashReport
<1> HIDE DEF offending, thread
<1>2. Flush \in Within(top, 1) /\ Flush \in Within(top, 2)
  BY <1>0, WithinFlush
<1>3. inCrash \in Within(top, 2)
  <2>1. WriteError(c) \in Within(top, 2)
    BY <1>0, <1>1, WithinError
  <2>2. WriteThread("crashed_thread", c, thread, FALSE) \in Within(top, 2)
    BY <1>0, <1>1, ReportNames, WithinThread
  <2>3. WriteError(c) \o Flush \in Within(top, 2)
    BY <1>0, <1>2, <2>1, WithinConcat
  <2>4. WriteError(c) \o Flush \o WriteThread("crashed_thread", c, thread, FALSE)
            \in Within(top, 2)
    BY <1>0, <2>2, <2>3, WithinConcat
  <2> QED
    BY <1>0, <1>2, <2>4, WithinConcat
<1> HIDE DEF inCrash
<1>5. crashed \in Within(top, 1)
  BY <1>0, <1>3, ReportNames, WithinIn
<1>6. WriteReportInfo \in Within(top, 1)
  BY <1>0, WithinReportInfo
<1>7. embed \in Within(top, 1) /\ remove \in Within(top, 1)
  BY <1>0, OtherCalls
<1> HIDE DEF embed, remove, crashed
<1>8. body \in Within(top, 1)
  <2>1. embed \o Flush \in Within(top, 1)
    BY <1>0, <1>2, <1>7, WithinConcat
  <2>2. embed \o Flush \o remove \in Within(top, 1)
    BY <1>0, <1>7, <2>1, WithinConcat
  <2>3. embed \o Flush \o remove \o WriteReportInfo \in Within(top, 1)
    BY <1>0, <1>6, <2>2, WithinConcat
  <2>4. embed \o Flush \o remove \o WriteReportInfo \o Flush \in Within(top, 1)
    BY <1>0, <1>2, <2>3, WithinConcat
  <2> QED
    BY <1>0, <1>5, <2>4, WithinConcat
<1> HIDE DEF body
<1>9. Object("root", body) \in Within(top, 0)
  BY <1>0, <1>8, ReportNames, WithinIn
<1>10. <<<<"close">>>> \in Within(top, 0)
  BY <1>0, OtherCalls
<1>11. Object("root", body) \o <<<<"close">>>> \in Within(top, 0)
  BY <1>0, <1>9, <1>10, WithinConcat
<1> QED
  BY <1>4, <1>11

------------------------------------------------------------------------------
(* Texts.                                                                    *)

(* What is written are the calls that begin, add and end.                    *)
TokenType == {<<"end">>} \cup ({"begin"} \X Names) \cup ({"fields"} \X Seq(Names))

(* The levels after the first tokens of a text.                              *)
Levels(s, top, g) ==
    /\ g \in [0 .. Len(s) -> 0 .. top]
    /\ \A i \in 1 .. Len(s) : g[i] = g[i - 1] + Rise(s[i])

(* A text that leads from one level to another.                              *)
Balanced(s, top, h0, h1) ==
    \E g : Levels(s, top, g) /\ g[0] = h0 /\ g[Len(s)] = h1

(* Tokens are calls, and it is their first word that says how they rise.     *)
LEMMA TokenIsCall ==
    /\ TokenType \subseteq CallType
    /\ \A token \in TokenType : token[1] \in {"begin", "fields", "end"}
    /\ \A token \in TokenType :
           Rise(token) = IF token[1] = "begin" THEN 1 ELSE IF token[1] = "end" THEN -1 ELSE 0
<1>1. TokenType \subseteq CallType
  BY DEF TokenType, CallType
<1>2. \A token \in TokenType : token[1] \in {"begin", "fields", "end"}
  BY DEF TokenType
<1> QED
  BY <1>1, <1>2 DEF Rise

(* An empty text.                                                            *)
LEMMA BalancedNone ==
    ASSUME NEW top \in Nat, NEW h \in 0 .. top
    PROVE  Balanced(<<>>, top, h, h)
<1> DEFINE g == [i \in 0 .. 0 |-> h]
<1>1. Len(<<>>) = 0 /\ g \in [0 .. 0 -> 0 .. top] /\ g[0] = h
  OBVIOUS
<1> HIDE DEF g
<1>2. Levels(<<>>, top, g)
  BY <1>1 DEF Levels
<1> QED
  BY <1>1, <1>2 DEF Balanced

(* One token more.                                                           *)
LEMMA BalancedAppend ==
    ASSUME NEW top \in Nat, NEW s \in Seq(TokenType), NEW token \in TokenType,
           NEW h0 \in Int, NEW h1 \in Int, NEW h2 \in 0 .. top,
           Balanced(s, top, h0, h1), h2 = h1 + Rise(token)
    PROVE  Append(s, token) \in Seq(TokenType) /\ Balanced(Append(s, token), top, h0, h2)
<1>1. PICK g : Levels(s, top, g) /\ g[0] = h0 /\ g[Len(s)] = h1
  BY DEF Balanced
<1> DEFINE n == Len(s)
           t == Append(s, token)
           f == [i \in 0 .. n + 1 |-> IF i <= n THEN g[i] ELSE h2]
<1>2. n \in Nat /\ t \in Seq(TokenType) /\ Len(t) = n + 1 /\ t[n + 1] = token
      /\ \A i \in 1 .. n : t[i] = s[i]
  BY AppendProperties
<1>3. g \in [0 .. n -> 0 .. top] /\ \A i \in 1 .. n : g[i] = g[i - 1] + Rise(s[i])
  BY <1>1 DEF Levels
<1> HIDE DEF n, t
<1>4. f \in [0 .. n + 1 -> 0 .. top]
  BY <1>2, <1>3
<1>5. ASSUME NEW i \in 1 .. n + 1 PROVE f[i] = f[i - 1] + Rise(t[i])
  <2>1. CASE i <= n
    <3>1. i \in 1 .. n /\ i - 1 \in 0 .. n
      BY <1>2, <2>1
    <3>2. f[i] = g[i] /\ f[i - 1] = g[i - 1] /\ t[i] = s[i]
      BY <1>2, <3>1
    <3> QED
      BY <1>3, <3>1, <3>2
  <2>2. CASE i = n + 1
    <3>1. f[i] = h2 /\ f[i - 1] = g[n] /\ t[i] = token
      BY <1>2, <2>2
    <3> QED
      BY <1>1, <3>1 DEF n
  <2> QED
    BY <1>2, <2>1, <2>2
<1>6. f[0] = h0 /\ f[n + 1] = h2
  BY <1>1, <1>2
<1> HIDE DEF f
<1>7. Levels(t, top, f)
  BY <1>2, <1>4, <1>5 DEF Levels
<1>8. Balanced(t, top, h0, h2)
  BY <1>2, <1>6, <1>7 DEF Balanced
<1> QED
  BY <1>2, <1>8 DEF t

(* What a text begins with.                                                  *)
LEMMA BalancedPrefix ==
    ASSUME NEW top \in Nat, NEW s \in Seq(TokenType), NEW n \in 0 .. Len(s), NEW g,
           Levels(s, top, g)
    PROVE  /\ SubSeq(s, 1, n) \in Seq(TokenType) /\ Len(SubSeq(s, 1, n)) = n
           /\ \A i \in 1 .. n : SubSeq(s, 1, n)[i] = s[i]
           /\ Levels(SubSeq(s, 1, n), top, [i \in 0 .. n |-> g[i]])
<1>1. Len(s) \in Nat /\ n \in Nat /\ n <= Len(s) /\ \A i \in 1 .. n : s[i] \in TokenType
  BY ElementOfSeq
<1>2. /\ SubSeq(s, 1, n) \in Seq(TokenType) /\ Len(SubSeq(s, 1, n)) = n
      /\ \A i \in 1 .. n : SubSeq(s, 1, n)[i] = s[i]
  BY <1>1, SubSeqProperties
<1>3. g \in [0 .. Len(s) -> 0 .. top] /\ \A i \in 1 .. Len(s) : g[i] = g[i - 1] + Rise(s[i])
  BY DEF Levels
<1> DEFINE f == [i \in 0 .. n |-> g[i]]
<1>4. f \in [0 .. n -> 0 .. top]
  BY <1>1, <1>3
<1>5. \A i \in 1 .. n : f[i] = f[i - 1] + Rise(s[i])
  <2> TAKE i \in 1 .. n
  <2>1. i \in 1 .. Len(s) /\ i \in 0 .. n /\ i - 1 \in 0 .. n
    BY <1>1
  <2> QED
    BY <1>3, <2>1
<1> HIDE DEF f
<1>6. Levels(SubSeq(s, 1, n), top, f)
  BY <1>2, <1>4, <1>5 DEF Levels
<1> QED
  BY <1>2, <1>6 DEF f

(* A text is bounded as the calls that write it are.                         *)
LEMMA BalancedBounded ==
    ASSUME NEW top \in Nat, NEW s \in Seq(TokenType), NEW h0 \in Int, NEW h1 \in Int,
           NEW l \in Int, Balanced(s, top, h0, h1)
    PROVE  Bounded(s, top, h0, l, h1, l)
<1>1. PICK g : Levels(s, top, g) /\ g[0] = h0 /\ g[Len(s)] = h1
  BY DEF Balanced
<1> DEFINE ls == [i \in 0 .. Len(s) |-> l]
<1>2. /\ Len(s) \in Nat /\ ls \in [0 .. Len(s) -> Int]
      /\ \A i \in 0 .. Len(s) : ls[i] = l
  OBVIOUS
<1>3. g \in [0 .. Len(s) -> 0 .. top]
  BY <1>1 DEF Levels
<1> HIDE DEF ls
<1>4. ASSUME NEW i \in 1 .. Len(s) PROVE Covers(s[i], top, g[i - 1], ls[i - 1], g[i], ls[i])
  <2>1. s[i] \in TokenType /\ s[i][1] \in {"begin", "fields", "end"}
    BY ElementOfSeq, TokenIsCall
  <2>2. ls[i] = l /\ ls[i - 1] = l /\ i \in 0 .. Len(s) /\ i - 1 \in 0 .. Len(s)
    BY <1>2
  <2>3. g[i] = g[i - 1] + Rise(s[i])
    BY <1>1 DEF Levels
  <2>4. g[i] \in Int
    BY <1>3, <2>2
  <2>5. g[i] >= g[i - 1] + Rise(s[i]) /\ l >= l
    BY <2>3, <2>4
  <2> QED
    BY <2>1, <2>2, <2>5 DEF Covers
<1>5. Ceilings(s, top, g, ls)
  BY <1>2, <1>3, <1>4 DEF Ceilings
<1>6. g[0] >= h0 /\ ls[0] >= l /\ g[Len(s)] <= h1 /\ ls[Len(s)] <= l
  BY <1>1, <1>2
<1> QED
  BY <1>5, <1>6 DEF Bounded

(* What a report's reader counts as open is the level.                       *)
LEMMA OpenAfterCounts ==
    ASSUME NEW s \in Seq(TokenType), NEW g \in [0 .. Len(s) -> Int], g[0] = 0,
           \A i \in 1 .. Len(s) : g[i] = g[i - 1] + Rise(s[i]), NEW k \in 0 .. Len(s)
    PROVE  OpenAfter(s, k) = g[k]
<1> DEFINE Begun(j) == {i \in 1 .. j : s[i][1] = "begin"}
           Ended(j) == {i \in 1 .. j : s[i][1] = "end"}
           Good(j) == /\ IsFiniteSet(Begun(j)) /\ IsFiniteSet(Ended(j))
                      /\ Cardinality(Begun(j)) - Cardinality(Ended(j)) = g[j]
           S == {j \in Nat : j <= Len(s) => Good(j)}
<1>0. /\ Len(s) \in Nat /\ g \in [0 .. Len(s) -> Int]
      /\ \A i \in 1 .. Len(s) : g[i] = g[i - 1] + Rise(s[i])
  OBVIOUS
<1>1. 0 \in S
  <2>1. Begun(0) = {} /\ Ended(0) = {}
    OBVIOUS
  <2> HIDE DEF Begun, Ended
  <2>2. IsFiniteSet({}) /\ Cardinality({}) = 0
    BY FS_EmptySet
  <2>3. g[0] = 0 /\ 0 - 0 = 0
    OBVIOUS
  <2>4. Good(0)
    BY <2>1, <2>2, <2>3
  <2> HIDE DEF Good
  <2> QED
    BY <2>4
<1>2. ASSUME NEW j \in S PROVE j + 1 \in S
  <2>0. j \in Nat /\ (j <= Len(s) => Good(j))
    OBVIOUS
  <2> HIDE DEF Good
  <2> SUFFICES ASSUME j + 1 <= Len(s) PROVE Good(j + 1)
    BY <2>0
  <2>1. j <= Len(s) /\ j + 1 \in 1 .. Len(s) /\ j \in 0 .. Len(s) /\ (j + 1) - 1 = j
    BY <1>0, <2>0
  <2>2. Good(j)
    BY <2>0, <2>1
  <2>3. s[j + 1] \in TokenType
    BY <2>1, ElementOfSeq
  <2>4. g[j + 1] = g[j] + Rise(s[j + 1]) /\ g[j] \in Int
    BY <1>0, <2>1
  <2>5. Begun(j + 1) = IF s[j + 1][1] = "begin" THEN Begun(j) \cup {j + 1} ELSE Begun(j)
    BY <2>0
  <2>6. Ended(j + 1) = IF s[j + 1][1] = "end" THEN Ended(j) \cup {j + 1} ELSE Ended(j)
    BY <2>0
  <2>7. j + 1 \notin Begun(j) /\ j + 1 \notin Ended(j)
    BY <2>0
  <2> HIDE DEF Begun, Ended
  <2>8. /\ IsFiniteSet(Begun(j)) /\ IsFiniteSet(Ended(j))
        /\ Cardinality(Begun(j)) - Cardinality(Ended(j)) = g[j]
    BY <2>2 DEF Good
  <2>9. Cardinality(Begun(j)) \in Nat /\ Cardinality(Ended(j)) \in Nat
    BY <2>8, FS_CardinalityType
  <2>10. /\ IsFiniteSet(Begun(j) \cup {j + 1})
         /\ Cardinality(Begun(j) \cup {j + 1}) = Cardinality(Begun(j)) + 1
    BY <2>7, <2>8, FS_AddElement
  <2>11. /\ IsFiniteSet(Ended(j) \cup {j + 1})
         /\ Cardinality(Ended(j) \cup {j + 1}) = Cardinality(Ended(j)) + 1
    BY <2>7, <2>8, FS_AddElement
  <2>12. CASE s[j + 1][1] = "begin"
    <3>1. Rise(s[j + 1]) = 1 /\ s[j + 1][1] # "end"
      BY <2>3, <2>12, TokenIsCall
    <3> QED
      <4>1. Begun(j + 1) = Begun(j) \cup {j + 1} /\ Ended(j + 1) = Ended(j)
        BY <2>5, <2>6, <2>12, <3>1
      <4>2. /\ IsFiniteSet(Begun(j + 1)) /\ IsFiniteSet(Ended(j + 1))
            /\ Cardinality(Begun(j + 1)) = Cardinality(Begun(j)) + 1
            /\ Cardinality(Ended(j + 1)) = Cardinality(Ended(j))
        BY <2>8, <2>10, <4>1
      <4>3. Cardinality(Begun(j + 1)) - Cardinality(Ended(j + 1)) = g[j + 1]
        BY <2>4, <2>8, <2>9, <3>1, <4>2
      <4> QED
        BY <4>2, <4>3 DEF Good
  <2>13. CASE s[j + 1][1] = "end"
    <3>1. Rise(s[j + 1]) = -1 /\ s[j + 1][1] # "begin"
      BY <2>3, <2>13, TokenIsCall
    <3> QED
      <4>1. Begun(j + 1) = Begun(j) /\ Ended(j + 1) = Ended(j) \cup {j + 1}
        BY <2>5, <2>6, <2>13, <3>1
      <4>2. /\ IsFiniteSet(Begun(j + 1)) /\ IsFiniteSet(Ended(j + 1))
            /\ Cardinality(Begun(j + 1)) = Cardinality(Begun(j))
            /\ Cardinality(Ended(j + 1)) = Cardinality(Ended(j)) + 1
        BY <2>8, <2>11, <4>1
      <4>3. Cardinality(Begun(j + 1)) - Cardinality(Ended(j + 1)) = g[j + 1]
        BY <2>4, <2>8, <2>9, <3>1, <4>2
      <4> QED
        BY <4>2, <4>3 DEF Good
  <2>14. CASE s[j + 1][1] \notin {"begin", "end"}
    <3>1. Rise(s[j + 1]) = 0
      BY <2>3, <2>14, TokenIsCall
    <3> QED
      BY <2>4, <2>5, <2>6, <2>8, <2>9, <2>14, <3>1 DEF Good
  <2> QED
    BY <2>12, <2>13, <2>14
<1>3. S \in SUBSET Nat
  OBVIOUS
<1> HIDE DEF S
<1>4. S = Nat
  BY <1>1, <1>2, <1>3, SetInduction
<1>5. k \in S /\ k <= Len(s)
  BY <1>0, <1>4
<1> QED
  BY <1>5 DEF S, OpenAfter

(* So it is of a text whose levels are bounded.                              *)
LEMMA OpenAfterIsLevel ==
    ASSUME NEW top \in Nat, NEW s \in Seq(TokenType), NEW g, Levels(s, top, g), g[0] = 0,
           NEW k \in 0 .. Len(s)
    PROVE  OpenAfter(s, k) = g[k]
<1>1. g \in [0 .. Len(s) -> Int] /\ \A i \in 1 .. Len(s) : g[i] = g[i - 1] + Rise(s[i])
  <2>1. g \in [0 .. Len(s) -> 0 .. top]
    BY DEF Levels
  <2>2. g \in [0 .. Len(s) -> Int]
    BY <2>1
  <2> QED
    BY <2>2 DEF Levels
<1> QED
  BY <1>1, OpenAfterCounts

------------------------------------------------------------------------------
(* The report that is embedded.                                              *)

(* The object that a report begins with is what its file begins with.        *)
LEMMA FirstObjectOpens ==
    ASSUME NEW s \in Seq(TokenType), s # <<>>
    PROVE  \E n \in 1 .. Len(s) : /\ FirstObject(s) = SubSeq(s, 1, n)
                                  /\ \A j \in 1 .. n - 1 : OpenAfter(s, j) # 0
<1> DEFINE ends == {k \in DOMAIN s : OpenAfter(s, k) = 0}
<1>1. Len(s) \in Nat /\ Len(s) # 0 /\ DOMAIN s = 1 .. Len(s)
  BY EmptySeq, LenProperties
<1>2. CASE ends = {}
  <2>1. FirstObject(s) = s
    BY <1>2 DEF FirstObject
  <2>2. s = SubSeq(s, 1, Len(s))
    BY SubSeqFull
  <2>3. Len(s) \in 1 .. Len(s)
    BY <1>1
  <2>4. \A j \in 1 .. Len(s) - 1 : OpenAfter(s, j) # 0
    <3> TAKE j \in 1 .. Len(s) - 1
    <3>1. j \in DOMAIN s /\ j \notin ends
      BY <1>1, <1>2
    <3> QED
      BY <3>1
  <2> QED
    BY <2>1, <2>2, <2>3, <2>4
<1>3. CASE ends # {}
  <2> DEFINE n == CHOOSE k \in ends : \A j \in ends : k <= j
  <2>1. ends \in SUBSET Nat /\ ends \subseteq 1 .. Len(s)
    BY <1>1
  <2>2. FirstObject(s) = SubSeq(s, 1, n)
    BY <1>3 DEF FirstObject
  <2>5. \A j \in DOMAIN s : j \notin ends => OpenAfter(s, j) # 0
    OBVIOUS
  <2> HIDE DEF ends
  <2>3. \E k \in ends : \A j \in ends : k <= j
    BY <1>3, <2>1, Least
  <2>4. n \in ends /\ \A j \in ends : n <= j
    BY <2>3
  <2> HIDE DEF n
  <2>6. \A j \in 1 .. n - 1 : OpenAfter(s, j) # 0
    <3> TAKE j \in 1 .. n - 1
    <3>1. j \in DOMAIN s /\ ~(n <= j)
      BY <1>1, <2>1, <2>4
    <3> QED
      BY <2>4, <2>5, <3>1
  <2> QED
    BY <2>1, <2>2, <2>4, <2>6
<1> QED
  BY <1>2, <1>3

(* So is as much of it as can be read back.                                  *)
LEMMA StoppedReport ==
    ASSUME NEW s \in Seq(TokenType), NEW k \in StopsAfter(FirstObject(s)),
           SubSeq(FirstObject(s), 1, k) # <<>>
    PROVE  /\ s # <<>> /\ k \in 1 .. Len(s)
           /\ SubSeq(FirstObject(s), 1, k) = SubSeq(s, 1, k)
           /\ \A j \in 1 .. k - 1 : OpenAfter(s, j) # 0
<1> DEFINE first == FirstObject(s)
<1>1. s # <<>>
  <2> SUFFICES ASSUME s = <<>> PROVE FALSE
    OBVIOUS
  <2>1. first = <<>>
    <3>1. DOMAIN s = {}
      OBVIOUS
    <3>2. {i \in DOMAIN s : OpenAfter(s, i) = 0} = {}
      BY <3>1
    <3> QED
      BY <3>2 DEF FirstObject
  <2>2. Len(first) = 0
    BY <2>1
  <2> HIDE DEF first
  <2>3. k = 0
    BY <2>2 DEF StopsAfter, first
  <2>4. SubSeq(<<>>, 1, 0) = <<>>
    OBVIOUS
  <2> QED
    BY <2>1, <2>3, <2>4 DEF first
<1>2. PICK m \in 1 .. Len(s) : /\ first = SubSeq(s, 1, m)
                               /\ \A j \in 1 .. m - 1 : OpenAfter(s, j) # 0
  BY <1>1, FirstObjectOpens
<1> HIDE DEF first
<1>3. /\ Len(s) \in Nat /\ m \in Nat /\ m <= Len(s) /\ Len(first) = m
      /\ first \in Seq(TokenType) /\ \A i \in 1 .. m : first[i] = s[i]
  BY <1>2, SubSeqProperties
<1>4. k \in 0 .. m
  <2>1. k \in {Len(first)} \cup 0 .. Len(first) - 1
    BY DEF StopsAfter, first
  <2> QED
    BY <1>3, <2>1
<1>5. SubSeq(first, 1, k) # <<>>
  BY DEF first
<1>6. k # 0
  BY <1>3, <1>5
<1>7. SubSeq(first, 1, k) = SubSeq(s, 1, k)
  <2>1. /\ SubSeq(first, 1, k) \in Seq(TokenType) /\ Len(SubSeq(first, 1, k)) = k
        /\ \A i \in 1 .. k : SubSeq(first, 1, k)[i] = first[i]
    BY <1>3, <1>4, <1>6, SubSeqProperties
  <2>2. /\ SubSeq(s, 1, k) \in Seq(TokenType) /\ Len(SubSeq(s, 1, k)) = k
        /\ \A i \in 1 .. k : SubSeq(s, 1, k)[i] = s[i]
    BY <1>3, <1>4, <1>6, SubSeqProperties
  <2>3. \A i \in 1 .. k : first[i] = s[i]
    BY <1>3, <1>4
  <2> QED
    BY <2>1, <2>2, <2>3, SeqEqual
<1> QED
  BY <1>1, <1>2, <1>3, <1>4, <1>6, <1>7 DEF first

(* The names of an embedded report and of the user's section.                *)
LEMMA EmbeddedNames == "recrash_report" \in Names /\ "user" \in Names
  BY DEF Names

(* What addJSONFromFile adds of a report.                                    *)
EmbeddedText(report) == <<Begin("recrash_report")>> \o Tail(report) \o MissingEnds(report)

(* It has the tokens of the report, the first one under another name, and an *)
(* end for every container that is open.                                     *)
LEMMA EmbeddedTokens ==
    ASSUME NEW top \in Nat, NEW s \in Seq(TokenType), s # <<>>, NEW g, Levels(s, top, g), g[0] = 0
    PROVE  LET n == Len(s)
               E == EmbeddedText(s)
           IN  /\ n \in Nat \ {0} /\ g[n] \in 0 .. top
               /\ E \in Seq(TokenType) /\ Len(E) = n + g[n]
               /\ \A i \in 1 .. n + g[n] :
                      E[i] = IF i = 1 THEN Begin("recrash_report")
                             ELSE IF i <= n THEN s[i] ELSE End
<1> DEFINE n == Len(s)
           E == EmbeddedText(s)
           m == g[n]
           first == <<Begin("recrash_report")>>
           rest == Tail(s)
           ends == MissingEnds(s)
<1>1. n \in Nat /\ n # 0 /\ n \in 0 .. n
  BY EmptySeq, LenProperties
<1>2. m \in 0 .. top
  BY <1>1 DEF Levels
<1>3. OpenAfter(s, n) = m
  BY <1>1, OpenAfterIsLevel
<1>4. ends = [i \in 1 .. m |-> End]
  BY <1>3 DEF MissingEnds
<1>5. End \in TokenType /\ Begin("recrash_report") \in TokenType
  BY EmbeddedNames DEF TokenType, End, Begin
<1> HIDE DEF n, m
<1>6. m \in Nat
  BY <1>2
<1>7. ends \in Seq(TokenType) /\ Len(ends) = m /\ \A i \in 1 .. m : ends[i] = End
  <2>1. ends \in [1 .. m -> TokenType]
    BY <1>4, <1>5
  <2>2. ends \in Seq(TokenType)
    BY <1>6, <2>1, SeqDef
  <2>3. Len(ends) = m
    BY <1>4, <1>6, <2>2
  <2> QED
    BY <1>4, <2>2, <2>3
<1>8. /\ rest \in Seq(TokenType) /\ Len(rest) = n - 1
      /\ \A i \in 1 .. n - 1 : rest[i] = s[i + 1]
  BY <1>1, HeadTailProperties DEF n
<1>9. first \in Seq(TokenType) /\ Len(first) = 1 /\ first[1] = Begin("recrash_report")
  BY <1>5
<1>10. E = first \o rest \o ends
  BY DEF EmbeddedText
<1> HIDE DEF first, rest, ends, E
<1> DEFINE a == first \o rest
<1>11. /\ a \in Seq(TokenType) /\ Len(a) = n
       /\ a[1] = Begin("recrash_report") /\ \A i \in 2 .. n : a[i] = s[i]
  <2>1. a \in Seq(TokenType) /\ Len(a) = 1 + (n - 1)
        /\ \A i \in 1 .. 1 + (n - 1) : a[i] = IF i <= 1 THEN first[i] ELSE rest[i - 1]
    <3>0. first \in Seq(TokenType) /\ rest \in Seq(TokenType)
      BY <1>8, <1>9
    <3>1. /\ a \in Seq(TokenType) /\ Len(a) = Len(first) + Len(rest)
          /\ \A i \in 1 .. Len(first) + Len(rest) :
                 a[i] = IF i <= Len(first) THEN first[i] ELSE rest[i - Len(first)]
      BY <3>0, ConcatProperties
    <3> QED
      BY <1>8, <1>9, <3>1
  <2>2. 1 + (n - 1) = n /\ 1 \in 1 .. n
    BY <1>1
  <2>3. a[1] = first[1]
    BY <2>1, <2>2
  <2>4. ASSUME NEW i \in 2 .. n PROVE a[i] = s[i]
    <3>1. i \in 1 .. n /\ ~(i <= 1) /\ i - 1 \in 1 .. n - 1 /\ (i - 1) + 1 = i
      BY <1>1
    <3> QED
      BY <1>8, <2>1, <2>2, <3>1
  <2> QED
    BY <1>9, <2>1, <2>2, <2>3, <2>4
<1> HIDE DEF a
<1>12. E \in Seq(TokenType) /\ Len(E) = n + m
       /\ \A i \in 1 .. n + m : E[i] = IF i <= n THEN a[i] ELSE ends[i - n]
  BY <1>7, <1>10, <1>11, ConcatProperties DEF a
<1>13. ASSUME NEW i \in 1 .. n + m
       PROVE  E[i] = IF i = 1 THEN Begin("recrash_report") ELSE IF i <= n THEN s[i] ELSE End
  <2>1. CASE i = 1
    BY <1>1, <1>6, <1>11, <1>12, <2>1
  <2>2. CASE i # 1 /\ i <= n
    <3>1. i \in 2 .. n
      BY <1>1, <2>2
    <3> QED
      BY <1>11, <1>12, <2>2, <3>1
  <2>3. CASE ~(i <= n)
    <3>1. i - n \in 1 .. m /\ i # 1
      BY <1>1, <1>6, <2>3
    <3> QED
      BY <1>7, <1>12, <2>3, <3>1
  <2> QED
    BY <2>1, <2>2, <2>3
<1>14. n \in Nat \ {0}
  BY <1>1
<1> QED
  BY <1>2, <1>12, <1>13, <1>14 DEF n, m, E

(* A text of n tokens is at level h at least, after all but the last of them.*)
StaysAbove(g, n, h) == \A j \in 1 .. n - 1 : g[j] >= h

(* It leaves the level where it was, one level above the old report's.       *)
LEMMA EmbeddedRise ==
    ASSUME NEW top \in Nat, NEW s \in Seq(TokenType), s # <<>>, s[1][1] = "begin",
           NEW g, Levels(s, top, g), g[0] = 0
    PROVE  /\ EmbeddedText(s) \in Seq(TokenType)
           /\ \E f : /\ Levels(EmbeddedText(s), top + 1, f) /\ f[0] = 1 /\ f[Len(EmbeddedText(s))] = 1
                     /\ StaysAbove(g, Len(s), 1) => StaysAbove(f, Len(EmbeddedText(s)), 2)
<1> DEFINE n == Len(s)
           E == EmbeddedText(s)
           m == g[n]
           f == [i \in 0 .. n + m |-> IF i <= n THEN 1 + g[i] ELSE 1 + m - (i - n)]
<1>1. /\ n \in Nat \ {0} /\ m \in 0 .. top /\ E \in Seq(TokenType) /\ Len(E) = n + m
      /\ \A i \in 1 .. n + m :
             E[i] = IF i = 1 THEN Begin("recrash_report") ELSE IF i <= n THEN s[i] ELSE End
  BY EmbeddedTokens
<1>2. /\ g \in [0 .. n -> 0 .. top] /\ \A i \in 1 .. n : g[i] = g[i - 1] + Rise(s[i])
  BY DEF Levels
<1>3. Rise(Begin("recrash_report")) = 1 /\ Rise(End) = -1 /\ Rise(s[1]) = 1
  BY DEF Rise, Begin, End
<1>4. g[n] = m /\ g[0] = 0
  OBVIOUS
<1> HIDE DEF n, m, E
<1>5. n \in Nat /\ m \in Nat /\ n # 0 /\ n + m \in Nat /\ m <= top
  BY <1>1
<1>6. f \in [0 .. n + m -> 0 .. top + 1]
  <2>1. ASSUME NEW i \in 0 .. n + m
        PROVE  (IF i <= n THEN 1 + g[i] ELSE 1 + m - (i - n)) \in 0 .. top + 1
    <3>1. CASE i <= n
      <4>1. g[i] \in 0 .. top
        BY <1>2, <1>5, <3>1
      <4> QED
        BY <3>1, <4>1
    <3>2. CASE ~(i <= n)
      BY <1>5, <3>2
    <3> QED
      BY <3>1, <3>2
  <2> QED
    BY <2>1
<1>7. ASSUME NEW i \in 1 .. n + m PROVE f[i] = f[i - 1] + Rise(E[i])
  <2>0. f[i] = (IF i <= n THEN 1 + g[i] ELSE 1 + m - (i - n))
        /\ f[i - 1] = (IF i - 1 <= n THEN 1 + g[i - 1] ELSE 1 + m - ((i - 1) - n))
    BY <1>5
  <2> HIDE DEF f
  <2>1. CASE i <= n
    <3>1. i \in 1 .. n /\ i - 1 \in 0 .. n /\ i \in 0 .. n
      BY <1>5, <2>1
    <3>2. g[i] = g[i - 1] + Rise(s[i]) /\ g[i] \in 0 .. top /\ g[i - 1] \in 0 .. top
      BY <1>2, <3>1
    <3>3. Rise(E[i]) = Rise(s[i])
      BY <1>1, <1>3, <2>1
    <3>4. f[i] = 1 + g[i] /\ f[i - 1] = 1 + g[i - 1]
      BY <2>0, <2>1, <3>1
    <3>5. Rise(s[i]) \in Int
      BY RiseInt
    <3> QED
      BY <3>2, <3>3, <3>4, <3>5
  <2>2. CASE i = n + 1
    <3>1. E[i] = End
      BY <1>1, <1>5, <2>2
    <3>2. f[i] = 1 + m - 1 /\ f[i - 1] = 1 + m
      BY <1>4, <1>5, <2>0, <2>2
    <3> QED
      BY <1>3, <1>5, <3>1, <3>2
  <2>3. CASE i > n + 1
    <3>1. E[i] = End
      BY <1>1, <1>5, <2>3
    <3>2. f[i] = 1 + m - (i - n) /\ f[i - 1] = 1 + m - ((i - 1) - n)
      BY <1>5, <2>0, <2>3
    <3> QED
      BY <1>3, <1>5, <3>1, <3>2
  <2> QED
    BY <1>5, <2>1, <2>2, <2>3
<1>8. f[0] = 1 /\ f[n + m] = 1
  <2>1. f[0] = 1 + g[0]
    BY <1>5
  <2>2. CASE m = 0
    <3>1. f[n + m] = 1 + g[n]
      BY <1>5, <2>2
    <3> QED
      BY <1>4, <2>1, <2>2, <3>1
  <2>3. CASE m # 0
    <3>1. f[n + m] = 1 + m - ((n + m) - n)
      BY <1>5, <2>3
    <3> QED
      BY <1>4, <1>5, <2>1, <3>1
  <2> QED
    BY <2>2, <2>3
<1>9. ASSUME StaysAbove(g, n, 1), NEW j \in 1 .. (n + m) - 1
      PROVE  f[j] >= 2
  <2>0. f[j] = (IF j <= n THEN 1 + g[j] ELSE 1 + m - (j - n))
    BY <1>5
  <2> HIDE DEF f
  <2>1. CASE j <= n /\ j # n
    <3>1. j \in 1 .. n - 1 /\ j \in 0 .. n
      BY <1>5, <2>1
    <3>2. g[j] >= 1 /\ g[j] \in 0 .. top
      BY <1>2, <1>9, <3>1 DEF StaysAbove
    <3> QED
      BY <2>0, <2>1, <3>2
  <2>2. CASE j = n
    <3>1. f[j] = 1 + m /\ m >= 1
      BY <1>4, <1>5, <2>0, <2>2
    <3> QED
      BY <1>5, <3>1
  <2>3. CASE ~(j <= n)
    <3>1. f[j] = 1 + m - (j - n)
      BY <2>0, <2>3
    <3> QED
      BY <1>5, <2>3, <3>1
  <2> QED
    BY <1>5, <2>1, <2>2, <2>3
<1> HIDE DEF f
<1>10. Levels(E, top + 1, f)
  BY <1>1, <1>6, <1>7 DEF Levels
<1>11. StaysAbove(g, n, 1) => StaysAbove(f, Len(E), 2)
  BY <1>1, <1>9 DEF StaysAbove
<1>12. f[0] = 1 /\ f[Len(E)] = 1
  BY <1>1, <1>8
<1> QED
  BY <1>1, <1>10, <1>11, <1>12 DEF n, E

(* So it is balanced.                                                        *)
LEMMA EmbeddedLevels ==
    ASSUME NEW top \in Nat, NEW s \in Seq(TokenType), s # <<>>, s[1][1] = "begin",
           NEW g, Levels(s, top, g), g[0] = 0
    PROVE  /\ EmbeddedText(s) \in Seq(TokenType)
           /\ Balanced(EmbeddedText(s), top + 1, 1, 1)
  BY EmbeddedRise DEF Balanced

------------------------------------------------------------------------------
(* Calls that lead to others.                                                *)

(* Bounds may be weakened.                                                   *)
LEMMA BoundedWeaken ==
    ASSUME NEW top \in Nat, NEW s \in Seq(CallType), NEW h0 \in Int, NEW l0 \in Int,
           NEW h1 \in Int, NEW l1 \in Int, Bounded(s, top, h0, l0, h1, l1),
           NEW g0 \in Int, NEW k0 \in Int, NEW g1 \in Int, NEW k1 \in Int,
           g0 <= h0, k0 <= l0, h1 <= g1, l1 <= k1
    PROVE  Bounded(s, top, g0, k0, g1, k1)
<1>1. PICK h, l : /\ Ceilings(s, top, h, l) /\ h[0] >= h0 /\ l[0] >= l0
                  /\ h[Len(s)] <= h1 /\ l[Len(s)] <= l1
  BY DEF Bounded
<1>2. /\ Len(s) \in Nat /\ 0 \in 0 .. Len(s) /\ Len(s) \in 0 .. Len(s)
      /\ h \in [0 .. Len(s) -> 0 .. top] /\ l \in [0 .. Len(s) -> Int]
  BY <1>1 DEF Ceilings
<1>3. h[0] \in 0 .. top /\ l[0] \in Int /\ h[Len(s)] \in 0 .. top /\ l[Len(s)] \in Int
  BY <1>2
<1>4. h[0] \in Int /\ h[Len(s)] \in Int
  BY <1>3
<1>5. h[0] >= g0 /\ l[0] >= k0 /\ h[Len(s)] <= g1 /\ l[Len(s)] <= k1
  <2>1. \A a, b, c \in Int : a <= b /\ c >= b => c >= a
    OBVIOUS
  <2>2. \A a, b, c \in Int : a <= b /\ c <= a => c <= b
    OBVIOUS
  <2> QED
    BY <1>1, <1>3, <1>4, <2>1, <2>2
<1> QED
  BY <1>1, <1>5 DEF Bounded

(* Two calls are one call and another.                                       *)
LEMMA Pair == ASSUME NEW a, NEW b PROVE <<a>> \o <<b>> = <<a, b>>
<1> DEFINE S == {a, b}
           first == <<a>>
           last == <<b>>
           both == <<a, b>>
<1>1. /\ first \in Seq(S) /\ Len(first) = 1 /\ first[1] = a
      /\ last \in Seq(S) /\ Len(last) = 1 /\ last[1] = b
      /\ both \in Seq(S) /\ Len(both) = 2 /\ both[1] = a /\ both[2] = b
  OBVIOUS
<1> HIDE DEF S, first, last, both
<1>2. /\ first \o last \in Seq(S) /\ Len(first \o last) = Len(first) + Len(last)
      /\ \A i \in 1 .. Len(first) + Len(last) :
             (first \o last)[i] = IF i <= Len(first) THEN first[i] ELSE last[i - Len(first)]
  BY <1>1, ConcatProperties
<1>3. Len(first \o last) = 2 /\ (first \o last)[1] = a /\ (first \o last)[2] = b
  <2>1. 1 \in 1 .. 2 /\ 2 \in 1 .. 2 /\ 2 - 1 = 1 /\ 1 + 1 = 2 /\ ~(2 <= 1)
    OBVIOUS
  <2> QED
    BY <1>1, <1>2, <2>1
<1>4. \A i \in 1 .. 2 : i = 1 \/ i = 2
  OBVIOUS
<1>5. \A i \in 1 .. Len(both) : (first \o last)[i] = both[i]
  BY <1>1, <1>3, <1>4
<1>6. first \o last = both
  BY <1>1, <1>2, <1>3, <1>5, SeqEqual
<1> QED
  BY <1>6 DEF first, last, both

(* So are three.                                                             *)
LEMMA Triple == ASSUME NEW a, NEW b, NEW c PROVE <<a, b>> \o <<c>> = <<a, b, c>>
<1> DEFINE S == {a, b, c}
           first == <<a, b>>
           last == <<c>>
           all == <<a, b, c>>
<1>1. /\ first \in Seq(S) /\ Len(first) = 2 /\ first[1] = a /\ first[2] = b
      /\ last \in Seq(S) /\ Len(last) = 1 /\ last[1] = c
      /\ all \in Seq(S) /\ Len(all) = 3 /\ all[1] = a /\ all[2] = b /\ all[3] = c
  OBVIOUS
<1> HIDE DEF S, first, last, all
<1>2. /\ first \o last \in Seq(S) /\ Len(first \o last) = Len(first) + Len(last)
      /\ \A i \in 1 .. Len(first) + Len(last) :
             (first \o last)[i] = IF i <= Len(first) THEN first[i] ELSE last[i - Len(first)]
  BY <1>1, ConcatProperties
<1>3. /\ Len(first \o last) = 3
      /\ (first \o last)[1] = a /\ (first \o last)[2] = b /\ (first \o last)[3] = c
  <2>1. 1 \in 1 .. 3 /\ 2 \in 1 .. 3 /\ 3 \in 1 .. 3 /\ 3 - 2 = 1 /\ 2 + 1 = 3 /\ ~(3 <= 2)
    OBVIOUS
  <2> QED
    BY <1>1, <1>2, <2>1
<1>4. \A i \in 1 .. 3 : i = 1 \/ i = 2 \/ i = 3
  OBVIOUS
<1>5. \A i \in 1 .. Len(all) : (first \o last)[i] = all[i]
  BY <1>1, <1>3, <1>4
<1>6. first \o last = all
  BY <1>1, <1>2, <1>3, <1>5, SeqEqual
<1> QED
  BY <1>6 DEF first, last, all

(* The calls that leave the level and the limit as they were.                *)
Level(top, h, l) == {s \in Seq(CallType) : Bounded(s, top, h, l, h, l)}

(* No calls at all.                                                          *)
LEMMA LevelNone ==
    ASSUME NEW top \in Nat, NEW h \in 0 .. top, NEW l \in Int
    PROVE  <<>> \in Level(top, h, l)
<1>1. <<>> \in Seq(CallType) /\ h \in Int /\ h <= h /\ l <= l
  OBVIOUS
<1>2. Bounded(<<>>, top, h, l, h, l)
  BY <1>1, BoundedNone
<1> QED
  BY <1>1, <1>2 DEF Level

(* One call.                                                                 *)
LEMMA LevelOne ==
    ASSUME NEW top \in Nat, NEW h \in 0 .. top, NEW l \in Int, NEW call \in CallType,
           Covers(call, top, h, l, h, l)
    PROVE  <<call>> \in Level(top, h, l)
<1>1. <<call>> \in Seq(CallType)
  OBVIOUS
<1>2. Bounded(<<call>>, top, h, l, h, l)
  BY BoundedOne
<1> QED
  BY <1>1, <1>2 DEF Level

(* Calls after calls.                                                        *)
LEMMA LevelConcat ==
    ASSUME NEW top \in Nat, NEW h \in 0 .. top, NEW l \in Int,
           NEW s \in Level(top, h, l), NEW t \in Level(top, h, l)
    PROVE  s \o t \in Level(top, h, l)
<1>1. /\ s \in Seq(CallType) /\ t \in Seq(CallType) /\ h \in Int
      /\ Bounded(s, top, h, l, h, l) /\ Bounded(t, top, h, l, h, l)
  BY DEF Level
<1>2. s \o t \in Seq(CallType)
  BY <1>1, ConcatProperties
<1>3. Bounded(s \o t, top, h, l, h, l)
  BY <1>1, BoundedConcat
<1> QED
  BY <1>2, <1>3 DEF Level

(* Calls for each of several things.                                         *)
LEMMA LevelFlatten ==
    ASSUME NEW top \in Nat, NEW h \in 0 .. top, NEW l \in Int, NEW n \in Nat, NEW f,
           f = [i \in 1 .. n |-> f[i]], \A i \in 1 .. n : f[i] \in Level(top, h, l)
    PROVE  FlattenSeq(f) \in Level(top, h, l)
<1>1. Level(top, h, l) \in SUBSET Seq(CallType)
  BY DEF Level
<1>2. f \in [1 .. n -> Level(top, h, l)]
  OBVIOUS
<1>3. f \in Seq(Level(top, h, l))
  BY <1>2, SeqDef
<1> QED
  BY <1>1, <1>3, LevelNone, LevelConcat, FlattenClosed

(* Elements are added.                                                       *)
LEMMA LevelFields ==
    ASSUME NEW top \in Nat, NEW h \in 0 .. top, NEW l \in Int, NEW names \in Seq(Names)
    PROVE  <<Fields(names)>> \in Level(top, h, l)
<1>1. Fields(names) \in CallType /\ Fields(names)[1] = "fields"
  BY DEF CallType, Fields
<1>2. Covers(Fields(names), top, h, l, h, l)
  BY <1>1 DEF Covers, Rise
<1> QED
  BY <1>1, <1>2, LevelOne

(* An object around calls one level down.                                    *)
LEMMA LevelObject ==
    ASSUME NEW top \in Nat, NEW h \in 0 .. top, NEW k \in 0 .. top, k = h + 1, NEW l \in Int,
           NEW key \in Names, NEW body \in Level(top, k, l)
    PROVE  Object(key, body) \in Level(top, h, l)
<1>1. body \in Seq(CallType) /\ Bounded(body, top, h + 1, l, h + 1, l) /\ h < top
  BY DEF Level
<1>2. /\ Object(key, body) \in Seq(CallType)
      /\ Bounded(Object(key, body), top, h, l, h, l)
  BY <1>1, BoundedObject
<1> QED
  BY <1>2 DEF Level

(* What is to be done after a call, when the call has led to others.         *)
LEMMA Advance ==
    ASSUME NEW top \in Nat, NEW s \in Seq(CallType), s # <<>>,
           NEW h0 \in Int, NEW l0 \in Int, NEW h1 \in Int, NEW l1 \in Int,
           Bounded(s, top, h0, l0, h1, l1),
           NEW calls \in Seq(CallType), NEW g0 \in Int, NEW k0 \in Int,
           \A h \in 0 .. top, l \in Int :
               Covers(Head(s), top, h0, l0, h, l) => Bounded(calls, top, g0, k0, h, l)
    PROVE  /\ calls \o Tail(s) \in Seq(CallType)
           /\ Bounded(calls \o Tail(s), top, g0, k0, h1, l1)
<1>1. PICK h \in 0 .. top, l \in Int :
          Covers(Head(s), top, h0, l0, h, l) /\ Bounded(Tail(s), top, h, l, h1, l1)
  BY BoundedTail
<1>2. Bounded(calls, top, g0, k0, h, l)
  BY <1>1
<1>3. Tail(s) \in Seq(CallType) /\ h \in Int
  BY HeadTailProperties
<1> DEFINE rest == Tail(s)
<1>4. calls \o rest \in Seq(CallType)
  BY <1>3, ConcatProperties
<1>5. Bounded(calls \o rest, top, g0, k0, h1, l1)
  BY <1>1, <1>2, <1>3, BoundedConcat
<1> QED
  BY <1>4, <1>5

(* Calls that change neither the level nor the limit lead to any higher      *)
(* ones.                                                                     *)
LEMMA LevelAdvance ==
    ASSUME NEW top \in Nat, NEW h0 \in 0 .. top, NEW l0 \in Int,
           NEW calls \in Level(top, h0, l0), NEW h \in 0 .. top, NEW l \in Int, h0 <= h, l0 <= l
    PROVE  Bounded(calls, top, h0, l0, h, l)
<1>1. /\ calls \in Seq(CallType) /\ Bounded(calls, top, h0, l0, h0, l0)
      /\ h0 \in Int /\ h \in Int /\ h0 <= h0 /\ l0 <= l0
  BY DEF Level
<1> QED
  BY <1>1, BoundedWeaken

(* The names that calls which lead to others come with.                      *)
LEMMA StepNames ==
    /\ <<"any">> \in Seq(Names) /\ <<"error", "json_data">> \in Seq(Names)
    /\ <<"address">> \in Seq(Names) /\ <<"type">> \in Seq(Names) /\ <<"value">> \in Seq(Names)
    /\ <<"type", "class">> \in Seq(Names) /\ <<"tagged_payload">> \in Seq(Names)
    /\ "first_object" \in Names /\ "ivars" \in Names
  BY DEF Names

(* The name of what is in a text.                                            *)
LEMMA BrokenNames == "any" \in Names
  BY DEF Names

(* The closing ends what is open, one container at a time.                   *)
LEMMA CloseLeadsTo ==
    ASSUME NEW top \in Nat, NEW h0 \in 0 .. top, NEW l0 \in Int,
           NEW h \in 0 .. top, NEW l \in Int, h0 <= h, l0 <= l
    PROVE  /\ <<End, <<"close">>>> \in Seq(CallType)
           /\ Bounded(<<End, <<"close">>>>, top, h0, l0, h, l)
<1>1. /\ End \in CallType /\ End[1] = "end" /\ Rise(End) = -1
      /\ <<"close">> \in CallType /\ <<"close">>[1] = "close" /\ Rise(<<"close">>) = 0
  BY DEF CallType, End, Rise
<1>2. Covers(End, top, h0, l0, h0, l0) /\ Covers(<<"close">>, top, h0, l0, h0, l0)
  BY <1>1 DEF Covers
<1> DEFINE first == <<End>>
           last == <<<<"close">>>>
<1>3. first \in Level(top, h0, l0) /\ last \in Level(top, h0, l0)
  BY <1>1, <1>2, LevelOne
<1>4. first \o last = <<End, <<"close">>>>
  BY Pair
<1> HIDE DEF first, last
<1>5. first \o last \in Level(top, h0, l0)
  BY <1>3, LevelConcat
<1>6. Bounded(first \o last, top, h0, l0, h, l)
  BY <1>5, LevelAdvance
<1>7. first \o last \in Seq(CallType)
  BY <1>5 DEF Level
<1> QED
  BY <1>4, <1>6, <1>7

(* addJSONElement.                                                           *)
JSONCalls(key, text, close) ==
    CASE text = "object" -> <<Begin(key), Fields(<<"any">>)>> \o When(close, <<End>>)
      [] text = "scalar" -> <<Fields(<<key>>)>>
      [] OTHER -> <<<<"broken", key, Nesting, close>>>> \o InvalidJSON(key)

(* A container with an element, which stays open if it is not to be closed.  *)
LEMMA OpenedLeadsTo ==
    ASSUME NEW top \in Nat, NEW h0 \in 0 .. top, h0 < top, NEW l0 \in Int,
           NEW h \in 0 .. top, NEW l \in Int, l0 <= l,
           NEW key \in Names, NEW close \in BOOLEAN,
           h >= h0 + (IF close THEN 0 ELSE 1)
    PROVE  LET calls == <<Begin(key), Fields(<<"any">>)>> \o When(close, <<End>>)
           IN  calls \in Seq(CallType) /\ Bounded(calls, top, h0, l0, h, l)
<1> DEFINE k == h0 + 1
           begin == <<Begin(key)>>
           fields == <<Fields(<<"any">>)>>
           object == Object(key, fields)
           calls == <<Begin(key), Fields(<<"any">>)>> \o When(close, <<End>>)
<1>0. k \in 0 .. top /\ k = h0 + 1 /\ h0 <= h /\ h0 \in Int /\ k \in Int /\ h \in Int
  OBVIOUS
<1>3. begin \o fields = <<Begin(key), Fields(<<"any">>)>>
  BY Pair
<1>3a. calls = (begin \o fields) \o When(close, <<End>>)
  BY <1>3
<1> HIDE DEF k
<1>1. fields \in Level(top, k, l0)
  BY <1>0, StepNames, LevelFields
<1>2. begin \in Seq(CallType) /\ Bounded(begin, top, h0, l0, k, l0)
  <2>1. Covers(Begin(key), top, h0, l0, k, l0)
    BY <1>0, BeginEnd DEF Covers
  <2>2. Bounded(<<Begin(key)>>, top, h0, l0, k, l0)
    BY <1>0, <2>1, BeginEnd, BoundedOne
  <2> QED
    BY <2>2, BeginEnd
<1>4. object = begin \o fields \o <<End>>
  BY DEF Object
<1>5. object \in Level(top, h0, l0)
  <2> HIDE DEF fields
  <2> QED
    BY <1>0, <1>1, LevelObject DEF k
<1> HIDE DEF begin, fields, object, calls
<1>6. CASE close
  <2>1. calls = object
    BY <1>3a, <1>4, <1>6 DEF When
  <2>2. Bounded(object, top, h0, l0, h, l)
    BY <1>0, <1>5, LevelAdvance
  <2>3. object \in Seq(CallType)
    BY <1>5 DEF Level
  <2> QED
    BY <2>1, <2>2, <2>3 DEF calls
<1>7. CASE ~close
  <2>1. fields \in Seq(CallType) /\ Bounded(fields, top, k, l0, k, l0)
    BY <1>1 DEF Level
  <2>2. begin \o fields \in Seq(CallType)
    BY <1>2, <2>1, ConcatProperties
  <2>3. Bounded(begin \o fields, top, h0, l0, k, l0)
    BY <1>0, <1>2, <2>1, BoundedConcat
  <2>4. h0 <= h0 /\ l0 <= l0 /\ k <= h
    BY <1>0, <1>7
  <2>5. Bounded(begin \o fields, top, h0, l0, h, l)
    BY <1>0, <2>2, <2>3, <2>4, BoundedWeaken
  <2>6. calls = (begin \o fields) \o <<>>
    BY <1>3a, <1>7 DEF When
  <2>7. (begin \o fields) \o <<>> = begin \o fields
    BY <2>2, ConcatEmptySeq
  <2> QED
    BY <2>2, <2>5, <2>6, <2>7 DEF calls
<1> QED
  BY <1>6, <1>7

(* A text opens as many containers as it has, which stay open if they are    *)
(* not to be closed.                                                         *)
LEMMA JSONLeadsTo ==
    ASSUME NEW top \in Nat, NEW h0 \in 0 .. top, h0 + Nesting < top, NEW l0 \in Int,
           NEW h \in 0 .. top, NEW l \in Int, l0 <= l,
           NEW key \in Names, NEW text \in Texts, NEW close \in BOOLEAN,
           h >= h0 + (IF close THEN 0 ELSE Nesting)
    PROVE  /\ JSONCalls(key, text, close) \in Seq(CallType)
           /\ Bounded(JSONCalls(key, text, close), top, h0, l0, h, l)
<1> DEFINE m == h0 + (IF close THEN 0 ELSE Nesting)
           k == m + 1
<1>0. /\ h0 \in Int /\ h \in Int /\ m \in Int /\ k \in Int /\ h0 < top /\ h0 <= h
      /\ m \in 0 .. top /\ k \in 0 .. top /\ m < top /\ k = m + 1 /\ m <= h /\ l0 <= l0
      /\ h0 <= h0 /\ m >= h0 /\ h0 + Nesting <= top /\ (~close => m >= h0 + Nesting)
      /\ Nesting \in Nat
  BY DeepestInt
<1>1. CASE text = "object"
  <2>1. h >= h0 + (IF close THEN 0 ELSE 1)
    BY DeepestInt
  <2> QED
    BY <1>0, <1>1, <2>1, OpenedLeadsTo DEF JSONCalls
<1>2. CASE text = "scalar"
  <2> DEFINE calls == <<Fields(<<key>>)>>
  <2>0. <<key>> \in Seq(Names)
    OBVIOUS
  <2>1. calls \in Level(top, h0, l0)
    BY <1>0, <2>0, LevelFields
  <2>2. JSONCalls(key, text, close) = calls
    BY <1>2 DEF JSONCalls
  <2> HIDE DEF calls
  <2>3. Bounded(calls, top, h0, l0, h, l) /\ calls \in Seq(CallType)
    BY <1>0, <2>1, LevelAdvance DEF Level
  <2> QED
    BY <2>2, <2>3
<1>3. CASE text \notin {"object", "scalar"}
  <2> DEFINE call == <<"broken", key, Nesting, close>>
             first == <<call>>
             error == InvalidJSON(key)
  <2> HIDE DEF m, k
  <2>1. call \in CallType /\ call[1] = "broken" /\ call[3] = Nesting /\ call[4] = close
    BY <1>0 DEF CallType
  <2>2. JSONCalls(key, text, close) = first \o error
    BY <1>3 DEF JSONCalls
  <2>3. error \in Level(top, m, l0)
    <3>1. <<Fields(<<"error", "json_data">>)>> \in Level(top, k, l0)
      BY <1>0, StepNames, LevelFields
    <3> DEFINE fields == <<Fields(<<"error", "json_data">>)>>
    <3>2. error = Object(key, fields)
      BY DEF InvalidJSON
    <3> HIDE DEF fields, error
    <3>3. fields \in Level(top, m + 1, l0)
      BY <1>0, <3>1 DEF fields
    <3>4. Object(key, fields) \in Level(top, m, l0)
      BY <1>0, <3>3, LevelObject
    <3> QED
      BY <3>2, <3>4
  <2> HIDE DEF call, error
  <2>4. Rise(call) = 0
    BY <2>1 DEF Rise
  <2>5. Covers(call, top, h0, l0, m, l0)
    BY <1>0, <2>1, <2>4 DEF Covers
  <2>6. first \in Seq(CallType) /\ Bounded(first, top, h0, l0, m, l0)
    BY <1>0, <2>1, <2>5, BoundedOne
  <2>7. error \in Seq(CallType) /\ Bounded(error, top, m, l0, m, l0)
    BY <2>3 DEF Level
  <2> HIDE DEF first
  <2>8. first \o error \in Seq(CallType)
    BY <2>6, <2>7, ConcatProperties
  <2>9. Bounded(first \o error, top, h0, l0, m, l0)
    BY <1>0, <2>6, <2>7, BoundedConcat
  <2>10. Bounded(first \o error, top, h0, l0, h, l)
    BY <1>0, <2>8, <2>9, BoundedWeaken
  <2> QED
    BY <2>2, <2>8, <2>10
<1> QED
  BY <1>1, <1>2, <1>3

(* One container of a text in which decoding breaks off.                     *)
BrokenCalls(key, deeper, close) ==
    <<Begin(key), Fields(<<"any">>), <<"broken", "any", deeper - 1, close>>>>
    \o When(close, <<End>>)

(* It opens no more than the text has.                                       *)
LEMMA BrokenLeadsTo ==
    ASSUME NEW top \in Nat, NEW h0 \in 0 .. top, NEW l0 \in Int,
           NEW h \in 0 .. top, NEW l \in Int, l0 <= l, h0 <= h,
           NEW key \in Names, NEW n \in 1 .. Nesting, NEW close \in BOOLEAN,
           h0 + n <= top, ~close => h >= h0 + n
    PROVE  /\ BrokenCalls(key, n, close) \in Seq(CallType)
           /\ Bounded(BrokenCalls(key, n, close), top, h0, l0, h, l)
<1> DEFINE k == h0 + 1
           m == IF close THEN k ELSE h0 + n
           call == <<"broken", "any", n - 1, close>>
           begin == <<Begin(key)>>
           fields == <<Fields(<<"any">>)>>
           broken == <<call>>
           three == (begin \o fields) \o broken
<1>0. /\ h0 \in Int /\ h \in Int /\ k \in Int /\ k \in 0 .. top /\ m \in Int /\ m \in 0 .. top
      /\ k = h0 + 1 /\ h0 <= h0 /\ l0 <= l0 /\ k <= m /\ (~close => m = h0 + n /\ m <= h)
      /\ (close => m = k) /\ n - 1 \in 0 .. Nesting /\ n - 1 \in Nat /\ k + (n - 1) <= top
      /\ (~close => m >= k + (n - 1))
  BY DeepestInt
<1>1. BrokenCalls(key, n, close) = three \o When(close, <<End>>)
  <2>1. begin \o fields = <<Begin(key), Fields(<<"any">>)>>
    BY Pair
  <2>2. <<Begin(key), Fields(<<"any">>)>> \o broken = <<Begin(key), Fields(<<"any">>), call>>
    BY Triple
  <2> QED
    BY <2>1, <2>2 DEF BrokenCalls
<1>2. call \in CallType /\ call[1] = "broken" /\ call[3] = n - 1 /\ call[4] = close
  BY <1>0, BrokenNames DEF CallType
<1> HIDE DEF k, m, call
<1>3. Rise(call) = 0
  BY <1>2 DEF Rise
<1>4. Covers(call, top, k, l0, m, l0)
  BY <1>0, <1>2, <1>3 DEF Covers
<1>5. broken \in Seq(CallType) /\ Bounded(broken, top, k, l0, m, l0)
  BY <1>0, <1>2, <1>4, BoundedOne
<1>6. fields \in Seq(CallType) /\ Bounded(fields, top, k, l0, k, l0)
  BY <1>0, StepNames, LevelFields DEF Level
<1>7. begin \in Seq(CallType) /\ Bounded(begin, top, h0, l0, k, l0)
  <2>1. Covers(Begin(key), top, h0, l0, k, l0)
    BY <1>0, BeginEnd DEF Covers
  <2>2. Bounded(<<Begin(key)>>, top, h0, l0, k, l0)
    BY <1>0, <2>1, BeginEnd, BoundedOne
  <2> QED
    BY <2>2, BeginEnd
<1> HIDE DEF begin, fields, broken
<1>8. begin \o fields \in Seq(CallType)
  BY <1>6, <1>7, ConcatProperties
<1>9. Bounded(begin \o fields, top, h0, l0, k, l0)
  BY <1>0, <1>6, <1>7, BoundedConcat
<1>10. three \in Seq(CallType)
  BY <1>5, <1>8, ConcatProperties
<1>11. Bounded(three, top, h0, l0, m, l0)
  BY <1>0, <1>5, <1>8, <1>9, BoundedConcat
<1> HIDE DEF three
<1>12. CASE close
  <2> DEFINE end == <<End>>
  <2>1. /\ End \in CallType /\ End[1] = "end" /\ Rise(End) = -1
    BY DEF CallType, End, Rise
  <2>2. Covers(End, top, m, l0, h, l)
    BY <1>0, <1>12, <2>1 DEF Covers
  <2>3. end \in Seq(CallType) /\ Bounded(end, top, m, l0, h, l)
    BY <1>0, <2>1, <2>2, BoundedOne
  <2>4. BrokenCalls(key, n, close) = three \o end
    BY <1>1, <1>12 DEF When
  <2> HIDE DEF end
  <2>5. three \o end \in Seq(CallType)
    BY <1>10, <2>3, ConcatProperties
  <2>6. Bounded(three \o end, top, h0, l0, h, l)
    BY <1>0, <1>10, <1>11, <2>3, BoundedConcat
  <2> QED
    BY <2>4, <2>5, <2>6
<1>13. CASE ~close
  <2>1. BrokenCalls(key, n, close) = three \o <<>>
    BY <1>1, <1>13 DEF When
  <2>2. three \o <<>> = three
    BY <1>10, ConcatEmptySeq
  <2>3. Bounded(three, top, h0, l0, h, l)
    BY <1>0, <1>10, <1>11, <1>13, BoundedWeaken
  <2> QED
    BY <1>10, <2>1, <2>2, <2>3
<1> QED
  BY <1>12, <1>13

(* The user's section.                                                       *)
UserCalls(text) ==
    IF text = "NULL" THEN <<Begin("user")>> ELSE <<<<"json", "user", text, FALSE>>>> \o Flush

(* It opens no more containers than its text has.                            *)
LEMMA UserLeadsTo ==
    ASSUME NEW top \in Nat, NEW h0 \in 0 .. top, NEW l0 \in Int, h0 + Nesting < top,
           NEW h \in 0 .. top, NEW l \in Int, l0 <= l, h >= h0 + Nesting,
           NEW text \in Texts \cup {"NULL"}
    PROVE  /\ UserCalls(text) \in Seq(CallType)
           /\ Bounded(UserCalls(text), top, h0, l0, h, l)
<1>0. h0 \in Int /\ h \in Int /\ h0 < top /\ h0 <= h0 /\ l0 <= l0 /\ h >= h0 + 1
  BY DeepestInt
<1>1. CASE text = "NULL"
  <2>1. Covers(Begin("user"), top, h0, l0, h, l)
    BY <1>0, EmbeddedNames, BeginEnd DEF Covers
  <2>2. Bounded(<<Begin("user")>>, top, h0, l0, h, l) /\ <<Begin("user")>> \in Seq(CallType)
    BY <2>1, EmbeddedNames, BeginEnd, BoundedOne
  <2> QED
    BY <1>1, <2>2 DEF UserCalls
<1>2. CASE text # "NULL"
  <2> DEFINE call == <<"json", "user", text, FALSE>>
  <2>1. text \in Texts
    BY <1>2
  <2>2. call \in CallType /\ call[1] = "json" /\ call[4] = FALSE
    BY <2>1, EmbeddedNames DEF CallType
  <2> HIDE DEF call
  <2>3. Covers(call, top, h0, l0, h, l)
    BY <1>0, <2>2 DEF Covers, Rise
  <2> DEFINE one == <<call>>
  <2>4. one \in Seq(CallType) /\ Bounded(one, top, h0, l0, h, l)
    BY <2>2, <2>3, BoundedOne
  <2>5. <<"flush">> \in CallType /\ <<"flush">>[1] = "flush"
    BY DEF CallType
  <2>6. Covers(<<"flush">>, top, h, l, h, l)
    BY <2>5 DEF Covers, Rise
  <2>7. Flush \in Level(top, h, l)
    BY <2>5, <2>6, LevelOne DEF Flush
  <2>8. Flush \in Seq(CallType) /\ Bounded(Flush, top, h, l, h, l)
    BY <2>7 DEF Level
  <2>9. UserCalls(text) = one \o Flush
    BY <1>2 DEF UserCalls, call
  <2> HIDE DEF one
  <2>10. one \o Flush \in Seq(CallType)
    BY <2>4, <2>8, ConcatProperties
  <2>11. Bounded(one \o Flush, top, h0, l0, h, l)
    BY <1>0, <2>4, <2>8, BoundedConcat
  <2> QED
    BY <2>9, <2>10, <2>11
<1> QED
  BY <1>1, <1>2

------------------------------------------------------------------------------
(* Introspection.                                                            *)

(* An object that is no tagged pointer has a readable class.                 *)
LEMMA ObjectHasClass ==
    ASSUME NEW p, ObjectType(p) = "Object", ~IsTagged(p)
    PROVE  p \in DOMAIN Heap /\ Heap[p] \in CellType /\ Class(IsaPointer(p)) \in ClassRecord
<1>1. IsValidObject(p)
  BY DEF ObjectType
<1>2. Readable(p) /\ IsValidClass(IsaPointer(p))
  BY <1>1 DEF IsValidObject
<1>3. p \in DOMAIN Heap /\ Heap[p] \in CellType
  BY <1>2, HeapAssumption DEF Readable
<1>4. IsaPointer(p) \in DOMAIN Heap /\ Class(IsaPointer(p)) # NoClass
  BY <1>2 DEF IsValidClass, ContainsValidROData, Readable
<1>5. Heap[IsaPointer(p)] \in CellType
  BY <1>4, HeapAssumption
<1>6. Class(IsaPointer(p)) \in ClassRecord \cup {NoClass}
  BY <1>5 DEF CellType, Class
<1> QED
  BY <1>3, <1>4, <1>6

(* A tagged pointer is no array.                                             *)
LEMMA TaggedIsNoArray ==
    ASSUME NEW p, IsTagged(p)
    PROVE  ObjectClassType(p) # "Array"
<1>1. Tagged[p] \in 0 .. 7
  BY HeapAssumption DEF IsTagged
<1>2. ObjectClassType(p) = TaggedClassData[Tagged[p] + 1][2]
  BY DEF ObjectClassType, TaggedClass
<1>3. \A i \in 1 .. 8 : TaggedClassData[i][2] # "Array"
  <2> TAKE i \in 1 .. 8
  <2>1. i = 1 \/ i = 2 \/ i = 3 \/ i = 4 \/ i = 5 \/ i = 6 \/ i = 7 \/ i = 8
    OBVIOUS
  <2> QED
    BY <2>1 DEF TaggedClassData
<1>4. Tagged[p] + 1 \in 1 .. 8
  BY <1>1
<1> QED
  BY <1>2, <1>3, <1>4

(* What is no object has elements only.                                      *)
LEMMA UnrecognizedLevel ==
    ASSUME NEW top \in Nat, NEW h \in 0 .. top, NEW l \in Int, NEW p
    PROVE  Unrecognized(p) \in Level(top, h, l)
<1> DEFINE names == <<"type">> \o When(IsValidString(p), <<"value">>)
<1>1. <<"type">> \in Seq(Names) /\ <<"value">> \in Seq(Names) /\ <<>> \in Seq(Names)
  BY StepNames
<1>2. names \in Seq(Names)
  BY <1>1, ConcatProperties DEF When
<1>3. Unrecognized(p) = <<Fields(names)>>
  BY DEF Unrecognized
<1> HIDE DEF names
<1> QED
  BY <1>2, <1>3, LevelFields

(* A memory address: its contents are one level down, with a limit of one    *)
(* less.                                                                     *)
MemoryCalls(key, p) == Object(key, <<Fields(<<"address">>)>> \o WriteObjCObject(p))

(* writeMemoryContents.                                                      *)
LEMMA MemoryLeadsTo ==
    ASSUME NEW top \in Nat, NEW h0 \in 0 .. top, NEW l0 \in Int, h0 < top,
           h0 <= Deepest, h0 + l0 <= Deepest,
           NEW h \in 0 .. top, NEW l \in Int, h0 <= h, l0 <= l,
           NEW key \in Names, NEW p \in Words
    PROVE  /\ MemoryCalls(key, p) \in Seq(CallType)
           /\ Bounded(MemoryCalls(key, p), top, h0, l0 - 1, h, l)
<1> DEFINE k == h0 + 1
           m == l0 - 1
<1>0. /\ k \in 0 .. top /\ k = h0 + 1 /\ k \in Int /\ m \in Int /\ m <= l
      /\ k <= Deepest + 1 /\ (m > 0 => k + m <= Deepest)
  BY DeepestInt
<1> HIDE DEF k, m
<1> DEFINE address == <<Fields(<<"address">>)>>
           named == <<Fields(<<"type", "class">>)>>
           contents == <<<<"contents", p>>>>
<1>1. address \in Level(top, k, m) /\ named \in Level(top, k, m)
  BY <1>0, StepNames, LevelFields
<1>2. Unrecognized(p) \in Level(top, k, m)
  BY <1>0, UnrecognizedLevel
<1>3. ObjectType(p) = "Object" => contents \in Level(top, k, m)
  <2> SUFFICES ASSUME ObjectType(p) = "Object" PROVE contents \in Level(top, k, m)
    OBVIOUS
  <2> DEFINE call == <<"contents", p>>
  <2>1. p \in Objects
    BY DEF Objects
  <2>2. call \in CallType /\ call[1] = "contents"
    BY <2>1 DEF CallType
  <2> HIDE DEF call
  <2>3. Covers(call, top, k, m, k, m)
    BY <1>0, <2>2 DEF Covers, Rise
  <2>4. <<call>> \in Level(top, k, m)
    BY <1>0, <2>2, <2>3, LevelOne
  <2> QED
    BY <2>4 DEF call
<1> HIDE DEF address, named, contents
<1>4. WriteObjCObject(p) \in Level(top, k, m)
  <2>1. CASE ObjectType(p) \in {"Class", "Block"}
    <3>1. WriteObjCObject(p) = named
      BY <2>1 DEF WriteObjCObject, named
    <3> QED
      BY <1>1, <3>1
  <2>2. CASE ObjectType(p) = "Object" /\ IsRestricted(ObjectClassName(p))
    <3>1. WriteObjCObject(p) = named \o Unrecognized(p)
      BY <2>2 DEF WriteObjCObject, named
    <3> QED
      BY <1>0, <1>1, <1>2, <3>1, LevelConcat
  <2>3. CASE ObjectType(p) = "Object" /\ ~IsRestricted(ObjectClassName(p))
    <3>1. WriteObjCObject(p) = named \o contents
      BY <2>3 DEF WriteObjCObject, named, contents
    <3> QED
      BY <1>0, <1>1, <1>3, <2>3, <3>1, LevelConcat
  <2>4. CASE ObjectType(p) \notin {"Class", "Block", "Object"}
    <3>1. WriteObjCObject(p) = Unrecognized(p)
      BY <2>4 DEF WriteObjCObject
    <3> QED
      BY <1>2, <3>1
  <2> QED
    BY <2>1, <2>2, <2>3, <2>4
<1> DEFINE body == address \o WriteObjCObject(p)
<1>5. body \in Level(top, k, m)
  BY <1>0, <1>1, <1>4, LevelConcat
<1>6. MemoryCalls(key, p) = Object(key, body)
  BY DEF MemoryCalls, address
<1> HIDE DEF body
<1>7. Object(key, body) \in Level(top, h0, m)
  BY <1>0, <1>5, LevelObject
<1>8. Bounded(Object(key, body), top, h0, m, h, l)
  BY <1>0, <1>7, LevelAdvance
<1>9. Object(key, body) \in Seq(CallType)
  BY <1>7 DEF Level
<1> QED
  BY <1>6, <1>8, <1>9 DEF m

(* An address that is followed.                                              *)
LEMMA LevelMemory ==
    ASSUME NEW top \in Nat, NEW h \in 0 .. top, NEW l \in Int, h <= Deepest, h + l <= Deepest,
           NEW key \in Names, NEW p \in Words
    PROVE  <<Memory(key, p)>> \in Level(top, h, l)
<1>1. Memory(key, p) \in CallType /\ Memory(key, p)[1] = "memory"
  BY DEF CallType, Memory
<1>2. Covers(Memory(key, p), top, h, l, h, l)
  BY <1>1 DEF Covers, Rise
<1> QED
  BY <1>1, <1>2, LevelOne

(* What is known about a class of objects.                                   *)
ContentsCalls(p, l) ==
    LET First(q) == <<Memory("first_object", q)>>
    IN  CASE ObjectClassType(p) = "Array" -> When(l > 0, Each(ArrayContents(p), First))
          [] ObjectClassType(p) = "Unknown" -> When(l > 0, <<<<"ivars", p>>>>)
          [] OTHER -> <<Fields(<<"value">>)>>

(* writeObjCObject: the first of an array and the ivars are at this level,   *)
(* with this limit.                                                          *)
LEMMA ContentsLeadsTo ==
    ASSUME NEW top \in Nat, NEW h0 \in 0 .. top, NEW l0 \in Int,
           h0 <= Deepest + 1, l0 > 0 => h0 + l0 <= Deepest,
           NEW h \in 0 .. top, NEW l \in Int, h0 <= h, l0 <= l, NEW p \in Objects
    PROVE  /\ ContentsCalls(p, l0) \in Seq(CallType)
           /\ Bounded(ContentsCalls(p, l0), top, h0, l0, h, l)
<1>0. <<>> \in Level(top, h0, l0)
  BY LevelNone
<1>1. CASE ObjectClassType(p) = "Array"
  <2>1. ~IsTagged(p) /\ ObjectType(p) = "Object"
    BY <1>1, TaggedIsNoArray DEF Objects
  <2>2. p \in DOMAIN Heap /\ Heap[p] \in CellType
    BY <2>1, ObjectHasClass
  <2> DEFINE items == Heap[p].items
             array == ArrayContents(p)
             each == [i \in DOMAIN array |-> <<Memory("first_object", array[i])>>]
  <2>3. items \in Seq(STRING)
    BY <2>2 DEF CellType
  <2>4. array \in Seq(STRING)
    <3> DEFINE n == IF items = <<>> THEN 0 ELSE 1
    <3>1. array = <<>> \/ array = SubSeq(items, 1, n)
      BY DEF ArrayContents
    <3>2. n \in Int /\ \A i \in 1 .. n : items[i] \in STRING
      <4>1. CASE items = <<>>
        BY <4>1
      <4>2. CASE items # <<>>
        <5>1. Len(items) \in Nat \ {0}
          BY <2>3, <4>2, EmptySeq
        <5>2. 1 \in 1 .. Len(items)
          BY <5>1
        <5>3. items[1] \in STRING
          BY <2>3, <5>2, ElementOfSeq
        <5>4. n = 1 /\ \A i \in 1 .. n : i = 1
          BY <4>2
        <5> QED
          BY <5>3, <5>4
      <4> QED
        BY <4>1, <4>2
    <3> HIDE DEF items, n
    <3>3. SubSeq(items, 1, n) \in Seq(STRING)
      BY <3>2, SubSeqProperties
    <3>4. <<>> \in Seq(STRING)
      OBVIOUS
    <3> QED
      BY <3>1, <3>3, <3>4
  <2>5. ContentsCalls(p, l0) = When(l0 > 0, FlattenSeq(each))
    BY <1>1 DEF ContentsCalls, Each
  <2> HIDE DEF array
  <2>6. DOMAIN array = 1 .. Len(array) /\ Len(array) \in Nat
    BY <2>4
  <2>7. l0 > 0 => FlattenSeq(each) \in Level(top, h0, l0)
    <3> SUFFICES ASSUME l0 > 0 PROVE FlattenSeq(each) \in Level(top, h0, l0)
      OBVIOUS
    <3>1. h0 <= Deepest /\ h0 + l0 <= Deepest
      BY DeepestInt
    <3>2. \A i \in DOMAIN array : each[i] \in Level(top, h0, l0)
      <4> TAKE i \in DOMAIN array
      <4>1. array[i] \in Words
        BY <2>4, <2>6, ElementOfSeq DEF Words
      <4>2. <<Memory("first_object", array[i])>> \in Level(top, h0, l0)
        BY <3>1, <4>1, StepNames, LevelMemory
      <4> QED
        BY <4>2
    <3>3. each = [i \in 1 .. Len(array) |-> each[i]]
      BY <2>6
    <3> HIDE DEF each
    <3> QED
      BY <2>6, <3>2, <3>3, LevelFlatten
  <2> HIDE DEF each
  <2>8. When(l0 > 0, FlattenSeq(each)) \in Level(top, h0, l0)
    BY <1>0, <2>7 DEF When
  <2>9. ContentsCalls(p, l0) \in Level(top, h0, l0)
    BY <2>5, <2>8
  <2>10. ContentsCalls(p, l0) \in Seq(CallType)
    BY <2>9 DEF Level
  <2> QED
    BY <2>9, <2>10, LevelAdvance
<1>2. CASE ObjectClassType(p) = "Unknown"
  <2> DEFINE call == <<"ivars", p>>
  <2>1. call \in CallType /\ call[1] = "ivars"
    BY DEF CallType
  <2>2. ContentsCalls(p, l0) = When(l0 > 0, <<call>>)
    BY <1>2 DEF ContentsCalls
  <2> HIDE DEF call
  <2>3. l0 > 0 => <<call>> \in Level(top, h0, l0)
    <3> SUFFICES ASSUME l0 > 0 PROVE <<call>> \in Level(top, h0, l0)
      OBVIOUS
    <3>1. h0 < Deepest /\ h0 + l0 <= Deepest
      BY DeepestInt
    <3>2. Covers(call, top, h0, l0, h0, l0)
      BY <2>1, <3>1 DEF Covers, Rise
    <3> QED
      BY <2>1, <3>2, LevelOne
  <2>4. ContentsCalls(p, l0) \in Level(top, h0, l0)
    BY <1>0, <2>2, <2>3 DEF When
  <2>5. ContentsCalls(p, l0) \in Seq(CallType)
    BY <2>4 DEF Level
  <2> QED
    BY <2>4, <2>5, LevelAdvance
<1>3. CASE ObjectClassType(p) \notin {"Array", "Unknown"}
  <2>1. ContentsCalls(p, l0) = <<Fields(<<"value">>)>>
    BY <1>3 DEF ContentsCalls
  <2>2. ContentsCalls(p, l0) \in Level(top, h0, l0)
    BY <2>1, StepNames, LevelFields
  <2>3. ContentsCalls(p, l0) \in Seq(CallType)
    BY <2>2 DEF Level
  <2> QED
    BY <2>2, <2>3, LevelAdvance
<1> QED
  BY <1>1, <1>2, <1>3

(* The ivars of an object, as many of them as the listing has room for.      *)
IvarsOf(p) == IF IsTagged(p) THEN <<>> ELSE IvarList(p, MaxIvars)

(* writeUnknownObjectContents.                                               *)
IvarsCalls(p) ==
    LET ivars == IvarsOf(p)
        WriteIvar(i) == IF ivars[i].pointer THEN <<Memory(ivars[i].name, Heap[p].ivars[i])>>
                        ELSE <<Fields(<<ivars[i].name>>)>>
    IN  Object("ivars", IF IsTagged(p) THEN <<Fields(<<"tagged_payload">>)>>
                        ELSE FlattenSeq([i \in DOMAIN ivars |-> WriteIvar(i)]))

(* The ivars are one level down, and the limit is lower by their number and  *)
(* one.                                                                      *)
LEMMA IvarsLeadsTo ==
    ASSUME NEW top \in Nat, NEW h0 \in 0 .. top, NEW l0 \in Int, h0 < top,
           h0 < Deepest, h0 + l0 <= Deepest,
           NEW h \in 0 .. top, NEW l \in Int, h0 <= h, l0 <= l, NEW p \in Objects
    PROVE  /\ Len(IvarsOf(p)) \in Nat /\ IvarsCalls(p) \in Seq(CallType)
           /\ Bounded(IvarsCalls(p), top, h0, l0 - 1 - Len(IvarsOf(p)), h, l)
<1> DEFINE ivars == IvarsOf(p)
           n == Len(ivars)
           k == h0 + 1
           m == l0 - 1 - n
<1>1. /\ ivars \in Seq(IvarType)
      /\ ~IsTagged(p) => p \in DOMAIN Heap
  <2>1. CASE IsTagged(p)
    BY <2>1 DEF IvarsOf
  <2>2. CASE ~IsTagged(p)
    <3>1. p \in DOMAIN Heap /\ Class(IsaPointer(p)) \in ClassRecord
      BY <2>2, ObjectHasClass DEF Objects
    <3> DEFINE all == Class(IsaPointer(p)).ivars
               size == IF Len(all) < MaxIvars THEN Len(all) ELSE MaxIvars
    <3>2. all \in Seq(IvarType)
      BY <3>1 DEF ClassRecord
    <3>3. ivars = SubSeq(all, 1, size)
      BY <2>2 DEF IvarsOf, IvarList
    <3> HIDE DEF all, ivars
    <3>4. Len(all) \in Nat /\ MaxIvars \in Nat
      BY <3>2, WriterAssumption
    <3>5. size \in Int /\ size <= Len(all)
      BY <3>4
    <3> HIDE DEF size
    <3>6. \A i \in 1 .. size : all[i] \in IvarType
      <4> TAKE i \in 1 .. size
      <4>1. i \in 1 .. Len(all)
        BY <3>4, <3>5
      <4> QED
        BY <3>2, <4>1, ElementOfSeq
    <3>7. SubSeq(all, 1, size) \in Seq(IvarType)
      BY <3>5, <3>6, SubSeqProperties
    <3> QED
      BY <3>1, <3>3, <3>7
  <2> QED
    BY <2>1, <2>2
<1> HIDE DEF ivars
<1>2. n \in Nat /\ DOMAIN ivars = 1 .. n
  BY <1>1
<1> HIDE DEF n
<1>0. /\ k \in 0 .. top /\ k = h0 + 1 /\ m \in Int /\ m <= l
      /\ k <= Deepest /\ k + m <= Deepest
  BY <1>2, DeepestInt
<1> HIDE DEF k, m
<1> DEFINE WriteIvar(i) == IF ivars[i].pointer THEN <<Memory(ivars[i].name, Heap[p].ivars[i])>>
                           ELSE <<Fields(<<ivars[i].name>>)>>
           each == [i \in DOMAIN ivars |-> WriteIvar(i)]
           body == IF IsTagged(p) THEN <<Fields(<<"tagged_payload">>)>> ELSE FlattenSeq(each)
<1>3. IvarsCalls(p) = Object("ivars", body)
  BY DEF IvarsCalls, ivars
<1>4. body \in Level(top, k, m)
  <2>1. CASE IsTagged(p)
    <3>1. <<Fields(<<"tagged_payload">>)>> \in Level(top, k, m)
      BY <1>0, StepNames, LevelFields
    <3> QED
      BY <2>1, <3>1
  <2>2. CASE ~IsTagged(p)
    <3>1. \A i \in DOMAIN ivars : each[i] \in Level(top, k, m)
      <4> TAKE i \in DOMAIN ivars
      <4>1. i \in 1 .. n /\ i \in Nat
        BY <1>2
      <4>2. ivars[i] \in IvarType
        BY <1>1, <4>1, ElementOfSeq DEF n
      <4>3. ivars[i].name \in Names
        BY <4>2 DEF IvarType, Names
      <4>4. Heap[p].ivars[i] \in Words
        BY <1>1, <2>2, <4>1 DEF Words
      <4>5. <<Memory(ivars[i].name, Heap[p].ivars[i])>> \in Level(top, k, m)
        BY <1>0, <4>3, <4>4, LevelMemory
      <4>6. <<ivars[i].name>> \in Seq(Names)
        BY <4>3
      <4>7. <<Fields(<<ivars[i].name>>)>> \in Level(top, k, m)
        BY <1>0, <4>6, LevelFields
      <4> QED
        BY <4>5, <4>7
    <3>2. each = [i \in 1 .. n |-> each[i]]
      BY <1>2
    <3> HIDE DEF each
    <3>3. FlattenSeq(each) \in Level(top, k, m)
      BY <1>0, <1>2, <3>1, <3>2, LevelFlatten
    <3> QED
      BY <2>2, <3>3
  <2> QED
    BY <2>1, <2>2
<1> HIDE DEF body
<1>5. Object("ivars", body) \in Level(top, h0, m)
  BY <1>0, <1>4, StepNames, LevelObject
<1>6. Bounded(Object("ivars", body), top, h0, m, h, l)
  BY <1>0, <1>5, LevelAdvance
<1>7. Object("ivars", body) \in Seq(CallType)
  BY <1>5 DEF Level
<1> QED
  BY <1>2, <1>3, <1>6, <1>7 DEF m, n, ivars

------------------------------------------------------------------------------
(* The invariant.                                                            *)

(* The highest level that a standard report reaches; the recrash report may  *)
(* reach one more, as it embeds the old report one level down.               *)
Top == SearchDepth + 6 + Nesting
Ceiling == IF mode = "recrash" THEN Top + 1 ELSE Top

(* A report is on its way.                                                   *)
Writing == mode \in {"standard", "recrash"}

(* The types.                                                                *)
WriterTypes ==
    /\ mode \in {"running", "standard", "written", "recrash", "rewritten"}
    /\ todo \in Seq(CallType) /\ limit \in Int /\ limit <= SearchDepth /\ level \in Nat
    /\ file \in Seq(TokenType) /\ buffer \in Seq(TokenType) /\ old \in Seq(TokenType)
    /\ userInfo \in Texts \cup {"NULL", "freed"}

(* The levels that the calls to come may lead to.                            *)
CallsBounded ==
    /\ Writing => Bounded(todo, Ceiling, level, limit, Nesting, SearchDepth)
    /\ ~Writing => level = 0

(* A report begins with the beginning of a container.                        *)
BeginFirst(s) == s # <<>> => s[1][1] = "begin"

(* A report on its way is at the level of its encoder.                       *)
TextBalanced ==
    /\ mode \in {"standard", "written"} =>
           Balanced(file \o buffer, Top, 0, level) /\ BeginFirst(file \o buffer)
    /\ mode = "standard" /\ file \o buffer = <<>> => todo # <<>> /\ Head(todo)[1] = "begin"
    /\ mode = "running" => file = <<>> /\ buffer = <<>>

(* So was one that the recrash report embeds.                                *)
OldBalanced ==
    /\ BeginFirst(old) /\ \E h \in Int : Balanced(old, Top, 0, h)
    /\ mode \in {"running", "standard", "written"} => old = <<>>

(* The inductive invariant of the report's writer.                           *)
WriterInv == WriterTypes /\ CallsBounded /\ TextBalanced /\ OldBalanced

(* These are numbers, and deep enough for the sections.                      *)
LEMMA TopNat ==
    /\ Top \in Nat /\ 7 + Nesting <= Top /\ Ceiling \in Nat /\ 7 + Nesting <= Ceiling
    /\ Deepest < Ceiling /\ SearchDepth \in Nat /\ Deepest + 1 <= Ceiling
  BY WriterAssumption DEF Top, Ceiling, Deepest

(* Calls that are bounded start below the top.                               *)
LEMMA BoundedLevel ==
    ASSUME NEW top \in Nat, NEW s \in Seq(CallType), NEW h0 \in Nat, NEW l0 \in Int,
           NEW h1 \in Int, NEW l1 \in Int, Bounded(s, top, h0, l0, h1, l1)
    PROVE  h0 <= top
<1>1. PICK h, l : Ceilings(s, top, h, l) /\ h[0] >= h0
  BY DEF Bounded
<1>2. 0 \in 0 .. Len(s) /\ h \in [0 .. Len(s) -> 0 .. top]
  BY <1>1 DEF Ceilings
<1>3. h[0] \in 0 .. top
  BY <1>2
<1> QED
  BY <1>1, <1>3

(* What the calls have with them.                                            *)
LEMMA CallParts ==
    ASSUME NEW call \in CallType
    PROVE  /\ call[1] = "begin" => call \in TokenType
           /\ call[1] = "fields" => call \in TokenType
           /\ call[1] = "end" => call \in TokenType
           /\ call[1] = "json" => call[2] \in Names /\ call[3] \in Texts /\ call[4] \in BOOLEAN
           /\ call[1] = "broken" => /\ call[2] \in Names /\ call[3] \in 0 .. Nesting
                                    /\ call[4] \in BOOLEAN
           /\ call[1] = "memory" => call[2] \in Names /\ call[3] \in Words
           /\ call[1] \in {"contents", "ivars"} => call[2] \in Objects
<1>1. call[1] = "begin" => call \in {"begin"} \X Names
  BY DEF CallType
<1>2. call[1] = "fields" => call \in {"fields"} \X Seq(Names)
  BY DEF CallType
<1>3. call[1] = "end" => call = <<"end">>
  BY DEF CallType
<1>4. call[1] = "json" => call \in {"json"} \X Names \X Texts \X BOOLEAN
  BY DEF CallType
<1>5. call[1] = "memory" => call \in {"memory"} \X Names \X Words
  BY DEF CallType
<1>6. call[1] \in {"contents", "ivars"} => call \in {"contents", "ivars"} \X Objects
  BY DEF CallType
<1>7. call[1] \in {"begin", "fields", "end"} => call \in TokenType
  BY <1>1, <1>2, <1>3 DEF TokenType
<1>8. call[1] = "broken" => call \in {"broken"} \X Names \X (0 .. Nesting) \X BOOLEAN
  BY DEF CallType
<1> QED
  BY <1>4, <1>5, <1>6, <1>7, <1>8

(* The calls to come, after one of them.                                     *)
AfterCall ==
    /\ todo' \in Seq(CallType) /\ limit' \in Int /\ limit' <= SearchDepth /\ level' \in Nat
    /\ Bounded(todo', Ceiling, level', limit', Nesting, SearchDepth)

(* A call that leads to others.                                              *)
LEMMA AfterCalls ==
    ASSUME WriterInv, Writing, todo # <<>>,
           NEW calls \in Seq(CallType), todo' = calls \o Tail(todo),
           level' \in Nat, limit' \in Int, limit' <= SearchDepth,
           \A h \in 0 .. Ceiling, l \in Int :
               Covers(Head(todo), Ceiling, level, limit, h, l)
                   => Bounded(calls, Ceiling, level', limit', h, l)
    PROVE  AfterCall
<1>1. /\ todo \in Seq(CallType) /\ level \in Int /\ limit \in Int /\ Ceiling \in Nat
      /\ SearchDepth \in Int /\ Nesting \in Int /\ level' \in Int
      /\ Bounded(todo, Ceiling, level, limit, Nesting, SearchDepth)
  BY TopNat, DeepestInt DEF WriterInv, WriterTypes, CallsBounded
<1> DEFINE top == Ceiling
           g0 == level'
           k0 == limit'
<1>2. /\ g0 \in Int /\ k0 \in Int
      /\ \A h \in 0 .. top, l \in Int :
             Covers(Head(todo), top, level, limit, h, l) => Bounded(calls, top, g0, k0, h, l)
  BY <1>1
<1> HIDE DEF top, g0, k0
<1>3. top \in Nat /\ Bounded(todo, top, level, limit, Nesting, SearchDepth)
  BY <1>1 DEF top
<1>4. /\ calls \o Tail(todo) \in Seq(CallType)
      /\ Bounded(calls \o Tail(todo), top, g0, k0, Nesting, SearchDepth)
  BY <1>1, <1>2, <1>3, Advance
<1> QED
  BY <1>4 DEF AfterCall, top, g0, k0

(* A call that leads to no others.                                           *)
LEMMA AfterNoCalls ==
    ASSUME WriterInv, Writing, todo # <<>>, todo' = <<>> \o Tail(todo),
           level' \in Nat, limit' \in Int, limit' <= SearchDepth,
           \A h \in 0 .. Ceiling, l \in Int :
               Covers(Head(todo), Ceiling, level, limit, h, l) => level' <= h /\ limit' <= l
    PROVE  AfterCall
<1>1. Ceiling \in Nat
  BY TopNat
<1>2. ASSUME NEW h \in 0 .. Ceiling, NEW l \in Int,
             Covers(Head(todo), Ceiling, level, limit, h, l)
      PROVE  Bounded(<<>>, Ceiling, level', limit', h, l)
  <2>1. level' <= h /\ limit' <= l /\ h \in Int
    BY <1>2
  <2>2. level' \in 0 .. Ceiling
    BY <1>1, <2>1
  <2> QED
    BY <1>1, <2>1, <2>2, BoundedNone
<1>3. <<>> \in Seq(CallType)
  OBVIOUS
<1> QED
  BY <1>2, <1>3, AfterCalls

(* Every call leads to calls that are bounded.                               *)
LEMMA CallBounds ==
    ASSUME WriterInv, Writing, todo # <<>>,
           BeginContainer \/ AddElements \/ EndContainer \/ FlushBuffer \/ Embed \/ RemoveOld
           \/ AddJSON \/ BreakOff \/ BeginUserSection \/ StartSearch \/ WriteMemoryContents \/ WriteContents
           \/ WriteUnknownObjectContents \/ Close
    PROVE  AfterCall
<1> DEFINE call == Head(todo)
<1>1. /\ todo \in Seq(CallType) /\ level \in Nat /\ limit \in Int /\ limit <= SearchDepth
      /\ Bounded(todo, Ceiling, level, limit, Nesting, SearchDepth) /\ call \in CallType
  BY HeadTailProperties DEF WriterInv, WriterTypes, CallsBounded
<1>2. Ceiling \in Nat /\ SearchDepth \in Nat /\ level \in Int /\ Deepest < Ceiling
      /\ Deepest + 1 <= Ceiling /\ Deepest \in Nat
  BY <1>1, TopNat, DeepestInt
<1>3. level \in 0 .. Ceiling
  <2>1. level <= Ceiling
    BY <1>1, <1>2, DeepestInt, BoundedLevel
  <2> QED
    BY <1>1, <1>2, <2>1
<1>4. Next1 = call
  BY DEF Next1
<1>5. /\ call[1] = "json" => call[2] \in Names /\ call[3] \in Texts /\ call[4] \in BOOLEAN
      /\ call[1] = "broken" => /\ call[2] \in Names /\ call[3] \in 0 .. Nesting
                               /\ call[4] \in BOOLEAN
      /\ call[1] = "memory" => call[2] \in Names /\ call[3] \in Words
      /\ call[1] \in {"contents", "ivars"} => call[2] \in Objects
  BY <1>1, CallParts
<1> HIDE DEF call
<1>6. Head(todo) = call
  BY DEF call
<1>7. \A h \in 0 .. Ceiling, l \in Int :
          Covers(call, Ceiling, level, limit, h, l) =>
              h \in Int /\ h >= level + Rise(call) /\ l >= limit
  BY <1>2 DEF Covers
<1>8. CASE BeginContainer
  <2>1. call[1] = "begin" /\ level' = level + 1 /\ limit' = limit /\ todo' = <<>> \o Tail(todo)
    BY <1>4, <1>8 DEF BeginContainer, Then
  <2>2. Rise(call) = 1
    BY <2>1 DEF Rise
  <2>3. level' \in Nat /\ limit' \in Int /\ limit' <= SearchDepth
    BY <1>1, <2>1
  <2>4. ASSUME NEW h \in 0 .. Ceiling, NEW l \in Int, Covers(call, Ceiling, level, limit, h, l)
        PROVE  level' <= h /\ limit' <= l
    BY <1>1, <1>7, <2>1, <2>2, <2>4
  <2> QED
    BY <1>6, <2>1, <2>3, <2>4, AfterNoCalls
<1>9. CASE AddElements
  <2>1. call[1] = "fields" /\ level' = level /\ limit' = limit /\ todo' = <<>> \o Tail(todo)
    BY <1>4, <1>9 DEF AddElements, Then
  <2>2. Rise(call) = 0
    BY <2>1 DEF Rise
  <2>3. level' \in Nat /\ limit' \in Int /\ limit' <= SearchDepth
    BY <1>1, <2>1
  <2>4. ASSUME NEW h \in 0 .. Ceiling, NEW l \in Int, Covers(call, Ceiling, level, limit, h, l)
        PROVE  level' <= h /\ limit' <= l
    BY <1>1, <1>7, <2>1, <2>2, <2>4
  <2> QED
    BY <1>6, <2>1, <2>3, <2>4, AfterNoCalls
<1>10. CASE EndContainer
  <2>1. call[1] = "end" /\ limit' = limit /\ todo' = <<>> \o Tail(todo)
        /\ level' = IF level > 0 THEN level - 1 ELSE level
    BY <1>4, <1>10 DEF EndContainer, Then
  <2>2. Rise(call) = -1
    BY <2>1 DEF Rise
  <2>3. level' \in Nat /\ limit' \in Int /\ limit' <= SearchDepth
    BY <1>1, <2>1
  <2>4. ASSUME NEW h \in 0 .. Ceiling, NEW l \in Int, Covers(call, Ceiling, level, limit, h, l)
        PROVE  level' <= h /\ limit' <= l
    <3>1. h >= 0 /\ h >= level - 1 /\ l >= limit /\ h \in Int
      BY <1>1, <1>2, <1>7, <2>2, <2>4
    <3> QED
      BY <1>1, <2>1, <3>1
  <2> QED
    BY <1>6, <2>1, <2>3, <2>4, AfterNoCalls
<1>11. CASE FlushBuffer \/ RemoveOld
  <2>1. call[1] \in {"flush", "remove"} /\ level' = level /\ limit' = limit
        /\ todo' = <<>> \o Tail(todo)
    BY <1>4, <1>11 DEF FlushBuffer, RemoveOld, Then
  <2>2. Rise(call) = 0
    BY <2>1 DEF Rise
  <2>3. level' \in Nat /\ limit' \in Int /\ limit' <= SearchDepth
    BY <1>1, <2>1
  <2>4. ASSUME NEW h \in 0 .. Ceiling, NEW l \in Int, Covers(call, Ceiling, level, limit, h, l)
        PROVE  level' <= h /\ limit' <= l
    BY <1>1, <1>7, <2>1, <2>2, <2>4
  <2> QED
    BY <1>6, <2>1, <2>3, <2>4, AfterNoCalls
<1>12. CASE StartSearch
  <2>1. call[1] = "limit" /\ level' = level /\ limit' = SearchDepth /\ todo' = <<>> \o Tail(todo)
    BY <1>4, <1>12 DEF StartSearch, Then, output
  <2>2. Rise(call) = 0
    BY <2>1 DEF Rise
  <2>3. level' \in Nat /\ limit' \in Int /\ limit' <= SearchDepth
    BY <1>1, <1>2, <2>1
  <2>4. ASSUME NEW h \in 0 .. Ceiling, NEW l \in Int, Covers(call, Ceiling, level, limit, h, l)
        PROVE  level' <= h /\ limit' <= l
    <3>1. l >= SearchDepth
      BY <2>1, <2>4 DEF Covers
    <3> QED
      BY <1>1, <1>2, <1>7, <2>1, <2>2, <2>4, <3>1
  <2> QED
    BY <1>6, <2>1, <2>3, <2>4, AfterNoCalls
<1>13. CASE Close
  <2>0. call[1] = "close" /\ level' = level /\ limit' = limit
    BY <1>4, <1>13 DEF Close
  <2>2. Rise(call) = 0
    BY <2>0 DEF Rise
  <2>3. level' \in Nat /\ limit' \in Int /\ limit' <= SearchDepth
    BY <1>1, <2>0
  <2>4. ASSUME NEW h \in 0 .. Ceiling, NEW l \in Int, Covers(call, Ceiling, level, limit, h, l)
        PROVE  level <= h /\ limit <= l
    BY <1>1, <1>7, <2>2, <2>4
  <2>5. CASE level > 0
    <3>1. todo' = <<End, <<"close">>>> \o Tail(todo)
      BY <1>13, <2>5 DEF Close, Then
    <3> DEFINE calls == <<End, <<"close">>>>
    <3>2. ASSUME NEW h \in 0 .. Ceiling, NEW l \in Int, Covers(call, Ceiling, level, limit, h, l)
          PROVE  calls \in Seq(CallType) /\ Bounded(calls, Ceiling, level', limit', h, l)
      <4>1. level <= h /\ limit <= l
        BY <2>4, <3>2
      <4>2. calls \in Seq(CallType) /\ Bounded(calls, Ceiling, level, limit, h, l)
        BY <1>1, <1>2, <1>3, <4>1, CloseLeadsTo
      <4> QED
        BY <2>0, <4>2
    <3>3. calls \in Seq(CallType)
      BY <1>1, <1>2, <1>3, CloseLeadsTo
    <3>4. todo' = calls \o Tail(todo)
      BY <3>1
    <3> HIDE DEF calls
    <3> QED
      BY <1>6, <2>3, <3>2, <3>3, <3>4, AfterCalls
  <2>6. CASE ~(level > 0)
    <3>1. todo' = <<>> \o Tail(todo)
      BY <1>13, <2>6 DEF Close, Then
    <3>2. \A h \in 0 .. Ceiling, l \in Int :
              Covers(call, Ceiling, level, limit, h, l) => level' <= h /\ limit' <= l
      BY <2>0, <2>4
    <3> QED
      BY <1>6, <2>3, <3>1, <3>2, AfterNoCalls
  <2> QED
    BY <2>5, <2>6
<1>14. CASE Embed
  <2>0a. PICK k \in StopsAfter(FirstObject(old)) :
             todo' = When(SubSeq(FirstObject(old), 1, k) # <<>>,
                          EmbeddedText(SubSeq(FirstObject(old), 1, k))) \o Tail(todo)
    BY <1>14 DEF Embed, Then, EmbeddedText
  <2> DEFINE report == SubSeq(FirstObject(old), 1, k)
  <2>0. /\ call[1] = "embed" /\ level' = level /\ limit' = limit
        /\ todo' = When(report # <<>>, EmbeddedText(report)) \o Tail(todo)
    BY <1>4, <1>14, <2>0a DEF Embed, output
  <2>2. Rise(call) = 0
    BY <2>0 DEF Rise
  <2>3. level' \in Nat /\ limit' \in Int /\ limit' <= SearchDepth
    BY <1>1, <2>0
  <2>4. ASSUME NEW h \in 0 .. Ceiling, NEW l \in Int, Covers(call, Ceiling, level, limit, h, l)
        PROVE  level <= h /\ limit <= l /\ level <= 1 /\ 1 <= h
    <3>1. level <= 1 /\ 1 <= h
      BY <2>0, <2>4 DEF Covers
    <3> QED
      BY <1>1, <1>7, <2>2, <2>4, <3>1
  <2>5. CASE report = <<>>
    <3>1. todo' = <<>> \o Tail(todo)
      BY <2>0, <2>5 DEF When
    <3>2. \A h \in 0 .. Ceiling, l \in Int :
              Covers(call, Ceiling, level, limit, h, l) => level' <= h /\ limit' <= l
      BY <2>0, <2>4
    <3> QED
      BY <1>6, <2>3, <3>1, <3>2, AfterNoCalls
  <2>6. CASE report # <<>>
    <3>3. /\ old # <<>> /\ k \in 1 .. Len(old) /\ report = SubSeq(old, 1, k)
      BY <2>6, StoppedReport DEF WriterInv, WriterTypes
    <3>0. mode = "recrash" /\ Ceiling = Top + 1 /\ Top \in Nat
      BY <3>3, TopNat DEF WriterInv, OldBalanced, Writing, Ceiling
    <3>1. /\ old \in Seq(TokenType) /\ old[1][1] = "begin" /\ \E h \in Int : Balanced(old, Top, 0, h)
      BY <3>3 DEF WriterInv, WriterTypes, OldBalanced, BeginFirst
    <3>2. PICK g : Levels(old, Top, g) /\ g[0] = 0
      BY <3>1 DEF Balanced
    <3> DEFINE n == k
               f == [i \in 0 .. n |-> g[i]]
    <3>4. n \in 0 .. Len(old) /\ n \in Nat /\ n # 0 /\ 1 \in 1 .. n /\ 0 \in 0 .. n
      BY <3>1, <3>3, LenProperties
    <3>5. /\ report \in Seq(TokenType) /\ Len(report) = n
          /\ \A i \in 1 .. n : report[i] = old[i]
          /\ Levels(report, Top, f)
      BY <3>0, <3>1, <3>2, <3>3, <3>4, BalancedPrefix
    <3>6. f[0] = 0
      BY <3>2, <3>4
    <3> HIDE DEF f, report
    <3>7. report # <<>> /\ report[1][1] = "begin"
      BY <2>6, <3>1, <3>4, <3>5
    <3> DEFINE E == EmbeddedText(report)
    <3>8. E \in Seq(TokenType) /\ Balanced(E, Ceiling, 1, 1)
      BY <3>0, <3>5, <3>6, <3>7, EmbeddedLevels
    <3>9. todo' = E \o Tail(todo)
      BY <2>0, <2>6 DEF When
    <3> HIDE DEF E
    <3>10. E \in Seq(CallType)
      BY <3>8, TokenIsCall, SeqMonotonic
    <3>11. Bounded(E, Ceiling, 1, limit, 1, limit)
      BY <1>1, <1>2, <3>8, BalancedBounded
    <3>12. ASSUME NEW h \in 0 .. Ceiling, NEW l \in Int, Covers(call, Ceiling, level, limit, h, l)
           PROVE  Bounded(E, Ceiling, level', limit', h, l)
      <4>1. level <= 1 /\ 1 <= h /\ limit <= l /\ limit <= limit /\ h \in Int
        BY <1>1, <2>4, <3>12
      <4>2. Bounded(E, Ceiling, level, limit, h, l)
        BY <1>1, <1>2, <3>10, <3>11, <4>1, BoundedWeaken
      <4> QED
        BY <2>0, <4>2
    <3> QED
      BY <1>6, <2>3, <3>9, <3>10, <3>12, AfterCalls
  <2> QED
    BY <2>5, <2>6
<1>15. CASE AddJSON
  <2> DEFINE calls == JSONCalls(call[2], call[3], call[4])
  <2>0. /\ call[1] = "json" /\ level' = level /\ limit' = limit /\ todo' = calls \o Tail(todo)
    BY <1>4, <1>15 DEF AddJSON, Then, output, JSONCalls
  <2>1. call[2] \in Names /\ call[3] \in Texts /\ call[4] \in BOOLEAN
    BY <1>5, <2>0
  <2>2. Rise(call) = IF call[4] THEN 0 ELSE Nesting
    BY <2>0, <2>1 DEF Rise
  <2>3. level' \in Nat /\ limit' \in Int /\ limit' <= SearchDepth
    BY <1>1, <2>0
  <2> HIDE DEF calls
  <2>4. ASSUME NEW h \in 0 .. Ceiling, NEW l \in Int, Covers(call, Ceiling, level, limit, h, l)
        PROVE  calls \in Seq(CallType) /\ Bounded(calls, Ceiling, level', limit', h, l)
    <3>1. level + Nesting < Ceiling
      BY <2>0, <2>4 DEF Covers
    <3>2. limit <= l /\ h >= level + (IF call[4] THEN 0 ELSE Nesting)
      BY <1>1, <1>7, <2>2, <2>4
    <3>3. calls \in Seq(CallType) /\ Bounded(calls, Ceiling, level, limit, h, l)
      BY <1>1, <1>2, <1>3, <2>1, <3>1, <3>2, JSONLeadsTo DEF calls
    <3> QED
      BY <2>0, <3>3
  <2>5. PICK h \in 0 .. Ceiling, l \in Int : Covers(call, Ceiling, level, limit, h, l)
    BY <1>1, <1>2, <1>6, BoundedTail, DeepestInt
  <2>6. calls \in Seq(CallType)
    BY <2>4, <2>5
  <2> QED
    BY <1>6, <2>0, <2>3, <2>4, <2>6, AfterCalls
<1>16. CASE BeginUserSection
  <2>0. PICK text \in IF userInfo = "freed" THEN Texts ELSE {userInfo} :
            todo' = UserCalls(text) \o Tail(todo)
    BY <1>16 DEF BeginUserSection, Then, UserCalls
  <2>1. call[1] = "user" /\ level' = level /\ limit' = limit
    BY <1>4, <1>16 DEF BeginUserSection, output
  <2>1a. text \in Texts \cup {"NULL"}
    BY DEF WriterInv, WriterTypes
  <2> DEFINE calls == UserCalls(text)
  <2>2. Rise(call) = Nesting
    BY <2>1 DEF Rise
  <2>3. level' \in Nat /\ limit' \in Int /\ limit' <= SearchDepth
    BY <1>1, <2>1
  <2>4. ASSUME NEW h \in 0 .. Ceiling, NEW l \in Int, Covers(call, Ceiling, level, limit, h, l)
        PROVE  calls \in Seq(CallType) /\ Bounded(calls, Ceiling, level', limit', h, l)
    <3>1. level + Nesting < Ceiling
      BY <2>1, <2>4 DEF Covers
    <3>2. limit <= l /\ h >= level + Nesting
      BY <1>1, <1>7, <2>2, <2>4
    <3>3. calls \in Seq(CallType) /\ Bounded(calls, Ceiling, level, limit, h, l)
      BY <1>1, <1>2, <1>3, <2>1a, <3>1, <3>2, UserLeadsTo
    <3> HIDE DEF calls
    <3> QED
      BY <2>1, <3>3
  <2> HIDE DEF calls
  <2>5. PICK h \in 0 .. Ceiling, l \in Int : Covers(call, Ceiling, level, limit, h, l)
    BY <1>1, <1>2, <1>6, BoundedTail, DeepestInt
  <2>6. calls \in Seq(CallType)
    BY <2>4, <2>5
  <2>7. todo' = calls \o Tail(todo)
    BY <2>0 DEF calls
  <2> QED
    BY <1>6, <2>3, <2>4, <2>6, <2>7, AfterCalls
<1>17. CASE WriteMemoryContents
  <2> DEFINE calls == MemoryCalls(call[2], call[3])
  <2>0. /\ call[1] = "memory" /\ level' = level /\ limit' = limit - 1
        /\ todo' = calls \o Tail(todo)
    BY <1>4, <1>17 DEF WriteMemoryContents, Then, output, MemoryCalls
  <2>1. call[2] \in Names /\ call[3] \in Words
    BY <1>5, <2>0
  <2>2. Rise(call) = 0
    BY <2>0 DEF Rise
  <2>3. level' \in Nat /\ limit' \in Int /\ limit' <= SearchDepth
    BY <1>1, <1>2, <2>0
  <2> HIDE DEF calls
  <2>4. ASSUME NEW h \in 0 .. Ceiling, NEW l \in Int, Covers(call, Ceiling, level, limit, h, l)
        PROVE  calls \in Seq(CallType) /\ Bounded(calls, Ceiling, level', limit', h, l)
    <3>1. level <= Deepest /\ level + limit <= Deepest
      BY <2>0, <2>4 DEF Covers
    <3>1a. level < Ceiling
      BY <1>1, <1>2, <3>1
    <3>2. limit <= l /\ level <= h
      BY <1>1, <1>7, <2>2, <2>4
    <3>3. calls \in Seq(CallType) /\ Bounded(calls, Ceiling, level, limit - 1, h, l)
      BY <1>1, <1>2, <1>3, <2>1, <3>1, <3>1a, <3>2, MemoryLeadsTo DEF calls
    <3> QED
      BY <2>0, <3>3
  <2>5. PICK h \in 0 .. Ceiling, l \in Int : Covers(call, Ceiling, level, limit, h, l)
    BY <1>1, <1>2, <1>6, BoundedTail, DeepestInt
  <2>6. calls \in Seq(CallType)
    BY <2>4, <2>5
  <2> QED
    BY <1>6, <2>0, <2>3, <2>4, <2>6, AfterCalls
<1>18. CASE WriteContents
  <2> DEFINE calls == ContentsCalls(call[2], limit)
  <2>0. /\ call[1] = "contents" /\ level' = level /\ limit' = limit
        /\ todo' = calls \o Tail(todo)
    BY <1>4, <1>18 DEF WriteContents, Then, output, ContentsCalls
  <2>1. call[2] \in Objects
    BY <1>5, <2>0
  <2>2. Rise(call) = 0
    BY <2>0 DEF Rise
  <2>3. level' \in Nat /\ limit' \in Int /\ limit' <= SearchDepth
    BY <1>1, <1>2, <2>0
  <2> HIDE DEF calls
  <2>4. ASSUME NEW h \in 0 .. Ceiling, NEW l \in Int, Covers(call, Ceiling, level, limit, h, l)
        PROVE  calls \in Seq(CallType) /\ Bounded(calls, Ceiling, level', limit', h, l)
    <3>1. level <= Deepest + 1 /\ (limit > 0 => level + limit <= Deepest)
      BY <2>0, <2>4 DEF Covers
    <3>2. limit <= l /\ level <= h
      BY <1>1, <1>7, <2>2, <2>4
    <3>3. calls \in Seq(CallType) /\ Bounded(calls, Ceiling, level, limit, h, l)
      BY <1>1, <1>2, <1>3, <2>1, <3>1, <3>2, ContentsLeadsTo DEF calls
    <3> QED
      BY <2>0, <3>3
  <2>5. PICK h \in 0 .. Ceiling, l \in Int : Covers(call, Ceiling, level, limit, h, l)
    BY <1>1, <1>2, <1>6, BoundedTail, DeepestInt
  <2>6. calls \in Seq(CallType)
    BY <2>4, <2>5
  <2> QED
    BY <1>6, <2>0, <2>3, <2>4, <2>6, AfterCalls
<1>19. CASE WriteUnknownObjectContents
  <2> DEFINE p == call[2]
             calls == IvarsCalls(p)
             n == Len(IvarsOf(p))
  <2>0. /\ call[1] = "ivars" /\ level' = level /\ limit' = limit - 1 - n
        /\ todo' = calls \o Tail(todo)
    BY <1>4, <1>19 DEF WriteUnknownObjectContents, Then, output, IvarsCalls, IvarsOf
  <2>1. p \in Objects
    BY <1>5, <2>0
  <2>2. Rise(call) = 0
    BY <2>0 DEF Rise
  <2> HIDE DEF calls, n, p
  <2>4. ASSUME NEW h \in 0 .. Ceiling, NEW l \in Int, Covers(call, Ceiling, level, limit, h, l)
        PROVE  n \in Nat /\ calls \in Seq(CallType) /\ Bounded(calls, Ceiling, level', limit', h, l)
    <3>1. level < Deepest /\ level + limit <= Deepest
      BY <2>0, <2>4 DEF Covers
    <3>1a. level < Ceiling
      BY <1>1, <1>2, <3>1
    <3>2. limit <= l /\ level <= h
      BY <1>1, <1>7, <2>2, <2>4
    <3>3. /\ n \in Nat /\ calls \in Seq(CallType)
          /\ Bounded(calls, Ceiling, level, limit - 1 - n, h, l)
      BY <1>1, <1>2, <1>3, <2>1, <3>1, <3>1a, <3>2, IvarsLeadsTo DEF calls, n
    <3> QED
      BY <2>0, <3>3
  <2>5. PICK h \in 0 .. Ceiling, l \in Int : Covers(call, Ceiling, level, limit, h, l)
    BY <1>1, <1>2, <1>6, BoundedTail, DeepestInt
  <2>6. calls \in Seq(CallType) /\ n \in Nat
    BY <2>4, <2>5
  <2>3. level' \in Nat /\ limit' \in Int /\ limit' <= SearchDepth
    BY <1>1, <1>2, <2>0, <2>6
  <2> QED
    BY <1>6, <2>0, <2>3, <2>4, <2>6, AfterCalls
<1>20. CASE BreakOff
  <2>0. /\ call[1] = "broken" /\ level' = level /\ limit' = limit
        /\ \/ todo' = <<>> \o Tail(todo)
           \/ call[3] > 0 /\ todo' = BrokenCalls(call[2], call[3], call[4]) \o Tail(todo)
    BY <1>4, <1>20 DEF BreakOff, Then, output, BrokenCalls
  <2>1. call[2] \in Names /\ call[3] \in 0 .. Nesting /\ call[4] \in BOOLEAN
    BY <1>5, <2>0
  <2>2. Rise(call) = 0
    BY <2>0 DEF Rise
  <2>3. level' \in Nat /\ limit' \in Int /\ limit' <= SearchDepth
    BY <1>1, <2>0
  <2>4. ASSUME NEW h \in 0 .. Ceiling, NEW l \in Int, Covers(call, Ceiling, level, limit, h, l)
        PROVE  /\ level <= h /\ limit <= l /\ level + call[3] <= Ceiling
               /\ ~call[4] => h >= level + call[3]
    <3>1. level + call[3] <= Ceiling /\ (~call[4] => h >= level + call[3])
      BY <2>0, <2>4 DEF Covers
    <3> QED
      BY <1>1, <1>7, <2>2, <2>4, <3>1
  <2>5. CASE todo' = <<>> \o Tail(todo)
    <3>1. \A h \in 0 .. Ceiling, l \in Int :
              Covers(call, Ceiling, level, limit, h, l) => level' <= h /\ limit' <= l
      BY <2>0, <2>4
    <3> QED
      BY <1>6, <2>3, <2>5, <3>1, AfterNoCalls
  <2>6. CASE call[3] > 0 /\ todo' = BrokenCalls(call[2], call[3], call[4]) \o Tail(todo)
    <3> DEFINE calls == BrokenCalls(call[2], call[3], call[4])
    <3>0. call[3] \in 1 .. Nesting
      BY <2>1, <2>6, DeepestInt
    <3>1. ASSUME NEW h \in 0 .. Ceiling, NEW l \in Int, Covers(call, Ceiling, level, limit, h, l)
          PROVE  calls \in Seq(CallType) /\ Bounded(calls, Ceiling, level', limit', h, l)
      <4>1. /\ level <= h /\ limit <= l /\ level + call[3] <= Ceiling
            /\ ~call[4] => h >= level + call[3]
        BY <2>4, <3>1
      <4>2. calls \in Seq(CallType) /\ Bounded(calls, Ceiling, level, limit, h, l)
        BY <1>1, <1>2, <1>3, <2>1, <3>0, <4>1, BrokenLeadsTo
      <4> HIDE DEF calls
      <4> QED
        BY <2>0, <4>2
    <3>2. todo' = calls \o Tail(todo)
      BY <2>6
    <3> HIDE DEF calls
    <3>3. PICK h \in 0 .. Ceiling, l \in Int : Covers(call, Ceiling, level, limit, h, l)
      BY <1>1, <1>2, <1>6, BoundedTail, DeepestInt
    <3>4. calls \in Seq(CallType)
      BY <3>1, <3>3
    <3> QED
      BY <1>6, <2>3, <3>1, <3>2, <3>4, AfterCalls
  <2> QED
    BY <2>0, <2>5, <2>6
<1> QED
  BY <1>8, <1>9, <1>10, <1>11, <1>12, <1>13, <1>14, <1>15, <1>16, <1>17, <1>18, <1>19, <1>20

------------------------------------------------------------------------------
(* The steps.                                                                *)

(* The report as far as it has been written.                                 *)
Text == file \o buffer

(* A token that is written comes last; a full buffer changes nothing of the  *)
(* text.                                                                     *)
LEMMA WriteAppends ==
    ASSUME WriterTypes, NEW token \in TokenType, Write(token)
    PROVE  /\ file' \in Seq(TokenType) /\ buffer' \in Seq(TokenType)
           /\ Text \in Seq(TokenType) /\ Text' = Append(Text, token)
<1>1. file \in Seq(TokenType) /\ buffer \in Seq(TokenType) /\ Text \in Seq(TokenType)
      /\ <<token>> \in Seq(TokenType)
  BY ConcatProperties DEF WriterTypes, Text
<1>2. CASE Len(buffer) = BufferLength
  <2>1. file' = file \o buffer /\ buffer' = <<token>>
    BY <1>2 DEF Write
  <2>2. Text' = Text \o <<token>>
    BY <2>1 DEF Text
  <2>3. Text \o <<token>> = Append(Text, token)
    BY <1>1, AppendIsConcat
  <2> QED
    BY <1>1, <2>1, <2>2, <2>3 DEF Text
<1>3. CASE Len(buffer) # BufferLength
  <2>1. file' = file /\ buffer' = Append(buffer, token)
    BY <1>3 DEF Write
  <2>2. Append(buffer, token) = buffer \o <<token>> /\ Append(Text, token) = Text \o <<token>>
    BY <1>1, AppendIsConcat
  <2>3. Text' = file \o (buffer \o <<token>>)
    BY <2>1, <2>2 DEF Text
  <2>4. file \o (buffer \o <<token>>) = Text \o <<token>>
    BY <1>1, ConcatAssociative DEF Text
  <2>5. buffer' \in Seq(TokenType)
    BY <1>1, <2>1, AppendProperties
  <2> QED
    BY <1>1, <2>1, <2>2, <2>3, <2>4, <2>5
<1> QED
  BY <1>2, <1>3

(* Neither does a flush.                                                     *)
LEMMA FlushKeepsText ==
    ASSUME WriterTypes, file' = file \o buffer, buffer' = <<>>
    PROVE  /\ file' \in Seq(TokenType) /\ buffer' \in Seq(TokenType)
           /\ Text \in Seq(TokenType) /\ Text' = Text
<1>1. file \in Seq(TokenType) /\ buffer \in Seq(TokenType) /\ file \o buffer \in Seq(TokenType)
  BY ConcatProperties DEF WriterTypes
<1>2. Text' = (file \o buffer) \o <<>>
  BY DEF Text
<1>3. (file \o buffer) \o <<>> = file \o buffer
  BY <1>1, ConcatEmptySeq
<1> QED
  BY <1>1, <1>2, <1>3 DEF Text

(* A text that has begun, and that is open as far as the encoder says.       *)
TextOK(text, h) == Balanced(text, Top, 0, h) /\ text # <<>> /\ BeginFirst(text)

(* A token that the encoder accounts for keeps the text balanced.            *)
LEMMA TextWritten ==
    ASSUME WriterTypes, Balanced(Text, Top, 0, level), BeginFirst(Text),
           NEW token \in TokenType, Write(token), Text = <<>> => token[1] = "begin",
           level' = level + Rise(token), level' \in Nat, level' <= Top
    PROVE  TextOK(Text', level')
<1>1. /\ Text \in Seq(TokenType) /\ Text' = Append(Text, token) /\ Top \in Nat
      /\ level \in Int /\ level' \in 0 .. Top
  BY WriteAppends, TopNat DEF WriterTypes
<1> DEFINE text == Text
           h == level'
<1>2. Text' = Append(text, token) /\ h = level + Rise(token) /\ h \in 0 .. Top
  BY <1>1
<1> HIDE DEF text, h
<1>3. text \in Seq(TokenType) /\ Balanced(text, Top, 0, level)
  BY <1>1 DEF text
<1>4. Balanced(Append(text, token), Top, 0, h)
  BY <1>1, <1>2, <1>3, BalancedAppend
<1>5. /\ Append(text, token) \in Seq(TokenType) /\ Len(Append(text, token)) = Len(text) + 1
      /\ Append(text, token)[Len(text) + 1] = token
      /\ \A i \in 1 .. Len(text) : Append(text, token)[i] = text[i]
  BY <1>3, AppendProperties
<1>6. Append(text, token) # <<>>
  BY <1>5
<1>7. Append(text, token)[1][1] = "begin"
  <2>1. CASE text = <<>>
    <3>1. Len(text) = 0 /\ token[1] = "begin"
      BY <2>1 DEF text
    <3>2. Append(text, token)[1] = token
      BY <1>5, <3>1
    <3> QED
      BY <3>1, <3>2
  <2>2. CASE text # <<>>
    <3>1. Len(text) \in Nat \ {0}
      BY <1>3, <2>2, EmptySeq
    <3>2. 1 \in 1 .. Len(text)
      BY <3>1
    <3>3. Append(text, token)[1] = text[1]
      BY <1>5, <3>2
    <3>4. text[1][1] = "begin"
      BY <2>2 DEF BeginFirst, text
    <3> QED
      BY <3>3, <3>4
  <2> QED
    BY <2>1, <2>2
<1> QED
  BY <1>2, <1>4, <1>6, <1>7 DEF TextOK, BeginFirst, h

(* Every call keeps the text of a standard report balanced.                  *)
LEMMA CallText ==
    ASSUME WriterInv, Writing, todo # <<>>, mode = "standard" => level' <= Top, level' \in Nat,
           BeginContainer \/ AddElements \/ EndContainer \/ FlushBuffer \/ Embed \/ RemoveOld
           \/ AddJSON \/ BreakOff \/ BeginUserSection \/ StartSearch \/ WriteMemoryContents \/ WriteContents
           \/ WriteUnknownObjectContents \/ Close
    PROVE  /\ file' \in Seq(TokenType) /\ buffer' \in Seq(TokenType)
           /\ mode = "standard" => TextOK(Text', level')
           /\ old' = old \/ old' = <<>>
<1> DEFINE call == Head(todo)
<1>1. /\ WriterTypes /\ level \in Nat
      /\ file \in Seq(TokenType) /\ buffer \in Seq(TokenType) /\ Text \in Seq(TokenType)
  BY ConcatProperties DEF WriterInv, WriterTypes, Text
<1>1a. call \in CallType
  BY HeadTailProperties DEF WriterInv, WriterTypes
<1>2. Next1 = call
  BY DEF Next1
<1>3. mode = "standard" =>
          /\ Balanced(Text, Top, 0, level) /\ BeginFirst(Text)
          /\ Text = <<>> => call[1] = "begin"
  BY DEF WriterInv, TextBalanced, Text
<1> HIDE DEF call
<1>4. CASE BeginContainer \/ AddElements \/ (EndContainer /\ level > 0)
  <2>1. Write(call) /\ call[1] \in {"begin", "fields", "end"} /\ level' = level + Rise(call)
        /\ old' = old
    BY <1>1, <1>2, <1>4 DEF BeginContainer, AddElements, EndContainer, Rise
  <2>2. call \in TokenType
    BY <1>1a, <2>1, CallParts
  <2>3. file' \in Seq(TokenType) /\ buffer' \in Seq(TokenType)
    BY <1>1, <2>1, <2>2, WriteAppends
  <2>4. mode = "standard" => TextOK(Text', level')
    BY <1>1, <1>3, <2>1, <2>2, TextWritten
  <2> QED
    BY <2>1, <2>3, <2>4
<1>5. CASE (EndContainer /\ ~(level > 0)) \/ Embed \/ RemoveOld \/ AddJSON \/ BreakOff \/ BeginUserSection
           \/ StartSearch \/ WriteMemoryContents \/ WriteContents \/ WriteUnknownObjectContents
           \/ (Close /\ level > 0)
  <2>1. file' = file /\ buffer' = buffer /\ level' = level /\ call[1] # "begin"
    BY <1>2, <1>5 DEF EndContainer, Embed, RemoveOld, AddJSON, BreakOff, BeginUserSection, StartSearch,
       WriteMemoryContents, WriteContents, WriteUnknownObjectContents, Close, output
  <2>2. old' = old \/ old' = <<>>
    BY <1>5 DEF EndContainer, Embed, RemoveOld, AddJSON, BreakOff, BeginUserSection, StartSearch,
       WriteMemoryContents, WriteContents, WriteUnknownObjectContents, Close, output
  <2>3. Text' = Text
    BY <2>1 DEF Text
  <2> QED
    BY <1>1, <1>3, <2>1, <2>2, <2>3 DEF TextOK
<1>6. CASE FlushBuffer \/ (Close /\ ~(level > 0))
  <2>1. file' = file \o buffer /\ buffer' = <<>> /\ level' = level /\ call[1] # "begin"
        /\ old' = old
    BY <1>2, <1>6 DEF FlushBuffer, Close
  <2>2. file' \in Seq(TokenType) /\ buffer' \in Seq(TokenType) /\ Text' = Text
    BY <1>1, <2>1, FlushKeepsText
  <2> QED
    BY <1>3, <2>1, <2>2 DEF TextOK
<1> QED
  BY <1>4, <1>5, <1>6

(* The invariant holds at first.                                             *)
LEMMA InitWriter == Init => WriterInv
<1> SUFFICES ASSUME Init PROVE WriterInv
  OBVIOUS
<1> USE DEF Init
<1>1. <<>> \in Seq(CallType) /\ <<>> \in Seq(TokenType)
  OBVIOUS
<1>2. WriterTypes
  BY <1>1, TopNat DEF WriterTypes
<1>3. CallsBounded
  BY DEF CallsBounded, Writing
<1>4. TextBalanced
  BY DEF TextBalanced
<1>5. OldBalanced
  <2>1. Balanced(<<>>, Top, 0, 0)
    BY TopNat, BalancedNone
  <2> QED
    BY <2>1 DEF OldBalanced, BeginFirst
<1> QED
  BY <1>2, <1>3, <1>4, <1>5 DEF WriterInv

(* An object begins with its beginning.                                      *)
LEMMA HeadOfObject ==
    ASSUME NEW key \in Names, NEW body \in Seq(CallType), NEW rest \in Seq(CallType)
    PROVE  LET s == Object(key, body) \o rest
           IN  s # <<>> /\ Head(s)[1] = "begin"
<1> DEFINE begin == <<Begin(key)>>
           end == <<End>>
           a == begin \o body
           b == a \o end
           s == b \o rest
<1>1. begin \in Seq(CallType) /\ end \in Seq(CallType) /\ Len(begin) = 1 /\ begin[1] = Begin(key)
  BY BeginEnd
<1>2. Begin(key)[1] = "begin"
  BY BeginEnd
<1>3. s = Object(key, body) \o rest
  BY DEF Object
<1> HIDE DEF begin, end
<1>4. a \in Seq(CallType) /\ Len(a) >= 1 /\ a[1] = Begin(key)
  <2>1. /\ a \in Seq(CallType) /\ Len(a) = Len(begin) + Len(body)
        /\ \A i \in 1 .. Len(begin) + Len(body) :
               a[i] = IF i <= Len(begin) THEN begin[i] ELSE body[i - Len(begin)]
    BY <1>1, ConcatProperties
  <2> HIDE DEF a
  <2>2. Len(body) \in Nat
    OBVIOUS
  <2> QED
    BY <1>1, <2>1, <2>2
<1> HIDE DEF a
<1>5. b \in Seq(CallType) /\ Len(b) >= 1 /\ b[1] = Begin(key)
  <2>1. /\ b \in Seq(CallType) /\ Len(b) = Len(a) + Len(end)
        /\ \A i \in 1 .. Len(a) + Len(end) : b[i] = IF i <= Len(a) THEN a[i] ELSE end[i - Len(a)]
    BY <1>1, <1>4, ConcatProperties
  <2> HIDE DEF b
  <2>2. Len(end) \in Nat /\ Len(a) \in Nat
    BY <1>1, <1>4
  <2> QED
    BY <1>4, <2>1, <2>2
<1> HIDE DEF b
<1>6. s \in Seq(CallType) /\ Len(s) >= 1 /\ s[1] = Begin(key)
  <2>1. /\ s \in Seq(CallType) /\ Len(s) = Len(b) + Len(rest)
        /\ \A i \in 1 .. Len(b) + Len(rest) : s[i] = IF i <= Len(b) THEN b[i] ELSE rest[i - Len(b)]
    BY <1>5, ConcatProperties
  <2> HIDE DEF s
  <2>2. Len(b) \in Nat /\ Len(rest) \in Nat
    BY <1>5
  <2> QED
    BY <1>5, <2>1, <2>2
<1> HIDE DEF s
<1>7. s # <<>>
  BY <1>6
<1>8. Head(s) = s[1]
  BY <1>6, <1>7, HeadTailProperties
<1> QED
  BY <1>2, <1>3, <1>6, <1>7, <1>8

(* A report is begun.                                                        *)
LEMMA BeginStandardWriter == WriterInv /\ BeginStandard => WriterInv'
<1> SUFFICES ASSUME WriterInv, BeginStandard PROVE WriterInv'
  OBVIOUS
<1>1. PICK c \in Crashes : todo' = StandardReport(c)
  BY DEF BeginStandard
<1>2. /\ mode = "running" /\ mode' = "standard" /\ file' = <<>> /\ buffer' = buffer
      /\ limit' = limit /\ level' = level /\ old' = old /\ userInfo' = userInfo
  BY DEF BeginStandard, settings
<1>3. level = 0 /\ buffer = <<>> /\ old = <<>> /\ limit \in Int /\ limit <= SearchDepth
  BY <1>2 DEF WriterInv, CallsBounded, Writing, TextBalanced, OldBalanced, WriterTypes
<1>4. c \in ContextType
  BY WriterAssumption
<1>5. PICK body \in Seq(CallType) : todo' = Object("root", body) \o <<<<"close">>>>
  BY <1>1, <1>4, TopNat, BoundedStandardReport
<1>7. /\ StandardReport(c) \in Seq(CallType)
      /\ Bounded(StandardReport(c), Top, 0, SearchDepth, Nesting, SearchDepth)
  BY <1>4, TopNat, BoundedStandardReport
<1>8. Bounded(StandardReport(c), Top, 0, limit, Nesting, SearchDepth)
  BY <1>3, <1>7, TopNat, DeepestInt, BoundedWeaken
<1>9. todo' # <<>> /\ Head(todo')[1] = "begin"
  <2>1. <<<<"close">>>> \in Seq(CallType)
    BY DEF CallType
  <2> DEFINE rest == <<<<"close">>>>
             s == Object("root", body) \o rest
  <2>2. rest \in Seq(CallType)
    BY <2>1
  <2> HIDE DEF rest
  <2>3. s # <<>> /\ Head(s)[1] = "begin"
    BY <2>2, ReportNames, HeadOfObject
  <2>4. todo' = s
    BY <1>5 DEF rest
  <2> QED
    BY <2>3, <2>4
<1>10. WriterTypes'
  BY <1>1, <1>2, <1>3, <1>7 DEF WriterInv, WriterTypes
<1>11. CallsBounded'
  <2>1. Ceiling' = Top
    BY <1>2 DEF Ceiling, Top
  <2>2. Bounded(todo', Top, level', limit', Nesting, SearchDepth)
    BY <1>1, <1>2, <1>3, <1>8
  <2> QED
    BY <1>2, <2>1, <2>2 DEF CallsBounded, Writing
<1>12. TextBalanced'
  <2>1. <<>> \o <<>> = <<>>
    BY ConcatEmptySeq, EmptySeq
  <2>2. Balanced(<<>>, Top, 0, 0)
    BY TopNat, BalancedNone
  <2>3. file' \o buffer' = <<>> /\ level' = 0
    BY <1>2, <1>3, <2>1
  <2> QED
    BY <1>2, <1>9, <2>2, <2>3 DEF TextBalanced, BeginFirst
<1>13. OldBalanced'
  BY <1>2, <1>3 DEF WriterInv, OldBalanced, BeginFirst
<1> QED
  BY <1>10, <1>11, <1>12, <1>13 DEF WriterInv

(* The recrash report is begun: the text so far becomes the old one.         *)
LEMMA BeginRecrashWriter == WriterInv /\ BeginRecrash => WriterInv'
<1> SUFFICES ASSUME WriterInv, BeginRecrash PROVE WriterInv'
  OBVIOUS
<1>1. PICK c \in Crashes : todo' = RecrashReport(c)
  BY DEF BeginRecrash
<1>2. /\ mode \in {"standard", "written"} /\ mode' = "recrash" /\ old' = file /\ file' = <<>>
      /\ buffer' = <<>> /\ level' = 0 /\ limit' = limit /\ userInfo' = userInfo
  BY DEF BeginRecrash, settings
<1>3. /\ limit \in Int /\ limit <= SearchDepth
      /\ file \in Seq(TokenType) /\ buffer \in Seq(TokenType)
      /\ Balanced(Text, Top, 0, level) /\ BeginFirst(Text)
  BY <1>2 DEF WriterInv, WriterTypes, TextBalanced, Text
<1>4. RecrashReport(c) \in Within(Top + 1, 0)
  <2>1. Top + 1 \in Nat /\ 7 + Nesting <= Top + 1
    BY TopNat, DeepestInt
  <2> QED
    BY <2>1, WithinRecrashReport
<1>5. /\ RecrashReport(c) \in Seq(CallType)
      /\ Bounded(RecrashReport(c), Top + 1, 0, SearchDepth, 0, SearchDepth)
  BY <1>4 DEF Within
<1>6. Bounded(RecrashReport(c), Top + 1, 0, limit, Nesting, SearchDepth)
  BY <1>3, <1>5, TopNat, DeepestInt, BoundedWeaken
<1>7. WriterTypes'
  BY <1>1, <1>2, <1>3, <1>5 DEF WriterInv, WriterTypes
<1>8. CallsBounded'
  <2>1. Ceiling' = Top + 1
    BY <1>2 DEF Ceiling, Top
  <2>2. Bounded(todo', Top + 1, level', limit', Nesting, SearchDepth)
    BY <1>1, <1>2, <1>6
  <2> QED
    BY <1>2, <2>1, <2>2 DEF CallsBounded, Writing
<1>9. TextBalanced'
  BY <1>2 DEF TextBalanced
<1>10. OldBalanced'
  <2> DEFINE n == Len(file)
  <2>1. Text \in Seq(TokenType) /\ n \in 0 .. Len(Text) /\ SubSeq(Text, 1, n) = file
    <3>1. Text \in Seq(TokenType) /\ Len(Text) = Len(file) + Len(buffer)
      BY <1>3, ConcatProperties DEF Text
    <3>2. SubSeq(Text, 1, n) = file
      BY <1>3, SubSeqOfConcat1, SubSeqFull DEF Text
    <3>3. Len(file) \in Nat /\ Len(buffer) \in Nat
      BY <1>3
    <3> QED
      BY <3>1, <3>2, <3>3
  <2>2. PICK g : Levels(Text, Top, g) /\ g[0] = 0
    BY <1>3 DEF Balanced
  <2> HIDE DEF n
  <2> DEFINE text == Text
             f == [i \in 0 .. n |-> g[i]]
  <2>3. /\ text \in Seq(TokenType) /\ n \in 0 .. Len(text) /\ SubSeq(text, 1, n) = file
        /\ Levels(text, Top, g)
    BY <2>1, <2>2
  <2> HIDE DEF text
  <2>4. /\ Len(SubSeq(text, 1, n)) = n
        /\ \A i \in 1 .. n : SubSeq(text, 1, n)[i] = text[i]
        /\ Levels(SubSeq(text, 1, n), Top, f)
    BY <2>3, TopNat, BalancedPrefix
  <2>5. f[0] = 0 /\ f[n] \in Int
    <3>1. 0 \in 0 .. n /\ n \in 0 .. n /\ n \in 0 .. Len(text)
      BY <2>3
    <3>2. g[n] \in Int
      BY <2>3, <3>1 DEF Levels
    <3> QED
      BY <2>2, <3>1, <3>2
  <2> HIDE DEF f
  <2>6. Balanced(file, Top, 0, f[n])
    BY <2>3, <2>4, <2>5 DEF Balanced
  <2>7. BeginFirst(file)
    <3> SUFFICES ASSUME file # <<>> PROVE file[1][1] = "begin"
      BY DEF BeginFirst
    <3>1. Len(file) \in Nat \ {0}
      BY <1>3, EmptySeq
    <3>2. 1 \in 1 .. n /\ n # 0
      BY <3>1 DEF n
    <3>3. file[1] = text[1]
      BY <2>3, <2>4, <3>2
    <3>4. text # <<>>
      BY <2>3, <3>2
    <3> QED
      BY <1>3, <3>3, <3>4 DEF BeginFirst, text
  <2> QED
    BY <1>2, <2>5, <2>6, <2>7 DEF OldBalanced
<1> QED
  BY <1>7, <1>8, <1>9, <1>10 DEF WriterInv

(* A call is made.                                                           *)
LEMMA MakeCallWriter == WriterInv /\ MakeCall => WriterInv'
<1> SUFFICES ASSUME WriterInv, MakeCall PROVE WriterInv'
  OBVIOUS
<1>1. /\ Writing /\ todo # <<>> /\ userInfo' = userInfo
      /\ BeginContainer \/ AddElements \/ EndContainer \/ FlushBuffer \/ Embed \/ RemoveOld
         \/ AddJSON \/ BreakOff \/ BeginUserSection \/ StartSearch \/ WriteMemoryContents \/ WriteContents
         \/ WriteUnknownObjectContents \/ Close
  BY DEF MakeCall, Writing, settings
<1>2. \/ mode' = mode
      \/ Close /\ ~(level > 0) /\ mode' = (IF mode = "standard" THEN "written" ELSE "rewritten")
  BY DEF MakeCall, Close
<1>3. AfterCall
  BY <1>1, CallBounds
<1>4. level' <= Ceiling
  BY <1>3, TopNat, DeepestInt, BoundedLevel DEF AfterCall
<1>5. mode = "standard" => level' <= Top
  BY <1>4 DEF Ceiling
<1>6. /\ file' \in Seq(TokenType) /\ buffer' \in Seq(TokenType)
      /\ mode = "standard" => TextOK(Text', level')
      /\ old' = old \/ old' = <<>>
  BY <1>1, <1>3, <1>5, CallText DEF AfterCall
<1>7. /\ mode \in {"standard", "recrash"} /\ userInfo \in Texts \cup {"NULL", "freed"}
      /\ old \in Seq(TokenType) /\ level \in Nat
  BY <1>1 DEF Writing, WriterInv, WriterTypes
<1>8. WriterTypes'
  <2>1. old' \in Seq(TokenType)
    BY <1>6, <1>7, EmptySeq
  <2>2. mode' \in {"running", "standard", "written", "recrash", "rewritten"}
    BY <1>2, <1>7
  <2> QED
    BY <1>1, <1>3, <1>6, <1>7, <2>1, <2>2 DEF WriterTypes, AfterCall
<1>9. CallsBounded'
  <2>1. CASE mode' = mode
    <3>1. Ceiling' = Ceiling /\ Writing'
      BY <1>1, <2>1 DEF Ceiling, Writing, Top
    <3> QED
      BY <1>3, <3>1 DEF AfterCall, CallsBounded
  <2>2. CASE Close /\ ~(level > 0) /\ mode' \in {"written", "rewritten"}
    <3>1. level' = level /\ level = 0
      BY <1>7, <2>2 DEF Close
    <3> QED
      BY <2>2, <3>1 DEF CallsBounded, Writing
  <2> QED
    BY <1>2, <2>1, <2>2
<1>10. TextBalanced'
  <2>1. mode' \in {"standard", "written"} => mode = "standard"
    BY <1>2, <1>7
  <2>2. mode' # "running"
    BY <1>2, <1>7
  <2>3. mode = "standard" => /\ Balanced(file' \o buffer', Top, 0, level')
                             /\ BeginFirst(file' \o buffer') /\ file' \o buffer' # <<>>
    BY <1>6 DEF TextOK, Text
  <2> QED
    BY <2>1, <2>2, <2>3 DEF TextBalanced
<1>11. OldBalanced'
  <2>1. Balanced(<<>>, Top, 0, 0)
    BY TopNat, BalancedNone
  <2>2. BeginFirst(old) /\ \E h \in Int : Balanced(old, Top, 0, h)
    BY DEF WriterInv, OldBalanced
  <2>3. BeginFirst(old') /\ \E h \in Int : Balanced(old', Top, 0, h)
    BY <1>6, <2>1, <2>2 DEF BeginFirst
  <2>4. mode' \in {"running", "standard", "written"} => old' = <<>>
    <3>1. mode' \in {"running", "standard", "written"} => mode = "standard"
      BY <1>2, <1>7
    <3>2. mode = "standard" => old = <<>>
      BY DEF WriterInv, OldBalanced
    <3> QED
      BY <1>6, <3>1, <3>2
  <2> QED
    BY <2>3, <2>4 DEF OldBalanced
<1> QED
  BY <1>8, <1>9, <1>10, <1>11 DEF WriterInv

(* The setters leave the writer alone.                                       *)
LEMMA SettersWriter ==
    ASSUME WriterInv, UNCHANGED <<mode, todo, limit, output>>,
           userInfo' \in Texts \cup {"NULL", "freed"}
    PROVE  WriterInv'
<1> USE DEF output
<1>1. WriterTypes'
  BY DEF WriterInv, WriterTypes
<1>2. CallsBounded'
  BY DEF WriterInv, CallsBounded, Writing, Ceiling, Top
<1>3. TextBalanced'
  BY DEF WriterInv, TextBalanced, Top
<1>4. OldBalanced'
  BY DEF WriterInv, OldBalanced, Top
<1> QED
  BY <1>1, <1>2, <1>3, <1>4 DEF WriterInv

(* Every step keeps the invariant.                                           *)
LEMMA NextWriter == WriterInv /\ [Next]_vars => WriterInv'
<1> SUFFICES ASSUME WriterInv, [Next]_vars PROVE WriterInv'
  OBVIOUS
<1>0. userInfo \in Texts \cup {"NULL", "freed"}
  BY DEF WriterInv, WriterTypes
<1>1. CASE BeginStandard
  BY <1>1, BeginStandardWriter
<1>2. CASE BeginRecrash
  BY <1>2, BeginRecrashWriter
<1>3. CASE MakeCall
  BY <1>3, MakeCallWriter
<1>4. CASE FreeUserInfo
  <2>1. UNCHANGED <<mode, todo, limit, output>> /\ userInfo' \in {"NULL", "freed"}
    BY <1>4 DEF FreeUserInfo, Enter
  <2> QED
    BY <2>1, SettersWriter
<1>5. CASE AssignUserInfo
  <2>1. UNCHANGED <<mode, todo, limit, output>> /\ userInfo' \in UserTexts
    BY <1>5 DEF AssignUserInfo, Leave
  <2>2. userInfo' \in Texts \cup {"NULL", "freed"}
    BY <2>1, WriterAssumption
  <2> QED
    BY <2>1, <2>2, SettersWriter
<1>6. CASE SetClasses
  <2>1. UNCHANGED <<mode, todo, limit, output>> /\ userInfo' = userInfo
    BY <1>6 DEF SetClasses, Enter
  <2> QED
    BY <1>0, <2>1, SettersWriter
<1>7. CASE SetCount
  <2>1. UNCHANGED <<mode, todo, limit, output>> /\ userInfo' = userInfo
    BY <1>7 DEF SetCount, Leave
  <2> QED
    BY <1>0, <2>1, SettersWriter
<1>8. CASE UNCHANGED vars
  <2>1. UNCHANGED <<mode, todo, limit, output>> /\ userInfo' = userInfo
    BY <1>8 DEF vars, output
  <2> QED
    BY <1>0, <2>1, SettersWriter
<1> QED
  BY <1>1, <1>2, <1>3, <1>4, <1>5, <1>6, <1>7, <1>8 DEF Next

(* The inductive invariant holds.                                            *)
THEOREM WriterInvariant == Spec => []WriterInv
  BY InitWriter, NextWriter, PTL DEF Spec

(* However objects refer to each other, the containers that introspection    *)
(* opens are bounded: whatever the heap holds and the encoder is asked for,  *)
(* an object is visited with no more than SearchDepth + 6 of them open (200  *)
(* are what CrasheeJSONCodec.c has room for, and 15 is its search depth).    *)
THEOREM IntrospectionIsBounded == Spec => []IntrospectionBounded
<1>1. WriterInv => IntrospectionBounded
  <2> SUFFICES ASSUME WriterInv, todo # <<>>, Next1[1] \in {"memory", "contents", "ivars"}
               PROVE  level <= SearchDepth + 6
    BY DEF IntrospectionBounded
  <2>1. level \in Nat /\ limit \in Int /\ todo \in Seq(CallType)
    BY DEF WriterInv, WriterTypes
  <2>2. CASE Writing
    <3>1. Bounded(todo, Ceiling, level, limit, Nesting, SearchDepth)
      BY <2>2 DEF WriterInv, CallsBounded
    <3>2. PICK h \in 0 .. Ceiling, l \in Int : Covers(Head(todo), Ceiling, level, limit, h, l)
      BY <2>1, <3>1, TopNat, DeepestInt, BoundedTail
    <3>3. level <= Deepest + 1
      BY <2>1, <3>2, DeepestInt DEF Covers, Next1
    <3> QED
      BY <2>1, <3>3, DeepestInt DEF Deepest
  <2>3. CASE ~Writing
    BY <2>3, DeepestInt DEF WriterInv, CallsBounded
  <2> QED
    BY <2>2, <2>3
<1> QED
  BY <1>1, WriterInvariant, PTL

------------------------------------------------------------------------------
(* The first of several calls.                                               *)

(* What is put before a sequence is its head.                                *)
LEMMA Prepended ==
    \A S : \A x \in S, s \in Seq(S) :
        /\ <<x>> \o s \in Seq(S) /\ <<x>> \o s # <<>>
        /\ Head(<<x>> \o s) = x /\ Tail(<<x>> \o s) = s
<1> SUFFICES ASSUME NEW S, NEW x \in S, NEW s \in Seq(S)
             PROVE  /\ <<x>> \o s \in Seq(S) /\ <<x>> \o s # <<>>
                    /\ Head(<<x>> \o s) = x /\ Tail(<<x>> \o s) = s
  OBVIOUS
<1> DEFINE first == <<x>>
           r == first \o s
<1>1. first \in Seq(S) /\ Len(first) = 1 /\ first[1] = x /\ Len(s) \in Nat
  OBVIOUS
<1> HIDE DEF first
<1>2. /\ r \in Seq(S) /\ Len(r) = Len(first) + Len(s)
      /\ \A i \in 1 .. Len(first) + Len(s) :
             r[i] = IF i <= Len(first) THEN first[i] ELSE s[i - Len(first)]
  BY <1>1, ConcatProperties
<1> HIDE DEF r
<1>3. r # <<>>
  BY <1>1, <1>2
<1>4. /\ Head(r) = r[1] /\ Tail(r) \in Seq(S) /\ Len(Tail(r)) = Len(r) - 1
      /\ \A i \in 1 .. Len(Tail(r)) : Tail(r)[i] = r[i + 1]
  BY <1>2, <1>3, HeadTailProperties
<1>5. Head(r) = x
  BY <1>1, <1>2, <1>4
<1>6. Tail(r) = s
  <2>1. Len(Tail(r)) = Len(s)
    BY <1>1, <1>2, <1>4
  <2>2. ASSUME NEW i \in 1 .. Len(s) PROVE Tail(r)[i] = s[i]
    <3>1. Tail(r)[i] = r[i + 1]
      BY <1>4, <2>1
    <3>2. i + 1 \in 1 .. 1 + Len(s) /\ ~(i + 1 <= 1) /\ (i + 1) - 1 = i
      BY <1>1
    <3> QED
      BY <1>1, <1>2, <3>1, <3>2
  <2> QED
    BY <1>4, <2>1, <2>2, SeqEqual
<1> QED
  BY <1>2, <1>3, <1>5, <1>6 DEF r, first

(* A sequence is its head, put before its tail.                              *)
LEMMA ConsOfHead ==
    ASSUME NEW S, NEW s \in Seq(S), s # <<>>
    PROVE  s = <<Head(s)>> \o Tail(s)
<1> DEFINE x == Head(s)
           t == Tail(s)
           r == <<x>> \o t
<1>1. /\ x \in S /\ t \in Seq(S) /\ x = s[1] /\ Len(t) = Len(s) - 1
      /\ \A i \in 1 .. Len(t) : t[i] = s[i + 1]
  BY HeadTailProperties
<1>2. Len(s) \in Nat /\ Len(s) # 0
  BY EmptySeq
<1> HIDE DEF x, t
<1>3. /\ <<x>> \in Seq(S) /\ Len(<<x>>) = 1 /\ <<x>>[1] = x
  BY <1>1
<1>4. /\ r \in Seq(S) /\ Len(r) = Len(<<x>>) + Len(t)
      /\ \A i \in 1 .. Len(<<x>>) + Len(t) :
             r[i] = IF i <= Len(<<x>>) THEN <<x>>[i] ELSE t[i - Len(<<x>>)]
  BY <1>1, <1>3, ConcatProperties
<1> HIDE DEF r
<1>5. Len(r) = Len(s)
  BY <1>1, <1>2, <1>3, <1>4
<1>6. ASSUME NEW i \in 1 .. Len(s) PROVE s[i] = r[i]
  <2>1. CASE i = 1
    BY <1>1, <1>2, <1>3, <1>4, <2>1
  <2>2. CASE i # 1
    <3>1. i - 1 \in 1 .. Len(t) /\ (i - 1) + 1 = i /\ ~(i <= 1) /\ i \in 1 .. 1 + Len(t)
      BY <1>1, <1>2, <2>2
    <3> QED
      BY <1>1, <1>3, <1>4, <3>1
  <2> QED
    BY <2>1, <2>2
<1>7. s = r
  BY <1>4, <1>5, <1>6, SeqEqual
<1> QED
  BY <1>7 DEF r, x, t

(* The head and the tail of two sequences in a row.                          *)
LEMMA HeadTailOfConcat ==
    ASSUME NEW S, NEW s \in Seq(S), NEW t \in Seq(S), s # <<>>
    PROVE  /\ s \o t # <<>> /\ Head(s \o t) = Head(s)
           /\ Tail(s \o t) = Tail(s) \o t
<1> DEFINE x == Head(s)
           u == Tail(s)
<1>1. x \in S /\ u \in Seq(S)
  BY HeadTailProperties
<1>2. s = <<x>> \o u
  BY ConsOfHead
<1> HIDE DEF x, u
<1>3. <<x>> \in Seq(S) /\ u \o t \in Seq(S)
  BY <1>1, ConcatProperties
<1>4. s \o t = <<x>> \o (u \o t)
  BY <1>1, <1>2, <1>3, ConcatAssociative
<1> DEFINE v == u \o t
<1>5. v \in Seq(S) /\ s \o t = <<x>> \o v
  BY <1>3, <1>4
<1> HIDE DEF v
<1>6. \A w \in Seq(S) : <<x>> \o w # <<>> /\ Head(<<x>> \o w) = x /\ Tail(<<x>> \o w) = w
  BY <1>1, Prepended
<1> QED
  BY <1>5, <1>6 DEF x, u, v

(* A text without its first token, from where that one leads.                *)
LEMMA BalancedTail ==
    ASSUME NEW top \in Nat, NEW s \in Seq(TokenType), s # <<>>, NEW h0 \in Int, NEW h1 \in Int,
           Balanced(s, top, h0, h1)
    PROVE  LET h == h0 + Rise(Head(s))
           IN  h \in 0 .. top /\ Balanced(Tail(s), top, h, h1)
<1>1. PICK g : Levels(s, top, g) /\ g[0] = h0 /\ g[Len(s)] = h1
  BY DEF Balanced
<1> DEFINE n == Len(s)
           t == Tail(s)
           f == [i \in 0 .. n - 1 |-> g[i + 1]]
<1>2. /\ n \in Nat /\ n # 0 /\ t \in Seq(TokenType) /\ Len(t) = n - 1 /\ Head(s) = s[1]
      /\ \A i \in 1 .. n - 1 : t[i] = s[i + 1]
  BY EmptySeq, HeadTailProperties
<1>3. g \in [0 .. n -> 0 .. top] /\ \A i \in 1 .. n : g[i] = g[i - 1] + Rise(s[i])
  BY <1>1 DEF Levels
<1>4. g[0] = h0 /\ g[n] = h1
  BY <1>1
<1> HIDE DEF n, t
<1>5. f \in [0 .. n - 1 -> 0 .. top]
  <2>1. ASSUME NEW i \in 0 .. n - 1 PROVE g[i + 1] \in 0 .. top
    BY <1>2, <1>3
  <2> QED
    BY <2>1
<1>6. ASSUME NEW i \in 1 .. n - 1 PROVE f[i] = f[i - 1] + Rise(t[i])
  <2>1. i \in 0 .. n - 1 /\ i - 1 \in 0 .. n - 1 /\ i + 1 \in 1 .. n /\ (i + 1) - 1 = i
        /\ (i - 1) + 1 = i
    BY <1>2
  <2>2. f[i] = g[i + 1] /\ f[i - 1] = g[i]
    BY <2>1
  <2>3. g[i + 1] = g[i] + Rise(s[i + 1])
    BY <1>3, <2>1
  <2> QED
    BY <1>2, <2>2, <2>3
<1>7. f[0] = g[1] /\ f[n - 1] = g[n]
  <2>1. 0 \in 0 .. n - 1 /\ n - 1 \in 0 .. n - 1 /\ (n - 1) + 1 = n /\ 0 + 1 = 1
    BY <1>2
  <2> QED
    BY <2>1
<1> HIDE DEF f
<1>8. g[1] = h0 + Rise(s[1]) /\ g[1] \in 0 .. top
  <2>1. 1 \in 1 .. n /\ 1 \in 0 .. n /\ 1 - 1 = 0
    BY <1>2
  <2> QED
    BY <1>3, <1>4, <2>1
<1>9. Levels(t, top, f)
  BY <1>2, <1>5, <1>6 DEF Levels
<1>10. Balanced(t, top, h0 + Rise(Head(s)), h1)
  BY <1>2, <1>4, <1>7, <1>8, <1>9 DEF Balanced
<1> QED
  BY <1>2, <1>8, <1>10 DEF t

(* Of calls, too, the one that is put first comes first.                     *)
LEMMA CallCons ==
    \A call \in CallType, s \in Seq(CallType) :
        /\ <<call>> \o s \in Seq(CallType) /\ <<call>> \o s # <<>>
        /\ Head(<<call>> \o s) = call /\ Tail(<<call>> \o s) = s
  BY Prepended

------------------------------------------------------------------------------
(* The old report in the recrash report.                                     *)

(* What a recrash report begins with.                                        *)
Root == <<Begin("root")>>

(* What it does after the embedding, with what follows then.                 *)
Ending(rest) == <<<<"flush">>>> \o (<<<<"remove">>>> \o rest)

(* Nothing is written yet.                                                   *)
Unbegun(rest) == Text = <<>> /\ level = 0 /\ todo = Root \o (<<<<"embed">>>> \o Ending(rest))

(* The root container is begun.                                              *)
Begun(rest) == Text = Root /\ level = 1 /\ todo = <<<<"embed">>>> \o Ending(rest)

(* Of what is embedded, s is written and t is not.                           *)
Copying(E, rest) ==
    \E s, t \in Seq(TokenType) :
        /\ E = s \o t /\ Text = Root \o s /\ todo = t \o Ending(rest)
        /\ Balanced(t, Top + 1, level, 1)

(* All of it is in the file, and the old file may go.                        *)
Copied(E, rest) == file = Root \o E /\ todo = <<<<"remove">>>> \o rest

(* What is added of a report that is read back up to n.                      *)
UpTo(report, n) ==
    When(SubSeq(report, 1, n) # <<>>, EmbeddedText(SubSeq(report, 1, n)))

(* While there is an old file, the recrash report does nothing but embed it, *)
(* as far as it can be read back: it is in one of these four states.         *)
OldKept ==
    mode = "recrash" /\ old # <<>> =>
        \E rest \in Seq(CallType) :
            \/ Unbegun(rest) \/ Begun(rest)
            \/ \E n \in StopsAfter(FirstObject(old)) :
                   LET E == UpTo(FirstObject(old), n)
                   IN  Copying(E, rest) \/ Copied(E, rest)

(* These are calls.                                                          *)
LEMMA RecrashCalls ==
    /\ Begin("root") \in CallType /\ Begin("root") \in TokenType /\ Root \in Seq(TokenType)
    /\ Begin("root")[1] = "begin" /\ Rise(Begin("root")) = 1
    /\ <<"embed">> \in CallType /\ <<"flush">> \in CallType /\ <<"remove">> \in CallType
    /\ \A rest \in Seq(CallType) : Ending(rest) \in Seq(CallType) /\ <<<<"embed">>>> \o Ending(rest) \in Seq(CallType)
<1>1. "root" \in Names
  BY ReportNames
<1>2. /\ Begin("root") \in CallType /\ Begin("root")[1] = "begin" /\ Rise(Begin("root")) = 1
  BY <1>1, BeginEnd
<1>3. Begin("root") \in TokenType
  BY <1>1 DEF TokenType, Begin
<1>4. Root \in Seq(TokenType)
  BY <1>3 DEF Root
<1>5. <<"embed">> \in CallType /\ <<"flush">> \in CallType /\ <<"remove">> \in CallType
  BY DEF CallType
<1>6. ASSUME NEW rest \in Seq(CallType)
      PROVE  Ending(rest) \in Seq(CallType) /\ <<<<"embed">>>> \o Ending(rest) \in Seq(CallType)
  <2>1. <<<<"remove">>>> \o rest \in Seq(CallType)
    BY <1>5, CallCons
  <2>2. <<<<"flush">>>> \o (<<<<"remove">>>> \o rest) \in Seq(CallType)
    BY <1>5, <2>1, CallCons
  <2>3. Ending(rest) \in Seq(CallType)
    BY <2>2 DEF Ending
  <2>4. <<<<"embed">>>> \o Ending(rest) \in Seq(CallType)
    BY <1>5, <2>3, CallCons
  <2> QED
    BY <2>3, <2>4
<1> QED
  BY <1>2, <1>3, <1>4, <1>5, <1>6

(* The concatenation, under a name that the provers do not expand.           *)
Joined(s, t) == s \o t

(* It is a sequence.                                                         *)
LEMMA JoinedCalls ==
    \A S : \A s, t \in Seq(S) : Joined(s, t) \in Seq(S)
  BY ConcatProperties DEF Joined

(* It is associative.                                                        *)
LEMMA JoinedInTurn ==
    \A S : \A s, t, u \in Seq(S) : Joined(Joined(s, t), u) = Joined(s, Joined(t, u))
  BY ConcatAssociative DEF Joined

(* The calls of a recrash report, grouped from the first one on.             *)
LEMMA Regrouped ==
    /\ \A e, f, r, w, x \in Seq(CallType) :
           Joined(Joined(Joined(Joined(Joined(e, f), r), w), f), x)
           = Joined(e, Joined(f, Joined(r, Joined(Joined(w, f), x))))
    /\ \A s, t, end, close \in Seq(CallType) :
           Joined(Joined(Joined(s, t), end), close) = Joined(s, Joined(Joined(t, end), close))
<1>1. \A s, t \in Seq(CallType) : Joined(s, t) \in Seq(CallType)
  BY JoinedCalls
<1>2. \A s, t, u \in Seq(CallType) : Joined(Joined(s, t), u) = Joined(s, Joined(t, u))
  BY JoinedInTurn
<1>3. \A s, t, u, v \in Seq(CallType) :
          Joined(Joined(Joined(s, t), u), v) = Joined(s, Joined(t, Joined(u, v)))
  <2> TAKE s, t, u, v \in Seq(CallType)
  <2>1. Joined(s, t) \in Seq(CallType) /\ Joined(u, v) \in Seq(CallType)
    BY <1>1
  <2>2. Joined(Joined(Joined(s, t), u), v) = Joined(Joined(s, t), Joined(u, v))
    BY <1>2, <2>1
  <2>3. Joined(Joined(s, t), Joined(u, v)) = Joined(s, Joined(t, Joined(u, v)))
    BY <1>2, <2>1
  <2> QED
    BY <2>2, <2>3
<1>4. ASSUME NEW e \in Seq(CallType), NEW f \in Seq(CallType), NEW r \in Seq(CallType),
             NEW w \in Seq(CallType), NEW x \in Seq(CallType)
      PROVE  Joined(Joined(Joined(Joined(Joined(e, f), r), w), f), x)
             = Joined(e, Joined(f, Joined(r, Joined(Joined(w, f), x))))
  <2> DEFINE p == Joined(Joined(e, f), r)
             q == Joined(Joined(w, f), x)
  <2>1. Joined(e, f) \in Seq(CallType) /\ Joined(w, f) \in Seq(CallType)
    BY <1>1
  <2>2. p \in Seq(CallType) /\ q \in Seq(CallType)
    BY <1>1, <2>1
  <2>3. Joined(p, q) = Joined(e, Joined(f, Joined(r, q)))
    BY <1>3, <2>2
  <2> HIDE DEF p
  <2>4. Joined(Joined(Joined(p, w), f), x) = Joined(p, Joined(w, Joined(f, x)))
    BY <1>3, <2>2
  <2>5. q = Joined(w, Joined(f, x))
    BY <1>2
  <2> QED
    BY <2>3, <2>4, <2>5 DEF p
<1>5. ASSUME NEW s \in Seq(CallType), NEW t \in Seq(CallType), NEW end \in Seq(CallType),
             NEW close \in Seq(CallType)
      PROVE  Joined(Joined(Joined(s, t), end), close) = Joined(s, Joined(Joined(t, end), close))
  <2>1. Joined(Joined(Joined(s, t), end), close) = Joined(s, Joined(t, Joined(end, close)))
    BY <1>3
  <2>2. Joined(Joined(t, end), close) = Joined(t, Joined(end, close))
    BY <1>2
  <2> QED
    BY <2>1, <2>2
<1> QED
  BY <1>4, <1>5

(* A recrash report begins its root, embeds the old report, flushes, and     *)
(* then removes it.                                                          *)
LEMMA RecrashBegins ==
    ASSUME NEW c \in Crashes
    PROVE  \E rest \in Seq(CallType) : RecrashReport(c) = Root \o (<<<<"embed">>>> \o Ending(rest))
<1> DEFINE offending == CHOOSE i \in DOMAIN c.threads : c.threads[i].crashed
           thread == c.threads[offending]
           inCrash == WriteError(c) \o Flush
                      \o WriteThread("crashed_thread", c, thread, FALSE) \o Flush
           b == <<Begin("root")>>
           e == <<<<"embed">>>>
           f == Flush
           r == <<<<"remove">>>>
           w == WriteReportInfo
           x == Object("crash", inCrash)
           end == <<End>>
           close == <<<<"close">>>>
           top == 7 + Nesting
<1>0. /\ 1 \in 0 .. top /\ 2 \in 0 .. top /\ top \in Nat /\ 1 < top /\ 5 + Nesting <= top
      /\ 2 + 4 <= top /\ (FALSE => 2 <= 3)
  BY DeepestInt
<1> HIDE DEF top
<1>1. /\ b \in Seq(CallType) /\ e \in Seq(CallType) /\ f \in Seq(CallType) /\ r \in Seq(CallType) /\ end \in Seq(CallType) /\ close \in Seq(CallType)
  <2>1. Begin("root") \in CallType /\ End \in CallType
    BY ReportNames, BeginEnd
  <2>2. <<"close">> \in CallType /\ <<"flush">> \in CallType
    BY DEF CallType
  <2> QED
    BY <2>1, <2>2, RecrashCalls DEF Flush
<1>2. w \in Seq(CallType)
  BY <1>0, WithinReportInfo, WithinBounds
<1>3. RecrashReport(c) = ((b \o (((((e \o f) \o r) \o w) \o f) \o x)) \o end) \o close
  BY DEF RecrashReport, Object
<1>4. f = <<<<"flush">>>>
  BY DEF Flush
<1>5. x \in Seq(CallType)
  <2>1. c \in ContextType /\ \E i \in DOMAIN c.threads : c.threads[i].crashed
    BY WriterAssumption
  <2>2. offending \in DOMAIN c.threads
    BY <2>1
  <2> HIDE DEF offending
  <2>3. c.threads \in Seq(ThreadType)
    BY <2>1 DEF ContextType
  <2>4. thread \in ThreadType
    BY <2>2, <2>3
  <2> HIDE DEF thread
  <2>5. WriteError(c) \in Seq(CallType)
    BY <1>0, <2>1, WithinError, WithinBounds
  <2>6. WriteThread("crashed_thread", c, thread, FALSE) \in Seq(CallType)
    <3>1. WriteThread("crashed_thread", c, thread, FALSE) \in Within(top, 2)
      BY <1>0, <2>1, <2>4, ReportNames, WithinThread
    <3> QED
      BY <1>0, <3>1, WithinBounds
  <2>7. Flush \in Seq(CallType)
    BY <1>1
  <2>8. WriteError(c) \o Flush \in Seq(CallType)
    BY <2>5, <2>7, ConcatProperties
  <2>9. WriteError(c) \o Flush \o WriteThread("crashed_thread", c, thread, FALSE) \in Seq(CallType)
    BY <2>6, <2>8, ConcatProperties
  <2>10. inCrash \in Seq(CallType)
    BY <2>7, <2>9, ConcatProperties
  <2> HIDE DEF inCrash
  <2>11. <<Begin("crash")>> \in Seq(CallType) /\ <<End>> \in Seq(CallType)
    <3>1. Begin("crash") \in CallType /\ End \in CallType
      BY ReportNames, BeginEnd
    <3> QED
      BY <3>1
  <2>12. <<Begin("crash")>> \o inCrash \in Seq(CallType)
    BY <2>10, <2>11, ConcatProperties
  <2>13. <<Begin("crash")>> \o inCrash \o <<End>> \in Seq(CallType)
    BY <2>11, <2>12, ConcatProperties
  <2> QED
    BY <2>13 DEF Object
<1> HIDE DEF b, e, f, r, w, x, end, close
<1> DEFINE rest == (((w \o f) \o x) \o end) \o close
<1>8. rest \in Seq(CallType)
  <2>1. w \o f \in Seq(CallType)
    BY <1>1, <1>2, ConcatProperties
  <2>2. (w \o f) \o x \in Seq(CallType)
    BY <1>5, <2>1, ConcatProperties
  <2>3. ((w \o f) \o x) \o end \in Seq(CallType)
    BY <1>1, <2>2, ConcatProperties
  <2> QED
    BY <1>1, <2>3, ConcatProperties
<1>17. RecrashReport(c) = b \o (e \o (f \o (r \o rest)))
  <2> HIDE DEF rest
  <2>1. ((b \o (((((e \o f) \o r) \o w) \o f) \o x)) \o end) \o close
        = b \o (e \o (f \o (r \o ((((w \o f) \o x) \o end) \o close))))
    <3>1. Joined(Joined(Joined(Joined(Joined(e, f), r), w), f), x)
          = Joined(e, Joined(f, Joined(r, Joined(Joined(w, f), x))))
      BY <1>1, <1>2, <1>5, Regrouped
    <3> DEFINE z == Joined(Joined(w, f), x)
    <3>2. z \in Seq(CallType)
      <4>1. Joined(w, f) \in Seq(CallType)
        BY <1>1, <1>2, JoinedCalls
      <4> QED
        BY <1>5, <4>1, JoinedCalls
    <3> HIDE DEF z
    <3>3. Joined(Joined(Joined(b, Joined(e, Joined(f, Joined(r, z)))), end), close)
          = Joined(b, Joined(e, Joined(f, Joined(r, Joined(Joined(z, end), close)))))
      <4> DEFINE rz == Joined(r, z)
                 frz == Joined(f, rz)
                 efrz == Joined(e, frz)
      <4>1. rz \in Seq(CallType)
        BY <1>1, <3>2, JoinedCalls
      <4>2. Joined(Joined(rz, end), close) = Joined(r, Joined(Joined(z, end), close))
        BY <1>1, <3>2, Regrouped
      <4> HIDE DEF rz
      <4>3. frz \in Seq(CallType)
        BY <1>1, <3>2, JoinedCalls, <4>1
      <4>4. Joined(Joined(frz, end), close) = Joined(f, Joined(Joined(rz, end), close))
        BY <1>1, <3>2, Regrouped, <4>1
      <4> HIDE DEF frz
      <4>5. efrz \in Seq(CallType)
        BY <1>1, <3>2, JoinedCalls, <4>3
      <4>6. Joined(Joined(efrz, end), close) = Joined(e, Joined(Joined(frz, end), close))
        BY <1>1, <3>2, Regrouped, <4>3
      <4> HIDE DEF efrz
      <4>7. Joined(Joined(Joined(b, efrz), end), close) = Joined(b, Joined(Joined(efrz, end), close))
        BY <1>1, <3>2, Regrouped, <4>5
      <4> QED
        BY <4>2, <4>4, <4>6, <4>7 DEF rz, frz, efrz
    <3>4. Joined(Joined(Joined(b, Joined(Joined(Joined(Joined(Joined(e, f), r), w), f), x)), end), close)
          = Joined(b, Joined(e, Joined(f, Joined(r, Joined(Joined(z, end), close)))))
      BY <3>1, <3>3 DEF z
    <3> QED
      BY <3>4, Zenon DEF Joined, z
  <2> QED
    BY <1>3, <2>1, Zenon DEF rest
<1>18. RecrashReport(c) = Root \o (<<<<"embed">>>> \o Ending(rest))
  BY <1>4, <1>17 DEF Root, Ending, b, e, r
<1> QED
  BY <1>8, <1>18

(* A text has the beginning of another, but for the first token, which is at *)
(* its second place.                                                         *)
LEMMA PrefixEmbedded ==
    ASSUME NEW s \in Seq(TokenType), NEW F \in Seq(TokenType), NEW k \in 1 .. Len(s),
           k < Len(F), \A i \in 2 .. k : F[i + 1] = s[i]
    PROVE  Embedded(SubSeq(s, 1, k), F)
<1> DEFINE report == SubSeq(s, 1, k)
           t == Tail(report)
           u == SubSeq(F, 3, k + 1)
<1>1. k \in Nat /\ k # 0 /\ Len(s) \in Nat /\ Len(F) \in Nat /\ k <= Len(s)
  BY LenProperties
<1>2. \A i \in 1 .. k : s[i] \in TokenType
  BY <1>1, ElementOfSeq
<1>3. /\ report \in Seq(TokenType) /\ Len(report) = k
      /\ \A i \in 1 .. k : report[i] = s[i]
  BY <1>1, <1>2, SubSeqProperties
<1> HIDE DEF report
<1>4. report # <<>>
  BY <1>1, <1>3
<1>5. t \in Seq(TokenType) /\ Len(t) = k - 1 /\ \A i \in 1 .. Len(t) : t[i] = report[i + 1]
  BY <1>3, <1>4, HeadTailProperties
<1>6. \A i \in 3 .. k + 1 : F[i] \in TokenType
  <2> TAKE i \in 3 .. k + 1
  <2>1. i \in 1 .. Len(F)
    BY <1>1
  <2> QED
    BY <2>1, ElementOfSeq
<1>7. 3 \in Int /\ k + 1 \in Int
  BY <1>1
<1>8. /\ u \in Seq(TokenType) /\ Len(u) = IF 3 <= k + 1 THEN (k + 1) - 3 + 1 ELSE 0
      /\ \A i \in 1 .. (k + 1) - 3 + 1 : u[i] = F[3 + i - 1]
  BY <1>6, <1>7, SubSeqProperties
<1> HIDE DEF t, u
<1>9. Len(u) = k - 1
  BY <1>1, <1>8
<1>10. ASSUME NEW i \in 1 .. k - 1 PROVE u[i] = t[i]
  <2>1. /\ i \in 1 .. (k + 1) - 3 + 1 /\ 3 + i - 1 = (i + 1) + 1 /\ i + 1 \in 2 .. k
        /\ i + 1 \in 1 .. k
    BY <1>1
  <2>2. u[i] = F[(i + 1) + 1]
    BY <1>8, <2>1
  <2> QED
    BY <1>3, <1>5, <2>1, <2>2
<1>11. u = t
  BY <1>5, <1>8, <1>9, <1>10, SeqEqual
<1>12. 2 \in 1 .. Len(F) - Len(report) + 1 /\ 2 + 1 = 3 /\ 2 + Len(report) - 1 = k + 1
  BY <1>1, <1>3
<1>13. SubSeq(F, 2 + 1, 2 + Len(report) - 1) = Tail(report)
  BY <1>11, <1>12 DEF t, u
<1>14. Embedded(report, F)
  BY <1>12, <1>13 DEF Embedded
<1> QED
  BY <1>14 DEF report

(* What can be read back ends before what cannot.                            *)
LEMMA StopsAtUnread ==
    ASSUME NEW s \in Seq(TokenType), NEW n \in StopsAfter(s), NEW m \in 0 .. Len(s),
           ReadBack(SubSeq(s, 1, m))
    PROVE  n \in 0 .. Len(s) /\ m <= n
<1>1. Len(s) \in Nat /\ m \in Nat /\ m <= Len(s)
  BY LenProperties
<1>2. CASE n = Len(s)
  BY <1>1, <1>2
<1>3. CASE n # Len(s)
  <2>1. n \in 0 .. Len(s) - 1 /\ NamesOf(s[n + 1]) \cap Breaks # {}
    BY <1>3 DEF StopsAfter
  <2>2. CASE m <= n
    BY <1>1, <2>1, <2>2
  <2>3. CASE ~(m <= n)
    <3>1. n + 1 \in 1 .. m
      BY <1>1, <2>1, <2>3
    <3>2. \A i \in 1 .. m : s[i] \in TokenType
      BY <1>1, ElementOfSeq
    <3>3. /\ SubSeq(s, 1, m) \in Seq(TokenType) /\ Len(SubSeq(s, 1, m)) = m
          /\ \A i \in 1 .. m : SubSeq(s, 1, m)[i] = s[i]
      BY <1>1, <3>2, SubSeqProperties
    <3>4. n + 1 \in DOMAIN SubSeq(s, 1, m)
      BY <3>1, <3>3, LenProperties
    <3> QED
      BY <2>1, <3>1, <3>3, <3>4 DEF ReadBack
  <2> QED
    BY <2>2, <2>3
<1> QED
  BY <1>2, <1>3

(* What is embedded of the old report has all of it that can be read back.   *)
LEMMA OldEmbedded ==
    ASSUME WriterInv, old # <<>>, NEW n \in StopsAfter(FirstObject(old))
    PROVE  LET E == UpTo(FirstObject(old), n)
           IN  /\ E \in Seq(TokenType) /\ Balanced(E, Top + 1, 1, 1)
               /\ Saved(FirstObject(old), Root \o E)
<1> DEFINE first == FirstObject(old)
           report == SubSeq(first, 1, n)
           E == UpTo(first, n)
<1>1. /\ old \in Seq(TokenType) /\ old[1][1] = "begin" /\ \E h \in Int : Balanced(old, Top, 0, h)
      /\ Top \in Nat
  BY TopNat DEF WriterInv, WriterTypes, OldBalanced, BeginFirst
<1>2. PICK g : Levels(old, Top, g) /\ g[0] = 0
  BY <1>1 DEF Balanced
<1>3. first \in Seq(TokenType) /\ Len(first) \in Nat
  <2>1. PICK k \in 1 .. Len(old) : first = SubSeq(old, 1, k)
    BY <1>1, FirstObjectOpens
  <2>2. Len(old) \in Nat /\ \A i \in 1 .. k : old[i] \in TokenType
    BY <1>1, ElementOfSeq
  <2>3. first \in Seq(TokenType)
    BY <2>1, <2>2, SubSeqProperties
  <2> QED
    BY <2>3, LenProperties
<1>4. n \in 0 .. Len(first)
  <2>1. n \in {Len(first)} \cup 0 .. Len(first) - 1
    BY DEF StopsAfter
  <2> QED
    BY <1>3, <2>1
<1>5. /\ report \in Seq(TokenType) /\ Len(report) = n
      /\ \A i \in 1 .. n : report[i] = first[i]
  <2>1. \A i \in 1 .. n : first[i] \in TokenType
    BY <1>3, <1>4, ElementOfSeq
  <2> QED
    BY <1>4, <2>1, SubSeqProperties
<1>6. CASE report = <<>>
  <2>1. n = 0
    BY <1>5, <1>6
  <2>2. E = <<>>
    BY <1>6 DEF UpTo, When
  <2>3. <<>> \in Seq(TokenType) /\ Balanced(<<>>, Top + 1, 1, 1)
    BY <1>1, BalancedNone
  <2>4. Saved(first, Root \o E)
    <3> SUFFICES ASSUME NEW m \in 0 .. Len(first), ReadBack(SubSeq(first, 1, m))
                 PROVE  Embedded(SubSeq(first, 1, m), Root \o E)
      BY DEF Saved
    <3>1. m = 0
      BY <1>3, <2>1, StopsAtUnread
    <3>2. SubSeq(first, 1, 0) = <<>>
      BY SubSeqEmpty
    <3> QED
      BY <3>1, <3>2 DEF Embedded
  <2> QED
    BY <2>2, <2>3, <2>4
<1>7. CASE report # <<>>
  <2> DEFINE f == [i \in 0 .. n |-> g[i]]
             F == Root \o E
  <2>1. n \in 1 .. Len(old) /\ report = SubSeq(old, 1, n)
    BY <1>1, <1>7, StoppedReport
  <2>2. n \in 0 .. Len(old) /\ n \in Nat /\ n # 0 /\ 1 \in 1 .. n /\ 0 \in 0 .. n /\ n \in 0 .. n
    BY <1>1, <2>1, LenProperties
  <2>3. Levels(report, Top, f) /\ \A i \in 1 .. n : report[i] = old[i]
    BY <1>1, <1>2, <2>1, <2>2, BalancedPrefix
  <2>4. f[0] = 0
    BY <1>2, <2>2
  <2>5. report[1][1] = "begin"
    BY <1>1, <2>2, <2>3
  <2>6. E = EmbeddedText(report)
    BY <1>7 DEF UpTo, When
  <2> HIDE DEF f
  <2> DEFINE m == f[n]
  <2>7. E \in Seq(TokenType) /\ Balanced(E, Top + 1, 1, 1)
    BY <1>1, <1>5, <1>7, <2>3, <2>4, <2>5, <2>6, EmbeddedLevels
  <2>8. /\ m \in 0 .. Top /\ Len(E) = n + m
        /\ \A i \in 1 .. n + m :
               E[i] = IF i = 1 THEN Begin("recrash_report") ELSE IF i <= n THEN report[i] ELSE End
    <3> HIDE DEF report, E
    <3>1. LET k == Len(report)
              X == EmbeddedText(report)
          IN  /\ f[k] \in 0 .. Top /\ Len(X) = k + f[k]
              /\ \A i \in 1 .. k + f[k] :
                     X[i] = IF i = 1 THEN Begin("recrash_report")
                            ELSE IF i <= k THEN report[i] ELSE End
      BY <1>1, <1>5, <1>7, <2>3, <2>4, EmbeddedTokens
    <3>2. Len(report) = n
      BY <1>5
    <3> QED
      BY <2>6, <3>1, <3>2
  <2> HIDE DEF E, m
  <2>9. /\ F \in Seq(TokenType) /\ Len(F) = 1 + (n + m)
        /\ \A i \in 2 .. n : F[i + 1] = first[i]
    <3>1. Root \in Seq(TokenType) /\ Len(Root) = 1
      BY RecrashCalls DEF Root
    <3>2. /\ F \in Seq(TokenType) /\ Len(F) = Len(Root) + Len(E)
          /\ \A i \in 1 .. Len(Root) + Len(E) :
                 F[i] = IF i <= Len(Root) THEN Root[i] ELSE E[i - Len(Root)]
      BY <2>7, <3>1, ConcatProperties
    <3> HIDE DEF F
    <3>3. ASSUME NEW i \in 2 .. n PROVE F[i + 1] = first[i]
      <4>1. i + 1 \in 1 .. 1 + (n + m) /\ ~(i + 1 <= 1) /\ (i + 1) - 1 = i /\ i \in 1 .. n + m
            /\ i # 1 /\ i <= n /\ i \in 1 .. n
        BY <2>2, <2>8
      <4>2. F[i + 1] = E[i]
        BY <2>8, <3>1, <3>2, <4>1
      <4>3. E[i] = report[i] /\ report[i] = first[i]
        BY <1>5, <2>8, <4>1
      <4> QED
        BY <4>2, <4>3
    <3> QED
      BY <2>8, <3>1, <3>2, <3>3
  <2> HIDE DEF F
  <2>10. Saved(first, F)
    <3> SUFFICES ASSUME NEW k \in 0 .. Len(first), ReadBack(SubSeq(first, 1, k))
                 PROVE  Embedded(SubSeq(first, 1, k), F)
      BY DEF Saved
    <3>1. k <= n
      BY <1>3, StopsAtUnread
    <3>2. CASE k = 0
      <4>1. SubSeq(first, 1, 0) = <<>>
        BY SubSeqEmpty
      <4> QED
        BY <3>2, <4>1 DEF Embedded
    <3>3. CASE k # 0
      <4>1. k \in 1 .. Len(first) /\ k < Len(F)
        BY <1>1, <1>3, <1>4, <2>2, <2>8, <2>9, <3>1, <3>3
      <4>2. \A i \in 2 .. k : F[i + 1] = first[i]
        BY <1>3, <1>4, <2>9, <3>1
      <4> HIDE DEF first
      <4> QED
        BY <1>3, <2>9, <4>1, <4>2, PrefixEmbedded
    <3> QED
      BY <3>2, <3>3
  <2> QED
    BY <2>7, <2>10 DEF F, E
<1> QED
  BY <1>6, <1>7 DEF first, E

------------------------------------------------------------------------------
(* It is copied, call by call.                                               *)

(* The call that comes next is the one that is made.                         *)
LEMMA CallMade ==
    ASSUME MakeCall
    PROVE  /\ Head(todo)[1] = "begin" => BeginContainer /\ mode' = mode
           /\ Head(todo)[1] = "fields" => AddElements /\ mode' = mode
           /\ Head(todo)[1] = "end" => EndContainer /\ mode' = mode
           /\ Head(todo)[1] = "flush" => FlushBuffer /\ mode' = mode
           /\ Head(todo)[1] = "embed" => Embed /\ mode' = mode
           /\ Head(todo)[1] = "remove" => RemoveOld /\ mode' = mode
  BY DEF MakeCall, Next1, BeginContainer, AddElements, EndContainer, FlushBuffer, Embed, RemoveOld,
     AddJSON, BreakOff, BeginUserSection, StartSearch, WriteMemoryContents, WriteContents,
     WriteUnknownObjectContents, Close

(* A token goes from the calls to come, t, to what is written: v for s.      *)
Moved(p, s, t, token, v) ==
    Append(p \o s, token) = p \o v /\ s \o (<<token>> \o t) = v \o t

(* There is such a v.                                                        *)
LEMMA TokenMoves ==
    \A p, s, t \in Seq(TokenType), token \in TokenType :
        \E v \in Seq(TokenType) : Moved(p, s, t, token, v)
<1> SUFFICES ASSUME NEW p \in Seq(TokenType), NEW s \in Seq(TokenType), NEW t \in Seq(TokenType),
                    NEW token \in TokenType
             PROVE  \E v \in Seq(TokenType) : Moved(p, s, t, token, v)
  OBVIOUS
<1>1. <<token>> \in Seq(TokenType)
  OBVIOUS
<1> DEFINE one == <<token>>
           ps == p \o s
<1>2. one \in Seq(TokenType) /\ ps \in Seq(TokenType)
  BY <1>1, ConcatProperties
<1>3. Append(ps, token) = ps \o one
  BY <1>2, AppendIsConcat
<1> HIDE DEF one
<1>4. ps \o one = p \o (s \o one)
  BY <1>2, ConcatAssociative
<1>5. s \o (one \o t) = (s \o one) \o t
  BY <1>2, ConcatAssociative
<1>6. s \o one \in Seq(TokenType)
  BY <1>2, ConcatProperties
<1> HIDE DEF ps
<1>7. Append(ps, token) = p \o (s \o one)
  BY <1>3, <1>4, Zenon
<1> QED
  BY <1>5, <1>6, <1>7, Zenon DEF one, ps, Moved

(* A token of the old report is written, or the last of them is flushed.     *)
LEMMA CopyingGoesOn ==
    ASSUME WriterInv, MakeCall, NEW E \in Seq(TokenType), NEW rest \in Seq(CallType),
           Copying(E, rest)
    PROVE  /\ mode' = mode /\ old' = old
           /\ Copying(E, rest)' \/ Copied(E, rest)'
<1>1. PICK s \in Seq(TokenType), t \in Seq(TokenType) :
          /\ E = s \o t /\ Text = Root \o s /\ todo = t \o Ending(rest)
          /\ Balanced(t, Top + 1, level, 1)
  BY DEF Copying
<1>2. /\ WriterTypes /\ level \in Nat /\ Top \in Nat /\ Top' = Top
      /\ todo # <<>>
  BY TopNat DEF WriterInv, WriterTypes, Top, MakeCall
<1>3. /\ Ending(rest) \in Seq(CallType) /\ Root \in Seq(TokenType)
      /\ <<"flush">> \in CallType /\ <<"remove">> \in CallType
  BY RecrashCalls
<1>4. CASE t = <<>>
  <2>1. todo = Ending(rest) /\ E = s
    BY <1>1, <1>3, <1>4, ConcatEmptySeq
  <2>2. <<<<"remove">>>> \o rest \in Seq(CallType)
    BY <1>3, CallCons
  <2>3. Head(todo) = <<"flush">> /\ Tail(todo) = <<<<"remove">>>> \o rest
    BY <1>3, <2>1, <2>2, CallCons DEF Ending
  <2>4. FlushBuffer /\ mode' = mode
    <3>1. Head(todo)[1] = "flush"
      BY <2>3
    <3> QED
      BY <3>1, CallMade
  <2>5. file' = Text /\ old' = old /\ todo' = <<>> \o Tail(todo)
    BY <2>4 DEF FlushBuffer, Then, Text
  <2>6. todo' = <<<<"remove">>>> \o rest
    BY <2>2, <2>3, <2>5, ConcatEmptySeq
  <2>7. Copied(E, rest)'
    BY <1>1, <2>1, <2>5, <2>6 DEF Copied
  <2> QED
    BY <2>4, <2>5, <2>7
<1>5. CASE t # <<>>
  <2> DEFINE token == Head(t)
             u == Tail(t)
             h == level + Rise(token)
  <2>1. token \in TokenType /\ u \in Seq(TokenType) /\ t = <<token>> \o u
    BY <1>5, HeadTailProperties, ConsOfHead
  <2>2. h \in 0 .. Top + 1 /\ Balanced(u, Top + 1, h, 1)
    <3>1. Top + 1 \in Nat /\ level \in Int /\ 1 \in Int
      BY <1>2
    <3> QED
      BY <1>1, <1>5, <3>1, BalancedTail
  <2>3. Head(todo) = token /\ Tail(todo) = u \o Ending(rest) /\ u \o Ending(rest) \in Seq(CallType)
    <3>1. t \in Seq(CallType) /\ u \in Seq(CallType)
      BY <2>1, TokenIsCall, SeqMonotonic
    <3>2. Head(todo) = token /\ Tail(todo) = u \o Ending(rest)
      BY <1>1, <1>3, <1>5, <3>1, HeadTailOfConcat
    <3>3. u \o Ending(rest) \in Seq(CallType)
      BY <1>3, <3>1, ConcatProperties
    <3> QED
      BY <3>2, <3>3
  <2> HIDE DEF token, u
  <2>4. /\ token[1] \in {"begin", "fields", "end"}
        /\ Rise(token) = IF token[1] = "begin" THEN 1 ELSE IF token[1] = "end" THEN -1 ELSE 0
    BY <2>1, TokenIsCall
  <2>5. token[1] = "end" => level > 0
    BY <1>2, <2>2, <2>4
  <2>6. /\ Write(token) /\ level' = h /\ old' = old /\ mode' = mode
        /\ todo' = <<>> \o Tail(todo)
    <3>1. CASE token[1] = "begin"
      <4>1. BeginContainer /\ mode' = mode
        BY <2>3, <3>1, CallMade
      <4> QED
        BY <2>3, <2>4, <3>1, <4>1 DEF BeginContainer, Next1, Then
    <3>2. CASE token[1] = "fields"
      <4>1. AddElements /\ mode' = mode
        BY <2>3, <3>2, CallMade
      <4> QED
        BY <1>2, <2>3, <2>4, <3>2, <4>1 DEF AddElements, Next1, Then
    <3>3. CASE token[1] = "end"
      <4>1. EndContainer /\ mode' = mode
        BY <2>3, <3>3, CallMade
      <4> QED
        BY <1>2, <2>3, <2>4, <2>5, <3>3, <4>1 DEF EndContainer, Next1, Then
    <3> QED
      BY <2>4, <3>1, <3>2, <3>3
  <2>7. todo' = u \o Ending(rest)
    <3> DEFINE w == u \o Ending(rest)
    <3>1. w \in Seq(CallType) /\ todo' = <<>> \o w
      BY <2>3, <2>6
    <3> HIDE DEF w
    <3>2. todo' = w
      BY <3>1, ConcatEmptySeq
    <3> QED
      BY <3>2 DEF w
  <2>8. Text' = Append(Root \o s, token)
    BY <1>1, <1>2, <2>1, <2>6, WriteAppends
  <2>9. PICK v \in Seq(TokenType) : Text' = Root \o v /\ E = v \o u
    <3> DEFINE root == Root
    <3>1. root \in Seq(TokenType)
      BY <1>3
    <3> HIDE DEF root
    <3>2. PICK v \in Seq(TokenType) : Moved(root, s, u, token, v)
      BY <2>1, <3>1, TokenMoves
    <3>3. Append(root \o s, token) = root \o v /\ s \o (<<token>> \o u) = v \o u
      BY <3>2, Zenon DEF Moved
    <3> QED
      BY <1>1, <2>1, <2>8, <3>3, Zenon DEF root
  <2> HIDE DEF h
  <2>10. Balanced(u, Top' + 1, level', 1)
    BY <1>2, <2>2, <2>6
  <2>11. Copying(E, rest)'
    BY <2>1, <2>7, <2>9, <2>10 DEF Copying
  <2> QED
    BY <2>6, <2>11
<1> QED
  BY <1>4, <1>5

------------------------------------------------------------------------------
(* What has reached the disk.                                                *)

(* The recrash report is begun.                                              *)
LEMMA BeginRecrashOld == WriterInv /\ BeginRecrash => OldKept'
<1> SUFFICES ASSUME WriterInv, BeginRecrash PROVE OldKept'
  OBVIOUS
<1>1. PICK c \in Crashes : todo' = RecrashReport(c)
  BY DEF BeginRecrash
<1>2. PICK rest \in Seq(CallType) :
          RecrashReport(c) = Root \o (<<<<"embed">>>> \o Ending(rest))
  BY RecrashBegins
<1>3. file' = <<>> /\ buffer' = <<>> /\ level' = 0
  BY DEF BeginRecrash
<1>4. <<>> \o <<>> = <<>>
  BY ConcatEmptySeq, EmptySeq
<1>5. Text' = <<>>
  BY <1>3, <1>4 DEF Text
<1>6. Unbegun(rest)'
  BY <1>1, <1>2, <1>3, <1>5 DEF Unbegun
<1> QED
  BY <1>6 DEF OldKept

(* Its first call begins the root.                                           *)
LEMMA UnbegunStep ==
    ASSUME WriterInv, MakeCall, NEW rest \in Seq(CallType), Unbegun(rest)
    PROVE  mode' = mode /\ old' = old /\ Begun(rest)'
<1> DEFINE w == <<<<"embed">>>> \o Ending(rest)
<1>1. /\ WriterTypes /\ w \in Seq(CallType) /\ Begin("root") \in CallType
      /\ Begin("root") \in TokenType /\ Begin("root")[1] = "begin"
  BY RecrashCalls DEF WriterInv
<1> HIDE DEF w
<1>2. Text = <<>> /\ level = 0 /\ todo = <<Begin("root")>> \o w
  BY DEF Unbegun, Root, w
<1>3. Head(todo) = Begin("root") /\ Tail(todo) = w
  BY <1>1, <1>2, CallCons
<1>4. BeginContainer /\ mode' = mode
  BY <1>1, <1>3, CallMade
<1>5. Write(Begin("root")) /\ level' = level + 1 /\ old' = old /\ todo' = <<>> \o w
  BY <1>3, <1>4 DEF BeginContainer, Next1, Then
<1>6. todo' = w
  BY <1>1, <1>5, ConcatEmptySeq
<1>7. Text' = Root
  <2>1. Text' = Append(Text, Begin("root"))
    BY <1>1, <1>5, WriteAppends
  <2>2. Append(<<>>, Begin("root")) = <<Begin("root")>>
    OBVIOUS
  <2> QED
    BY <1>2, <2>1, <2>2 DEF Root
<1>8. Begun(rest)'
  BY <1>2, <1>5, <1>6, <1>7 DEF Begun, w
<1> QED
  BY <1>4, <1>5, <1>8

(* The next one finds out what there is to embed.                            *)
LEMMA BegunStep ==
    ASSUME WriterInv, MakeCall, old # <<>>, NEW rest \in Seq(CallType), Begun(rest)
    PROVE  /\ mode' = mode /\ old' = old
           /\ \E n \in StopsAfter(FirstObject(old)) :
                  Copying(UpTo(FirstObject(old), n), rest)'
<1> DEFINE last == Ending(rest)
<1>1. WriterTypes /\ last \in Seq(CallType) /\ <<"embed">> \in CallType
  BY RecrashCalls DEF WriterInv
<1>2. Text = Root /\ level = 1 /\ todo = <<<<"embed">>>> \o last
  BY DEF Begun
<1> HIDE DEF last
<1>3. Head(todo) = <<"embed">> /\ Tail(todo) = last
  BY <1>1, <1>2, CallCons
<1>4. Embed /\ mode' = mode
  <2>1. Head(todo)[1] = "embed"
    BY <1>3
  <2> QED
    BY <2>1, CallMade
<1>5. level' = level /\ buffer' = buffer /\ file' = file /\ old' = old
  BY <1>4 DEF Embed, output
<1>6. PICK n \in StopsAfter(FirstObject(old)) : todo' = UpTo(FirstObject(old), n) \o last
  BY <1>3, <1>4 DEF Embed, Then, UpTo, EmbeddedText
<1> DEFINE E == UpTo(FirstObject(old), n)
<1>7. E \in Seq(TokenType) /\ Balanced(E, Top + 1, 1, 1)
  BY OldEmbedded
<1>8. E' = E /\ Top' = Top
  BY <1>5 DEF Top
<1> HIDE DEF E
<1>9. Root \in Seq(TokenType) /\ <<>> \in Seq(TokenType)
  BY RecrashCalls
<1>10. E = <<>> \o E /\ Root = Root \o <<>>
  BY <1>7, <1>9, ConcatEmptySeq
<1>11. Text' = Root /\ level' = 1
  BY <1>2, <1>5 DEF Text
<1>12. todo' = E \o last
  BY <1>6 DEF E
<1>13. Copying(E, rest)'
  BY <1>7, <1>8, <1>9, <1>10, <1>11, <1>12 DEF Copying, last
<1> QED
  BY <1>4, <1>5, <1>13 DEF E

(* The old file is removed when the new one holds what was in it.            *)
LEMMA CopiedStep ==
    ASSUME WriterInv, MakeCall, NEW E \in Seq(TokenType), NEW rest \in Seq(CallType),
           Copied(E, rest)
    PROVE  /\ mode' = mode /\ old' = <<>>
           /\ file = Root \o E /\ file' = file
<1>1. <<"remove">> \in CallType /\ todo = <<<<"remove">>>> \o rest
  BY RecrashCalls DEF Copied
<1>2. Head(todo) = <<"remove">>
  BY <1>1, CallCons
<1>3. RemoveOld /\ mode' = mode
  <2>1. Head(todo)[1] = "remove"
    BY <1>2
  <2> QED
    BY <2>1, CallMade
<1> QED
  BY <1>3 DEF RemoveOld, Copied

(* Every call keeps the old report, or its contents are in the new file.     *)
LEMMA MakeCallOld ==
    ASSUME WriterInv, OldKept, MakeCall
    PROVE  /\ OldKept'
           /\ \/ old' = old
              \/ file' = file /\ Saved(FirstObject(old), file)
<1>1. mode \in {"standard", "recrash"} /\ todo # <<>>
  BY DEF MakeCall
<1>2. CASE mode = "standard"
  <2>1. old = <<>>
    BY <1>2 DEF WriterInv, OldBalanced
  <2>2. old' = <<>>
    BY <2>1 DEF MakeCall, BeginContainer, AddElements, EndContainer, FlushBuffer, Embed, RemoveOld,
       AddJSON, BreakOff, BeginUserSection, StartSearch, WriteMemoryContents, WriteContents,
       WriteUnknownObjectContents, Close, output
  <2> QED
    BY <2>1, <2>2 DEF OldKept
<1>3. CASE mode = "recrash" /\ old = <<>>
  <2>1. old' = <<>>
    BY <1>3 DEF MakeCall, BeginContainer, AddElements, EndContainer, FlushBuffer, Embed, RemoveOld,
       AddJSON, BreakOff, BeginUserSection, StartSearch, WriteMemoryContents, WriteContents,
       WriteUnknownObjectContents, Close, output
  <2> QED
    BY <1>3, <2>1 DEF OldKept
<1>4. CASE mode = "recrash" /\ old # <<>>
  <2> DEFINE report == FirstObject(old)
  <2>1. PICK rest \in Seq(CallType) :
            \/ Unbegun(rest) \/ Begun(rest)
            \/ \E n \in StopsAfter(report) :
                   Copying(UpTo(report, n), rest) \/ Copied(UpTo(report, n), rest)
    BY <1>4 DEF OldKept
  <2>2. CASE Unbegun(rest)
    <3>1. old' = old /\ Begun(rest)'
      BY <2>2, UnbegunStep
    <3> QED
      BY <3>1 DEF OldKept
  <2>3. CASE Begun(rest)
    <3>1. old' = old /\ \E n \in StopsAfter(FirstObject(old)) : Copying(UpTo(FirstObject(old), n), rest)'
      BY <1>4, <2>3, BegunStep
    <3> QED
      BY <3>1 DEF OldKept
  <2>4. ASSUME NEW n \in StopsAfter(report), Copying(UpTo(report, n), rest) \/ Copied(UpTo(report, n), rest)
        PROVE  /\ OldKept'
               /\ old' = old \/ (file' = file /\ Saved(report, file))
    <3>1. UpTo(report, n) \in Seq(TokenType) /\ Saved(report, Root \o UpTo(report, n))
      BY <1>4, OldEmbedded
    <3>2. PICK E \in Seq(TokenType) : E = UpTo(report, n)
      BY <3>1
    <3>3. ASSUME old' = old PROVE UpTo(report, n)' = E /\ StopsAfter(report)' = StopsAfter(report)
      BY <3>2, <3>3
    <3>4. Saved(report, Root \o E)
      BY <3>1, <3>2
    <3>5. CASE Copying(E, rest)
      <4>1. old' = old
        BY <3>5, CopyingGoesOn
      <4>2. Copying(E, rest)' \/ Copied(E, rest)'
        BY <3>5, CopyingGoesOn
      <4>3. \E k \in StopsAfter(report)' : Copying(UpTo(report, k), rest)' \/ Copied(UpTo(report, k), rest)'
        <5>1. n \in StopsAfter(report)'
          BY <3>3, <4>1
        <5>2. Copying(UpTo(report, n), rest)' \/ Copied(UpTo(report, n), rest)'
          BY <3>3, <4>1, <4>2
        <5> QED
          BY <5>1, <5>2
      <4> QED
        BY <4>1, <4>3 DEF OldKept
    <3>6. CASE Copied(E, rest)
      <4>1. old' = <<>> /\ file = Root \o E /\ file' = file
        BY <3>6, CopiedStep
      <4> QED
        BY <3>4, <4>1 DEF OldKept
    <3> QED
      BY <2>4, <3>2, <3>5, <3>6
  <2> QED
    BY <2>1, <2>2, <2>3, <2>4
<1> QED
  BY <1>1, <1>2, <1>3, <1>4

(* Every step keeps OldKept.                                                 *)
LEMMA NextOld == WriterInv /\ OldKept /\ [Next]_vars => OldKept'
<1> SUFFICES ASSUME WriterInv, OldKept, [Next]_vars PROVE OldKept'
  OBVIOUS
<1>1. CASE BeginStandard
  BY <1>1 DEF BeginStandard, OldKept
<1>2. CASE BeginRecrash
  BY <1>2, BeginRecrashOld
<1>3. CASE MakeCall
  BY <1>3, MakeCallOld
<1>4. CASE UNCHANGED <<mode, todo, output>>
  <2>1. mode' = mode /\ todo' = todo /\ level' = level /\ file' = file /\ buffer' = buffer
        /\ old' = old
    BY <1>4 DEF output
  <2>2. Text' = Text /\ Top' = Top
    BY <2>1 DEF Text, Top
  <2>3. CASE ~(mode = "recrash" /\ old # <<>>)
    BY <2>1, <2>3 DEF OldKept
  <2>4. CASE mode = "recrash" /\ old # <<>>
    <3> DEFINE report == FirstObject(old)
    <3>1. PICK rest \in Seq(CallType) :
              \/ Unbegun(rest) \/ Begun(rest)
              \/ \E n \in StopsAfter(report) :
                     Copying(UpTo(report, n), rest) \/ Copied(UpTo(report, n), rest)
      BY <2>4 DEF OldKept
    <3>2. CASE Unbegun(rest) \/ Begun(rest)
      <4>1. Unbegun(rest)' \/ Begun(rest)'
        BY <2>1, <2>2, <3>2 DEF Unbegun, Begun
      <4> QED
        BY <4>1 DEF OldKept
    <3>3. ASSUME NEW n \in StopsAfter(report),
                 Copying(UpTo(report, n), rest) \/ Copied(UpTo(report, n), rest)
          PROVE  OldKept'
      <4> DEFINE E == UpTo(report, n)
      <4>1. E' = E /\ n \in StopsAfter(report)'
        BY <2>1
      <4> HIDE DEF E
      <4>2. Copying(E, rest) \/ Copied(E, rest)
        BY <3>3 DEF E
      <4>3. Copying(E, rest)' \/ Copied(E, rest)'
        BY <2>1, <2>2, <4>1, <4>2 DEF Copying, Copied
      <4> QED
        BY <4>1, <4>3 DEF OldKept, E
    <3> QED
      BY <3>1, <3>2, <3>3
  <2> QED
    BY <2>3, <2>4
<1>5. \/ BeginStandard \/ BeginRecrash \/ MakeCall \/ UNCHANGED <<mode, todo, output>>
  BY DEF Next, vars, output, FreeUserInfo, AssignUserInfo, SetClasses, SetCount, Enter, Leave
<1> QED
  BY <1>1, <1>2, <1>3, <1>4, <1>5

(* The inductive invariant holds with OldKept.                               *)
THEOREM OldIsKept == Spec => [](WriterInv /\ OldKept)
<1>1. Init => WriterInv /\ OldKept
  BY InitWriter DEF Init, OldKept
<1>2. WriterInv /\ OldKept /\ [Next]_vars => WriterInv' /\ OldKept'
  BY NextWriter, NextOld
<1> QED
  BY <1>1, <1>2, PTL DEF Spec

(* A sequence is a prefix of itself with more after it.                      *)
LEMMA PrefixGrows ==
    ASSUME NEW s \in Seq(TokenType), NEW t \in Seq(TokenType)
    PROVE  IsPrefix(s, s) /\ IsPrefix(s, s \o t)
<1>1. SubSeq(s \o t, 1, Len(s)) = s /\ SubSeq(s, 1, Len(s)) = s
  BY SubSeqOfConcat1, SubSeqFull
<1>2. Len(s \o t) = Len(s) + Len(t) /\ Len(s) \in Nat /\ Len(t) \in Nat
  BY ConcatProperties, LenProperties
<1> QED
  BY <1>1, <1>2 DEF IsPrefix

(* What has reached the disk of a report stays there: its file only grows,   *)
(* or becomes the ".old" one, and crasheecrashreport_writeRecrashReport      *)
(* removes that one only when the object in it, as far as it can be read     *)
(* back, is in the new file.                                                 *)
THEOREM FlushedIsKept == Spec => FlushedKept
<1> DEFINE Kept == \/ IsPrefix(file, file') /\ (old' = old \/ Saved(FirstObject(old), file))
                   \/ old' = file /\ old = <<>>
<1>1. WriterInv /\ OldKept /\ [Next]_vars => [Kept]_<<file, old>>
  <2> SUFFICES ASSUME WriterInv, OldKept, [Next]_vars PROVE Kept \/ UNCHANGED <<file, old>>
    OBVIOUS
  <2>1. file \in Seq(TokenType) /\ buffer \in Seq(TokenType) /\ <<>> \in Seq(TokenType)
    BY DEF WriterInv, WriterTypes
  <2>2. CASE BeginStandard
    <3>1. file = <<>> /\ file' = <<>> /\ old' = old
      BY <2>2 DEF BeginStandard, WriterInv, TextBalanced
    <3> QED
      BY <3>1
  <2>3. CASE BeginRecrash
    <3>1. old' = file /\ old = <<>>
      BY <2>3 DEF BeginRecrash, WriterInv, OldBalanced
    <3> QED
      BY <3>1
  <2>4. CASE MakeCall
    <3>1. old' = old \/ Saved(FirstObject(old), file)
      BY <2>4, MakeCallOld
    <3>2. file' = file \/ file' = file \o buffer
      BY <2>4 DEF MakeCall, BeginContainer, AddElements, EndContainer, FlushBuffer, Embed,
         RemoveOld, AddJSON, BreakOff, BeginUserSection, StartSearch, WriteMemoryContents, WriteContents,
         WriteUnknownObjectContents, Close, output, Write
    <3>3. IsPrefix(file, file) /\ IsPrefix(file, file \o buffer)
      BY <2>1, PrefixGrows
    <3>4. IsPrefix(file, file')
      BY <3>2, <3>3
    <3> QED
      BY <3>1, <3>4
  <2>5. CASE UNCHANGED output
    BY <2>5 DEF output
  <2>6. BeginStandard \/ BeginRecrash \/ MakeCall \/ UNCHANGED output
    BY DEF Next, vars, output, FreeUserInfo, AssignUserInfo, SetClasses, SetCount, Enter, Leave
  <2> QED
    BY <2>2, <2>3, <2>4, <2>5, <2>6
<1> QED
  BY <1>1, OldIsKept, PTL DEF FlushedKept, Spec

------------------------------------------------------------------------------
(* The types that the properties above do not need.                          *)
SettingTypes ==
    /\ crash \in Crashes \cup {NoCrash}
    /\ Len(buffer) <= BufferLength
    /\ classes \in ClassLists \cup {<<>>} /\ count \in Nat
    /\ setter \in [in : {"none", "userInfo", "classes"}, lists : {setter.lists}, calls : 0 .. Sets]
    /\ userWhole \in BOOLEAN

(* The number of names that the reporter takes a list to have is one.        *)
LEMMA ListLength == \A list \in ClassLists \cup {<<>>} : Len(list) \in Nat
<1> SUFFICES ASSUME NEW list \in ClassLists \cup {<<>>} PROVE Len(list) \in Nat
  OBVIOUS
<1>1. CASE list \in ClassLists
  <2>1. list \in Seq(STRING)
    BY <1>1, WriterAssumption
  <2> QED
    BY <2>1, LenProperties
<1>2. CASE list = <<>>
  BY <1>2
<1> QED
  BY <1>1, <1>2

(* A setter is entered and left.                                             *)
LEMMA SetterTypes ==
    ASSUME SettingTypes, UNCHANGED <<crash, buffer, userWhole>>,
           classes' \in ClassLists \cup {<<>>}, count' \in Nat,
           \/ /\ setter.calls < Sets
              /\ \E in \in {"userInfo", "classes"} : \E lists :
                     setter' = [in |-> in, lists |-> lists, calls |-> setter.calls + 1]
           \/ setter' = [setter EXCEPT !.in = "none"]
    PROVE  SettingTypes'
<1>1. Sets \in Nat
  BY WriterAssumption
<1>2. CASE /\ setter.calls < Sets
           /\ \E in \in {"userInfo", "classes"} : \E lists :
                  setter' = [in |-> in, lists |-> lists, calls |-> setter.calls + 1]
  <2>1. PICK in \in {"userInfo", "classes"}, lists \in {setter'.lists} :
            setter' = [in |-> in, lists |-> lists, calls |-> setter.calls + 1]
    BY <1>2
  <2>2. setter.calls \in 0 .. Sets
    BY DEF SettingTypes
  <2>3. setter.calls + 1 \in 0 .. Sets
    BY <1>1, <1>2, <2>2
  <2> QED
    BY <2>1, <2>3 DEF SettingTypes
<1>3. CASE setter' = [setter EXCEPT !.in = "none"]
  BY <1>3 DEF SettingTypes
<1> QED
  BY <1>2, <1>3

(* A write leaves the buffer no longer than it may be.                       *)
LEMMA WriteFitsBuffer ==
    ASSUME buffer \in Seq(TokenType), Len(buffer) <= BufferLength, NEW token, Write(token),
           token \in TokenType
    PROVE  Len(buffer') <= BufferLength
<1>1. BufferLength \in Nat \ {0} /\ Len(buffer) \in Nat
  BY WriterAssumption, LenProperties
<1>2. CASE Len(buffer) = BufferLength
  <2>1. buffer' = <<token>>
    BY <1>2 DEF Write
  <2>2. Len(<<token>>) = 1
    OBVIOUS
  <2> QED
    BY <1>1, <2>1, <2>2
<1>3. CASE Len(buffer) # BufferLength
  <2>1. buffer' = Append(buffer, token)
    BY <1>3 DEF Write
  <2>2. Len(Append(buffer, token)) = Len(buffer) + 1
    BY AppendProperties
  <2> QED
    BY <1>1, <1>3, <2>1, <2>2
<1> QED
  BY <1>2, <1>3

(* A call leaves all of them.                                                *)
LEMMA MakeCallTypes == WriterInv /\ SettingTypes /\ MakeCall => SettingTypes'
<1> SUFFICES ASSUME WriterInv, SettingTypes, MakeCall PROVE SettingTypes'
  OBVIOUS
<1>1. UNCHANGED <<crash, settings>> /\ userWhole' = (userWhole /\ ~Spoils(Next1))
  BY DEF MakeCall
<1>2. /\ todo \in Seq(CallType) /\ todo # <<>> /\ buffer \in Seq(TokenType)
      /\ Len(buffer) <= BufferLength /\ BufferLength \in Nat
  BY WriterAssumption DEF MakeCall, WriterInv, WriterTypes, SettingTypes
<1>3. Next1 \in CallType
  BY <1>2, HeadTailProperties DEF Next1
<1>4. Len(buffer') <= BufferLength
  <2>1. CASE Next1[1] \in {"begin", "fields", "end"} /\ Write(Next1)
    <3>1. Next1 \in TokenType
      BY <1>3, <2>1, CallParts
    <3> QED
      BY <1>2, <2>1, <3>1, WriteFitsBuffer
  <2>2. CASE buffer' = <<>>
    BY <1>2, <2>2
  <2>3. CASE buffer' = buffer
    BY <1>2, <2>3
  <2>4. \/ Next1[1] \in {"begin", "fields", "end"} /\ Write(Next1)
        \/ buffer' = <<>> \/ buffer' = buffer
    <3> HIDE DEF Next1
    <3> QED
      BY DEF MakeCall, BeginContainer, AddElements, EndContainer, FlushBuffer, Embed, RemoveOld,
         AddJSON, BreakOff, BeginUserSection, StartSearch, WriteMemoryContents, WriteContents,
         WriteUnknownObjectContents, Close, output
  <2> QED
    BY <2>1, <2>2, <2>3, <2>4
<1> QED
  BY <1>1, <1>4 DEF SettingTypes, settings

(* So does every step.                                                       *)
LEMMA NextTypes == WriterInv /\ SettingTypes /\ [Next]_vars => SettingTypes'
<1> SUFFICES ASSUME WriterInv, SettingTypes, [Next]_vars PROVE SettingTypes'
  OBVIOUS
<1>1. CASE BeginStandard
  BY <1>1 DEF BeginStandard, SettingTypes, settings
<1>2. CASE BeginRecrash
  <2>1. Len(<<>>) <= BufferLength
    BY WriterAssumption
  <2> QED
    BY <1>2, <2>1 DEF BeginRecrash, SettingTypes, settings
<1>3. CASE MakeCall
  BY <1>3, MakeCallTypes
<1>4. CASE FreeUserInfo
  BY <1>4, SetterTypes DEF FreeUserInfo, Enter, output, SettingTypes
<1>5. CASE AssignUserInfo
  BY <1>5, SetterTypes DEF AssignUserInfo, Leave, output, SettingTypes
<1>6. CASE SetClasses
  BY <1>6, SetterTypes DEF SetClasses, Enter, output, SettingTypes
<1>7. CASE SetCount
  BY <1>7, SetterTypes, ListLength DEF SetCount, Leave, output, SettingTypes
<1>8. CASE UNCHANGED vars
  BY <1>8 DEF vars, SettingTypes
<1> QED
  BY <1>1, <1>2, <1>3, <1>4, <1>5, <1>6, <1>7, <1>8 DEF Next

(* The types of the writer and of its setters hold in every step: the buffer *)
(* never holds more calls than it has room for, and *limit, which goes below *)
(* zero on the way through an object's ivars, stays a number.                *)
THEOREM WriterTypesHold == Spec => []TypeOK
<1>1. Init => SettingTypes
  BY WriterAssumption DEF Init, SettingTypes, Idle
<1>2. WriterInv /\ SettingTypes => TypeOK
  BY DEF WriterInv, WriterTypes, SettingTypes, TypeOK
<1> QED
  BY <1>1, <1>2, NextTypes, WriterInvariant, PTL DEF Spec

------------------------------------------------------------------------------
(* The outline of a report: what is in its root and in its crash section.    *)

(* Where a call is made: whether the report has begun, how many containers   *)
(* are open, and which of them is the one below the root, if there is one.   *)
Inside(depth, section) == [begun |-> TRUE, depth |-> depth, section |-> section]
Start == [begun |-> FALSE, depth |-> 0, section |-> "root"]
InRoot == Inside(1, "root")
Finish == Inside(0, "root")
Closed == Inside(-1, "root")

Key(call) == IF call[1] = "user" THEN "user" ELSE call[2]

(* By how many containers a call, and all that it leads to, is deeper, if a  *)
(* text that is not closed opens one.                                        *)
Climb(call) ==
    IF call[1] \in {"begin", "user"} \/ (call[1] = "json" /\ ~call[4]) THEN 1
    ELSE IF call[1] = "end" THEN -1 ELSE 0

After(o, call) ==
    LET depth == IF call[1] = "close" THEN -1 ELSE o.depth + Climb(call)
    IN  Inside(depth, IF depth <= 1 THEN "root"
                      ELSE IF o.depth = 1 THEN Key(call) ELSE o.section)

(* Which calls a report may make there: all of it is in its root, the        *)
(* user's section and what the old report had are right below, and what a    *)
(* heap has, and a text that is closed, is further down.                     *)
Permitted(o, call) ==
    /\ ~o.begun => call = Begin("root")
    /\ o.begun => (IF call[1] = "close" THEN o.depth = 0 ELSE o.depth >= 1)
    /\ call[1] \in {"memory", "contents", "ivars"} => o.depth >= 3
    /\ call[1] = "json" => IF call[4] THEN o.depth >= 3
                           ELSE o.depth = 1 /\ call[2] = "user" /\ call[3] = "object"
    /\ call[1] = "broken" => call[4] /\ o.depth >= 3
    /\ call[1] \in {"user", "embed"} => o.depth = 1

(* The names that a call gives the root's members, and those of the crash    *)
(* section.                                                                  *)
CallNames(call) ==
    IF call[1] = "fields" THEN Range(call[2])
    ELSE IF call[1] \in {"begin", "user", "json"} THEN {Key(call)} ELSE {}

Noted(o, call) ==
    IF o.depth = 1 THEN {"root"} \X CallNames(call)
    ELSE IF o.depth = 2 /\ o.section = "crash" THEN {"crash"} \X CallNames(call) ELSE {}

(* Where calls that have been permitted lead, and the names they have given. *)
State ==
    {o \in [begun : BOOLEAN, depth : Int, section : Names] : o.depth <= 1 => o.section = "root"}

Path(s, g) ==
    /\ g \in [0 .. Len(s) -> State]
    /\ \A i \in 1 .. Len(s) : Permitted(g[i - 1], s[i]) /\ g[i] = After(g[i - 1], s[i])

Noticed(s, g) == UNION {Noted(g[i - 1], s[i]) : i \in 1 .. Len(s)}

Piece(o, p, D) ==
    {s \in Seq(CallType) :
        \E g : Path(s, g) /\ g[0] = o /\ g[Len(s)] = p /\ Noticed(s, g) = D}

(* How deep a call leads.                                                    *)
LEMMA ClimbOf ==
    \A call : /\ Climb(call) \in Int
              /\ call[1] = "begin" => Climb(call) = 1
              /\ call[1] = "end" => Climb(call) = -1
              /\ call[1] \in {"begin", "fields", "end"} => Climb(call) = Rise(call)
  BY DEF Climb, Rise

(* A place has these parts, and there is one for each of them.               *)
LEMMA PlaceParts ==
    /\ \A o \in State : /\ o.begun \in BOOLEAN /\ o.depth \in Int /\ o.section \in Names
                        /\ o.depth <= 1 => o.section = "root"
                        /\ o = [begun |-> o.begun, depth |-> o.depth, section |-> o.section]
    /\ \A b \in BOOLEAN, d \in Int, name \in Names :
           (d <= 1 => name = "root") => [begun |-> b, depth |-> d, section |-> name] \in State
<1> DEFINE R == [begun : BOOLEAN, depth : Int, section : Names]
<1>1. ASSUME NEW o \in State
      PROVE  o \in R /\ (o.depth <= 1 => o.section = "root")
  BY Zenon DEF State
<1>2. ASSUME NEW o \in R
      PROVE  /\ o.begun \in BOOLEAN /\ o.depth \in Int /\ o.section \in Names
             /\ o = [begun |-> o.begun, depth |-> o.depth, section |-> o.section]
  OBVIOUS
<1>3. ASSUME NEW b \in BOOLEAN, NEW d \in Int, NEW name \in Names, d <= 1 => name = "root"
      PROVE  [begun |-> b, depth |-> d, section |-> name] \in State
  <2> DEFINE o == [begun |-> b, depth |-> d, section |-> name]
  <2>1. o \in R /\ o.depth = d /\ o.section = name
    OBVIOUS
  <2> HIDE DEF o, R
  <2>2. o.depth <= 1 => o.section = "root"
    BY <1>3, <2>1
  <2>3. o \in State
    BY <2>1, <2>2 DEF State, R
  <2> QED
    BY <2>3 DEF o
<1> HIDE DEF R
<1> QED
  BY <1>1, <1>2, <1>3

(* These are places of a report.                                             *)
LEMMA Places ==
    /\ Start \in State /\ InRoot \in State /\ Finish \in State /\ Closed \in State
    /\ \A d \in Int, name \in Names : (d <= 1 => name = "root") => Inside(d, name) \in State
<1>1. "root" \in Names
  BY ReportNames
<1>2. \A d \in Int, name \in Names : (d <= 1 => name = "root") => Inside(d, name) \in State
  BY PlaceParts DEF Inside
<1>3. Start \in State
  <2>1. FALSE \in BOOLEAN /\ 0 \in Int
    OBVIOUS
  <2>2. [begun |-> FALSE, depth |-> 0, section |-> "root"] \in State
    BY <1>1, <2>1, PlaceParts
  <2> QED
    BY <2>2 DEF Start
<1> QED
  BY <1>1, <1>2, <1>3 DEF InRoot, Finish, Closed

(* Every permitted call leads to one.                                        *)
LEMMA AfterPlace ==
    ASSUME NEW o \in State, NEW call \in CallType, Permitted(o, call)
    PROVE  After(o, call) \in State
<1> DEFINE depth == IF call[1] = "close" THEN -1 ELSE o.depth + Climb(call)
           section == IF depth <= 1 THEN "root" ELSE IF o.depth = 1 THEN Key(call) ELSE o.section
<1>0. "root" \in Names
  BY ReportNames
<1>1. o.depth \in Int /\ o.section \in Names /\ "root" \in Names /\ Climb(call) \in Int
  BY <1>0, PlaceParts, ClimbOf
<1>2. depth \in Int
  BY <1>1
<1>3. depth > 1 /\ o.depth = 1 => Key(call) \in Names
  <2> SUFFICES ASSUME depth > 1, o.depth = 1 PROVE Key(call) \in Names
    OBVIOUS
  <2>1. Climb(call) > 0
    BY <1>1
  <2>2. call[1] \in {"begin", "user", "json"}
    BY <2>1 DEF Climb
  <2>3. call[1] = "begin" => call[2] \in Names
    <3>1. call[1] = "begin" => call \in {"begin"} \X Names
      BY DEF CallType
    <3> QED
      BY <3>1
  <2>4. call[1] = "json" => call[2] \in Names
    BY CallParts
  <2> QED
    BY <2>2, <2>3, <2>4, EmbeddedNames DEF Key
<1>4. section \in Names
  <2> HIDE DEF depth
  <2>1. depth > 1 \/ depth <= 1
    BY <1>2
  <2> QED
    BY <1>1, <1>2, <1>3, <2>1
<1>5. depth <= 1 => section = "root"
  OBVIOUS
<1>6. After(o, call) = Inside(depth, section)
  BY DEF After
<1> HIDE DEF depth, section
<1> QED
  BY <1>2, <1>4, <1>5, <1>6, Places

(* What is noticed, name by name.                                            *)
LEMMA NoticedNames ==
    ASSUME NEW s, NEW g, NEW x
    PROVE  x \in Noticed(s, g) <=> \E i \in 1 .. Len(s) : x \in Noted(g[i - 1], s[i])
  BY DEF Noticed

(* No calls at all.                                                          *)
LEMMA PieceNone ==
    ASSUME NEW o \in State
    PROVE  <<>> \in Piece(o, o, {})
<1> DEFINE g == [i \in 0 .. 0 |-> o]
<1>1. Len(<<>>) = 0 /\ g \in [0 .. 0 -> State] /\ g[0] = o /\ <<>> \in Seq(CallType)
  OBVIOUS
<1> HIDE DEF g
<1>2. Path(<<>>, g)
  BY <1>1 DEF Path
<1>3. Noticed(<<>>, g) = {}
  BY <1>1 DEF Noticed
<1> QED
  BY <1>1, <1>2, <1>3 DEF Piece

(* One call.                                                                 *)
LEMMA PieceOne ==
    ASSUME NEW o \in State, NEW call \in CallType, Permitted(o, call)
    PROVE  <<call>> \in Piece(o, After(o, call), Noted(o, call))
<1> DEFINE s == <<call>>
           p == After(o, call)
           g == [i \in 0 .. 1 |-> IF i = 0 THEN o ELSE p]
<1>1. Len(s) = 1 /\ s[1] = call /\ s \in Seq(CallType) /\ \A i \in 1 .. 1 : i = 1
  OBVIOUS
<1>2. p \in State
  BY AfterPlace
<1> HIDE DEF p
<1>3. g \in [0 .. 1 -> State] /\ g[0] = o /\ g[1] = p /\ g[1 - 1] = o
  BY <1>2
<1> HIDE DEF s, g
<1>4. Path(s, g)
  BY <1>1, <1>3 DEF Path, p
<1>5. \A x : x \in Noticed(s, g) <=> x \in Noted(o, call)
  BY <1>1, <1>3, NoticedNames
<1>6. Noticed(s, g) = Noted(o, call)
  BY <1>5
<1>7. s \in Piece(o, p, Noted(o, call))
  BY <1>1, <1>3, <1>4, <1>6 DEF Piece
<1> QED
  BY <1>7 DEF s, p

(* Calls after calls.                                                        *)
LEMMA PieceConcat ==
    ASSUME NEW o, NEW p, NEW q, NEW D, NEW E, NEW s \in Piece(o, p, D), NEW t \in Piece(p, q, E)
    PROVE  s \o t \in Piece(o, q, D \cup E)
<1>1. PICK a : Path(s, a) /\ a[0] = o /\ a[Len(s)] = p /\ Noticed(s, a) = D
  BY DEF Piece
<1>2. PICK b : Path(t, b) /\ b[0] = p /\ b[Len(t)] = q /\ Noticed(t, b) = E
  BY DEF Piece
<1> DEFINE m == Len(s)
           n == Len(t)
           r == s \o t
           g == [i \in 0 .. m + n |-> IF i <= m THEN a[i] ELSE b[i - m]]
<1>3. s \in Seq(CallType) /\ t \in Seq(CallType)
  BY DEF Piece
<1>4. /\ r \in Seq(CallType) /\ Len(r) = m + n /\ m \in Nat /\ n \in Nat
      /\ \A i \in 1 .. m + n : r[i] = IF i <= m THEN s[i] ELSE t[i - m]
  BY <1>3, ConcatProperties
<1>5. /\ a \in [0 .. m -> State]
      /\ \A i \in 1 .. m : Permitted(a[i - 1], s[i]) /\ a[i] = After(a[i - 1], s[i])
      /\ b \in [0 .. n -> State]
      /\ \A i \in 1 .. n : Permitted(b[i - 1], t[i]) /\ b[i] = After(b[i - 1], t[i])
      /\ a[0] = o /\ a[m] = p /\ b[0] = p /\ b[n] = q
  BY <1>1, <1>2 DEF Path
<1> HIDE DEF m, n, r
<1>6. g \in [0 .. m + n -> State]
  <2>1. ASSUME NEW i \in 0 .. m + n PROVE (IF i <= m THEN a[i] ELSE b[i - m]) \in State
    <3>1. i <= m => i \in 0 .. m
      BY <1>4
    <3>2. ~(i <= m) => i - m \in 0 .. n
      BY <1>4
    <3> QED
      BY <1>5, <3>1, <3>2
  <2> QED
    BY <2>1
<1>7. \A i \in 0 .. m + n : g[i] = IF i <= m THEN a[i] ELSE b[i - m]
  OBVIOUS
<1> HIDE DEF g
<1>8. \A i \in 1 .. m : g[i - 1] = a[i - 1] /\ g[i] = a[i] /\ r[i] = s[i]
  <2> TAKE i \in 1 .. m
  <2>1. i \in 0 .. m + n /\ i - 1 \in 0 .. m + n /\ i <= m /\ i - 1 <= m /\ i \in 1 .. m + n
    BY <1>4
  <2> QED
    BY <1>4, <1>7, <2>1
<1>9. \A i \in 1 .. n : g[(i + m) - 1] = b[i - 1] /\ g[i + m] = b[i] /\ r[i + m] = t[i]
  <2> TAKE i \in 1 .. n
  <2>1. /\ i + m \in 0 .. m + n /\ (i + m) - 1 \in 0 .. m + n /\ ~(i + m <= m)
        /\ i + m \in 1 .. m + n /\ (i + m) - m = i /\ ((i + m) - 1) - m = i - 1
    BY <1>4
  <2>2. g[i + m] = b[i] /\ r[i + m] = t[i]
    BY <1>4, <1>7, <2>1
  <2>3. g[(i + m) - 1] = b[i - 1]
    <3>1. CASE i = 1
      <4>1. (i + m) - 1 = m /\ m <= m /\ i - 1 = 0
        BY <1>4, <3>1
      <4>2. g[(i + m) - 1] = a[m]
        BY <1>7, <2>1, <4>1
      <4> QED
        BY <1>5, <4>1, <4>2
    <3>2. CASE i # 1
      <4>1. ~((i + m) - 1 <= m)
        BY <1>4, <3>2
      <4> QED
        BY <1>7, <2>1, <4>1
    <3> QED
      BY <3>1, <3>2
  <2> QED
    BY <2>2, <2>3
<1>10. \A i \in 1 .. m + n : i \in 1 .. m \/ \E j \in 1 .. n : i = j + m
  <2> TAKE i \in 1 .. m + n
  <2>1. CASE i <= m
    BY <1>4, <2>1
  <2>2. CASE ~(i <= m)
    <3>1. i - m \in 1 .. n /\ i = (i - m) + m
      BY <1>4, <2>2
    <3> QED
      BY <3>1
  <2> QED
    BY <2>1, <2>2
<1>11. Path(r, g)
  <2>1. ASSUME NEW i \in 1 .. m + n
        PROVE  Permitted(g[i - 1], r[i]) /\ g[i] = After(g[i - 1], r[i])
    <3>1. CASE i \in 1 .. m
      BY <1>5, <1>8, <3>1
    <3>2. CASE \E j \in 1 .. n : i = j + m
      BY <1>5, <1>9, <3>2
    <3> QED
      BY <1>10, <3>1, <3>2
  <2> QED
    BY <1>4, <1>6, <2>1 DEF Path
<1>12. g[0] = o /\ g[Len(r)] = q
  <2>1. 0 \in 0 .. m + n /\ 0 <= m /\ m + n \in 0 .. m + n
    BY <1>4
  <2>2. g[m + n] = q
    <3>1. CASE n = 0
      <4>1. m + n = m /\ m <= m
        BY <1>4, <3>1
      <4> QED
        BY <1>5, <1>7, <2>1, <3>1, <4>1
    <3>2. CASE n # 0
      <4>1. ~(m + n <= m) /\ (m + n) - m = n
        BY <1>4, <3>2
      <4> QED
        BY <1>5, <1>7, <2>1, <4>1
    <3> QED
      BY <3>1, <3>2
  <2> QED
    BY <1>4, <1>5, <1>7, <2>1, <2>2
<1>13. \A x : x \in Noticed(r, g) <=> x \in D \cup E
  <2> TAKE x
  <2>1. x \in D <=> \E i \in 1 .. m : x \in Noted(a[i - 1], s[i])
    BY <1>1, NoticedNames DEF m
  <2>2. x \in E <=> \E i \in 1 .. n : x \in Noted(b[i - 1], t[i])
    BY <1>2, NoticedNames DEF n
  <2>3. x \in Noticed(r, g) <=> \E i \in 1 .. m + n : x \in Noted(g[i - 1], r[i])
    BY <1>4, NoticedNames
  <2>4. \A i \in 1 .. m : i \in 1 .. m + n
    BY <1>4
  <2>5. \A i \in 1 .. n : i + m \in 1 .. m + n
    BY <1>4
  <2> QED
    BY <1>8, <1>9, <1>10, <2>1, <2>2, <2>3, <2>4, <2>5
<1>14. Noticed(r, g) = D \cup E
  BY <1>13
<1>15. r \in Piece(o, q, D \cup E)
  BY <1>4, <1>11, <1>12, <1>14 DEF Piece
<1> QED
  BY <1>15 DEF r

(* The first call, and those after it.                                       *)
LEMMA PieceTail ==
    ASSUME NEW o, NEW q, NEW D, NEW s \in Piece(o, q, D), s # <<>>
    PROVE  /\ o \in State /\ Head(s) \in CallType /\ Permitted(o, Head(s))
           /\ After(o, Head(s)) \in State
           /\ \E E : /\ Tail(s) \in Piece(After(o, Head(s)), q, E)
                     /\ D = Noted(o, Head(s)) \cup E
<1>1. PICK g : Path(s, g) /\ g[0] = o /\ g[Len(s)] = q /\ Noticed(s, g) = D
  BY DEF Piece
<1> DEFINE n == Len(s) - 1
           t == Tail(s)
           c == Head(s)
           h == [i \in 0 .. n |-> g[i + 1]]
<1>2. /\ s \in Seq(CallType) /\ c = s[1] /\ t \in Seq(CallType) /\ Len(t) = n
      /\ Len(s) \in Nat /\ Len(s) > 0 /\ \A i \in 1 .. n : t[i] = s[i + 1]
  <2>1. s \in Seq(CallType)
    BY DEF Piece
  <2> QED
    BY <2>1, HeadTailProperties, LenProperties, EmptySeq
<1>3. /\ g \in [0 .. Len(s) -> State]
      /\ \A i \in 1 .. Len(s) : Permitted(g[i - 1], s[i]) /\ g[i] = After(g[i - 1], s[i])
  BY <1>1 DEF Path
<1>4. /\ 1 \in 1 .. Len(s) /\ 0 \in 0 .. Len(s) /\ 1 - 1 = 0 /\ n \in Nat /\ n + 1 = Len(s)
      /\ 1 \in 0 .. Len(s)
  BY <1>2
<1>5. /\ o \in State /\ c \in CallType /\ Permitted(o, c) /\ g[1] = After(o, c)
      /\ g[1] \in State
  <2>1. g[0] = o /\ g[0] \in State /\ g[1] \in State
    BY <1>1, <1>3, <1>4
  <2>2. c \in CallType
    BY <1>2, <1>4, ElementOfSeq
  <2> QED
    BY <1>2, <1>3, <1>4, <2>1, <2>2
<1> HIDE DEF n, t, c
<1>6. h \in [0 .. n -> State]
  <2>1. \A i \in 0 .. n : i + 1 \in 0 .. Len(s)
    BY <1>4
  <2> QED
    BY <1>3, <2>1
<1>7. \A i \in 1 .. n : /\ h[i - 1] = g[(i + 1) - 1] /\ h[i] = g[i + 1] /\ t[i] = s[i + 1]
                        /\ i + 1 \in 1 .. Len(s)
  BY <1>2, <1>4
<1>8. h[0] = After(o, c) /\ h[n] = q
  BY <1>1, <1>4, <1>5
<1> HIDE DEF h
<1>9. Path(t, h)
  BY <1>2, <1>3, <1>6, <1>7 DEF Path
<1>10. t \in Piece(After(o, c), q, Noticed(t, h))
  BY <1>2, <1>8, <1>9 DEF Piece
<1>11. \A x : x \in D <=> x \in Noted(o, c) \cup Noticed(t, h)
  <2> TAKE x
  <2>1. x \in D <=> \E i \in 1 .. Len(s) : x \in Noted(g[i - 1], s[i])
    BY <1>1, NoticedNames
  <2>2. x \in Noticed(t, h) <=> \E i \in 1 .. n : x \in Noted(h[i - 1], t[i])
    BY <1>2, NoticedNames
  <2>3. x \in Noted(o, c) <=> x \in Noted(g[1 - 1], s[1])
    BY <1>1, <1>2, <1>4
  <2>4. \A i \in 1 .. Len(s) : i = 1 \/ (i - 1 \in 1 .. n /\ (i - 1) + 1 = i)
    BY <1>4
  <2>5. \A i \in 1 .. n : x \in Noted(h[i - 1], t[i]) <=> x \in Noted(g[(i + 1) - 1], s[i + 1])
    BY <1>7
  <2>6. (\E i \in 1 .. Len(s) : x \in Noted(g[i - 1], s[i]))
            <=> \/ x \in Noted(g[1 - 1], s[1])
                \/ \E i \in 1 .. n : x \in Noted(g[(i + 1) - 1], s[i + 1])
    <3>1. \A i \in 1 .. n : i + 1 \in 1 .. Len(s)
      BY <1>7
    <3>2. ASSUME NEW i \in 1 .. Len(s), x \in Noted(g[i - 1], s[i]), i # 1
          PROVE  \E j \in 1 .. n : x \in Noted(g[(j + 1) - 1], s[j + 1])
      <4> DEFINE j == i - 1
      <4>1. j \in 1 .. n /\ j + 1 = i
        BY <2>4, <3>2
      <4> HIDE DEF j
      <4> QED
        BY <3>2, <4>1
    <3> QED
      BY <1>4, <3>1, <3>2
  <2>7. (\E i \in 1 .. n : x \in Noted(h[i - 1], t[i]))
            <=> \E i \in 1 .. n : x \in Noted(g[(i + 1) - 1], s[i + 1])
    BY <2>5
  <2> QED
    BY <2>1, <2>2, <2>3, <2>6, <2>7
<1>12. D = Noted(o, c) \cup Noticed(t, h)
  BY <1>11
<1> QED
  BY <1>5, <1>10, <1>12 DEF c, t

------------------------------------------------------------------------------
(* Calls that stay in their place.                                           *)

(* One container further down.                                               *)
Down(o) == Inside(o.depth + 1, o.section)

(* Where names are not noted.                                                *)
Deep(o) == o \in State /\ o.begun /\ o.depth >= 2 /\ (o.depth = 2 => o.section # "crash")

(* The calls that end where they begin, and give no names that are noted.    *)
Quiet(o) == Piece(o, o, {})

(* What is deep, is so further down, and its names are not noted.            *)
LEMMA DeepParts ==
    ASSUME NEW o, Deep(o)
    PROVE  /\ o \in State /\ o.begun /\ o.depth \in Int /\ o.depth >= 2 /\ o.section \in Names
           /\ o = Inside(o.depth, o.section)
           /\ Deep(Down(o)) /\ Down(o).depth = o.depth + 1 /\ Down(o).section = o.section
           /\ \A call : Noted(o, call) = {}
<1>1. o \in State /\ o.begun /\ o.depth \in Int /\ o.depth >= 2 /\ o.section \in Names
      /\ o = [begun |-> o.begun, depth |-> o.depth, section |-> o.section]
      /\ o.begun \in BOOLEAN /\ (o.depth = 2 => o.section # "crash")
  BY PlaceParts DEF Deep
<1>2. o.begun = TRUE
  BY <1>1
<1>3. o = Inside(o.depth, o.section)
  BY <1>1, <1>2 DEF Inside
<1>4. Down(o).depth = o.depth + 1 /\ Down(o).section = o.section /\ Down(o).begun
  BY DEF Down, Inside
<1>5. o.depth + 1 \in Int /\ ~(o.depth + 1 <= 1) /\ o.depth + 1 > 2
  BY <1>1
<1>6. Down(o) \in State
  BY <1>1, <1>5, Places DEF Down
<1>7. Deep(Down(o))
  BY <1>4, <1>5, <1>6 DEF Deep
<1>8. ASSUME NEW call PROVE Noted(o, call) = {}
  BY <1>1 DEF Noted
<1> QED
  BY <1>1, <1>3, <1>4, <1>7, <1>8

(* No calls at all, calls after calls, and those made on a condition.        *)
LEMMA QuietNone == \A o \in State : <<>> \in Quiet(o)
  BY PieceNone DEF Quiet

(* Calls after calls.                                                        *)
LEMMA QuietConcat == \A o : \A s, t \in Quiet(o) : s \o t \in Quiet(o)
<1> SUFFICES ASSUME NEW o, NEW s \in Quiet(o), NEW t \in Quiet(o) PROVE s \o t \in Quiet(o)
  OBVIOUS
<1>1. s \o t \in Piece(o, o, {} \cup {})
  BY PieceConcat DEF Quiet
<1>2. {} \cup {} = {}
  OBVIOUS
<1> QED
  BY <1>1, <1>2 DEF Quiet

(* Calls that are made on a condition.                                       *)
LEMMA QuietWhen ==
    ASSUME NEW o \in State, NEW condition, NEW s, condition => s \in Quiet(o)
    PROVE  When(condition, s) \in Quiet(o)
  BY QuietNone DEF When

(* Calls for each of several things.                                         *)
LEMMA QuietEach ==
    ASSUME NEW o \in State, NEW n \in Nat, NEW f,
           f = [i \in 1 .. n |-> f[i]], \A i \in 1 .. n : f[i] \in Quiet(o)
    PROVE  FlattenSeq(f) \in Quiet(o)
<1>1. Quiet(o) \in SUBSET Seq(CallType)
  BY DEF Quiet, Piece
<1>2. f \in [1 .. n -> Quiet(o)]
  OBVIOUS
<1>3. f \in Seq(Quiet(o))
  BY <1>2, SeqDef
<1> QED
  BY <1>1, <1>3, QuietNone, QuietConcat, FlattenClosed

(* One call that neither begins nor ends a container.                        *)
LEMMA FlatCall ==
    ASSUME NEW o \in State, o.begun, o.depth >= 1, NEW call, call[1] # "close", Climb(call) = 0
    PROVE  After(o, call) = o
<1>1. /\ o.depth \in Int /\ o.begun = TRUE
      /\ o = [begun |-> o.begun, depth |-> o.depth, section |-> o.section]
      /\ o.depth <= 1 => o.section = "root"
  BY PlaceParts
<1>2. o.depth + Climb(call) = o.depth
  BY <1>1
<1>3. After(o, call) = Inside(o.depth, IF o.depth <= 1 THEN "root"
                                       ELSE IF o.depth = 1 THEN Key(call) ELSE o.section)
  BY <1>2 DEF After
<1>4. (IF o.depth <= 1 THEN "root" ELSE IF o.depth = 1 THEN Key(call) ELSE o.section) = o.section
  <2>1. ~(o.depth <= 1) => o.depth # 1
    BY <1>1
  <2> QED
    BY <1>1, <2>1
<1>5. After(o, call) = Inside(o.depth, o.section)
  BY <1>3, <1>4
<1> QED
  BY <1>1, <1>5 DEF Inside

(* Such a call, where names are not noted.                                   *)
LEMMA QuietOne ==
    ASSUME NEW o, Deep(o), NEW call \in CallType, call[1] # "close", Climb(call) = 0,
           Permitted(o, call)
    PROVE  <<call>> \in Quiet(o)
<1>1. o \in State /\ o.begun /\ o.depth >= 1 /\ Noted(o, call) = {}
  BY DeepParts
<1>2. After(o, call) = o
  BY <1>1, FlatCall
<1>3. <<call>> \in Piece(o, After(o, call), Noted(o, call))
  BY <1>1, PieceOne
<1> QED
  BY <1>1, <1>2, <1>3 DEF Quiet

(* The buffer is flushed, at any place in the root.                          *)
LEMMA QuietFlush ==
    ASSUME NEW o \in State, o.begun, o.depth >= 1
    PROVE  Flush \in Quiet(o)
<1> DEFINE call == <<"flush">>
<1>1. call \in CallType /\ call[1] = "flush" /\ Climb(call) = 0
  BY DEF CallType, Climb
<1> HIDE DEF call
<1>2. Permitted(o, call)
  BY <1>1 DEF Permitted
<1>3. After(o, call) = o
  BY <1>1, FlatCall
<1>4. Noted(o, call) = {}
  <2>1. CallNames(call) = {}
    BY <1>1 DEF CallNames
  <2> QED
    BY <2>1 DEF Noted
<1>5. <<call>> \in Piece(o, After(o, call), Noted(o, call))
  BY <1>1, <1>2, PieceOne
<1> QED
  BY <1>3, <1>4, <1>5 DEF Quiet, Flush, call

(* Elements are added where names are not noted.                             *)
LEMMA QuietFields ==
    ASSUME NEW o, Deep(o), NEW names \in Seq(Names)
    PROVE  <<Fields(names)>> \in Quiet(o)
<1> DEFINE call == Fields(names)
<1>1. call \in CallType /\ call[1] = "fields"
  BY DEF CallType, Fields
<1> HIDE DEF call
<1>2. Climb(call) = 0 /\ Permitted(o, call)
  BY <1>1, DeepParts DEF Climb, Permitted
<1>3. <<call>> \in Quiet(o)
  BY <1>1, <1>2, QuietOne
<1> QED
  BY <1>3 DEF call

(* An address is followed, an object's contents and ivars are looked at,     *)
(* and a text is added, below the sections' members.                         *)
LEMMA QuietBelow ==
    ASSUME NEW o, Deep(o), o.depth >= 3, NEW call \in CallType,
           \/ call[1] \in {"memory", "contents", "ivars", "limit"}
           \/ call[1] \in {"json", "broken"} /\ call[4]
    PROVE  <<call>> \in Quiet(o)
<1>1. Climb(call) = 0 /\ Permitted(o, call) /\ call[1] # "close"
  BY DeepParts DEF Climb, Permitted
<1> QED
  BY <1>1, QuietOne

(* A new search.                                                             *)
LEMMA QuietSearch ==
    ASSUME NEW o, Deep(o), o.depth >= 3, NEW key \in Names, NEW p \in Words
    PROVE  Search(key, p) \in Quiet(o)
<1>1. <<"limit">> \in CallType /\ <<"limit">>[1] = "limit"
  BY DEF CallType
<1>2. Memory(key, p) \in CallType /\ Memory(key, p)[1] = "memory"
  BY DEF CallType, Memory
<1>3. <<<<"limit">>>> \in Quiet(o) /\ <<Memory(key, p)>> \in Quiet(o)
  BY <1>1, <1>2, QuietBelow
<1>4. Search(key, p) = <<<<"limit">>>> \o <<Memory(key, p)>>
  BY DEF Search
<1> QED
  BY <1>3, <1>4, QuietConcat

(* A container leaves its report where it was.                               *)
LEMMA BeginsAndEnds ==
    ASSUME NEW o \in State, o.begun, o.depth >= 1, NEW key \in Names
    PROVE  LET q == After(o, Begin(key))
           IN  /\ q = Inside(o.depth + 1, IF o.depth = 1 THEN key ELSE o.section)
               /\ q \in State /\ After(q, End) = o
               /\ Permitted(o, Begin(key)) /\ Permitted(q, End) /\ Noted(q, End) = {}
               /\ CallNames(Begin(key)) = {key}
<1> DEFINE begin == Begin(key)
           end == End
           q == After(o, begin)
           section == IF o.depth = 1 THEN key ELSE o.section
<1>1. /\ o.depth \in Int /\ o.begun = TRUE
      /\ o = [begun |-> o.begun, depth |-> o.depth, section |-> o.section]
      /\ o.depth <= 1 => o.section = "root"
  BY PlaceParts
<1>2. /\ begin \in CallType /\ begin[1] = "begin" /\ Climb(begin) = 1 /\ begin[2] = key
      /\ end \in CallType /\ end[1] = "end" /\ Climb(end) = -1
  BY BeginEnd, ClimbOf DEF Begin
<1> HIDE DEF begin, end
<1>3. q = Inside(o.depth + 1, section)
  <2>1. ~(o.depth + 1 <= 1)
    BY <1>1
  <2>2. Key(begin) = key
    BY <1>2 DEF Key
  <2> QED
    BY <1>2, <2>1, <2>2 DEF After
<1>4. q.depth = o.depth + 1 /\ q.section = section /\ q.begun
  BY <1>3 DEF Inside
<1>5. Permitted(o, begin)
  BY <1>1, <1>2 DEF Permitted
<1>6. q \in State
  BY <1>2, <1>5, AfterPlace
<1>7. Permitted(q, end)
  BY <1>1, <1>2, <1>4 DEF Permitted
<1>8. CallNames(end) = {} /\ CallNames(begin) = {key}
  BY <1>2 DEF CallNames, Key
<1>9. Noted(q, end) = {}
  BY <1>8 DEF Noted
<1> HIDE DEF q
<1>10. After(q, end) = o
  <2>1. q.depth + Climb(end) = o.depth /\ q.depth # 1
    BY <1>1, <1>2, <1>4
  <2>2. After(q, end) = Inside(o.depth, IF o.depth <= 1 THEN "root" ELSE q.section)
    BY <1>2, <2>1 DEF After
  <2>3. (IF o.depth <= 1 THEN "root" ELSE q.section) = o.section
    <3>1. ~(o.depth <= 1) => o.depth # 1
      BY <1>1
    <3> QED
      BY <1>1, <1>4, <3>1
  <2>4. After(q, end) = Inside(o.depth, o.section)
    BY <2>2, <2>3
  <2> QED
    BY <1>1, <2>4 DEF Inside
<1> QED
  BY <1>3, <1>5, <1>6, <1>7, <1>8, <1>9, <1>10 DEF q, begin, end

(* An object around calls that stay in it.                                   *)
LEMMA PieceObject ==
    ASSUME NEW o \in State, o.begun, o.depth >= 1, NEW key \in Names, NEW q, NEW D,
           q = After(o, Begin(key)), NEW body \in Piece(q, q, D)
    PROVE  Object(key, body) \in Piece(o, o, Noted(o, Begin(key)) \cup D)
<1> DEFINE begin == <<Begin(key)>>
           end == <<End>>
           N == Noted(o, Begin(key))
<1>1. /\ q \in State /\ After(q, End) = o /\ Permitted(o, Begin(key)) /\ Permitted(q, End)
      /\ Noted(q, End) = {}
  BY BeginsAndEnds
<1>2. begin \in Piece(o, q, N)
  BY <1>1, BeginEnd, PieceOne
<1>3. end \in Piece(q, o, {})
  <2>1. <<End>> \in Piece(q, After(q, End), Noted(q, End))
    BY <1>1, BeginEnd, PieceOne
  <2> QED
    BY <1>1, <2>1
<1>4. Object(key, body) = begin \o body \o end
  BY DEF Object
<1> HIDE DEF begin, end, N
<1>5. begin \o body \in Piece(o, q, N \cup D)
  BY <1>2, PieceConcat
<1>6. begin \o body \o end \in Piece(o, o, (N \cup D) \cup {})
  BY <1>3, <1>5, PieceConcat
<1>7. (N \cup D) \cup {} = N \cup D
  OBVIOUS
<1> QED
  BY <1>4, <1>6, <1>7 DEF N

(* An object where names are not noted.                                      *)
LEMMA QuietObject ==
    ASSUME NEW o, Deep(o), NEW key \in Names, NEW body \in Quiet(Down(o))
    PROVE  Object(key, body) \in Quiet(o)
<1>1. o \in State /\ o.begun /\ o.depth >= 2 /\ o.depth \in Int /\ Noted(o, Begin(key)) = {}
  BY DeepParts
<1>2. After(o, Begin(key)) = Down(o)
  <2>1. o.depth # 1 /\ o.depth >= 1
    BY <1>1
  <2> QED
    BY <1>1, <2>1, BeginsAndEnds DEF Down
<1>3. Object(key, body) \in Piece(o, o, Noted(o, Begin(key)) \cup {})
  <2>1. o.depth >= 1
    BY <1>1
  <2> QED
    BY <1>1, <1>2, <2>1, PieceObject DEF Quiet
<1>4. Noted(o, Begin(key)) \cup {} = {}
  BY <1>1
<1> QED
  BY <1>3, <1>4 DEF Quiet

(* An object of nothing but elements.                                        *)
LEMMA QuietElements ==
    ASSUME NEW o, Deep(o), NEW key \in Names, NEW names \in Seq(Names)
    PROVE  Object(key, <<Fields(names)>>) \in Quiet(o)
<1>1. <<Fields(names)>> \in Quiet(Down(o))
  BY DeepParts, QuietFields
<1> QED
  BY <1>1, QuietObject

(* A section of a report.                                                    *)
LEMMA SectionObject ==
    ASSUME NEW key \in Names, NEW D, NEW body \in Piece(Inside(2, key), Inside(2, key), D)
    PROVE  Object(key, body) \in Piece(InRoot, InRoot, {<<"root", key>>} \cup D)
<1>1. InRoot \in State /\ InRoot.begun /\ InRoot.depth = 1
  BY Places DEF InRoot, Inside
<1>2. After(InRoot, Begin(key)) = Inside(2, key) /\ CallNames(Begin(key)) = {key}
  <2>1. 1 + 1 = 2 /\ 1 >= 1
    OBVIOUS
  <2> QED
    BY <1>1, <2>1, BeginsAndEnds
<1>3. Noted(InRoot, Begin(key)) = {<<"root", key>>}
  BY <1>1, <1>2 DEF Noted
<1> QED
  BY <1>1, <1>2, <1>3, PieceObject

(* A section that is not the crash section has names that are not noted.     *)
LEMMA SectionDeep ==
    ASSUME NEW key \in Names, key # "crash"
    PROVE  Deep(Inside(2, key))
<1>1. Inside(2, key) \in State
  <2>1. 2 \in Int /\ ~(2 <= 1)
    OBVIOUS
  <2> QED
    BY <2>1, Places
<1> QED
  BY <1>1 DEF Deep, Inside

(* Such a section.                                                           *)
LEMMA PlainSection ==
    ASSUME NEW key \in Names, NEW body \in Quiet(Inside(2, key))
    PROVE  Object(key, body) \in Piece(InRoot, InRoot, {<<"root", key>>})
<1>1. Object(key, body) \in Piece(InRoot, InRoot, {<<"root", key>>} \cup {})
  BY SectionObject DEF Quiet
<1>2. {<<"root", key>>} \cup {} = {<<"root", key>>}
  OBVIOUS
<1> QED
  BY <1>1, <1>2

(* A member of the crash section.                                            *)
InCrash == Inside(2, "crash")

(* Its own members are not noted.                                            *)
LEMMA CrashMember ==
    /\ InCrash \in State /\ InCrash.begun /\ InCrash.depth = 2 /\ InCrash.section = "crash"
    /\ Deep(Inside(3, "crash")) /\ Inside(3, "crash").depth = 3
    /\ \A key \in Names : \A body \in Quiet(Inside(3, "crash")) :
           Object(key, body) \in Piece(InCrash, InCrash, {<<"crash", key>>})
<1>a. "crash" \in Names
  BY ReportNames
<1>0. 2 \in Int /\ 3 \in Int /\ ~(2 <= 1) /\ ~(3 <= 1) /\ "crash" \in Names /\ 2 + 1 = 3
  BY <1>a
<1>1. /\ InCrash \in State /\ InCrash.begun /\ InCrash.depth = 2 /\ InCrash.section = "crash"
      /\ Inside(3, "crash") \in State /\ Inside(3, "crash").depth = 3 /\ Inside(3, "crash").begun
  BY <1>0, Places DEF InCrash, Inside
<1>2. Deep(Inside(3, "crash"))
  BY <1>1 DEF Deep
<1>3. ASSUME NEW key \in Names, NEW body \in Quiet(Inside(3, "crash"))
      PROVE  Object(key, body) \in Piece(InCrash, InCrash, {<<"crash", key>>})
  <2>1. After(InCrash, Begin(key)) = Inside(3, "crash") /\ CallNames(Begin(key)) = {key}
    BY <1>0, <1>1, BeginsAndEnds
  <2>2. Noted(InCrash, Begin(key)) = {<<"crash", key>>}
    BY <1>1, <2>1 DEF Noted
  <2>3. Object(key, body) \in Piece(InCrash, InCrash, {<<"crash", key>>} \cup {})
    BY <1>1, <2>1, <2>2, PieceObject DEF Quiet
  <2>4. {<<"crash", key>>} \cup {} = {<<"crash", key>>}
    OBVIOUS
  <2> QED
    BY <2>3, <2>4
<1> QED
  BY <1>1, <1>2, <1>3

(* Each element of a sequence has calls that stay there.                     *)
LEMMA QuietOfEach ==
    ASSUME NEW o \in State, NEW S, NEW s \in Seq(S), NEW f,
           f = [i \in DOMAIN s |-> f[i]], \A i \in DOMAIN s : f[i] \in Quiet(o)
    PROVE  FlattenSeq(f) \in Quiet(o)
<1>1. DOMAIN s = 1 .. Len(s) /\ Len(s) \in Nat
  OBVIOUS
<1>2. f = [i \in 1 .. Len(s) |-> f[i]] /\ \A i \in 1 .. Len(s) : f[i] \in Quiet(o)
  BY <1>1
<1> QED
  BY <1>1, <1>2, QuietEach

(* A text that is added below the sections' members.                         *)
LEMMA QuietText ==
    ASSUME NEW o, Deep(o), o.depth >= 3, NEW key \in Names, NEW text \in Texts
    PROVE  <<<<"json", key, text, TRUE>>>> \in Quiet(o)
<1> DEFINE call == <<"json", key, text, TRUE>>
<1>1. call \in CallType /\ call[1] = "json" /\ call[4]
  BY DEF CallType
<1> HIDE DEF call
<1>2. <<call>> \in Quiet(o)
  BY <1>1, QuietBelow
<1> QED
  BY <1>2 DEF call

------------------------------------------------------------------------------
(* The outline of the write functions.                                       *)

(* writeReportInfo.                                                          *)
LEMMA OutlineReportInfo == WriteReportInfo \in Piece(InRoot, InRoot, {<<"root", "report">>})
<1> DEFINE names == <<"version", "id", "process_name", "timestamp", "type">>
<1>1. names \in Seq(Names) /\ "report" \in Names
  BY DEF Names
<1> HIDE DEF names
<1>2. <<Fields(names)>> \in Quiet(Inside(2, "report"))
  BY <1>1, SectionDeep, QuietFields
<1>3. Object("report", <<Fields(names)>>) \in Piece(InRoot, InRoot, {<<"root", "report">>})
  BY <1>1, <1>2, PlainSection
<1> QED
  BY <1>3 DEF WriteReportInfo, names

(* writeBinaryImages.                                                        *)
LEMMA OutlineBinaryImages ==
    WriteBinaryImages \in Piece(InRoot, InRoot, {<<"root", "binary_images">>})
<1> DEFINE o == Inside(2, "binary_images")
<1>1. "binary_images" \in Names
  BY DEF Names
<1>2. Deep(o) /\ o \in State
  BY <1>1, SectionDeep DEF Deep
<1> HIDE DEF o
<1>3. ASSUME NEW image PROVE WriteBinaryImage(image) \in Quiet(o)
  <2> DEFINE names == <<"image_addr", "image_vmaddr", "image_size", "name", "uuid",
                        "cpu_type", "cpu_subtype", "major_version", "minor_version",
                        "revision_version">>
  <2>1. names \in Seq(Names) /\ "" \in Names
    BY DEF Names
  <2> HIDE DEF names
  <2>2. Object("", <<Fields(names)>>) \in Quiet(o)
    BY <1>2, <2>1, QuietElements
  <2>3. When(image.header, Object("", <<Fields(names)>>)) \in Quiet(o)
    BY <1>2, <2>2, QuietWhen
  <2> QED
    BY <2>3 DEF WriteBinaryImage, names
<1> DEFINE each == [i \in DOMAIN Images |-> WriteBinaryImage(Images[i])]
<1>4. DOMAIN Images = 1 .. Len(Images) /\ Len(Images) \in Nat
  BY CursorAssumption
<1>5. FlattenSeq(each) \in Quiet(o)
  <2>1. \A i \in 1 .. Len(Images) : each[i] \in Quiet(o)
    BY <1>3, <1>4
  <2>2. each = [i \in 1 .. Len(Images) |-> each[i]]
    BY <1>4
  <2> HIDE DEF each
  <2> QED
    BY <1>2, <1>4, <2>1, <2>2, QuietEach
<1> HIDE DEF each
<1>6. Object("binary_images", FlattenSeq(each))
          \in Piece(InRoot, InRoot, {<<"root", "binary_images">>})
  BY <1>1, <1>5, PlainSection DEF o
<1> QED
  BY <1>6 DEF WriteBinaryImages, Each, each

(* writeProcessState, which searches two levels below the section.           *)
LEMMA OutlineProcessState ==
    ASSUME NEW c \in ContextType
    PROVE  WriteProcessState(c) \in Piece(InRoot, InRoot, {<<"root", "process">>})
<1> DEFINE o == Inside(2, "process")
           q == Down(o)
           body == <<Fields(<<"address", "name", "reason">>)>>
                   \o Search("referenced_object", c.zombie)
           object == When(c.zombie # Null, Object("last_dealloced_nsexception", body))
<1>1. c.zombie \in Words /\ "referenced_object" \in Names /\ "process" \in Names
      /\ "last_dealloced_nsexception" \in Names
      /\ <<"address", "name", "reason">> \in Seq(Names)
  BY DEF ContextType, Words, Names
<1>2. Deep(o) /\ o.depth = 2
  BY <1>1, SectionDeep DEF Inside
<1> HIDE DEF o, q
<1>3. Deep(q) /\ q.depth >= 3 /\ o \in State
  BY <1>2, DeepParts DEF q
<1>4. body \in Quiet(q)
  <2>1. <<Fields(<<"address", "name", "reason">>)>> \in Quiet(q)
    BY <1>1, <1>3, QuietFields
  <2>2. Search("referenced_object", c.zombie) \in Quiet(q)
    BY <1>1, <1>3, QuietSearch
  <2> QED
    BY <2>1, <2>2, QuietConcat
<1> HIDE DEF body
<1>5. Object("last_dealloced_nsexception", body) \in Quiet(o)
  BY <1>1, <1>2, <1>4, QuietObject DEF q
<1>6. object \in Quiet(o)
  BY <1>3, <1>5, QuietWhen
<1> HIDE DEF object
<1>7. Object("process", object) \in Piece(InRoot, InRoot, {<<"root", "process">>})
  BY <1>1, <1>6, PlainSection DEF o
<1> QED
  BY <1>7 DEF WriteProcessState, object, body

(* writeSystemInfo with the memory and the statistics.                       *)
LEMMA OutlineSystemInfo == WriteSystemInfo \in Piece(InRoot, InRoot, {<<"root", "system">>})
<1> DEFINE o == Inside(2, "system")
<1>0. "system" \in Names
  BY DEF Names
<1>a. Deep(o)
  BY <1>0, SectionDeep
<1> HIDE DEF o
<1>1. WriteMemoryInfo \in Quiet(o)
  <2>1. <<"size", "usable", "free">> \in Seq(Names) /\ "memory" \in Names
    BY DEF Names
  <2>2. Object("memory", <<Fields(<<"size", "usable", "free">>)>>) \in Quiet(o)
    BY <1>a, <2>1, QuietElements
  <2> QED
    BY <2>2 DEF WriteMemoryInfo
<1>2. WriteAppStats \in Quiet(o)
  <2> DEFINE names == <<"application_active", "application_in_foreground",
                      "launches_since_last_crash", "sessions_since_last_crash",
                      "active_time_since_last_crash", "background_time_since_last_crash",
                      "sessions_since_launch", "active_time_since_launch",
                      "background_time_since_launch">>
  <2>1. names \in Seq(Names) /\ "application_stats" \in Names
    BY DEF Names
  <2> HIDE DEF names
  <2>2. Object("application_stats", <<Fields(names)>>) \in Quiet(o)
    BY <1>a, <2>1, QuietElements
  <2> QED
    BY <2>2 DEF WriteAppStats, names
<1> DEFINE names == <<"system_name", "system_version", "machine", "model", "kernel_version",
                      "os_version", "jailbroken", "boot_time", "app_start_time",
                      "CFBundleExecutablePath", "CFBundleExecutable", "CFBundleIdentifier",
                      "CFBundleName", "CFBundleVersion", "CFBundleShortVersionString",
                      "app_uuid", "cpu_arch", "cpu_type", "cpu_subtype", "binary_cpu_type",
                      "binary_cpu_subtype", "time_zone", "process_name", "process_id",
                      "parent_process_id", "device_app_hash", "build_type", "storage">>
           body == <<Fields(names)>> \o WriteMemoryInfo \o WriteAppStats
<1>3. names \in Seq(Names)
  BY DEF Names
<1> HIDE DEF names
<1>4. body \in Quiet(o)
  <2>1. <<Fields(names)>> \in Quiet(o)
    BY <1>a, <1>3, QuietFields
  <2>2. <<Fields(names)>> \o WriteMemoryInfo \in Quiet(o)
    BY <1>1, <2>1, QuietConcat
  <2> QED
    BY <1>2, <2>2, QuietConcat
<1> HIDE DEF body
<1>5. Object("system", body) \in Piece(InRoot, InRoot, {<<"root", "system">>})
  BY <1>0, <1>4, PlainSection DEF o
<1> QED
  BY <1>5 DEF WriteSystemInfo, names, body

(* writeError, which searches two levels below the crash section.            *)
LEMMA OutlineError ==
    ASSUME NEW c \in ContextType
    PROVE  WriteError(c) \in Piece(InCrash, InCrash, {<<"crash", "error">>})
<1> DEFINE o == Inside(3, "crash")
           q == Down(o)
<1>0. Deep(o) /\ o.depth = 3
  BY CrashMember
<1>0a. Deep(q) /\ q.depth >= 3 /\ o \in State /\ q \in State
  BY <1>0, DeepParts DEF q
<1> HIDE DEF o, q
<1>1. c.reason \in Words /\ "referenced_object" \in Names
  BY DEF ContextType, Words, Names
<1> DEFINE cpp == Object("cpp_exception", <<Fields(<<"name">>)>>)
           nsexception == Object("nsexception",
                          <<Fields(<<"name", "userInfo">>)>>
                          \o When(c.reason # Null, Search("referenced_object", c.reason)))
           user == Object("user_reported",
                          <<Fields(<<"name", "language", "line_of_code">>)>>
                          \o When(c.stackTrace # "NULL",
                                  <<<<"json", "backtrace", c.stackTrace, TRUE>>>>))
           specific == CASE c.type = "cpp" -> cpp
                         [] c.type = "nsexception" -> nsexception
                         [] c.type = "user" -> user
                         [] OTHER -> <<>>
           mach == Object("mach",
                      <<Fields(<<"exception">> \o When(c.exceptionNamed, <<"exception_name">>)
                                    \o <<"code">> \o When(c.codeNamed, <<"code_name">>)
                                    \o <<"subcode">>)>>)
           signal == Object("signal", <<Fields(<<"signal">> \o When(c.signalNamed, <<"name">>)
                                         \o <<"code">> \o When(c.sigCodeNamed, <<"code_name">>))>>)
           rest == <<Fields(<<"address">> \o When(c.reason # Null, <<"reason">>) \o <<"type">>)>>
<1>2. cpp \in Quiet(o)
  <2>1. <<"name">> \in Seq(Names) /\ "cpp_exception" \in Names
    BY DEF Names
  <2> QED
    BY <1>0, <1>0a, <2>1, QuietElements
<1>3. nsexception \in Quiet(o)
  <2>1. <<"name", "userInfo">> \in Seq(Names) /\ "nsexception" \in Names
    BY DEF Names
  <2>2. Search("referenced_object", c.reason) \in Quiet(q)
    BY <1>0, <1>0a, <1>1, QuietSearch
  <2>3. When(c.reason # Null, Search("referenced_object", c.reason)) \in Quiet(q)
    BY <1>0, <1>0a, <2>2, QuietWhen
  <2>4. <<Fields(<<"name", "userInfo">>)>> \in Quiet(q)
    BY <1>0, <1>0a, <2>1, QuietFields
  <2> DEFINE body == <<Fields(<<"name", "userInfo">>)>>
                     \o When(c.reason # Null, Search("referenced_object", c.reason))
  <2>5. body \in Quiet(q)
    BY <1>0, <1>0a, <2>3, <2>4, QuietConcat
  <2> HIDE DEF body
  <2>6. Object("nsexception", body) \in Quiet(o)
    BY <1>0, <1>0a, <2>1, <2>5, QuietObject DEF q
  <2> QED
    BY <2>6 DEF body
<1>4. user \in Quiet(o)
  <2>1. <<"name", "language", "line_of_code">> \in Seq(Names) /\ "backtrace" \in Names
        /\ "user_reported" \in Names
    BY DEF Names
  <2>2. c.stackTrace # "NULL" => c.stackTrace \in Texts
    BY DEF ContextType, Texts
  <2>3. When(c.stackTrace # "NULL", <<<<"json", "backtrace", c.stackTrace, TRUE>>>>)
            \in Quiet(q)
    BY <1>0, <1>0a, <2>1, <2>2, QuietText, QuietWhen
  <2>4. <<Fields(<<"name", "language", "line_of_code">>)>> \in Quiet(q)
    BY <1>0, <1>0a, <2>1, QuietFields
  <2> DEFINE body == <<Fields(<<"name", "language", "line_of_code">>)>>
                     \o When(c.stackTrace # "NULL",
                             <<<<"json", "backtrace", c.stackTrace, TRUE>>>>)
  <2>5. body \in Quiet(q)
    BY <1>0, <1>0a, <2>3, <2>4, QuietConcat
  <2> HIDE DEF body
  <2>6. Object("user_reported", body) \in Quiet(o)
    BY <1>0, <1>0a, <2>1, <2>5, QuietObject DEF q
  <2> QED
    BY <2>6 DEF body
<1>5. <<>> \in Quiet(o)
  BY <1>0, <1>0a, QuietNone
<1>6. mach \in Quiet(o)
  <2> DEFINE names == <<"exception">> \o When(c.exceptionNamed, <<"exception_name">>)
                      \o <<"code">> \o When(c.codeNamed, <<"code_name">>) \o <<"subcode">>
  <2>1. /\ <<"exception">> \in Seq(Names) /\ <<"code">> \in Seq(Names)
        /\ <<"subcode">> \in Seq(Names) /\ <<"exception_name">> \in Seq(Names)
        /\ <<"code_name">> \in Seq(Names) /\ <<>> \in Seq(Names)
    BY DEF Names
  <2>1a. names \in Seq(Names)
    BY <2>1, ConcatProperties DEF When
  <2> HIDE DEF names
  <2>2. "mach" \in Names
    BY DEF Names
  <2>3. Object("mach", <<Fields(names)>>) \in Quiet(o)
    BY <1>0, <1>0a, <2>1a, <2>2, QuietElements
  <2> QED
    BY <2>3 DEF names
<1>7. signal \in Quiet(o)
  <2> DEFINE names == <<"signal">> \o When(c.signalNamed, <<"name">>)
                      \o <<"code">> \o When(c.sigCodeNamed, <<"code_name">>)
  <2>1. /\ <<"signal">> \in Seq(Names) /\ <<"name">> \in Seq(Names) /\ <<"code">> \in Seq(Names)
        /\ <<"code_name">> \in Seq(Names) /\ <<>> \in Seq(Names)
    BY DEF Names
  <2>1a. names \in Seq(Names)
    BY <2>1, ConcatProperties DEF When
  <2> HIDE DEF names
  <2>2. "signal" \in Names
    BY DEF Names
  <2>3. Object("signal", <<Fields(names)>>) \in Quiet(o)
    BY <1>0, <1>0a, <2>1a, <2>2, QuietElements
  <2> QED
    BY <2>3 DEF names
<1>8. rest \in Quiet(o)
  <2> DEFINE names == <<"address">> \o When(c.reason # Null, <<"reason">>) \o <<"type">>
  <2>1. /\ <<"address">> \in Seq(Names) /\ <<"reason">> \in Seq(Names)
        /\ <<"type">> \in Seq(Names) /\ <<>> \in Seq(Names)
    BY DEF Names
  <2>1a. names \in Seq(Names)
    BY <2>1, ConcatProperties DEF When
  <2> HIDE DEF names
  <2>2. <<Fields(names)>> \in Quiet(o)
    BY <1>0, <1>0a, <2>1a, QuietFields
  <2> QED
    BY <2>2 DEF names
<1> HIDE DEF cpp, nsexception, user, mach, signal, rest
<1>9. specific \in Quiet(o)
  BY <1>2, <1>3, <1>4, <1>5
<1> HIDE DEF specific
<1>10. mach \o signal \o rest \o specific \in Quiet(o)
  <2>1. mach \o signal \in Quiet(o)
    BY <1>0, <1>0a, <1>6, <1>7, QuietConcat
  <2>2. mach \o signal \o rest \in Quiet(o)
    BY <1>0, <1>0a, <1>8, <2>1, QuietConcat
  <2> QED
    BY <1>0, <1>0a, <1>9, <2>2, QuietConcat
<1>11. Object("error", mach \o signal \o rest \o specific) \in Piece(InCrash, InCrash, {<<"crash", "error">>})
  <2>1. "error" \in Names
    BY DEF Names
  <2> QED
    BY <1>10, <2>1, CrashMember DEF o
<1>12. WriteError(c) = Object("error", mach \o signal \o rest \o specific)
  BY Zenon DEF WriteError, mach, signal, rest, specific, cpp, nsexception, user
<1> QED
  BY <1>11, <1>12

(* A thread's backtrace.                                                     *)
LEMMA QuietBacktrace ==
    ASSUME NEW o, Deep(o), NEW c \in ContextType, NEW thread \in ThreadType
    PROVE  WriteBacktrace(c, thread) \in Quiet(o)
<1> DEFINE p == Down(o)
           q == Down(p)
           r == Down(q)
<1>0. Deep(p) /\ p \in State /\ Deep(q) /\ q \in State /\ Deep(r) /\ r \in State
  <2>1. Deep(p) /\ Deep(q) /\ Deep(r)
    BY DeepParts
  <2> QED
    BY <2>1, DeepParts
<1>1. ASSUME NEW address PROVE WriteFrame(address) \in Quiet(q)
  <2> DEFINE symbol == Symbolicate(address)
             names == <<"object_name", "object_addr">>
                      \o When(symbol.symbol # Null, <<"symbol_name">>) \o <<"symbol_addr">>
             body == When(symbol.found, <<Fields(names)>>) \o <<Fields(<<"instruction_addr">>)>>
  <2>1. WriteFrame(address) = Object("", body)
    BY DEF WriteFrame
  <2> HIDE DEF symbol
  <2>2. /\ <<"object_name", "object_addr">> \in Seq(Names) /\ <<"symbol_name">> \in Seq(Names)
        /\ <<"symbol_addr">> \in Seq(Names) /\ <<"instruction_addr">> \in Seq(Names)
        /\ <<>> \in Seq(Names) /\ "" \in Names
    BY DEF Names
  <2>3. names \in Seq(Names)
    BY <2>2, ConcatProperties DEF When
  <2> HIDE DEF names
  <2>4. /\ <<Fields(names)>> \in Quiet(r)
        /\ <<Fields(<<"instruction_addr">>)>> \in Quiet(r)
    BY <1>0, <2>2, <2>3, QuietFields
  <2>5. When(symbol.found, <<Fields(names)>>) \in Quiet(r)
    BY <1>0, <2>4, QuietWhen
  <2>6. body \in Quiet(r)
    BY <2>4, <2>5, QuietConcat
  <2> HIDE DEF body
  <2>7. Object("", body) \in Quiet(q)
    BY <1>0, <2>2, <2>6, QuietObject
  <2> QED
    BY <2>1, <2>7
<1> DEFINE frames == Walk(c, thread).frames
           each == [i \in DOMAIN frames |-> WriteFrame(frames[i])]
           contents == Object("contents", FlattenSeq(each))
           body == contents \o <<Fields(<<"skipped">>)>>
<1>2. PICK S : frames \in Seq(S)
  BY FramesAreSequence
<1>3. WriteBacktrace(c, thread) = Object("backtrace", body)
  BY DEF WriteBacktrace, Each
<1> HIDE DEF frames
<1>4. \A i \in DOMAIN frames : each[i] \in Quiet(q)
  BY <1>1
<1>5. FlattenSeq(each) \in Quiet(q)
  BY <1>0, <1>2, <1>4, QuietOfEach
<1> HIDE DEF each
<1>6. "contents" \in Names /\ "backtrace" \in Names /\ <<"skipped">> \in Seq(Names)
  BY DEF Names
<1>7. contents \in Quiet(p)
  BY <1>0, <1>5, <1>6, QuietObject
<1>8. <<Fields(<<"skipped">>)>> \in Quiet(p)
  BY <1>0, <1>6, QuietFields
<1>9. body \in Quiet(p)
  BY <1>7, <1>8, QuietConcat
<1> HIDE DEF body
<1>10. Object("backtrace", body) \in Quiet(o)
  BY <1>6, <1>9, QuietObject
<1> QED
  BY <1>3, <1>10

(* Its registers.                                                            *)
LEMMA QuietRegisters ==
    ASSUME NEW o, Deep(o), NEW thread \in ThreadType
    PROVE  WriteRegisters(thread) \in Quiet(o)
<1> DEFINE p == Down(o)
           basic == Object("basic", <<Fields(<<"pc">>)>>)
           exception == Object("exception", <<Fields(ExceptionRegisters)>>)
           body == basic \o When(thread.crashed, exception)
<1>0. Deep(p) /\ p \in State
  <2>1. Deep(p)
    BY DeepParts
  <2> QED
    BY <2>1, DeepParts
<1>1. /\ "basic" \in Names /\ "exception" \in Names /\ "registers" \in Names
      /\ <<"pc">> \in Seq(Names) /\ ExceptionRegisters \in Seq(Names)
  BY RegisterNames
<1>2. basic \in Quiet(p) /\ exception \in Quiet(p)
  BY <1>0, <1>1, QuietElements
<1>3. WriteRegisters(thread) = Object("registers", body)
  BY DEF WriteRegisters
<1> HIDE DEF basic, exception
<1>4. body \in Quiet(p)
  BY <1>0, <1>2, QuietWhen, QuietConcat
<1> HIDE DEF body
<1>5. Object("registers", body) \in Quiet(o)
  BY <1>1, <1>4, QuietObject
<1> QED
  BY <1>3, <1>5

(* Its stack.                                                                *)
LEMMA QuietStackContents ==
    ASSUME NEW o, Deep(o), NEW thread \in ThreadType
    PROVE  WriteStackContents(thread) \in Quiet(o)
<1> DEFINE last == IF thread.stackReadable THEN "contents" ELSE "error"
           names == <<"grow_direction", "dump_start", "dump_end", "stack_pointer", "overflow",
                      last>>
<1>1. last \in Names /\ "stack" \in Names
  BY DEF Names
<1>2. names \in Seq(Names)
  <2> HIDE DEF last
  <2>1. /\ "grow_direction" \in Names /\ "dump_start" \in Names /\ "dump_end" \in Names
        /\ "stack_pointer" \in Names /\ "overflow" \in Names
    BY DEF Names
  <2> QED
    BY <1>1, <2>1
<1>3. WriteStackContents(thread) = When(thread.stackPointer, Object("stack", <<Fields(names)>>))
  BY DEF WriteStackContents
<1> HIDE DEF names
<1>4. Object("stack", <<Fields(names)>>) \in Quiet(o) /\ o \in State
  BY <1>1, <1>2, QuietElements, DeepParts
<1> QED
  BY <1>3, <1>4, QuietWhen

(* What its registers and its stack point to.                                *)
LEMMA QuietNotableAddresses ==
    ASSUME NEW o, Deep(o), NEW thread \in ThreadType
    PROVE  WriteNotableAddresses(thread) \in Quiet(o)
<1> DEFINE q == Down(o)
<1>0. Deep(q) /\ q \in State /\ q.depth >= 3
  <2>1. Deep(q) /\ q.depth = o.depth + 1 /\ o.depth \in Int /\ o.depth >= 2
    BY DeepParts
  <2>2. q.depth >= 3
    BY <2>1
  <2> QED
    BY <2>1, <2>2, DeepParts
<1>1. "notable" \in Names /\ "notable_addresses" \in Names
  BY DEF Names
<1> HIDE DEF q
<1>2. ASSUME NEW p \in STRING PROVE WriteIfNotable(p) \in Quiet(q)
  <2>1. p \in Words
    BY DEF Words
  <2>2. Search("notable", p) \in Quiet(q)
    BY <1>0, <1>1, <2>1, QuietSearch
  <2>3. When(IsNotableAddress(p), Search("notable", p)) \in Quiet(q)
    BY <1>0, <2>2, QuietWhen
  <2> QED
    BY <2>3 DEF WriteIfNotable
<1>3. ASSUME NEW s \in Seq(STRING)
      PROVE  FlattenSeq([i \in DOMAIN s |-> WriteIfNotable(s[i])]) \in Quiet(q)
  <2> DEFINE f == [i \in DOMAIN s |-> WriteIfNotable(s[i])]
  <2>1. ASSUME NEW i \in DOMAIN s PROVE f[i] \in Quiet(q)
    <3>1. s[i] \in STRING
      OBVIOUS
    <3>2. WriteIfNotable(s[i]) \in Quiet(q)
      BY <1>2, <3>1
    <3> QED
      BY <3>2
  <2>2. FlattenSeq(f) \in Quiet(q)
    BY <1>0, <2>1, QuietOfEach
  <2> QED
    BY <2>2
<1> DEFINE ofRegisters == FlattenSeq([i \in DOMAIN thread.registers |->
                                          WriteIfNotable(thread.registers[i])])
           onStack == FlattenSeq([i \in DOMAIN thread.stack |->
                                      WriteIfNotable(thread.stack[i])])
           ofStack == When(thread.stackPointer, onStack)
           body == ofRegisters \o ofStack
<1>4. thread.registers \in Seq(STRING) /\ thread.stack \in Seq(STRING)
  BY DEF ThreadType
<1>5. WriteNotableAddresses(thread) = Object("notable_addresses", body)
  BY DEF WriteNotableAddresses, Each
<1>6. ofRegisters \in Quiet(q) /\ onStack \in Quiet(q)
  BY <1>3, <1>4
<1> HIDE DEF ofRegisters, onStack
<1>6a. ofStack \in Quiet(q)
  BY <1>0, <1>6, QuietWhen
<1> HIDE DEF ofStack
<1>7. body \in Quiet(q)
  BY <1>6, <1>6a, QuietConcat
<1> HIDE DEF body
<1>8. Object("notable_addresses", body) \in Quiet(o)
  BY <1>1, <1>7, QuietObject DEF q
<1> QED
  BY <1>5, <1>8

(* What writeThread has in a thread's object.                                *)
ThreadBody(c, thread, notable) ==
    WriteBacktrace(c, thread)
    \o When(CanHaveCPUState(thread), WriteRegisters(thread))
    \o <<Fields(<<"index">> \o When(thread.name # Null, <<"name">>)
                \o <<"crashed", "current_thread">>)>>
    \o When(thread.crashed,
            WriteStackContents(thread)
            \o When(notable, WriteNotableAddresses(thread)))

(* All of it stays there.                                                    *)
LEMMA QuietThread ==
    ASSUME NEW o, Deep(o), NEW c \in ContextType, NEW thread \in ThreadType, NEW notable
    PROVE  /\ ThreadBody(c, thread, notable) \in Quiet(o)
           /\ \A key : WriteThread(key, c, thread, notable)
                           = Object(key, ThreadBody(c, thread, notable))
<1> DEFINE names == <<"index">> \o When(thread.name # Null, <<"name">>)
                    \o <<"crashed", "current_thread">>
           backtrace == WriteBacktrace(c, thread)
           registers == When(CanHaveCPUState(thread), WriteRegisters(thread))
           fields == <<Fields(names)>>
           more == When(notable, WriteNotableAddresses(thread))
           memory == When(thread.crashed, WriteStackContents(thread) \o more)
<1>0. o \in State
  BY DeepParts
<1>1. backtrace \in Quiet(o)
  BY QuietBacktrace
<1>2. registers \in Quiet(o)
  BY <1>0, QuietRegisters, QuietWhen
<1>3. fields \in Quiet(o)
  <2>1. /\ <<"index">> \in Seq(Names) /\ <<"name">> \in Seq(Names) /\ <<>> \in Seq(Names)
        /\ <<"crashed", "current_thread">> \in Seq(Names)
    BY ThreadNames
  <2>2. names \in Seq(Names)
    BY <2>1, ConcatProperties DEF When
  <2> HIDE DEF names
  <2> QED
    BY <2>2, QuietFields
<1>4. memory \in Quiet(o)
  <2>1. more \in Quiet(o)
    BY <1>0, QuietNotableAddresses, QuietWhen
  <2> HIDE DEF more
  <2>2. WriteStackContents(thread) \o more \in Quiet(o)
    BY <2>1, QuietStackContents, QuietConcat
  <2> QED
    BY <1>0, <2>2, QuietWhen
<1>5. ThreadBody(c, thread, notable) = backtrace \o registers \o fields \o memory
  BY DEF ThreadBody
<1>6. \A key : WriteThread(key, c, thread, notable) = Object(key, ThreadBody(c, thread, notable))
  BY DEF WriteThread, ThreadBody
<1> HIDE DEF backtrace, registers, fields, memory
<1>7. backtrace \o registers \o fields \o memory \in Quiet(o)
  BY <1>1, <1>2, <1>3, <1>4, QuietConcat
<1> QED
  BY <1>5, <1>6, <1>7

(* writeAllThreads.                                                          *)
LEMMA OutlineAllThreads ==
    ASSUME NEW c \in ContextType
    PROVE  WriteAllThreads(c) \in Piece(InCrash, InCrash, {<<"crash", "threads">>})
<1> DEFINE o == Inside(3, "crash")
           threads == c.threads
           each == [i \in DOMAIN threads |-> WriteThread("", c, threads[i], Introspect)]
<1>0. Deep(o)
  BY CrashMember
<1> HIDE DEF o
<1>1. Deep(Down(o)) /\ o \in State
  BY <1>0, DeepParts
<1>2. "threads" \in Names /\ "" \in Names
  BY DEF Names
<1>3. threads \in Seq(ThreadType)
  BY DEF ContextType
<1>4. WriteAllThreads(c) = Object("threads", FlattenSeq(each))
  BY DEF WriteAllThreads, Each
<1> HIDE DEF threads
<1>5. ASSUME NEW i \in DOMAIN threads PROVE each[i] \in Quiet(o)
  <2>1. threads[i] \in ThreadType
    BY <1>3
  <2> DEFINE body == ThreadBody(c, threads[i], Introspect)
  <2>2. body \in Quiet(Down(o)) /\ WriteThread("", c, threads[i], Introspect) = Object("", body)
    BY <1>1, <2>1, QuietThread
  <2> HIDE DEF body
  <2>3. Object("", body) \in Quiet(o)
    BY <1>0, <1>2, <2>2, QuietObject
  <2> QED
    BY <2>2, <2>3
<1>6. FlattenSeq(each) \in Quiet(o)
  BY <1>1, <1>3, <1>5, QuietOfEach
<1> HIDE DEF each
<1>7. Object("threads", FlattenSeq(each)) \in Piece(InCrash, InCrash, {<<"crash", "threads">>})
  BY <1>2, <1>6, CrashMember DEF o
<1> QED
  BY <1>4, <1>7

(* writeRecrashReport writes the offending thread alone.                     *)
LEMMA OutlineCrashedThread ==
    ASSUME NEW c \in ContextType, NEW thread \in ThreadType
    PROVE  WriteThread("crashed_thread", c, thread, FALSE)
               \in Piece(InCrash, InCrash, {<<"crash", "crashed_thread">>})
<1> DEFINE body == ThreadBody(c, thread, FALSE)
<1>1. /\ body \in Quiet(Inside(3, "crash"))
      /\ WriteThread("crashed_thread", c, thread, FALSE) = Object("crashed_thread", body)
  BY CrashMember, QuietThread
<1>2. "crashed_thread" \in Names
  BY ReportNames
<1> HIDE DEF body
<1> QED
  BY <1>1, <1>2, CrashMember

------------------------------------------------------------------------------
(* The outline of the two reports.                                           *)

(* The root of a report, with the closing of its file.                       *)
LEMMA RootObject ==
    ASSUME NEW D, NEW body \in Piece(InRoot, InRoot, D)
    PROVE  Object("root", body) \o <<<<"close">>>> \in Piece(Start, Closed, D)
<1> DEFINE begin == Begin("root")
           end == End
           close == <<"close">>
<1>0. "root" \in Names
  BY ReportNames
<1>1. /\ begin \in CallType /\ begin[1] = "begin" /\ Climb(begin) = 1
      /\ end \in CallType /\ end[1] = "end" /\ Climb(end) = -1
  BY <1>0, BeginEnd, ClimbOf
<1>2. close \in CallType /\ close[1] = "close"
  BY DEF CallType
<1>3. /\ Start \in State /\ Start.begun = FALSE /\ Start.depth = 0
      /\ InRoot \in State /\ InRoot.begun = TRUE /\ InRoot.depth = 1
      /\ Finish \in State /\ Finish.begun = TRUE /\ Finish.depth = 0
  BY Places DEF Start, InRoot, Finish, Inside
<1>4. Permitted(Start, begin)
  <2> HIDE DEF begin
  <2> QED
    BY <1>1, <1>3 DEF Permitted, begin
<1> HIDE DEF begin, end, close
<1>5. Permitted(InRoot, end) /\ Permitted(Finish, close)
  BY <1>1, <1>2, <1>3 DEF Permitted
<1>6. /\ After(Start, begin) = InRoot /\ After(InRoot, end) = Finish
      /\ After(Finish, close) = Closed
  <2>1. 0 + 1 = 1 /\ 1 + (-1) = 0 /\ 1 <= 1 /\ 0 <= 1 /\ -1 <= 1
    OBVIOUS
  <2>2. After(Start, begin) = Inside(1, "root")
    BY <1>1, <1>3, <2>1 DEF After
  <2>3. After(InRoot, end) = Inside(0, "root")
    BY <1>1, <1>3, <2>1 DEF After
  <2>4. After(Finish, close) = Inside(-1, "root")
    BY <1>2, <2>1 DEF After
  <2> QED
    BY <2>2, <2>3, <2>4 DEF InRoot, Finish, Closed
<1>7. Noted(Start, begin) = {} /\ Noted(InRoot, end) = {} /\ Noted(Finish, close) = {}
  <2>1. CallNames(end) = {}
    BY <1>1 DEF CallNames
  <2> QED
    BY <1>3, <2>1 DEF Noted
<1>8. /\ <<begin>> \in Piece(Start, InRoot, {}) /\ <<end>> \in Piece(InRoot, Finish, {})
      /\ <<close>> \in Piece(Finish, Closed, {})
  <2>1. <<begin>> \in Piece(Start, After(Start, begin), Noted(Start, begin))
    BY <1>1, <1>3, <1>4, PieceOne
  <2>2. <<end>> \in Piece(InRoot, After(InRoot, end), Noted(InRoot, end))
    BY <1>1, <1>3, <1>5, PieceOne
  <2>3. <<close>> \in Piece(Finish, After(Finish, close), Noted(Finish, close))
    BY <1>2, <1>3, <1>5, PieceOne
  <2> QED
    BY <1>6, <1>7, <2>1, <2>2, <2>3
<1>9. <<begin>> \o body \in Piece(Start, InRoot, {} \cup D)
  BY <1>8, PieceConcat
<1>10. <<begin>> \o body \o <<end>> \in Piece(Start, Finish, ({} \cup D) \cup {})
  BY <1>8, <1>9, PieceConcat
<1>11. <<begin>> \o body \o <<end>> \o <<close>>
           \in Piece(Start, Closed, (({} \cup D) \cup {}) \cup {})
  BY <1>8, <1>10, PieceConcat
<1>12. (({} \cup D) \cup {}) \cup {} = D
  OBVIOUS
<1> QED
  BY <1>11, <1>12 DEF Object, begin, end, close

(* What a flush leaves as it is.                                             *)
LEMMA ThenFlush ==
    ASSUME NEW o, NEW p \in State, p.begun, p.depth >= 1, NEW D, NEW s \in Piece(o, p, D)
    PROVE  s \o Flush \in Piece(o, p, D)
<1>1. s \o Flush \in Piece(o, p, D \cup {})
  BY QuietFlush, PieceConcat DEF Quiet
<1>2. D \cup {} = D
  OBVIOUS
<1> QED
  BY <1>1, <1>2

(* The names that a complete report has in its root and in its crash         *)
(* section.                                                                  *)
NamesIn(D, name, S) == \A x : <<name, x>> \in D <=> x \in S

StandardFits(D) == NamesIn(D, "root", Sections) /\ NamesIn(D, "crash", {"error", "threads"})

RecrashFits(D) ==
    NamesIn(D, "root", {"report", "crash"})
    \/ NamesIn(D, "root", {"recrash_report", "report", "crash"})

(* crasheecrashreport_writeStandardReport.                                   *)
LEMMA OutlineStandardReport ==
    ASSUME NEW c \in ContextType
    PROVE  \E D : StandardReport(c) \in Piece(Start, Closed, D) /\ StandardFits(D)
<1> DEFINE report == {<<"root", "report">>}
           images == {<<"root", "binary_images">>}
           process == {<<"root", "process">>}
           system == {<<"root", "system">>}
           crash1 == {<<"crash", "error">>} \cup {<<"crash", "threads">>}
           crash2 == {<<"root", "crash">>} \cup crash1
           user1 == {<<"root", "user">>}
           debug1 == {<<"root", "debug">>}
<1>0. /\ InRoot \in State /\ InRoot.begun /\ InRoot.depth >= 1
      /\ InCrash \in State /\ InCrash.begun /\ InCrash.depth >= 1
  BY Places, CrashMember DEF InRoot, Inside
<1> DEFINE inCrash == WriteError(c) \o Flush \o WriteAllThreads(c) \o Flush
           crashed == Object("crash", inCrash)
           before == WriteReportInfo \o Flush \o WriteBinaryImages \o Flush
                     \o WriteProcessState(c) \o Flush \o WriteSystemInfo \o Flush \o crashed
           custom == When(~c.snapshot, <<Fields(<<"custom">>)>>)
           inUser == When(c.callback, Flush \o custom)
           log == Object("console_log", <<Fields(<<"">>)>>)
           debug == Object("debug", When(c.consoleLog, log))
           user == before \o <<<<"user">>>> \o inUser \o <<End>>
           body == user \o Flush \o debug
<1>1. StandardReport(c) = Object("root", body) \o <<<<"close">>>>
  <2>1. WriteReportInfo \o Flush \o WriteBinaryImages \o Flush
           \o WriteProcessState(c) \o Flush \o WriteSystemInfo \o Flush
           \o Object("crash", WriteError(c) \o Flush \o WriteAllThreads(c) \o Flush)
           \o <<<<"user">>>>
           \o When(c.callback, Flush \o When(~c.snapshot, <<Fields(<<"custom">>)>>))
           \o <<End>> \o Flush
           \o Object("debug", When(c.consoleLog, Object("console_log", <<Fields(<<"">>)>>)))
        = body
    OBVIOUS
  <2> QED
    BY <2>1 DEF StandardReport
<1>2. crashed \in Piece(InRoot, InRoot, crash2)
  <2>1. WriteError(c) \o Flush \in Piece(InCrash, InCrash, {<<"crash", "error">>})
    BY <1>0, OutlineError, ThenFlush
  <2>2. WriteError(c) \o Flush \o WriteAllThreads(c) \in Piece(InCrash, InCrash, crash1)
    BY <2>1, OutlineAllThreads, PieceConcat
  <2>3. inCrash \in Piece(InCrash, InCrash, crash1)
    BY <1>0, <2>2, ThenFlush
  <2> HIDE DEF inCrash
  <2> QED
    BY <2>3, ReportNames, SectionObject DEF InCrash
<1> DEFINE D1 == report \cup images
           D2 == D1 \cup process
           D3 == D2 \cup system
           D4 == D3 \cup crash2
<1>3. before \in Piece(InRoot, InRoot, D4)
  <2> HIDE DEF crashed, report, images, process, system, crash2
  <2>1. WriteReportInfo \o Flush \in Piece(InRoot, InRoot, report)
    BY <1>0, OutlineReportInfo, ThenFlush DEF report
  <2>2. WriteReportInfo \o Flush \o WriteBinaryImages \in Piece(InRoot, InRoot, D1)
    BY <2>1, OutlineBinaryImages, PieceConcat DEF images
  <2>3. WriteReportInfo \o Flush \o WriteBinaryImages \o Flush \in Piece(InRoot, InRoot, D1)
    BY <1>0, <2>2, ThenFlush
  <2>4. WriteReportInfo \o Flush \o WriteBinaryImages \o Flush \o WriteProcessState(c)
            \in Piece(InRoot, InRoot, D2)
    BY <2>3, OutlineProcessState, PieceConcat DEF process
  <2>5. WriteReportInfo \o Flush \o WriteBinaryImages \o Flush \o WriteProcessState(c)
            \o Flush \in Piece(InRoot, InRoot, D2)
    BY <1>0, <2>4, ThenFlush
  <2>6. WriteReportInfo \o Flush \o WriteBinaryImages \o Flush \o WriteProcessState(c)
            \o Flush \o WriteSystemInfo \in Piece(InRoot, InRoot, D3)
    BY <2>5, OutlineSystemInfo, PieceConcat DEF system
  <2>7. WriteReportInfo \o Flush \o WriteBinaryImages \o Flush \o WriteProcessState(c)
            \o Flush \o WriteSystemInfo \o Flush \in Piece(InRoot, InRoot, D3)
    BY <1>0, <2>6, ThenFlush
  <2> QED
    BY <1>2, <2>7, PieceConcat
<1> DEFINE o == Inside(2, "user")
           call == <<"user">>
<1>4. /\ Deep(o) /\ o \in State /\ o.begun /\ o.depth >= 1 /\ o.depth = 2
  <2>1. "user" \in Names /\ "user" # "crash"
    BY EmbeddedNames
  <2>2. Deep(o)
    BY <2>1, SectionDeep
  <2> QED
    BY <2>2, DeepParts DEF Inside
<1>5. <<call>> \in Piece(InRoot, o, user1) /\ <<End>> \in Piece(o, InRoot, {})
  <2>1. /\ call \in CallType /\ call[1] = "user" /\ Climb(call) = 1
        /\ End \in CallType /\ End[1] = "end" /\ Climb(End) = -1
    BY DEF CallType, End, Climb
  <2> DEFINE end == End
  <2> HIDE DEF call, end
  <2>2. /\ InRoot.depth = 1 /\ InRoot.begun
    BY DEF InRoot, Inside
  <2>3. Permitted(InRoot, call) /\ Permitted(o, end)
    BY <1>4, <2>1, <2>2 DEF Permitted, end
  <2>4. After(InRoot, call) = o /\ After(o, end) = InRoot
    <3>1. 1 + 1 = 2 /\ 2 + (-1) = 1 /\ ~(2 <= 1) /\ 1 <= 1
      OBVIOUS
    <3>2. After(InRoot, call) = Inside(2, "user")
      BY <2>1, <2>2, <3>1 DEF After, Key
    <3>3. After(o, end) = Inside(1, "root")
      BY <1>4, <2>1, <3>1 DEF After, end
    <3> QED
      BY <3>2, <3>3 DEF InRoot
  <2>5. Noted(InRoot, call) = user1 /\ Noted(o, end) = {}
    <3>1. CallNames(call) = {"user"}
      BY <2>1 DEF CallNames, Key
    <3>2. Noted(InRoot, call) = {"root"} \X {"user"}
      BY <2>2, <3>1 DEF Noted
    <3>3. Noted(o, end) = {}
      BY <1>4, DeepParts
    <3> QED
      BY <3>2, <3>3
  <2>6. <<call>> \in Piece(InRoot, After(InRoot, call), Noted(InRoot, call))
    BY <1>0, <2>1, <2>3, PieceOne
  <2>7. <<end>> \in Piece(o, After(o, end), Noted(o, end))
    BY <1>4, <2>1, <2>3, PieceOne DEF end
  <2> QED
    BY <2>4, <2>5, <2>6, <2>7 DEF end
<1>6. inUser \in Piece(o, o, {})
  <2>1. <<Fields(<<"custom">>)>> \in Quiet(o)
    BY <1>4, ReportNames, QuietFields
  <2>2. custom \in Quiet(o)
    BY <1>4, <2>1, QuietWhen
  <2> HIDE DEF custom
  <2>3. Flush \o custom \in Quiet(o)
    BY <1>4, <2>2, QuietFlush, QuietConcat
  <2>4. inUser \in Quiet(o)
    BY <1>4, <2>3, QuietWhen
  <2> QED
    BY <2>4 DEF Quiet
<1>7. debug \in Piece(InRoot, InRoot, debug1)
  <2>0. "debug" \in Names /\ "debug" # "crash"
    BY ReportNames
  <2> DEFINE q == Inside(2, "debug")
  <2>1. Deep(q)
    BY <2>0, SectionDeep
  <2> HIDE DEF q
  <2>1a. q \in State
    BY <2>1, DeepParts
  <2>2. log \in Quiet(q)
    BY <2>1, ReportNames, QuietElements
  <2> HIDE DEF log
  <2> DEFINE maybe == When(c.consoleLog, log)
  <2>3. maybe \in Quiet(q)
    BY <2>1a, <2>2, QuietWhen
  <2> HIDE DEF maybe
  <2>4. Object("debug", maybe) \in Piece(InRoot, InRoot, {<<"root", "debug">>})
    BY <2>0, <2>3, PlainSection DEF q
  <2> QED
    BY <2>4 DEF maybe
<1> DEFINE D5 == D4 \cup user1
           D6 == D5 \cup {}
           D7 == D6 \cup {}
           D8 == D7 \cup debug1
<1>8. body \in Piece(InRoot, InRoot, D8)
  <2> HIDE DEF before, inUser, debug, o, user1, debug1, D4
  <2>1. before \o <<call>> \in Piece(InRoot, o, D5)
    BY <1>3, <1>5, PieceConcat
  <2>2. before \o <<call>> \o inUser \in Piece(InRoot, o, D6)
    BY <1>6, <2>1, PieceConcat
  <2>3. user \in Piece(InRoot, InRoot, D7)
    BY <1>5, <2>2, PieceConcat
  <2> HIDE DEF user
  <2>4. user \o Flush \in Piece(InRoot, InRoot, D7)
    BY <1>0, <2>3, ThenFlush
  <2> QED
    BY <1>7, <2>4, PieceConcat
<1>9. StandardFits(D8)
  BY Zenon DEF StandardFits, NamesIn, Sections
<1> HIDE DEF body, D8
<1>10. Object("root", body) \o <<<<"close">>>> \in Piece(Start, Closed, D8)
  BY <1>8, RootObject
<1> QED
  BY <1>1, <1>9, <1>10

(* crasheecrashreport_writeRecrashReport, but for what it embeds.            *)
LEMMA OutlineRecrashReport ==
    ASSUME NEW c \in Crashes
    PROVE  \E D : /\ RecrashReport(c) \in Piece(Start, Closed, D)
                  /\ NamesIn(D, "root", {"report", "crash"})
<1> DEFINE offending == CHOOSE i \in DOMAIN c.threads : c.threads[i].crashed
           thread == c.threads[offending]
           inCrash == WriteError(c) \o Flush
                      \o WriteThread("crashed_thread", c, thread, FALSE) \o Flush
           embed == <<<<"embed">>>>
           remove == <<<<"remove">>>>
           crashed == Object("crash", inCrash)
           body == embed \o Flush \o remove \o WriteReportInfo \o Flush \o crashed
           report == {<<"root", "report">>}
           crash1 == {<<"crash", "error">>} \cup {<<"crash", "crashed_thread">>}
           crash2 == {<<"root", "crash">>} \cup crash1
<1>1. c \in ContextType /\ thread \in ThreadType
  <2>1. c \in ContextType /\ \E i \in DOMAIN c.threads : c.threads[i].crashed
    BY WriterAssumption
  <2>2. offending \in DOMAIN c.threads
    BY <2>1
  <2> HIDE DEF offending
  <2>3. c.threads \in Seq(ThreadType)
    BY <2>1 DEF ContextType
  <2> QED
    BY <2>1, <2>2, <2>3
<1>2. RecrashReport(c) = Object("root", body) \o <<<<"close">>>>
  BY DEF RecrashReport
<1> HIDE DEF offending, thread
<1>3. /\ InRoot \in State /\ InRoot.begun /\ InRoot.depth >= 1 /\ InRoot.depth = 1
      /\ InCrash \in State /\ InCrash.begun /\ InCrash.depth >= 1
  BY Places, CrashMember DEF InRoot, Inside
<1>4. crashed \in Piece(InRoot, InRoot, crash2)
  <2>1. WriteError(c) \o Flush \in Piece(InCrash, InCrash, {<<"crash", "error">>})
    BY <1>1, <1>3, OutlineError, ThenFlush
  <2>2. WriteError(c) \o Flush \o WriteThread("crashed_thread", c, thread, FALSE)
            \in Piece(InCrash, InCrash, crash1)
    BY <1>1, <2>1, OutlineCrashedThread, PieceConcat
  <2>3. inCrash \in Piece(InCrash, InCrash, crash1)
    BY <1>3, <2>2, ThenFlush
  <2> HIDE DEF inCrash
  <2> QED
    BY <2>3, ReportNames, SectionObject DEF InCrash
<1>5. embed \in Piece(InRoot, InRoot, {}) /\ remove \in Piece(InRoot, InRoot, {})
  <2>1. ASSUME NEW call \in CallType, call[1] \in {"embed", "remove"}
        PROVE  <<call>> \in Piece(InRoot, InRoot, {})
    <3>1. Climb(call) = 0 /\ Permitted(InRoot, call) /\ call[1] # "close"
      BY <1>3, <2>1 DEF Climb, Permitted
    <3>2. After(InRoot, call) = InRoot
      BY <1>3, <3>1, FlatCall
    <3>3. CallNames(call) = {}
      BY <2>1 DEF CallNames
    <3>4. Noted(InRoot, call) = {}
      BY <3>3 DEF Noted
    <3> QED
      BY <1>3, <3>1, <3>2, <3>4, PieceOne
  <2>2. /\ <<"embed">> \in CallType /\ <<"embed">>[1] = "embed"
        /\ <<"remove">> \in CallType /\ <<"remove">>[1] = "remove"
    BY DEF CallType
  <2> QED
    BY <2>1, <2>2
<1> HIDE DEF embed, remove, crashed
<1> DEFINE D1 == {} \cup {}
           D2 == D1 \cup report
           D3 == D2 \cup crash2
<1>6. body \in Piece(InRoot, InRoot, D3)
  <2> HIDE DEF crash2
  <2>1. embed \o Flush \in Piece(InRoot, InRoot, {})
    BY <1>3, <1>5, ThenFlush
  <2>2. embed \o Flush \o remove \in Piece(InRoot, InRoot, D1)
    BY <1>5, <2>1, PieceConcat
  <2>3. embed \o Flush \o remove \o WriteReportInfo \in Piece(InRoot, InRoot, D2)
    BY <2>2, OutlineReportInfo, PieceConcat
  <2>4. embed \o Flush \o remove \o WriteReportInfo \o Flush \in Piece(InRoot, InRoot, D2)
    BY <1>3, <2>3, ThenFlush
  <2> QED
    BY <1>4, <2>4, PieceConcat
<1>7. NamesIn(D3, "root", {"report", "crash"})
  BY Zenon DEF NamesIn
<1> HIDE DEF body, D3
<1>8. Object("root", body) \o <<<<"close">>>> \in Piece(Start, Closed, D3)
  BY <1>6, RootObject
<1> QED
  BY <1>2, <1>7, <1>8

------------------------------------------------------------------------------
(* What a call leads to has the outline that the call has.                   *)

(* An address that is followed.                                              *)
LEMMA QuietMemory ==
    ASSUME NEW o, Deep(o), o.depth >= 3, NEW key \in Names, NEW p \in Words
    PROVE  <<Memory(key, p)>> \in Quiet(o)
<1>1. Memory(key, p) \in CallType /\ Memory(key, p)[1] = "memory"
  BY DEF CallType, Memory
<1> QED
  BY <1>1, QuietBelow

(* What is no object has elements only.                                      *)
LEMMA QuietUnrecognized ==
    ASSUME NEW o, Deep(o), NEW p
    PROVE  Unrecognized(p) \in Quiet(o)
<1> DEFINE names == <<"type">> \o When(IsValidString(p), <<"value">>)
<1>1. <<"type">> \in Seq(Names) /\ <<"value">> \in Seq(Names) /\ <<>> \in Seq(Names)
  BY StepNames
<1>2. names \in Seq(Names)
  BY <1>1, ConcatProperties DEF When
<1>3. Unrecognized(p) = <<Fields(names)>>
  BY DEF Unrecognized
<1> HIDE DEF names
<1> QED
  BY <1>2, <1>3, QuietFields

(* writeMemoryContents.                                                      *)
LEMMA MemoryOutline ==
    ASSUME NEW o, Deep(o), o.depth >= 3, NEW key \in Names, NEW p \in Words
    PROVE  MemoryCalls(key, p) \in Quiet(o)
<1> DEFINE q == Down(o)
           address == <<Fields(<<"address">>)>>
           named == <<Fields(<<"type", "class">>)>>
           contents == <<<<"contents", p>>>>
<1>0. Deep(q) /\ q.depth >= 3
  BY DeepParts
<1> HIDE DEF q
<1>1. address \in Quiet(q) /\ named \in Quiet(q)
  BY <1>0, StepNames, QuietFields
<1>2. Unrecognized(p) \in Quiet(q)
  BY <1>0, QuietUnrecognized
<1>3. ObjectType(p) = "Object" => contents \in Quiet(q)
  <2> SUFFICES ASSUME ObjectType(p) = "Object" PROVE contents \in Quiet(q)
    OBVIOUS
  <2> DEFINE call == <<"contents", p>>
  <2>1. p \in Objects
    BY DEF Objects
  <2>2. call \in CallType /\ call[1] = "contents"
    BY <2>1 DEF CallType
  <2> HIDE DEF call
  <2>3. <<call>> \in Quiet(q)
    BY <1>0, <2>2, QuietBelow
  <2> QED
    BY <2>3 DEF call
<1> HIDE DEF address, named, contents
<1>4. WriteObjCObject(p) \in Quiet(q)
  <2>1. CASE ObjectType(p) \in {"Class", "Block"}
    <3>1. WriteObjCObject(p) = named
      BY <2>1 DEF WriteObjCObject, named
    <3> QED
      BY <1>1, <3>1
  <2>2. CASE ObjectType(p) = "Object" /\ IsRestricted(ObjectClassName(p))
    <3>1. WriteObjCObject(p) = named \o Unrecognized(p)
      BY <2>2 DEF WriteObjCObject, named
    <3> QED
      BY <1>1, <1>2, <3>1, QuietConcat
  <2>3. CASE ObjectType(p) = "Object" /\ ~IsRestricted(ObjectClassName(p))
    <3>1. WriteObjCObject(p) = named \o contents
      BY <2>3 DEF WriteObjCObject, named, contents
    <3> QED
      BY <1>1, <1>3, <2>3, <3>1, QuietConcat
  <2>4. CASE ObjectType(p) \notin {"Class", "Block", "Object"}
    <3>1. WriteObjCObject(p) = Unrecognized(p)
      BY <2>4 DEF WriteObjCObject
    <3> QED
      BY <1>2, <3>1
  <2> QED
    BY <2>1, <2>2, <2>3, <2>4
<1>5. address \o WriteObjCObject(p) \in Quiet(q)
  BY <1>1, <1>4, QuietConcat
<1>6. MemoryCalls(key, p) = Object(key, address \o WriteObjCObject(p))
  BY DEF MemoryCalls, address
<1> QED
  BY <1>5, <1>6, QuietObject DEF q

(* What is in an array is words.                                             *)
LEMMA ArrayOfWords ==
    ASSUME NEW p \in Objects, ObjectClassType(p) = "Array"
    PROVE  ArrayContents(p) \in Seq(STRING)
<1>1. ~IsTagged(p) /\ ObjectType(p) = "Object"
  BY TaggedIsNoArray DEF Objects
<1>2. p \in DOMAIN Heap /\ Heap[p] \in CellType
  BY <1>1, ObjectHasClass
<1> DEFINE items == Heap[p].items
           n == IF items = <<>> THEN 0 ELSE 1
<1>3. items \in Seq(STRING)
  BY <1>2 DEF CellType
<1>4. ArrayContents(p) = <<>> \/ ArrayContents(p) = SubSeq(items, 1, n)
  BY DEF ArrayContents
<1>5. n \in Int /\ \A i \in 1 .. n : items[i] \in STRING
  <2>1. CASE items = <<>>
    BY <2>1
  <2>2. CASE items # <<>>
    <3>1. Len(items) \in Nat \ {0}
      BY <1>3, <2>2, EmptySeq
    <3>2. 1 \in 1 .. Len(items)
      BY <3>1
    <3>3. items[1] \in STRING
      BY <1>3, <3>2, ElementOfSeq
    <3>4. n = 1 /\ \A i \in 1 .. n : i = 1
      BY <2>2
    <3> QED
      BY <3>3, <3>4
  <2> QED
    BY <2>1, <2>2
<1> HIDE DEF items, n
<1>6. SubSeq(items, 1, n) \in Seq(STRING)
  BY <1>5, SubSeqProperties
<1>7. <<>> \in Seq(STRING)
  OBVIOUS
<1> QED
  BY <1>4, <1>6, <1>7

(* writeObjCObject.                                                          *)
LEMMA ContentsOutline ==
    ASSUME NEW o, Deep(o), o.depth >= 3, NEW p \in Objects, NEW l \in Int
    PROVE  ContentsCalls(p, l) \in Quiet(o)
<1>0. o \in State /\ <<>> \in Quiet(o)
  BY DeepParts, QuietNone
<1>1. CASE ObjectClassType(p) = "Array"
  <2> DEFINE array == ArrayContents(p)
             each == [i \in DOMAIN array |-> <<Memory("first_object", array[i])>>]
  <2>1. array \in Seq(STRING)
    BY <1>1, ArrayOfWords
  <2>2. ContentsCalls(p, l) = When(l > 0, FlattenSeq(each))
    BY <1>1 DEF ContentsCalls, Each
  <2> HIDE DEF array
  <2>3. \A i \in DOMAIN array : each[i] \in Quiet(o)
    <3> TAKE i \in DOMAIN array
    <3>1. i \in 1 .. Len(array)
      BY <2>1
    <3>2. array[i] \in Words
      BY <2>1, <3>1, ElementOfSeq DEF Words
    <3>3. <<Memory("first_object", array[i])>> \in Quiet(o)
      BY <3>2, StepNames, QuietMemory
    <3> QED
      BY <3>3
  <2>4. each = [i \in DOMAIN array |-> each[i]]
    OBVIOUS
  <2> HIDE DEF each
  <2>5. FlattenSeq(each) \in Quiet(o)
    BY <1>0, <2>1, <2>3, <2>4, QuietOfEach
  <2> QED
    BY <1>0, <2>2, <2>5, QuietWhen
<1>2. CASE ObjectClassType(p) = "Unknown"
  <2> DEFINE call == <<"ivars", p>>
  <2>1. call \in CallType /\ call[1] = "ivars"
    BY DEF CallType
  <2>2. ContentsCalls(p, l) = When(l > 0, <<call>>)
    BY <1>2 DEF ContentsCalls
  <2> HIDE DEF call
  <2>3. <<call>> \in Quiet(o)
    BY <2>1, QuietBelow
  <2> QED
    BY <1>0, <2>2, <2>3, QuietWhen
<1>3. CASE ObjectClassType(p) \notin {"Array", "Unknown"}
  <2>1. ContentsCalls(p, l) = <<Fields(<<"value">>)>>
    BY <1>3 DEF ContentsCalls
  <2> QED
    BY <2>1, StepNames, QuietFields
<1> QED
  BY <1>1, <1>2, <1>3

(* The ivars that are looked at have types.                                  *)
LEMMA IvarsAreIvars ==
    ASSUME NEW p \in Objects
    PROVE  IvarsOf(p) \in Seq(IvarType) /\ (~IsTagged(p) => p \in DOMAIN Heap)
<1> DEFINE ivars == IvarsOf(p)
<1>1. CASE IsTagged(p)
  BY <1>1 DEF IvarsOf
<1>2. CASE ~IsTagged(p)
  <2>1. p \in DOMAIN Heap /\ Class(IsaPointer(p)) \in ClassRecord
    BY <1>2, ObjectHasClass DEF Objects
  <2> DEFINE all == Class(IsaPointer(p)).ivars
             size == IF Len(all) < MaxIvars THEN Len(all) ELSE MaxIvars
  <2>2. all \in Seq(IvarType)
    BY <2>1 DEF ClassRecord
  <2>3. ivars = SubSeq(all, 1, size)
    BY <1>2 DEF IvarsOf, IvarList
  <2> HIDE DEF all, ivars
  <2>4. Len(all) \in Nat /\ MaxIvars \in Nat
    BY <2>2, WriterAssumption
  <2>5. size \in Int /\ size <= Len(all)
    BY <2>4
  <2> HIDE DEF size
  <2>6. \A i \in 1 .. size : all[i] \in IvarType
    <3> TAKE i \in 1 .. size
    <3>1. i \in 1 .. Len(all)
      BY <2>4, <2>5
    <3> QED
      BY <2>2, <3>1, ElementOfSeq
  <2>7. SubSeq(all, 1, size) \in Seq(IvarType)
    BY <2>5, <2>6, SubSeqProperties
  <2> QED
    BY <2>1, <2>3, <2>7 DEF ivars
<1> QED
  BY <1>1, <1>2

(* writeUnknownObjectContents.                                               *)
LEMMA IvarsOutline ==
    ASSUME NEW o, Deep(o), o.depth >= 3, NEW p \in Objects
    PROVE  IvarsCalls(p) \in Quiet(o)
<1> DEFINE ivars == IvarsOf(p)
           q == Down(o)
           WriteIvar(i) == IF ivars[i].pointer THEN <<Memory(ivars[i].name, Heap[p].ivars[i])>>
                           ELSE <<Fields(<<ivars[i].name>>)>>
           each == [i \in DOMAIN ivars |-> WriteIvar(i)]
           body == IF IsTagged(p) THEN <<Fields(<<"tagged_payload">>)>> ELSE FlattenSeq(each)
<1>0. Deep(q) /\ q.depth >= 3 /\ q \in State
  <2>1. Deep(q) /\ q.depth >= 3
    BY DeepParts
  <2> QED
    BY <2>1, DeepParts
<1>1. ivars \in Seq(IvarType) /\ (~IsTagged(p) => p \in DOMAIN Heap)
  BY IvarsAreIvars
<1>2. IvarsCalls(p) = Object("ivars", body)
  BY DEF IvarsCalls
<1> HIDE DEF ivars, q
<1>3. body \in Quiet(q)
  <2>1. CASE IsTagged(p)
    <3>1. <<Fields(<<"tagged_payload">>)>> \in Quiet(q)
      BY <1>0, StepNames, QuietFields
    <3> QED
      BY <2>1, <3>1
  <2>2. CASE ~IsTagged(p)
    <3>1. \A i \in DOMAIN ivars : each[i] \in Quiet(q)
      <4> TAKE i \in DOMAIN ivars
      <4>1. i \in 1 .. Len(ivars) /\ i \in Nat
        BY <1>1
      <4>2. ivars[i] \in IvarType
        BY <1>1, <4>1, ElementOfSeq
      <4>3. ivars[i].name \in Names
        BY <4>2 DEF IvarType, Names
      <4>4. Heap[p].ivars[i] \in Words
        BY <1>1, <2>2, <4>1 DEF Words
      <4>5. <<Memory(ivars[i].name, Heap[p].ivars[i])>> \in Quiet(q)
        BY <1>0, <4>3, <4>4, QuietMemory
      <4>6. <<ivars[i].name>> \in Seq(Names)
        BY <4>3
      <4>7. <<Fields(<<ivars[i].name>>)>> \in Quiet(q)
        BY <1>0, <4>6, QuietFields
      <4> QED
        BY <4>5, <4>7
    <3>2. each = [i \in DOMAIN ivars |-> each[i]]
      OBVIOUS
    <3> HIDE DEF each
    <3>3. FlattenSeq(each) \in Quiet(q)
      BY <1>0, <1>1, <3>1, <3>2, QuietOfEach
    <3> QED
      BY <2>2, <3>3
  <2> QED
    BY <2>1, <2>2
<1> HIDE DEF body
<1> QED
  BY <1>2, <1>3, StepNames, QuietObject DEF q

(* Calls in a row may be grouped either way.                                 *)
LEMMA CallsInTurn == \A s, t, u \in Seq(CallType) : (s \o t) \o u = s \o (t \o u)
  BY ConcatAssociative

(* A container of a text in which decoding breaks off.                       *)
LEMMA BrokenOutline ==
    ASSUME NEW o, Deep(o), o.depth >= 3, NEW key \in Names, NEW n \in 1 .. Nesting
    PROVE  BrokenCalls(key, n, TRUE) \in Quiet(o)
<1> DEFINE q == Down(o)
           call == <<"broken", "any", n - 1, TRUE>>
           begin == <<Begin(key)>>
           fields == <<Fields(<<"any">>)>>
           broken == <<call>>
           end == <<End>>
<1>1. Deep(q) /\ q.depth >= 3
  BY DeepParts
<1>2. call \in CallType /\ call[1] = "broken" /\ call[4]
  <2>1. n - 1 \in 0 .. Nesting
    BY DeepestInt
  <2> QED
    BY <2>1, BrokenNames DEF CallType
<1> HIDE DEF q
<1>3. BrokenCalls(key, n, TRUE) = ((begin \o fields) \o broken) \o end
  <2>1. begin \o fields = <<Begin(key), Fields(<<"any">>)>>
    BY Pair
  <2>2. <<Begin(key), Fields(<<"any">>)>> \o broken = <<Begin(key), Fields(<<"any">>), call>>
    BY Triple
  <2> QED
    BY <2>1, <2>2 DEF BrokenCalls, When
<1> HIDE DEF call
<1>4. fields \in Quiet(q)
  BY <1>1, StepNames, QuietFields
<1>5. broken \in Quiet(q)
  BY <1>1, <1>2, QuietBelow
<1>6. begin \in Seq(CallType)
  BY BeginEnd
<1>7. Object(key, fields \o broken) = (begin \o (fields \o broken)) \o end
  BY DEF Object
<1> HIDE DEF begin, fields, broken, end
<1>8. fields \o broken \in Quiet(q)
  BY <1>4, <1>5, QuietConcat
<1>9. (begin \o fields) \o broken = begin \o (fields \o broken)
  <2>1. fields \in Seq(CallType) /\ broken \in Seq(CallType)
    BY <1>4, <1>5 DEF Quiet, Piece
  <2> QED
    BY <1>6, <2>1, CallsInTurn
<1>10. Object(key, fields \o broken) \in Quiet(o)
  BY <1>8, QuietObject DEF q
<1> QED
  BY <1>3, <1>7, <1>9, <1>10

(* addJSONElement, with the end of the text's container.                     *)
LEMMA JSONOutline ==
    ASSUME NEW o, Deep(o), o.depth >= 3, NEW key \in Names, NEW text \in Texts
    PROVE  JSONCalls(key, text, TRUE) \in Quiet(o)
<1>1. CASE text = "object"
  <2>1. Object(key, <<Fields(<<"any">>)>>) \in Quiet(o)
    BY StepNames, QuietElements
  <2>2. <<Begin(key)>> \o <<Fields(<<"any">>)>> = <<Begin(key), Fields(<<"any">>)>>
    BY Pair
  <2>3. JSONCalls(key, text, TRUE) = Object(key, <<Fields(<<"any">>)>>)
    BY <1>1, <2>2 DEF JSONCalls, When, Object
  <2> QED
    BY <2>1, <2>3
<1>2. CASE text = "scalar"
  <2>1. <<key>> \in Seq(Names)
    OBVIOUS
  <2>2. <<Fields(<<key>>)>> \in Quiet(o)
    BY <2>1, QuietFields
  <2> QED
    BY <1>2, <2>2 DEF JSONCalls
<1>3. CASE text \notin {"object", "scalar"}
  <2> DEFINE call == <<"broken", key, Nesting, TRUE>>
             error == InvalidJSON(key)
  <2>1. call \in CallType /\ call[1] = "broken" /\ call[4]
    <3>1. Nesting \in 0 .. Nesting
      BY DeepestInt
    <3> QED
      BY <3>1 DEF CallType
  <2>2. JSONCalls(key, text, TRUE) = <<call>> \o error
    BY <1>3 DEF JSONCalls
  <2>3. error \in Quiet(o)
    BY StepNames, QuietElements DEF InvalidJSON
  <2> HIDE DEF call, error
  <2>4. <<call>> \in Quiet(o)
    BY <2>1, QuietBelow
  <2> QED
    BY <2>2, <2>3, <2>4, QuietConcat
<1> QED
  BY <1>1, <1>2, <1>3

(* A call right below the root begins the user's section.                    *)
InUser == Inside(2, "user")
UserNoted == {<<"root", "user">>}

(* There is one place in the root.                                           *)
LEMMA RootPlace ==
    /\ InRoot \in State /\ InRoot.begun /\ InRoot.depth = 1 /\ InRoot.section = "root"
    /\ InUser \in State /\ InUser.begun /\ InUser.depth = 2 /\ InUser.section = "user"
    /\ Deep(InUser)
    /\ \A o \in State : o.begun /\ o.depth = 1 => o = InRoot
    /\ \A o \in State : o.begun /\ o.depth = 0 => o = Finish
<1>1. /\ InRoot \in State /\ InRoot.begun /\ InRoot.depth = 1 /\ InRoot.section = "root"
  BY Places DEF InRoot, Inside
<1>2. /\ InUser \in State /\ InUser.begun /\ InUser.depth = 2 /\ InUser.section = "user"
      /\ Deep(InUser)
  <2>1. "user" \in Names /\ "user" # "crash"
    BY EmbeddedNames
  <2>2. Deep(InUser)
    BY <2>1, SectionDeep DEF InUser
  <2> QED
    BY <2>2, DeepParts DEF InUser, Inside
<1>3. ASSUME NEW o \in State, o.begun, o.depth \in {0, 1}
      PROVE  o = Inside(o.depth, "root")
  <2>1. /\ o = [begun |-> o.begun, depth |-> o.depth, section |-> o.section]
        /\ o.begun = TRUE /\ o.section = "root"
    BY <1>3, PlaceParts
  <2> QED
    BY <2>1 DEF Inside
<1>4. ASSUME NEW o \in State, o.begun, o.depth = 1 PROVE o = InRoot
  BY <1>3, <1>4 DEF InRoot
<1>5. ASSUME NEW o \in State, o.begun, o.depth = 0 PROVE o = Finish
  BY <1>3, <1>5 DEF Finish
<1> QED
  BY <1>1, <1>2, <1>4, <1>5

(* Every call that opens one container for the user's section.               *)
LEMMA OpensUser ==
    ASSUME NEW call \in CallType, call[1] \in {"begin", "user", "json"}, Climb(call) = 1,
           Key(call) = "user", Permitted(InRoot, call)
    PROVE  After(InRoot, call) = InUser /\ Noted(InRoot, call) = UserNoted
           /\ <<call>> \in Piece(InRoot, InUser, UserNoted)
<1>0. InRoot \in State /\ InRoot.depth = 1
  BY RootPlace
<1>1. After(InRoot, call) = InUser
  <2>1. 1 + 1 = 2 /\ ~(2 <= 1) /\ call[1] # "close"
    OBVIOUS
  <2> QED
    BY <1>0, <2>1 DEF After, InUser
<1>2. Noted(InRoot, call) = UserNoted
  <2>1. CallNames(call) = {"user"}
    BY DEF CallNames
  <2>2. Noted(InRoot, call) = {"root"} \X {"user"}
    BY <1>0, <2>1 DEF Noted
  <2> QED
    BY <2>2 DEF UserNoted
<1>3. <<call>> \in Piece(InRoot, After(InRoot, call), Noted(InRoot, call))
  BY <1>0, PieceOne
<1> QED
  BY <1>1, <1>2, <1>3

(* The user's section, if the text in it is an object or an array.           *)
LEMMA UserOutline ==
    /\ After(InRoot, <<"user">>) = InUser /\ Noted(InRoot, <<"user">>) = UserNoted
    /\ \A text \in {"NULL", "object"} : UserCalls(text) \in Piece(InRoot, InUser, UserNoted)
<1>0. InRoot.depth = 1 /\ InRoot.begun /\ InUser \in State /\ InUser.begun /\ InUser.depth >= 1
  BY RootPlace
<1>1. After(InRoot, <<"user">>) = InUser /\ Noted(InRoot, <<"user">>) = UserNoted
  <2> DEFINE call == <<"user">>
  <2>1. call \in CallType /\ call[1] = "user"
    BY DEF CallType
  <2> HIDE DEF call
  <2>2. Climb(call) = 1 /\ Key(call) = "user" /\ Permitted(InRoot, call)
    BY <1>0, <2>1 DEF Climb, Key, Permitted
  <2>3. After(InRoot, call) = InUser /\ Noted(InRoot, call) = UserNoted
    BY <2>1, <2>2, OpensUser
  <2> QED
    BY <2>3 DEF call
<1>2. UserCalls("NULL") \in Piece(InRoot, InUser, UserNoted)
  <2> DEFINE call == Begin("user")
  <2>1. call \in CallType /\ call[1] = "begin" /\ call[2] = "user" /\ Climb(call) = 1
    BY EmbeddedNames, BeginEnd, ClimbOf DEF Begin
  <2> HIDE DEF call
  <2>2. Key(call) = "user" /\ Permitted(InRoot, call)
    BY <1>0, <2>1 DEF Key, Permitted
  <2>3. <<call>> \in Piece(InRoot, InUser, UserNoted)
    BY <2>1, <2>2, OpensUser
  <2> QED
    BY <2>3 DEF call, UserCalls
<1>3. UserCalls("object") \in Piece(InRoot, InUser, UserNoted)
  <2> DEFINE call == <<"json", "user", "object", FALSE>>
  <2>1. call \in CallType /\ call[1] = "json" /\ call[2] = "user" /\ call[3] = "object"
        /\ call[4] = FALSE
    BY EmbeddedNames DEF CallType, Texts
  <2> HIDE DEF call
  <2>2. Climb(call) = 1 /\ Key(call) = "user" /\ Permitted(InRoot, call)
    BY <1>0, <2>1 DEF Climb, Key, Permitted
  <2>3. <<call>> \in Piece(InRoot, InUser, UserNoted)
    BY <2>1, <2>2, OpensUser
  <2>4. <<call>> \o Flush \in Piece(InRoot, InUser, UserNoted)
    BY <1>0, <2>3, ThenFlush
  <2> QED
    BY <2>4 DEF call, UserCalls
<1> QED
  BY <1>1, <1>2, <1>3

(* The text that the user's section is.                                      *)
LEMMA UserTextOutline ==
    LET call == <<"json", "user", "object", FALSE>>
    IN  /\ After(InRoot, call) = InUser /\ Noted(InRoot, call) = UserNoted
        /\ JSONCalls("user", "object", FALSE) \in Piece(InRoot, InUser, UserNoted)
<1>0. InRoot.depth = 1 /\ InRoot.begun
  BY RootPlace
<1> DEFINE call == <<"json", "user", "object", FALSE>>
<1>1. After(InRoot, call) = InUser /\ Noted(InRoot, call) = UserNoted
  <2>1. call \in CallType /\ call[1] = "json" /\ call[2] = "user" /\ call[3] = "object"
        /\ call[4] = FALSE
    BY EmbeddedNames DEF CallType, Texts
  <2> HIDE DEF call
  <2>2. Climb(call) = 1 /\ Key(call) = "user" /\ Permitted(InRoot, call)
    BY <1>0, <2>1 DEF Climb, Key, Permitted
  <2> QED
    BY <2>1, <2>2, OpensUser
<1>2. UserCalls("NULL") \in Piece(InRoot, InUser, UserNoted)
  BY UserOutline
<1>3. <<Begin("user")>> \in Piece(InRoot, InUser, UserNoted)
  BY <1>2 DEF UserCalls
<1>4. <<Fields(<<"any">>)>> \in Piece(InUser, InUser, {})
  BY RootPlace, StepNames, QuietFields DEF Quiet
<1>5. <<Begin("user")>> \o <<Fields(<<"any">>)>> \in Piece(InRoot, InUser, UserNoted \cup {})
  BY <1>3, <1>4, PieceConcat
<1>6. JSONCalls("user", "object", FALSE) = <<Begin("user")>> \o <<Fields(<<"any">>)>>
  <2> DEFINE a == <<Begin("user")>>
             b == <<Fields(<<"any">>)>>
  <2>1. a \o b = <<Begin("user"), Fields(<<"any">>)>>
    BY Pair
  <2>2. a \o b \in Seq(CallType)
    BY <1>5 DEF Piece
  <2> HIDE DEF a, b
  <2>3. (a \o b) \o <<>> = a \o b
    BY <2>2, ConcatEmptySeq
  <2>4. JSONCalls("user", "object", FALSE) = (a \o b) \o <<>>
    BY <2>1 DEF JSONCalls, When
  <2> QED
    BY <2>3, <2>4 DEF a, b
<1>7. UserNoted \cup {} = UserNoted
  OBVIOUS
<1> QED
  BY <1>1, <1>5, <1>6, <1>7

(* A text that is one container in the root, and not the crash section.      *)
LEMMA TokensOutline ==
    ASSUME NEW top \in Nat, NEW s \in Seq(TokenType), NEW f, Levels(s, top, f),
           NEW n, n = Len(s), n \in Nat \ {0}, f[0] = 1, f[n] = 1,
           StaysAbove(f, n, 2),
           NEW key \in Names, s[1] = Begin(key), key # "crash"
    PROVE  s \in Piece(InRoot, InRoot, {<<"root", key>>})
<1> DEFINE h == [i \in 0 .. n |-> IF f[i] <= 1 THEN InRoot ELSE Inside(f[i], key)]
<1>1. /\ f \in [0 .. n -> 0 .. top] /\ \A i \in 1 .. n : f[i] = f[i - 1] + Rise(s[i])
      /\ \A i \in 0 .. n : f[i] \in Int
  <2>1. f \in [0 .. n -> 0 .. top] /\ \A i \in 1 .. n : f[i] = f[i - 1] + Rise(s[i])
    BY DEF Levels
  <2>2. \A i \in 0 .. n : f[i] \in 0 .. top
    BY <2>1
  <2> QED
    BY <2>1, <2>2
<1>2. /\ InRoot \in State /\ InRoot.begun /\ InRoot.depth = 1 /\ InRoot.section = "root"
  BY RootPlace
<1>3. \A i \in 1 .. n : s[i] \in TokenType /\ s[i] \in CallType
                        /\ s[i][1] \in {"begin", "fields", "end"}
  BY ElementOfSeq, TokenIsCall
<1>4. \A i \in 0 .. n : h[i] = IF f[i] <= 1 THEN InRoot ELSE Inside(f[i], key)
  OBVIOUS
<1>5. h \in [0 .. n -> State]
  <2>1. ASSUME NEW i \in 0 .. n
        PROVE  (IF f[i] <= 1 THEN InRoot ELSE Inside(f[i], key)) \in State
    <3>1. f[i] \in Int
      BY <1>1
    <3> QED
      BY <1>2, <3>1, Places
  <2> QED
    BY <2>1
<1> HIDE DEF h
<1>6. ASSUME NEW i \in 1 .. n
      PROVE  /\ h[i - 1].begun /\ h[i - 1].depth = f[i - 1] /\ f[i - 1] >= 1 /\ f[i - 1] \in Int
             /\ f[i - 1] = 1 => i = 1
             /\ f[i - 1] >= 2 => h[i - 1].section = key
  <2>1. i - 1 \in 0 .. n
    OBVIOUS
  <2>2. i = 1 \/ i - 1 \in 1 .. n - 1
    OBVIOUS
  <2>3. f[i - 1] \in Int /\ f[i - 1] >= 1 /\ (f[i - 1] = 1 => i = 1)
    BY <1>1, <2>1, <2>2 DEF StaysAbove
  <2>4. CASE f[i - 1] = 1
    <3>1. h[i - 1] = InRoot /\ ~(1 >= 2)
      BY <1>4, <2>1, <2>4
    <3> QED
      BY <1>2, <2>3, <2>4, <3>1
  <2>5. CASE f[i - 1] # 1
    <3>1. ~(f[i - 1] <= 1)
      BY <2>3, <2>5
    <3>2. h[i - 1] = Inside(f[i - 1], key)
      BY <1>4, <2>1, <3>1
    <3> QED
      BY <2>3, <2>5, <3>2 DEF Inside
  <2> QED
    BY <2>4, <2>5
<1>7. ASSUME NEW i \in 1 .. n
      PROVE  Permitted(h[i - 1], s[i])
  BY <1>3, <1>6 DEF Permitted
<1>8. ASSUME NEW i \in 1 .. n
      PROVE  h[i] = After(h[i - 1], s[i])
  <2>0. i \in 0 .. n /\ f[i] \in Int /\ f[i] = f[i - 1] + Climb(s[i]) /\ s[i][1] # "close"
    <3>1. i \in 0 .. n
      OBVIOUS
    <3>2. s[i][1] # "close" /\ Climb(s[i]) = Rise(s[i])
      BY <1>3, ClimbOf
    <3> QED
      BY <1>1, <3>1, <3>2
  <2>1. After(h[i - 1], s[i]) = Inside(f[i], IF f[i] <= 1 THEN "root"
                                            ELSE IF f[i - 1] = 1 THEN Key(s[i]) ELSE h[i - 1].section)
    BY <1>6, <2>0 DEF After
  <2>2. CASE f[i] <= 1
    <3>1. f[i] = 1
      <4>1. i = n \/ i \in 1 .. n - 1
        OBVIOUS
      <4> QED
        BY <2>0, <2>2, <4>1 DEF StaysAbove
    <3>2. h[i] = InRoot
      BY <1>4, <2>0, <2>2
    <3> QED
      BY <2>1, <2>2, <3>1, <3>2 DEF InRoot
  <2>3. CASE ~(f[i] <= 1)
    <3>1. h[i] = Inside(f[i], key)
      BY <1>4, <2>0, <2>3
    <3>2. (IF f[i - 1] = 1 THEN Key(s[i]) ELSE h[i - 1].section) = key
      <4>1. CASE f[i - 1] = 1
        <5>1. i = 1 /\ s[i] = Begin(key)
          BY <1>6, <4>1
        <5>2. Key(Begin(key)) = key
          BY DEF Key, Begin
        <5> QED
          BY <4>1, <5>1, <5>2
      <4>2. CASE f[i - 1] # 1
        <5>1. f[i - 1] >= 2
          BY <1>6, <4>2
        <5> QED
          BY <1>6, <4>2, <5>1
      <4> QED
        BY <4>1, <4>2
    <3> QED
      BY <2>1, <2>3, <3>1, <3>2
  <2> QED
    BY <2>2, <2>3
<1>9. Path(s, h)
  BY <1>5, <1>7, <1>8 DEF Path
<1>10. \A x : x \in Noticed(s, h) <=> x \in {<<"root", key>>}
  <2> TAKE x
  <2>1. x \in Noticed(s, h) <=> \E i \in 1 .. n : x \in Noted(h[i - 1], s[i])
    BY NoticedNames
  <2>2. \A i \in 1 .. n : i # 1 => Noted(h[i - 1], s[i]) = {}
    <3> SUFFICES ASSUME NEW i \in 1 .. n, i # 1 PROVE Noted(h[i - 1], s[i]) = {}
      OBVIOUS
    <3>1. h[i - 1].depth # 1 /\ h[i - 1].section # "crash"
      BY <1>6
    <3> QED
      BY <3>1 DEF Noted
  <2>3. 1 \in 1 .. n /\ Noted(h[1 - 1], s[1]) = {<<"root", key>>}
    <3>1. 1 \in 1 .. n /\ 1 - 1 = 0
      OBVIOUS
    <3>2. h[1 - 1].depth = 1
      BY <1>6, <3>1
    <3>3. CallNames(s[1]) = {key}
      <4>1. CallNames(Begin(key)) = {key}
        BY DEF CallNames, Begin, Key
      <4> QED
        BY <4>1
    <3>4. Noted(h[1 - 1], s[1]) = {"root"} \X {key}
      BY <3>2, <3>3 DEF Noted
    <3> QED
      BY <3>1, <3>4
  <2> QED
    BY <2>1, <2>2, <2>3
<1>11. Noticed(s, h) = {<<"root", key>>}
  BY <1>10
<1>12. h[0] = InRoot /\ h[n] = InRoot
  <2>1. 0 \in 0 .. n /\ n \in 0 .. n /\ 1 <= 1
    OBVIOUS
  <2> QED
    BY <1>4, <2>1
<1>13. s \in Seq(CallType)
  BY <1>3, SeqDef
<1> QED
  BY <1>9, <1>11, <1>12, <1>13 DEF Piece

(* What the recrash report embeds is a member of its root.                   *)
LEMMA OldOutline ==
    ASSUME WriterInv, NEW n \in StopsAfter(FirstObject(old)),
           SubSeq(FirstObject(old), 1, n) # <<>>
    PROVE  EmbeddedText(SubSeq(FirstObject(old), 1, n))
               \in Piece(InRoot, InRoot, {<<"root", "recrash_report">>})
<1>0. old \in Seq(TokenType)
  BY DEF WriterInv, WriterTypes
<1>3. /\ old # <<>> /\ n \in 1 .. Len(old)
      /\ SubSeq(FirstObject(old), 1, n) = SubSeq(old, 1, n)
      /\ \A j \in 1 .. n - 1 : OpenAfter(old, j) # 0
  BY <1>0, StoppedReport
<1>1. /\ old \in Seq(TokenType) /\ old[1][1] = "begin" /\ \E h \in Int : Balanced(old, Top, 0, h)
      /\ Top \in Nat
  BY <1>3, TopNat DEF WriterInv, WriterTypes, OldBalanced, BeginFirst
<1>2. PICK g : Levels(old, Top, g) /\ g[0] = 0
  BY <1>1 DEF Balanced
<1> DEFINE report == SubSeq(FirstObject(old), 1, n)
           f == [i \in 0 .. n |-> g[i]]
<1>4. n \in 0 .. Len(old) /\ n \in Nat /\ n # 0 /\ 1 \in 1 .. n /\ 0 \in 0 .. n /\ n \in 0 .. n
  BY <1>1, <1>3, LenProperties
<1>5. /\ report \in Seq(TokenType) /\ Len(report) = n
      /\ \A i \in 1 .. n : report[i] = old[i]
      /\ Levels(report, Top, f)
  BY <1>1, <1>2, <1>3, <1>4, BalancedPrefix
<1>6. f[0] = 0
  BY <1>2, <1>4
<1>7. StaysAbove(f, Len(report), 1)
  <2> SUFFICES ASSUME NEW j \in 1 .. n - 1 PROVE f[j] >= 1
    BY <1>5 DEF StaysAbove
  <2>1. j \in 0 .. Len(old) /\ j \in 0 .. n
    BY <1>4
  <2>2. OpenAfter(old, j) = g[j]
    BY <1>1, <1>2, <2>1, OpenAfterIsLevel
  <2>3. g[j] \in 0 .. Top
    BY <1>2, <2>1 DEF Levels
  <2> QED
    BY <1>1, <1>3, <2>1, <2>2, <2>3
<1> HIDE DEF f, report
<1>8. report # <<>> /\ report[1][1] = "begin"
  BY <1>1, <1>4, <1>5
<1> DEFINE E == EmbeddedText(report)
           m == f[n]
<1>9. PICK e : /\ Levels(E, Top + 1, e) /\ e[0] = 1 /\ e[Len(E)] = 1
               /\ StaysAbove(e, Len(E), 2)
  BY <1>1, <1>5, <1>6, <1>7, <1>8, EmbeddedRise
<1>10. /\ m \in 0 .. Top /\ Len(E) = n + m /\ E \in Seq(TokenType)
       /\ \A i \in 1 .. n + m :
              E[i] = IF i = 1 THEN Begin("recrash_report") ELSE IF i <= n THEN report[i] ELSE End
  BY <1>1, <1>5, <1>6, <1>8, EmbeddedTokens
<1> HIDE DEF E, m
<1>11. /\ Len(E) \in Nat \ {0} /\ E[1] = Begin("recrash_report")
       /\ Top + 1 \in Nat /\ "recrash_report" # "crash"
  BY <1>1, <1>4, <1>10
<1>12. E \in Piece(InRoot, InRoot, {<<"root", "recrash_report">>})
  BY <1>9, <1>10, <1>11, EmbeddedNames, TokensOutline
<1> QED
  BY <1>12 DEF E, report

(* The level at each position of a text, from its beginning.                 *)
Depths(s, d) ==
    /\ d \in [0 .. Len(s) -> Nat] /\ d[0] = 0
    /\ \A i \in 1 .. Len(s) : d[i] = d[i - 1] + Rise(s[i])

(* The beginnings before a token that are one level up.                      *)
Around(s, d, k) == {i \in 1 .. k - 1 : s[i][1] = "begin" /\ d[i - 1] = d[k - 1] - 1}

(* That is the last of them.                                                 *)
LastOf(S, p) == p \in S /\ \A j \in S : j <= p

(* Below the root there is one.                                              *)
LEMMA AroundSome ==
    ASSUME NEW s \in Seq(TokenType), NEW d, Depths(s, d), NEW k \in 1 .. Len(s), d[k - 1] # 0
    PROVE  Around(s, d, k) # {}
<1> DEFINE Some(j, h) == \E i \in 1 .. j : s[i][1] = "begin" /\ d[i - 1] = h
           All(j) == \A h \in Nat : h < d[j] => Some(j, h)
           S == {j \in Nat : j <= Len(s) => All(j)}
<1>0. /\ Len(s) \in Nat /\ d \in [0 .. Len(s) -> Nat] /\ d[0] = 0
      /\ \A i \in 1 .. Len(s) : d[i] = d[i - 1] + Rise(s[i])
  BY DEF Depths
<1>1. 0 \in S
  BY <1>0
<1>2. ASSUME NEW j \in S PROVE j + 1 \in S
  <2>0. j \in Nat /\ (j <= Len(s) => All(j))
    OBVIOUS
  <2> HIDE DEF All
  <2> SUFFICES ASSUME j + 1 <= Len(s) PROVE All(j + 1)
    BY <2>0
  <2>1. /\ j <= Len(s) /\ j + 1 \in 1 .. Len(s) /\ j \in 0 .. Len(s) /\ (j + 1) - 1 = j
        /\ j + 1 \in 0 .. Len(s)
    BY <1>0, <2>0
  <2>2. All(j) /\ d[j] \in Nat /\ d[j + 1] \in Nat /\ d[j + 1] = d[j] + Rise(s[j + 1])
    BY <1>0, <2>0, <2>1
  <2>3. s[j + 1] \in TokenType
    BY <2>1, ElementOfSeq
  <2>4. Rise(s[j + 1]) = IF s[j + 1][1] = "begin" THEN 1 ELSE IF s[j + 1][1] = "end" THEN -1 ELSE 0
    BY <2>3, TokenIsCall
  <2>5. ASSUME NEW h \in Nat, h < d[j + 1] PROVE Some(j + 1, h)
    <3>1. CASE h < d[j]
      <4>1. Some(j, h)
        BY <2>2, <3>1 DEF All
      <4>2. \A i \in 1 .. j : i \in 1 .. j + 1
        BY <2>0
      <4> QED
        BY <4>1, <4>2
    <3>2. CASE ~(h < d[j])
      <4>1. s[j + 1][1] = "begin" /\ d[j] = h
        BY <2>2, <2>4, <2>5, <3>2
      <4>2. j + 1 \in 1 .. j + 1
        BY <2>0
      <4> QED
        BY <2>1, <4>1, <4>2
    <3> QED
      BY <3>1, <3>2
  <2> QED
    BY <2>5 DEF All
<1>3. S \in SUBSET Nat
  OBVIOUS
<1> HIDE DEF S
<1>4. S = Nat
  BY <1>1, <1>2, <1>3, SetInduction
<1>5. k - 1 \in Nat /\ k - 1 <= Len(s) /\ k - 1 \in 0 .. Len(s)
  BY <1>0
<1>6. All(k - 1) /\ d[k - 1] \in Nat
  BY <1>0, <1>4, <1>5 DEF S
<1>7. d[k - 1] - 1 \in Nat /\ d[k - 1] - 1 < d[k - 1]
  BY <1>6
<1>8. Some(k - 1, d[k - 1] - 1)
  BY <1>6, <1>7
<1> QED
  BY <1>8 DEF Around

(* And a last one.                                                           *)
LEMMA Greatest ==
    ASSUME NEW n \in Nat, NEW S, S \subseteq 1 .. n, S # {}
    PROVE  \E p : LastOf(S, p)
<1> DEFINE T == {n - i : i \in S}
<1>1. T \in SUBSET Nat /\ T # {}
  <2>1. \A i \in S : n - i \in Nat
    OBVIOUS
  <2> QED
    BY <2>1
<1> HIDE DEF T
<1>2. PICK m \in T : \A j \in T : m <= j
  BY <1>1, Least
<1>3. PICK p \in S : m = n - p
  BY DEF T
<1>4. ASSUME NEW j \in S PROVE j <= p
  <2>1. n - j \in T
    BY DEF T
  <2>2. n - p <= n - j /\ j \in Int /\ p \in Int
    BY <1>2, <1>3, <2>1
  <2> QED
    BY <2>2
<1> QED
  BY <1>4 DEF LastOf

(* It is the parent that the report's reader finds.                          *)
LEMMA ParentsFound ==
    ASSUME NEW s \in Seq(TokenType), NEW d, Depths(s, d), NEW k \in 1 .. Len(s)
    PROVE  IF d[k - 1] = 0 THEN Parents(s)[k] = 0 ELSE LastOf(Around(s, d, k), Parents(s)[k])
<1> DEFINE levels == <<>> \o [i \in DOMAIN s |-> OpenAfter(s, i - 1)]
           around(j) == {i \in 1 .. j - 1 : s[i][1] = "begin" /\ levels[i] = levels[j] - 1}
           parent(j) == IF around(j) = {} THEN 0
                        ELSE CHOOSE i \in around(j) : \A m \in around(j) : m <= i
<1>0. /\ Len(s) \in Nat /\ d \in [0 .. Len(s) -> Nat] /\ d[0] = 0 /\ DOMAIN s = 1 .. Len(s)
      /\ \A i \in 1 .. Len(s) : d[i] = d[i - 1] + Rise(s[i])
  BY LenProperties DEF Depths
<1>1. \A i \in 1 .. Len(s) : OpenAfter(s, i - 1) = d[i - 1] /\ d[i - 1] \in Nat
  <2>1. d \in [0 .. Len(s) -> Int]
    BY <1>0
  <2>2. \A i \in 1 .. Len(s) : i - 1 \in 0 .. Len(s)
    BY <1>0
  <2>3. \A i \in 0 .. Len(s) : OpenAfter(s, i) = d[i]
    BY <1>0, <2>1, OpenAfterCounts
  <2> QED
    BY <1>0, <2>2, <2>3
<1>2. \A i \in 1 .. Len(s) : levels[i] = d[i - 1]
  <2> DEFINE f == [i \in 1 .. Len(s) |-> OpenAfter(s, i - 1)]
  <2>1. f \in [1 .. Len(s) -> Int]
    BY <1>1
  <2>2. \A i \in 1 .. Len(s) : f[i] = d[i - 1]
    BY <1>1
  <2> HIDE DEF f
  <2>3. f \in Seq(Int) /\ Len(f) = Len(s)
    BY <1>0, <2>1, IsASeq, LenProperties
  <2>4. <<>> \o f = f
    BY <2>3, ConcatEmptySeq
  <2>5. levels = <<>> \o f
    BY <1>0 DEF f
  <2> QED
    BY <2>2, <2>4, <2>5
<1>3. Parents(s)[k] = parent(k)
  <2> DEFINE f == [j \in 1 .. Len(s) |-> parent(j)]
  <2>1. f \in Seq({parent(j) : j \in 1 .. Len(s)})
    <3> HIDE DEF parent
    <3>1. f \in [1 .. Len(s) -> {parent(j) : j \in 1 .. Len(s)}]
      OBVIOUS
    <3> QED
      BY <1>0, <3>1, IsASeq
  <2>2. f[k] = parent(k)
    OBVIOUS
  <2>3. Parents(s) = <<>> \o f
    BY <1>0, Zenon DEF Parents
  <2> HIDE DEF f
  <2>4. <<>> \o f = f
    BY <2>1, ConcatEmptySeq
  <2> QED
    BY <2>2, <2>3, <2>4
<1>4. around(k) = Around(s, d, k)
  <2>1. \A i \in 1 .. k - 1 : i \in 1 .. Len(s)
    BY <1>0
  <2> HIDE DEF levels
  <2> QED
    BY <1>2, <2>1 DEF Around
<1>5. parent(k) = IF Around(s, d, k) = {} THEN 0
                  ELSE CHOOSE i \in Around(s, d, k) : \A m \in Around(s, d, k) : m <= i
  <2> HIDE DEF around
  <2> QED
    BY <1>4
<1> HIDE DEF levels, around, parent
<1>6. CASE d[k - 1] = 0
  <2>1. Around(s, d, k) = {}
    <3>1. ASSUME NEW i \in 1 .. k - 1 PROVE d[i - 1] # d[k - 1] - 1
      <4>1. i \in 1 .. Len(s)
        BY <1>0
      <4> QED
        BY <1>1, <1>6, <4>1
    <3> QED
      BY <3>1 DEF Around
  <2> QED
    BY <1>3, <1>5, <1>6, <2>1
<1>7. CASE d[k - 1] # 0
  <2>1. Around(s, d, k) # {}
    BY <1>7, AroundSome
  <2>2. Around(s, d, k) \subseteq 1 .. k - 1 /\ k - 1 \in Nat
    BY DEF Around
  <2>3. \E p : LastOf(Around(s, d, k), p)
    BY <2>1, <2>2, Greatest
  <2>4. \E p \in Around(s, d, k) : \A m \in Around(s, d, k) : m <= p
    BY <2>3 DEF LastOf
  <2>5. LastOf(Around(s, d, k), parent(k))
    BY <1>5, <2>1, <2>4 DEF LastOf
  <2> QED
    BY <1>3, <1>7, <2>5
<1> QED
  BY <1>6, <1>7

(* A text whose tokens are all permitted, from its beginning to its end.     *)
Run(s, g) == s \in Seq(TokenType) /\ Path(s, g) /\ g[0] = Start /\ g[Len(s)] = Finish

DepthsOf(s, g) == [i \in 0 .. Len(s) |-> g[i].depth]

(* It is one container, and after its beginning it is in it.                 *)
LEMMA RunParts ==
    ASSUME NEW s, NEW g, Run(s, g)
    PROVE  /\ Len(s) \in Nat /\ Len(s) > 1 /\ DOMAIN s = 1 .. Len(s)
           /\ \A i \in 1 .. Len(s) :
                  /\ s[i] \in TokenType /\ Permitted(g[i - 1], s[i]) /\ g[i] = After(g[i - 1], s[i])
                  /\ g[i - 1] \in State /\ g[i] \in State
           /\ s[1] = Begin("root")
           /\ \A k \in 1 .. Len(s) - 1 : g[k].depth >= 1
           /\ g[0].depth = 0 /\ g[Len(s)].depth = 0
           /\ Depths(s, DepthsOf(s, g))
           /\ \A k \in 0 .. Len(s) : OpenAfter(s, k) = g[k].depth /\ DepthsOf(s, g)[k] = g[k].depth
<1> DEFINE n == Len(s)
           d == DepthsOf(s, g)
<1>1. /\ n \in Nat /\ DOMAIN s = 1 .. n /\ \A i \in 1 .. n : s[i] \in TokenType
  BY ElementOfSeq, LenProperties DEF Run
<1>2. /\ g \in [0 .. n -> State] /\ g[0] = Start /\ g[n] = Finish
      /\ \A i \in 1 .. n : Permitted(g[i - 1], s[i]) /\ g[i] = After(g[i - 1], s[i])
  BY DEF Run, Path
<1>3. g[0].depth = 0 /\ g[n].depth = 0 /\ ~g[0].begun /\ g[n].begun
  BY <1>2 DEF Start, Finish, Inside
<1> HIDE DEF n, d
<1>4. n # 0
  BY <1>3
<1>5. \A i \in 1 .. n : g[i - 1] \in State /\ g[i] \in State
  BY <1>1, <1>2
<1>6. \A i \in 1 .. n : g[i].depth = g[i - 1].depth + Rise(s[i]) /\ g[i].begun
  <2> TAKE i \in 1 .. n
  <2>1. s[i][1] # "close" /\ Climb(s[i]) = Rise(s[i])
    BY <1>1, TokenIsCall, ClimbOf
  <2> DEFINE o == g[i - 1]
             token == s[i]
  <2>2. g[i] = After(o, token) /\ token[1] # "close" /\ Climb(token) = Rise(token)
    BY <1>2, <2>1
  <2> HIDE DEF o, token
  <2>3. After(o, token).depth = o.depth + Rise(token)
    BY <2>2 DEF After, Inside
  <2>4. After(o, token).begun
    BY DEF After, Inside
  <2> QED
    BY <2>2, <2>3, <2>4 DEF o, token
<1>7. s[1] = Begin("root") /\ 1 \in 1 .. n
  <2>1. 1 \in 1 .. n /\ 1 - 1 = 0
    BY <1>1, <1>4
  <2>2. Permitted(g[0], s[1])
    BY <1>2, <2>1
  <2> QED
    BY <1>3, <2>1, <2>2 DEF Permitted
<1>8. \A k \in 1 .. n - 1 : g[k].depth >= 1
  <2> TAKE k \in 1 .. n - 1
  <2>1. k + 1 \in 1 .. n /\ (k + 1) - 1 = k /\ k \in 1 .. n
    BY <1>1
  <2>2. Permitted(g[k], s[k + 1]) /\ s[k + 1][1] # "close"
    <3>1. s[k + 1] \in TokenType /\ Permitted(g[(k + 1) - 1], s[k + 1])
      BY <1>1, <1>2, <2>1
    <3> QED
      BY <2>1, <3>1, TokenIsCall
  <2>3. g[k].begun
    BY <1>6, <2>1
  <2> QED
    BY <2>2, <2>3 DEF Permitted
<1>9. \A i \in 0 .. n : g[i].depth \in Nat
  <2> TAKE i \in 0 .. n
  <2>1. g[i].depth \in Int
    BY <1>2, PlaceParts
  <2>2. i = 0 \/ i = n \/ i \in 1 .. n - 1
    BY <1>1
  <2> QED
    BY <1>3, <1>8, <2>1, <2>2
<1>10. /\ d \in [0 .. n -> Nat] /\ d[0] = 0 /\ \A i \in 0 .. n : d[i] = g[i].depth
       /\ \A i \in 1 .. n : d[i] = d[i - 1] + Rise(s[i])
  <2>1. d \in [0 .. n -> Nat] /\ \A i \in 0 .. n : d[i] = g[i].depth
    BY <1>9 DEF d, DepthsOf, n
  <2>2. 0 \in 0 .. n /\ \A i \in 1 .. n : i \in 0 .. n /\ i - 1 \in 0 .. n
    BY <1>1
  <2> QED
    BY <1>3, <1>6, <2>1, <2>2
<1>11. Depths(s, d)
  BY <1>10 DEF Depths, n
<1>12. \A k \in 0 .. n : OpenAfter(s, k) = d[k]
  <2>1. d \in [0 .. Len(s) -> Int]
    BY <1>10 DEF n
  <2>2. s \in Seq(TokenType)
    BY DEF Run
  <2> QED
    BY <1>10, <2>1, <2>2, OpenAfterCounts DEF n
<1>13. n > 1
  <2>1. CASE n = 1
    <3>1. g[1].depth = g[0].depth + Rise(s[1]) /\ Rise(s[1]) = 1
      <4>1. Rise(s[1]) = 1
        BY <1>7 DEF Rise, Begin
      <4>2. 1 - 1 = 0
        OBVIOUS
      <4> QED
        BY <1>6, <1>7, <4>1, <4>2
    <3> QED
      BY <1>3, <2>1, <3>1
  <2> QED
    BY <1>1, <1>4, <2>1
<1> QED
  BY <1>1, <1>2, <1>3, <1>5, <1>7, <1>8, <1>10, <1>11, <1>12, <1>13 DEF n, d

(* The last beginning right below the root.                                  *)
Sectioned(s, g, k, p) ==
    /\ p \in 1 .. k /\ s[p][1] = "begin" /\ g[p - 1].depth = 1
    /\ \A j \in p + 1 .. k : ~(s[j][1] = "begin" /\ g[j - 1].depth = 1)

(* It is the one that the section is called after.                           *)
LEMMA SectionNamed ==
    ASSUME NEW s, NEW g, Run(s, g), NEW k \in 0 .. Len(s), g[k].depth >= 2,
           NEW p, Sectioned(s, g, k, p)
    PROVE  s[p][2] = g[k].section
<1> DEFINE All(j) == g[j].depth >= 2 =>
                         \A q : Sectioned(s, g, j, q) => s[q][2] = g[j].section
           S == {j \in Nat : j <= Len(s) => All(j)}
<1>0. /\ Len(s) \in Nat /\ g[0].depth = 0
      /\ \A i \in 1 .. Len(s) : /\ s[i] \in TokenType /\ Permitted(g[i - 1], s[i])
                                /\ g[i] = After(g[i - 1], s[i])
                                /\ g[i - 1] \in State /\ g[i] \in State
  BY RunParts
<1>1. 0 \in S
  BY <1>0
<1>2. ASSUME NEW j \in S PROVE j + 1 \in S
  <2>0. j \in Nat /\ (j <= Len(s) => All(j))
    OBVIOUS
  <2> SUFFICES ASSUME j + 1 <= Len(s), g[j + 1].depth >= 2,
                      NEW q, Sectioned(s, g, j + 1, q)
               PROVE  s[q][2] = g[j + 1].section
    BY <2>0
  <2> DEFINE o == g[j]
             token == s[j + 1]
  <2>1. j <= Len(s) /\ j + 1 \in 1 .. Len(s) /\ (j + 1) - 1 = j
    BY <1>0, <2>0
  <2>2. /\ token \in TokenType /\ g[j + 1] = After(o, token) /\ o \in State /\ g[j + 1] \in State
        /\ All(j)
    BY <1>0, <2>0, <2>1
  <2> HIDE DEF All
  <2>3. /\ Climb(token) = IF token[1] = "begin" THEN 1 ELSE IF token[1] = "end" THEN -1 ELSE 0
        /\ token[1] \in {"begin", "fields", "end"} /\ o.depth \in Int
    BY <2>2, TokenIsCall, PlaceParts, ClimbOf DEF Climb
  <2> HIDE DEF o, token
  <2>4. g[j + 1].depth = o.depth + Climb(token)
    BY <2>2, <2>3 DEF After, Inside
  <2>4a. g[j + 1].section = IF o.depth = 1 THEN Key(token) ELSE o.section
    <3>1. ~(o.depth + Climb(token) <= 1)
      BY <2>3, <2>4
    <3> QED
      BY <2>2, <2>3, <3>1 DEF After, Inside
  <2>5. /\ q \in 1 .. j + 1 /\ s[q][1] = "begin" /\ g[q - 1].depth = 1
        /\ \A i \in q + 1 .. j + 1 : ~(s[i][1] = "begin" /\ g[i - 1].depth = 1)
    BY DEF Sectioned
  <2>6. CASE o.depth = 1
    <3>1. token[1] = "begin"
      BY <2>3, <2>4, <2>6
    <3>2. q = j + 1
      <4>1. q # j + 1 => j + 1 \in q + 1 .. j + 1
        BY <2>0, <2>5
      <4> QED
        BY <2>1, <2>5, <2>6, <3>1, <4>1 DEF o, token
    <3>3. Key(token) = token[2]
      BY <3>1 DEF Key
    <3> QED
      BY <2>4a, <2>6, <3>2, <3>3 DEF token
  <2>7. CASE o.depth # 1
    <3>1. o.depth >= 2
      BY <2>3, <2>4, <2>7
    <3>2. q # j + 1
      BY <2>1, <2>5, <2>7 DEF o
    <3>3. q \in 1 .. j /\ \A i \in q + 1 .. j : i \in q + 1 .. j + 1
      BY <2>0, <2>5, <3>2
    <3>4. Sectioned(s, g, j, q)
      BY <2>5, <3>3 DEF Sectioned
    <3>5. s[q][2] = o.section
      BY <2>2, <3>1, <3>4 DEF All, o
    <3> QED
      BY <2>4a, <2>7, <3>5
  <2> QED
    BY <2>6, <2>7
<1>3. S \in SUBSET Nat
  OBVIOUS
<1> HIDE DEF S
<1>4. S = Nat
  BY <1>1, <1>2, <1>3, SetInduction
<1>5. k \in S /\ k <= Len(s)
  BY <1>0, <1>4
<1> QED
  BY <1>5 DEF S

(* Of a token, the reader has the names that the calls give.                 *)
LEMMA NamesAreNoted ==
    ASSUME NEW token \in TokenType
    PROVE  NamesOf(token) = CallNames(token) /\ (token[1] = "begin" => CallNames(token) = {token[2]})
<1>1. token[1] \in {"begin", "fields", "end"}
  BY TokenIsCall
<1>2. CASE token[1] = "begin"
  <2>1. NamesOf(token) = {token[2]}
    BY <1>2 DEF NamesOf
  <2>2. CallNames(token) = {token[2]}
    BY <1>2 DEF CallNames, Key
  <2> QED
    BY <2>1, <2>2
<1>3. CASE token[1] = "fields"
  <2>1. NamesOf(token) = Range(token[2])
    BY <1>3 DEF NamesOf
  <2>2. CallNames(token) = Range(token[2])
    BY <1>3 DEF CallNames
  <2> QED
    BY <1>3, <2>1, <2>2
<1>4. CASE token[1] = "end"
  <2>1. NamesOf(token) = {}
    BY <1>4 DEF NamesOf
  <2>2. CallNames(token) = {}
    BY <1>4 DEF CallNames
  <2> QED
    BY <1>4, <2>1, <2>2
<1> QED
  BY <1>1, <1>2, <1>3, <1>4

(* What is noted where.                                                      *)
LEMMA NotedNames ==
    ASSUME NEW o, NEW token \in TokenType, NEW x
    PROVE  /\ <<"root", x>> \in Noted(o, token) <=> o.depth = 1 /\ x \in NamesOf(token)
           /\ <<"crash", x>> \in Noted(o, token)
                  <=> o.depth = 2 /\ o.section = "crash" /\ x \in NamesOf(token)
<1>1. NamesOf(token) = CallNames(token)
  BY NamesAreNoted
<1> QED
  BY <1>1 DEF Noted

(* The containers whose names count, and what is in them.                    *)
ShallowAt(s, i) == Parents(s)[i] = 0 \/ Parents(s)[Parents(s)[i]] = 0

(* A name is under a name.                                                   *)
LEMMA UnderNames ==
    ASSUME NEW s, NEW name, NEW x
    PROVE  x \in Under(s, name) <=>
               \E i \in DOMAIN s : /\ s[i][1] = "begin" /\ s[i][2] = name /\ ShallowAt(s, i)
                                   /\ \E k \in DOMAIN s : Parents(s)[k] = i /\ x \in NamesOf(s[k])
  BY DEF Under, Begins, Members, ShallowAt

(* The parents in a text.                                                    *)
LEMMA RunParents ==
    ASSUME NEW s, NEW g, Run(s, g), NEW k \in 1 .. Len(s)
    PROVE  /\ g[k - 1].depth = 0 => k = 1 /\ Parents(s)[k] = 0
           /\ Parents(s)[k] = 1 <=> g[k - 1].depth = 1
           /\ g[k - 1].depth # 0 => /\ Parents(s)[k] \in 1 .. Len(s)
                                    /\ s[Parents(s)[k]][1] = "begin"
                                    /\ g[Parents(s)[k] - 1].depth = g[k - 1].depth - 1
           /\ g[k - 1].depth = 2 => s[Parents(s)[k]][2] = g[k - 1].section
<1> DEFINE d == DepthsOf(s, g)
           p == Parents(s)[k]
           n == Len(s)
<1>1. /\ n \in Nat /\ n > 1 /\ s[1] = Begin("root") /\ s \in Seq(TokenType) /\ Depths(s, d)
      /\ \A i \in 1 .. n - 1 : g[i].depth >= 1
      /\ \A i \in 0 .. n : d[i] = g[i].depth
      /\ g[0].depth = 0
  BY RunParts DEF Run
<1> HIDE DEF d, p, n
<1>2. IF d[k - 1] = 0 THEN p = 0 ELSE LastOf(Around(s, d, k), p)
  BY <1>1, ParentsFound DEF p, n
<1>3. k - 1 \in 0 .. n /\ k \in 1 .. n /\ k \in Nat
  BY <1>1 DEF n
<1>4. ASSUME NEW i \in 1 .. n, g[i - 1].depth = 0 PROVE i = 1
  <2>1. i # 1 => i - 1 \in 1 .. n - 1
    BY <1>1
  <2> QED
    BY <1>1, <1>4, <2>1
<1>5. \A i \in 1 .. k - 1 : i \in 1 .. n /\ i - 1 \in 0 .. n
  BY <1>1, <1>3
<1>6. d[k - 1] = g[k - 1].depth /\ d[k - 1] \in Nat
  BY <1>1, <1>3 DEF Depths, n
<1>7. CASE g[k - 1].depth = 0
  <2>1. k = 1 /\ p = 0
    BY <1>2, <1>3, <1>4, <1>6, <1>7
  <2> QED
    BY <1>7, <2>1 DEF p
<1>8. CASE g[k - 1].depth # 0
  <2>1. LastOf(Around(s, d, k), p)
    BY <1>2, <1>6, <1>8
  <2>2. p \in 1 .. k - 1 /\ s[p][1] = "begin" /\ d[p - 1] = d[k - 1] - 1
    BY <2>1 DEF LastOf, Around
  <2>3. p \in 1 .. n /\ p - 1 \in 0 .. n /\ g[p - 1].depth = g[k - 1].depth - 1
    BY <1>1, <1>5, <1>6, <2>2
  <2>4. g[k - 1].depth = 1 <=> p = 1
    <3>1. p = 1 => g[p - 1].depth = 0
      BY <1>1
    <3>2. g[p - 1].depth = 0 => p = 1
      BY <1>4, <2>3
    <3> QED
      BY <1>6, <2>3, <3>1, <3>2
  <2>5. ASSUME g[k - 1].depth = 2 PROVE s[p][2] = g[k - 1].section
    <3>1. Sectioned(s, g, k - 1, p)
      <4>1. ASSUME NEW j \in p + 1 .. k - 1, s[j][1] = "begin", g[j - 1].depth = 1 PROVE FALSE
        <5>1. j \in 1 .. k - 1 /\ ~(j <= p)
          BY <1>3, <2>2
        <5>2. d[j - 1] = d[k - 1] - 1
          BY <1>1, <1>5, <1>6, <2>5, <4>1, <5>1
        <5>3. j \in Around(s, d, k)
          BY <4>1, <5>1, <5>2 DEF Around
        <5> QED
          BY <2>1, <5>1, <5>3 DEF LastOf
      <4>2. g[p - 1].depth = 1
        BY <2>3, <2>5
      <4> QED
        BY <2>2, <4>1, <4>2 DEF Sectioned
    <3> QED
      BY <1>3, <2>5, <3>1, SectionNamed DEF n
  <2> QED
    BY <1>8, <2>2, <2>3, <2>4, <2>5 DEF p, n
<1> QED
  BY <1>7, <1>8

(* The root and what is right below it.                                      *)
LEMMA RunShallow ==
    ASSUME NEW s, NEW g, Run(s, g), NEW i \in 1 .. Len(s)
    PROVE  ShallowAt(s, i) <=> i = 1 \/ g[i - 1].depth = 1
<1> DEFINE p == Parents(s)[i]
           q == Parents(s)[p]
<1>1. /\ Len(s) \in Nat /\ Len(s) > 1 /\ g[0].depth = 0 /\ 1 \in 1 .. Len(s)
      /\ \A j \in 1 .. Len(s) : g[j - 1].depth \in Int
  <2>1. \A j \in 1 .. Len(s) : g[j - 1].depth \in Int
    BY RunParts, PlaceParts
  <2> QED
    BY <2>1, RunParts
<1>2. /\ g[i - 1].depth = 0 => i = 1 /\ p = 0
      /\ p = 1 <=> g[i - 1].depth = 1
      /\ g[i - 1].depth # 0 => p \in 1 .. Len(s) /\ g[p - 1].depth = g[i - 1].depth - 1
  <2>1. /\ g[i - 1].depth = 0 => i = 1 /\ Parents(s)[i] = 0
        /\ Parents(s)[i] = 1 <=> g[i - 1].depth = 1
    BY RunParents
  <2>2. g[i - 1].depth # 0 => /\ Parents(s)[i] \in 1 .. Len(s)
                              /\ g[Parents(s)[i] - 1].depth = g[i - 1].depth - 1
    BY RunParents
  <2> QED
    BY <2>1, <2>2
<1>3. p \in 1 .. Len(s) => /\ g[p - 1].depth = 0 => p = 1 /\ q = 0
                           /\ q = 1 <=> g[p - 1].depth = 1
                           /\ g[p - 1].depth # 0 => q \in 1 .. Len(s)
  BY RunParents
<1>4. g[1 - 1].depth = 0
  BY <1>1
<1>5. ShallowAt(s, i) <=> p = 0 \/ q = 0
  BY DEF ShallowAt
<1> HIDE DEF p, q
<1>6. CASE g[i - 1].depth = 0
  BY <1>2, <1>5, <1>6
<1>7. CASE g[i - 1].depth = 1
  <2>1. p = 1 /\ q = 0
    BY <1>1, <1>2, <1>3, <1>4, <1>7
  <2> QED
    BY <1>5, <1>7, <2>1
<1>8. CASE g[i - 1].depth \notin {0, 1}
  <2>1. i # 1
    BY <1>4, <1>8
  <2>2. p \in 1 .. Len(s) /\ g[p - 1].depth # 0
    BY <1>1, <1>2, <1>8
  <2>3. p # 0 /\ q # 0
    BY <1>1, <1>3, <2>2
  <2> QED
    BY <1>5, <1>8, <2>1, <2>3
<1> QED
  BY <1>6, <1>7, <1>8

(* What the reader finds at the root and in the crash section are the names  *)
(* that have been noted.                                                     *)
LEMMA RunUnder ==
    ASSUME NEW s, NEW g, Run(s, g), <<"root", "root">> \notin Noticed(s, g), NEW x
    PROVE  /\ x \in Under(s, "root") <=> <<"root", x>> \in Noticed(s, g)
           /\ x \in Under(s, "crash") <=> <<"crash", x>> \in Noticed(s, g)
<1> DEFINE n == Len(s)
           RootAt(k) == g[k - 1].depth = 1 /\ x \in NamesOf(s[k])
           CrashAt(k) == /\ g[k - 1].depth = 2 /\ g[k - 1].section = "crash"
                         /\ x \in NamesOf(s[k])
<1>1. /\ n \in Nat /\ n > 1 /\ DOMAIN s = 1 .. n /\ \A i \in 1 .. n : s[i] \in TokenType
      /\ s[1] = Begin("root") /\ g[0].depth = 0
  BY RunParts
<1>2. /\ <<"root", x>> \in Noticed(s, g) <=> \E k \in 1 .. n : RootAt(k)
      /\ <<"crash", x>> \in Noticed(s, g) <=> \E k \in 1 .. n : CrashAt(k)
  <2>1. \A k \in 1 .. n : <<"root", x>> \in Noted(g[k - 1], s[k]) <=> RootAt(k)
    BY <1>1, NotedNames
  <2>2. \A k \in 1 .. n : <<"crash", x>> \in Noted(g[k - 1], s[k]) <=> CrashAt(k)
    BY <1>1, NotedNames
  <2>3. <<"root", x>> \in Noticed(s, g) <=> \E k \in 1 .. n : <<"root", x>> \in Noted(g[k - 1], s[k])
    BY NoticedNames
  <2>4. <<"crash", x>> \in Noticed(s, g)
            <=> \E k \in 1 .. n : <<"crash", x>> \in Noted(g[k - 1], s[k])
    BY NoticedNames
  <2> HIDE DEF RootAt, CrashAt, n
  <2>5. <<"root", x>> \in Noticed(s, g) <=> \E k \in 1 .. n : RootAt(k)
    BY <2>1, <2>3, Zenon
  <2>6. <<"crash", x>> \in Noticed(s, g) <=> \E k \in 1 .. n : CrashAt(k)
    BY <2>2, <2>4, Zenon
  <2> QED
    BY <2>5, <2>6
<1>3. \A i \in 1 .. n : ~(s[i][1] = "begin" /\ s[i][2] = "root" /\ g[i - 1].depth = 1)
  <2> SUFFICES ASSUME NEW i \in 1 .. n, s[i][1] = "begin", s[i][2] = "root", g[i - 1].depth = 1
               PROVE  FALSE
    OBVIOUS
  <2>1. "root" \in NamesOf(s[i])
    BY <1>1, NamesAreNoted
  <2>2. <<"root", "root">> \in Noted(g[i - 1], s[i])
    BY <1>1, <2>1, NotedNames
  <2> QED
    BY <2>2, NoticedNames
<1> HIDE DEF RootAt, CrashAt, n
<1>4. \A i \in 1 .. n : ShallowAt(s, i) <=> i = 1 \/ g[i - 1].depth = 1
  BY RunShallow DEF n
<1>5. \A k \in 1 .. n : Parents(s)[k] = 1 <=> g[k - 1].depth = 1
  BY RunParents DEF n
<1>6. 1 \in 1 .. n /\ g[1 - 1].depth = 0 /\ s[1][1] = "begin" /\ s[1][2] = "root"
  BY <1>1 DEF Begin
<1>7. x \in Under(s, "root") <=> \E k \in 1 .. n : RootAt(k)
  <2>1. ASSUME NEW k \in 1 .. n, RootAt(k)
        PROVE  x \in Under(s, "root")
    <3>1. Parents(s)[k] = 1 /\ x \in NamesOf(s[k])
      BY <1>5, <2>1 DEF RootAt
    <3> QED
      BY <1>1, <1>4, <1>6, <3>1, UnderNames
  <2>2. ASSUME x \in Under(s, "root")
        PROVE  \E k \in 1 .. n : RootAt(k)
    <3>1. PICK i \in 1 .. n : /\ s[i][1] = "begin" /\ s[i][2] = "root" /\ ShallowAt(s, i)
                              /\ \E k \in 1 .. n : Parents(s)[k] = i /\ x \in NamesOf(s[k])
      BY <1>1, <2>2, UnderNames
    <3>2. i = 1
      BY <1>3, <1>4, <3>1
    <3> QED
      BY <1>5, <3>1, <3>2 DEF RootAt
  <2> QED
    BY <2>1, <2>2
<1>8. x \in Under(s, "crash") <=> \E k \in 1 .. n : CrashAt(k)
  <2>1. ASSUME NEW k \in 1 .. n, CrashAt(k)
        PROVE  x \in Under(s, "crash")
    <3> DEFINE p == Parents(s)[k]
    <3>1. g[k - 1].depth = 2 /\ g[k - 1].section = "crash" /\ x \in NamesOf(s[k])
      BY <2>1 DEF CrashAt
    <3>2. p \in 1 .. n /\ s[p][1] = "begin" /\ g[p - 1].depth = 1 /\ s[p][2] = "crash"
      BY <3>1, RunParents DEF n
    <3>3. ShallowAt(s, p)
      BY <1>4, <3>2
    <3> QED
      BY <1>1, <3>1, <3>2, <3>3, UnderNames
  <2>2. ASSUME x \in Under(s, "crash")
        PROVE  \E k \in 1 .. n : CrashAt(k)
    <3>1. PICK i \in 1 .. n : /\ s[i][1] = "begin" /\ s[i][2] = "crash" /\ ShallowAt(s, i)
                              /\ \E k \in 1 .. n : Parents(s)[k] = i /\ x \in NamesOf(s[k])
      BY <1>1, <2>2, UnderNames
    <3>2. i # 1 /\ g[i - 1].depth = 1
      BY <1>4, <1>6, <3>1
    <3>3. PICK k \in 1 .. n : Parents(s)[k] = i /\ x \in NamesOf(s[k])
      BY <3>1
    <3>4. g[k - 1].depth # 0 /\ g[k - 1].depth # 1 /\ g[k - 1].depth \in Int
      <4>1. g[k - 1].depth = 0 => Parents(s)[k] = 0
        BY RunParents DEF n
      <4>2. g[k - 1].depth \in Int
        BY RunParts, PlaceParts DEF n
      <4> QED
        BY <1>5, <3>2, <3>3, <4>1, <4>2
    <3>5. g[i - 1].depth = g[k - 1].depth - 1
      <4>1. g[Parents(s)[k] - 1].depth = g[k - 1].depth - 1
        BY <3>4, RunParents DEF n
      <4> QED
        BY <3>3, <4>1
    <3>6. g[k - 1].depth = 2
      BY <3>2, <3>4, <3>5
    <3>7. s[i][2] = g[k - 1].section
      <4>1. s[Parents(s)[k]][2] = g[k - 1].section
        BY <3>6, RunParents DEF n
      <4> QED
        BY <3>3, <4>1
    <3> QED
      BY <3>1, <3>3, <3>6, <3>7 DEF CrashAt
  <2> QED
    BY <2>1, <2>2
<1> QED
  BY <1>2, <1>7, <1>8 DEF n

(* It is a whole report.                                                     *)
LEMMA RunIsWhole ==
    ASSUME NEW s, NEW g, Run(s, g)
    PROVE  IsWhole(s)
<1> DEFINE n == Len(s)
           ends == {k \in DOMAIN s : OpenAfter(s, k) = 0}
<1>1. /\ n \in Nat /\ n > 1 /\ DOMAIN s = 1 .. n /\ s \in Seq(TokenType)
      /\ \A k \in 1 .. n - 1 : g[k].depth >= 1
      /\ g[n].depth = 0
      /\ \A k \in 0 .. n : OpenAfter(s, k) = g[k].depth
  BY RunParts DEF Run
<1>2. ends = {n}
  <2>1. n \in DOMAIN s /\ OpenAfter(s, n) = 0
    BY <1>1
  <2>2. ASSUME NEW k \in DOMAIN s, OpenAfter(s, k) = 0 PROVE k = n
    <3>1. k \in 0 .. n /\ k \in 1 .. n /\ g[k].depth = 0
      BY <1>1, <2>2
    <3>2. k # n => k \in 1 .. n - 1
      BY <1>1, <3>1
    <3> QED
      BY <1>1, <3>1, <3>2
  <2> QED
    BY <2>1, <2>2
<1>3. FirstObject(s) = SubSeq(s, 1, CHOOSE k \in ends : \A j \in ends : k <= j)
  BY <1>2 DEF FirstObject
<1> HIDE DEF ends
<1>4. (CHOOSE k \in ends : \A j \in ends : k <= j) = n
  BY <1>1, <1>2
<1>5. FirstObject(s) = s
  BY <1>1, <1>3, <1>4, SubSeqFull
<1>6. MissingEnds(s) = <<>>
  <2>1. OpenAfter(s, Len(s)) = 0
    BY <1>1
  <2>2. MissingEnds(s) = [i \in 1 .. 0 |-> End]
    BY <2>1 DEF MissingEnds
  <2>3. [i \in 1 .. 0 |-> End] = <<>>
    OBVIOUS
  <2> QED
    BY <2>2, <2>3
<1>7. s # <<>>
  BY <1>1
<1> QED
  BY <1>5, <1>6, <1>7 DEF IsWhole

------------------------------------------------------------------------------
(* What is written, and what is yet to write.                                *)

(* The names that a report is to have at its root and in its crash section.  *)
Fits(m, D) == IF m \in {"standard", "written"} THEN StandardFits(D) ELSE RecrashFits(D)

(* The calls to come go on where the text has ended, and lead to a report.   *)
PlannedAt(text, calls, l, m, p, D, E) ==
    /\ p \in State /\ p.depth = l
    /\ text \in Piece(Start, p, D) /\ calls \in Piece(p, Closed, E) /\ Fits(m, D \cup E)

Planned(text, calls, l, m) == \E p, D, E : PlannedAt(text, calls, l, m, p, D, E)

(* The text is a report.                                                     *)
Complete(text, m) == \E D : text \in Piece(Start, Finish, D) /\ Fits(m, D)

(* A report that has just been begun.                                        *)
LEMMA PlanBegun ==
    ASSUME NEW calls, NEW m, NEW D, calls \in Piece(Start, Closed, D), Fits(m, D)
    PROVE  Planned(<<>>, calls, 0, m)
<1>1. Start \in State /\ Start.depth = 0
  BY Places DEF Start
<1>2. <<>> \in Piece(Start, Start, {})
  BY <1>1, PieceNone
<1>3. {} \cup D = D
  OBVIOUS
<1>4. PlannedAt(<<>>, calls, 0, m, Start, {}, D)
  BY <1>1, <1>2, <1>3 DEF PlannedAt
<1> QED
  BY <1>4 DEF Planned

(* A token that is written.                                                  *)
LEMMA PlanWritten ==
    ASSUME NEW text \in Seq(TokenType), NEW calls, NEW l, NEW m, Planned(text, calls, l, m),
           calls # <<>>, Head(calls) \in TokenType
    PROVE  /\ Planned(Append(text, Head(calls)), Tail(calls), l + Rise(Head(calls)), m)
           /\ l \in Int /\ (Head(calls)[1] = "end" => l >= 1)
<1> DEFINE call == Head(calls)
           rest == Tail(calls)
<1>1. PICK p, D, E : PlannedAt(text, calls, l, m, p, D, E)
  BY DEF Planned
<1>2. /\ p \in State /\ p.depth = l /\ text \in Piece(Start, p, D)
      /\ calls \in Piece(p, Closed, E) /\ Fits(m, D \cup E)
  BY <1>1 DEF PlannedAt
<1> DEFINE q == After(p, call)
           N == Noted(p, call)
<1>3. /\ call \in CallType /\ Permitted(p, call) /\ q \in State
      /\ \E F : rest \in Piece(q, Closed, F) /\ E = N \cup F
  BY <1>2, PieceTail
<1>4. call \in TokenType /\ call[1] # "close" /\ Climb(call) = Rise(call)
  BY TokenIsCall, ClimbOf
<1> HIDE DEF call, rest
<1>5. PICK F : rest \in Piece(q, Closed, F) /\ E = N \cup F
  BY <1>3
<1>6. <<call>> \in Piece(p, q, N)
  BY <1>2, <1>3, PieceOne
<1>7. p.depth \in Int /\ p.begun \in BOOLEAN /\ Rise(call) \in Int
  BY <1>2, PlaceParts, RiseInt
<1>8. q.depth = p.depth + Rise(call)
  BY <1>4 DEF After, Inside
<1>9. call[1] = "end" => p.depth >= 1
  <2>1. call[1] = "end" => call # Begin("root")
    BY DEF Begin
  <2> QED
    BY <1>3, <1>7, <2>1 DEF Permitted
<1> HIDE DEF q, N
<1>10. text \o <<call>> \in Piece(Start, q, D \cup N)
  BY <1>2, <1>6, PieceConcat
<1>11. Append(text, call) = text \o <<call>>
  BY <1>4, AppendIsConcat
<1>12. (D \cup N) \cup F = D \cup E
  BY <1>5
<1>13. PlannedAt(Append(text, call), rest, l + Rise(call), m, q, D \cup N, F)
  BY <1>2, <1>3, <1>5, <1>8, <1>10, <1>11, <1>12 DEF PlannedAt
<1>14. Planned(Append(text, call), rest, l + Rise(call), m)
  BY <1>13 DEF Planned
<1> QED
  BY <1>2, <1>7, <1>9, <1>14 DEF call, rest

(* A call that leads to others, which may have more names that a report can  *)
(* have.                                                                     *)
LEMMA PlanExpanded ==
    ASSUME NEW text, NEW calls, NEW l, NEW m, Planned(text, calls, l, m), calls # <<>>,
           NEW more, NEW X,
           \A o \in State : o.depth = l /\ Permitted(o, Head(calls)) =>
               more \in Piece(o, After(o, Head(calls)), Noted(o, Head(calls)) \cup X),
           \A D : Fits(m, D) => Fits(m, D \cup X)
    PROVE  Planned(text, more \o Tail(calls), l, m)
<1> DEFINE call == Head(calls)
           rest == Tail(calls)
<1>1. PICK p, D, E : PlannedAt(text, calls, l, m, p, D, E)
  BY DEF Planned
<1>2. /\ p \in State /\ p.depth = l /\ text \in Piece(Start, p, D)
      /\ calls \in Piece(p, Closed, E) /\ Fits(m, D \cup E)
  BY <1>1 DEF PlannedAt
<1> DEFINE q == After(p, call)
           N == Noted(p, call)
<1>3. /\ Permitted(p, call)
      /\ \E F : rest \in Piece(q, Closed, F) /\ E = N \cup F
  BY <1>2, PieceTail
<1>4. more \in Piece(p, q, N \cup X)
  BY <1>2, <1>3
<1> HIDE DEF q, N, rest
<1>5. PICK F : rest \in Piece(q, Closed, F) /\ E = N \cup F
  BY <1>3
<1>6. more \o rest \in Piece(p, Closed, (N \cup X) \cup F)
  BY <1>4, <1>5, PieceConcat
<1>7. D \cup ((N \cup X) \cup F) = (D \cup E) \cup X
  BY <1>5
<1>8. Fits(m, (D \cup E) \cup X)
  BY <1>2
<1>9. Fits(m, D \cup ((N \cup X) \cup F))
  BY <1>7, <1>8
<1>10. PlannedAt(text, more \o rest, l, m, p, D, (N \cup X) \cup F)
  BY <1>2, <1>6, <1>9 DEF PlannedAt
<1> QED
  BY <1>10 DEF Planned, rest

(* The same, with the names that the call itself has.                        *)
LEMMA PlanReplaced ==
    ASSUME NEW text, NEW calls, NEW l, NEW m, Planned(text, calls, l, m), calls # <<>>, NEW more,
           \A o \in State : o.depth = l /\ Permitted(o, Head(calls)) =>
               more \in Piece(o, After(o, Head(calls)), Noted(o, Head(calls)))
    PROVE  Planned(text, more \o Tail(calls), l, m)
<1>1. \A D : D \cup {} = D
  OBVIOUS
<1>2. \A D : Fits(m, D) => Fits(m, D \cup {})
  BY <1>1
<1>3. \A o : Noted(o, Head(calls)) \cup {} = Noted(o, Head(calls))
  OBVIOUS
<1>4. \A o \in State : o.depth = l /\ Permitted(o, Head(calls)) =>
          more \in Piece(o, After(o, Head(calls)), Noted(o, Head(calls)) \cup {})
  BY <1>3
<1> QED
  BY <1>2, <1>4, PlanExpanded

(* The calls that end where they are made.                                   *)
LEMMA PlanQuiet ==
    ASSUME NEW text, NEW calls, NEW l, NEW m, Planned(text, calls, l, m), calls # <<>>, NEW more,
           Head(calls)[1] \in {"memory", "contents", "ivars"}
           \/ (Head(calls)[1] \in {"json", "broken"} /\ Head(calls)[4]),
           \A o : Deep(o) /\ o.depth >= 3 => more \in Quiet(o)
    PROVE  Planned(text, more \o Tail(calls), l, m)
<1> DEFINE call == Head(calls)
<1>1. ASSUME NEW o \in State, Permitted(o, call)
      PROVE  more \in Piece(o, After(o, call), Noted(o, call))
  <2>1. /\ call[1] \in {"memory", "contents", "ivars", "json", "broken"}
        /\ call[1] \in {"json", "broken"} => call[4]
        /\ o.begun \in BOOLEAN /\ o.depth \in Int
    BY <1>1, PlaceParts
  <2> HIDE DEF call
  <2>2. call # Begin("root") /\ call[1] # "close" /\ Climb(call) = 0
    BY <2>1 DEF Begin, Climb
  <2>3. o.begun /\ o.depth >= 3
    BY <1>1, <2>1, <2>2 DEF Permitted
  <2>4. Deep(o) /\ o.depth >= 1
    BY <2>1, <2>3 DEF Deep
  <2>5. After(o, call) = o
    BY <2>2, <2>3, <2>4, FlatCall
  <2>6. Noted(o, call) = {}
    BY <2>4, DeepParts
  <2>7. more \in Quiet(o)
    BY <2>3, <2>4
  <2> QED
    BY <2>5, <2>6, <2>7 DEF Quiet
<1> QED
  BY <1>1, PlanReplaced

(* Those that write nothing.                                                 *)
LEMMA PlanDropped ==
    ASSUME NEW text, NEW calls, NEW l, NEW m, Planned(text, calls, l, m), calls # <<>>,
           Head(calls)[1] \in {"flush", "limit", "remove", "embed"}
    PROVE  Planned(text, <<>> \o Tail(calls), l, m)
<1> DEFINE call == Head(calls)
<1>1. ASSUME NEW o \in State, Permitted(o, call)
      PROVE  <<>> \in Piece(o, After(o, call), Noted(o, call))
  <2>1. call[1] \in {"flush", "limit", "remove", "embed"}
        /\ o.begun \in BOOLEAN /\ o.depth \in Int
    BY <1>1, PlaceParts
  <2> HIDE DEF call
  <2>2. call # Begin("root") /\ call[1] # "close" /\ Climb(call) = 0 /\ CallNames(call) = {}
    BY <2>1 DEF Begin, Climb, CallNames
  <2>3. o.begun /\ o.depth >= 1
    BY <1>1, <2>1, <2>2 DEF Permitted
  <2>4. After(o, call) = o
    BY <2>2, <2>3, FlatCall
  <2>5. Noted(o, call) = {}
    BY <2>2 DEF Noted
  <2> QED
    BY <2>4, <2>5, PieceNone
<1> QED
  BY <1>1, PlanReplaced

(* What comes next in a plan is a call.                                      *)
LEMMA PlannedCall ==
    ASSUME NEW text, NEW calls, NEW l, NEW m, Planned(text, calls, l, m), calls # <<>>
    PROVE  Head(calls) \in CallType /\ \E o \in State : o.depth = l /\ Permitted(o, Head(calls))
<1>1. PICK p, D, E : PlannedAt(text, calls, l, m, p, D, E)
  BY DEF Planned
<1>2. p \in State /\ p.depth = l /\ calls \in Piece(p, Closed, E)
  BY <1>1 DEF PlannedAt
<1> QED
  BY <1>2, PieceTail

(* The user's section is opened in the root of a standard report.            *)
LEMMA PlanUser ==
    ASSUME NEW text, NEW calls, NEW l, NEW m, Planned(text, calls, l, m), calls # <<>>,
           Head(calls)[1] = "user"
    PROVE  /\ l = 1 /\ m \in {"standard", "written"}
           /\ \A info \in {"NULL", "object"} : Planned(text, UserCalls(info) \o Tail(calls), l, m)
<1> DEFINE call == Head(calls)
<1>1. call \in CallType /\ call[1] = "user" /\ \E o \in State : o.depth = l /\ Permitted(o, call)
  BY PlannedCall
<1>2. ASSUME NEW o \in State, Permitted(o, call)
      PROVE  o = InRoot /\ After(o, call) = InUser /\ Noted(o, call) = UserNoted
  <2> HIDE DEF call
  <2>1. call # Begin("root") /\ call[1] # "close" /\ Climb(call) = 1 /\ Key(call) = "user"
    BY <1>1 DEF Begin, Climb, Key
  <2>2. o.begun /\ o.depth = 1
    <3>1. o.begun \in BOOLEAN
      BY PlaceParts
    <3> QED
      BY <1>1, <1>2, <2>1, <3>1 DEF Permitted
  <2>3. o = InRoot
    BY <2>2, RootPlace
  <2>4. Permitted(InRoot, call)
    BY <1>2, <2>3
  <2> QED
    BY <1>1, <2>1, <2>3, <2>4, OpensUser
<1>3. l = 1
  BY <1>1, <1>2, RootPlace
<1>4. m \in {"standard", "written"}
  <2>1. PICK p, D, E : PlannedAt(text, calls, l, m, p, D, E)
    BY DEF Planned
  <2>2. p \in State /\ calls \in Piece(p, Closed, E) /\ Fits(m, D \cup E)
    BY <2>1 DEF PlannedAt
  <2>3. /\ Permitted(p, call)
        /\ \E F : Tail(calls) \in Piece(After(p, call), Closed, F) /\ E = Noted(p, call) \cup F
    BY <2>2, PieceTail
  <2>4. <<"root", "user">> \in D \cup E
    <3>1. Noted(p, call) = UserNoted
      BY <1>2, <2>2, <2>3
    <3> QED
      BY <2>3, <3>1 DEF UserNoted
  <2>5. ~RecrashFits(D \cup E)
    BY <2>4 DEF RecrashFits, NamesIn
  <2> QED
    BY <2>2, <2>5 DEF Fits
<1>5. ASSUME NEW info \in {"NULL", "object"}
      PROVE  Planned(text, UserCalls(info) \o Tail(calls), l, m)
  <2>1. UserCalls(info) \in Piece(InRoot, InUser, UserNoted)
    BY UserOutline
  <2>2. \A o \in State : Permitted(o, call) =>
            UserCalls(info) \in Piece(o, After(o, call), Noted(o, call))
    BY <1>2, <2>1
  <2> QED
    BY <2>2, PlanReplaced
<1> QED
  BY <1>3, <1>4, <1>5

(* A text that the encoder is given.                                         *)
LEMMA PlanJSON ==
    ASSUME NEW text, NEW calls, NEW l, NEW m, Planned(text, calls, l, m), calls # <<>>,
           Head(calls)[1] = "json"
    PROVE  Planned(text, JSONCalls(Head(calls)[2], Head(calls)[3], Head(calls)[4]) \o Tail(calls),
                   l, m)
<1> DEFINE call == Head(calls)
           more == JSONCalls(call[2], call[3], call[4])
<1>1. call \in CallType /\ call[1] = "json" /\ \E o \in State : o.depth = l /\ Permitted(o, call)
  BY PlannedCall
<1>2. call[2] \in Names /\ call[3] \in Texts /\ call[4] \in BOOLEAN
  BY <1>1, CallParts
<1>3. CASE call[4] = TRUE
  <2>1. \A o : Deep(o) /\ o.depth >= 3 => more \in Quiet(o)
    BY <1>2, <1>3, JSONOutline
  <2> HIDE DEF more
  <2>2. Planned(text, more \o Tail(calls), l, m)
    BY <1>1, <1>3, <2>1, PlanQuiet
  <2> QED
    BY <2>2 DEF more
<1>4. CASE call[4] = FALSE
  <2>1. ASSUME NEW o \in State, Permitted(o, call)
        PROVE  more \in Piece(o, After(o, call), Noted(o, call))
    <3> HIDE DEF call
    <3>1. call # Begin("root") /\ call[1] # "close" /\ Climb(call) = 1
      BY <1>1, <1>4 DEF Begin, Climb
    <3>2. o.begun \in BOOLEAN
      BY PlaceParts
    <3>3. o.begun /\ o.depth = 1 /\ call[2] = "user" /\ call[3] = "object"
      BY <1>1, <1>4, <2>1, <3>1, <3>2 DEF Permitted
    <3>4. o = InRoot
      BY <3>3, RootPlace
    <3>5. Key(call) = "user" /\ Permitted(InRoot, call)
      BY <1>1, <2>1, <3>3, <3>4 DEF Key
    <3>6. After(InRoot, call) = InUser /\ Noted(InRoot, call) = UserNoted
      BY <1>1, <3>1, <3>5, OpensUser
    <3>7. more = JSONCalls("user", "object", FALSE)
      BY <1>4, <3>3
    <3>8. JSONCalls("user", "object", FALSE) \in Piece(InRoot, InUser, UserNoted)
      BY UserTextOutline
    <3> QED
      BY <3>4, <3>6, <3>7, <3>8
  <2> HIDE DEF more
  <2>2. Planned(text, more \o Tail(calls), l, m)
    BY <2>1, PlanReplaced
  <2> QED
    BY <2>2 DEF more
<1> QED
  BY <1>2, <1>3, <1>4

(* The old report, which a recrash report may have in it.                    *)
LEMMA PlanEmbedded ==
    ASSUME NEW text, NEW calls, NEW l, Planned(text, calls, l, "recrash"), calls # <<>>,
           Head(calls)[1] = "embed", WriterInv, NEW n \in StopsAfter(FirstObject(old)),
           SubSeq(FirstObject(old), 1, n) # <<>>
    PROVE  Planned(text, EmbeddedText(SubSeq(FirstObject(old), 1, n)) \o Tail(calls), l, "recrash")
<1> DEFINE call == Head(calls)
           more == EmbeddedText(SubSeq(FirstObject(old), 1, n))
           X == {<<"root", "recrash_report">>}
<1>1. ASSUME NEW o \in State, Permitted(o, call)
      PROVE  more \in Piece(o, After(o, call), Noted(o, call) \cup X)
  <2>1. call[1] = "embed" /\ o.begun \in BOOLEAN
    BY PlaceParts
  <2> HIDE DEF call
  <2>2. call # Begin("root") /\ call[1] # "close" /\ Climb(call) = 0 /\ CallNames(call) = {}
    BY <2>1 DEF Begin, Climb, CallNames
  <2>3. o.begun /\ o.depth = 1
    BY <1>1, <2>1, <2>2 DEF Permitted
  <2>4. o = InRoot /\ o.depth >= 1
    BY <2>3, RootPlace
  <2>5. After(o, call) = o
    BY <2>2, <2>3, <2>4, FlatCall
  <2>6. Noted(o, call) = {}
    BY <2>2 DEF Noted
  <2>7. more \in Piece(InRoot, InRoot, X)
    BY OldOutline
  <2>8. {} \cup X = X
    OBVIOUS
  <2> HIDE DEF more, X
  <2> QED
    BY <2>4, <2>5, <2>6, <2>7, <2>8
<1>2. ASSUME NEW D, Fits("recrash", D) PROVE Fits("recrash", D \cup X)
  <2>1. RecrashFits(D)
    BY <1>2 DEF Fits
  <2>2. NamesIn(D \cup X, "root", {"recrash_report", "report", "crash"})
    BY <2>1 DEF RecrashFits, NamesIn
  <2> QED
    BY <2>2 DEF Fits, RecrashFits
<1> HIDE DEF more, X
<1>3. Planned(text, more \o Tail(calls), l, "recrash")
  BY <1>1, <1>2, PlanExpanded
<1> QED
  BY <1>3 DEF more

(* A text in which decoding breaks off.                                      *)
LEMMA PlanBroken ==
    ASSUME NEW text, NEW calls, NEW l, NEW m, Planned(text, calls, l, m), calls # <<>>,
           Head(calls)[1] = "broken"
    PROVE  /\ Planned(text, <<>> \o Tail(calls), l, m)
           /\ Head(calls)[3] > 0 =>
                  Planned(text, BrokenCalls(Head(calls)[2], Head(calls)[3], Head(calls)[4])
                                    \o Tail(calls), l, m)
<1> DEFINE call == Head(calls)
<1>1. call \in CallType /\ call[1] = "broken" /\ \E o \in State : o.depth = l /\ Permitted(o, call)
  BY PlannedCall
<1>2. call[2] \in Names /\ call[3] \in 0 .. Nesting /\ call[4] \in BOOLEAN
  BY <1>1, CallParts
<1>3. call[4] = TRUE
  <2> HIDE DEF call
  <2> QED
    BY <1>1, <1>2 DEF Permitted
<1>4. \A o : Deep(o) /\ o.depth >= 3 => <<>> \in Quiet(o)
  BY DeepParts, QuietNone
<1>5. Planned(text, <<>> \o Tail(calls), l, m)
  BY <1>1, <1>3, <1>4, PlanQuiet
<1>6. ASSUME call[3] > 0
      PROVE  Planned(text, BrokenCalls(call[2], call[3], call[4]) \o Tail(calls), l, m)
  <2> DEFINE more == BrokenCalls(call[2], call[3], call[4])
  <2>1. call[3] \in 1 .. Nesting
    BY <1>2, <1>6, DeepestInt
  <2>2. \A o : Deep(o) /\ o.depth >= 3 => more \in Quiet(o)
    BY <1>2, <1>3, <2>1, BrokenOutline
  <2> HIDE DEF more
  <2>3. Planned(text, more \o Tail(calls), l, m)
    BY <1>1, <1>3, <2>2, PlanQuiet
  <2> QED
    BY <2>3 DEF more
<1> QED
  BY <1>5, <1>6

(* The last call comes when the text is a report.                            *)
LEMMA PlanClosed ==
    ASSUME NEW text, NEW calls, NEW l, NEW m, Planned(text, calls, l, m), calls # <<>>,
           Head(calls)[1] = "close"
    PROVE  l = 0 /\ Complete(text, m)
<1> DEFINE call == Head(calls)
           rest == Tail(calls)
<1>1. PICK p, D, E : PlannedAt(text, calls, l, m, p, D, E)
  BY DEF Planned
<1>2. /\ p \in State /\ p.depth = l /\ text \in Piece(Start, p, D)
      /\ calls \in Piece(p, Closed, E) /\ Fits(m, D \cup E)
  BY <1>1 DEF PlannedAt
<1>3. /\ Permitted(p, call)
      /\ \E F : rest \in Piece(After(p, call), Closed, F) /\ E = Noted(p, call) \cup F
  BY <1>2, PieceTail
<1>4. PICK F : rest \in Piece(After(p, call), Closed, F) /\ E = Noted(p, call) \cup F
  BY <1>3
<1>5. call[1] = "close" /\ p.begun \in BOOLEAN
  BY <1>2, PlaceParts
<1> HIDE DEF call, rest
<1>6. p.begun /\ p.depth = 0
  <2>1. call # Begin("root")
    BY <1>5 DEF Begin
  <2> QED
    BY <1>3, <1>5, <2>1 DEF Permitted
<1>7. p = Finish
  BY <1>2, <1>6, RootPlace
<1>8. Noted(p, call) = {}
  BY <1>6 DEF Noted
<1>9. After(p, call) = Closed
  BY <1>5 DEF After, Closed
<1>10. rest = <<>>
  <2> SUFFICES ASSUME rest # <<>> PROVE FALSE
    OBVIOUS
  <2>1. Permitted(Closed, Head(rest))
    BY <1>4, <1>9, PieceTail
  <2> QED
    BY <2>1 DEF Permitted, Closed, Inside
<1>11. F = {}
  <2>1. PICK g : Noticed(<<>>, g) = F
    BY <1>4, <1>10 DEF Piece
  <2>2. Len(<<>>) = 0
    OBVIOUS
  <2>3. \A x : x \notin Noticed(<<>>, g)
    BY <2>2, NoticedNames
  <2> QED
    BY <2>1, <2>3
<1>12. D \cup E = D
  BY <1>4, <1>8, <1>11
<1> QED
  BY <1>2, <1>6, <1>7, <1>12 DEF Complete

------------------------------------------------------------------------------
(* The invariant.                                                            *)

(* The user's text comes next, and spoils the report.                        *)
TextNext(calls) == calls # <<>> /\ Spoils(Head(calls))

(* A report on its way goes on as planned, and one that is done has all that *)
(* was planned, unless the user's text is or was no container.               *)
OutlineInv ==
    /\ mode = "standard" /\ userWhole =>
           Planned(Text, todo, level, mode) \/ TextNext(todo)
    /\ mode = "recrash" => Planned(Text, todo, level, mode)
    /\ mode = "written" => buffer = <<>> /\ (userWhole => Complete(Text, mode))
    /\ mode = "rewritten" => buffer = <<>> /\ Complete(Text, mode)

(* A report has just been begun.                                             *)
LEMMA BeginStandardOutline == WriterInv /\ BeginStandard => OutlineInv'
<1> SUFFICES ASSUME WriterInv, BeginStandard PROVE OutlineInv'
  OBVIOUS
<1>1. PICK c \in Crashes : todo' = StandardReport(c)
  BY DEF BeginStandard
<1>2. c \in ContextType
  BY WriterAssumption
<1>3. PICK D : StandardReport(c) \in Piece(Start, Closed, D) /\ StandardFits(D)
  BY <1>2, OutlineStandardReport
<1>4. /\ mode = "running" /\ mode' = "standard" /\ file' = <<>> /\ buffer' = buffer
      /\ level' = level
  BY DEF BeginStandard
<1>5. buffer = <<>> /\ level = 0
  BY <1>4 DEF WriterInv, TextBalanced, CallsBounded, Writing
<1>6. <<>> \o <<>> = <<>>
  BY ConcatEmptySeq, EmptySeq
<1>7. Text' = <<>>
  BY <1>4, <1>5, <1>6 DEF Text
<1>8. Fits("standard", D)
  BY <1>3 DEF Fits
<1>9. Planned(<<>>, StandardReport(c), 0, "standard")
  BY <1>3, <1>8, PlanBegun
<1> QED
  BY <1>1, <1>4, <1>5, <1>7, <1>9 DEF OutlineInv

(* So has a recrash report.                                                  *)
LEMMA BeginRecrashOutline == WriterInv /\ BeginRecrash => OutlineInv'
<1> SUFFICES ASSUME WriterInv, BeginRecrash PROVE OutlineInv'
  OBVIOUS
<1>1. PICK c \in Crashes : todo' = RecrashReport(c)
  BY DEF BeginRecrash
<1>3. PICK D : /\ RecrashReport(c) \in Piece(Start, Closed, D)
               /\ NamesIn(D, "root", {"report", "crash"})
  BY OutlineRecrashReport
<1>4. mode' = "recrash" /\ file' = <<>> /\ buffer' = <<>> /\ level' = 0
  BY DEF BeginRecrash
<1>6. <<>> \o <<>> = <<>>
  BY ConcatEmptySeq, EmptySeq
<1>7. Text' = <<>>
  BY <1>4, <1>6 DEF Text
<1>8. Fits("recrash", D)
  BY <1>3 DEF Fits, RecrashFits
<1>9. Planned(<<>>, RecrashReport(c), 0, "recrash")
  BY <1>3, <1>8, PlanBegun
<1> QED
  BY <1>1, <1>4, <1>7, <1>9 DEF OutlineInv

(* Of the calls, these are made.                                             *)
LEMMA OtherCallMade ==
    ASSUME MakeCall
    PROVE  /\ Head(todo)[1] = "json" => AddJSON /\ mode' = mode
           /\ Head(todo)[1] = "broken" => BreakOff /\ mode' = mode
           /\ Head(todo)[1] = "user" => BeginUserSection /\ mode' = mode
           /\ Head(todo)[1] = "limit" => StartSearch /\ mode' = mode
           /\ Head(todo)[1] = "memory" => WriteMemoryContents /\ mode' = mode
           /\ Head(todo)[1] = "contents" => WriteContents /\ mode' = mode
           /\ Head(todo)[1] = "ivars" => WriteUnknownObjectContents /\ mode' = mode
           /\ Head(todo)[1] = "close" => Close
           /\ Head(todo)[1] \in {"begin", "fields", "end", "flush", "embed", "remove", "json", "broken",
                                 "user", "limit", "memory", "contents", "ivars", "close"}
  BY DEF MakeCall, Next1, BeginContainer, AddElements, EndContainer, FlushBuffer, Embed, RemoveOld,
     AddJSON, BreakOff, BeginUserSection, StartSearch, WriteMemoryContents, WriteContents,
     WriteUnknownObjectContents, Close

(* A call that writes a token.                                               *)
LEMMA TokenMade ==
    ASSUME WriterInv, MakeCall, Head(todo)[1] \in {"begin", "fields", "end"},
           Head(todo)[1] = "end" => level > 0
    PROVE  /\ Head(todo) \in TokenType /\ mode' = mode /\ Text \in Seq(TokenType)
           /\ Text' = Append(Text, Head(todo)) /\ level' = level + Rise(Head(todo))
           /\ todo' = Tail(todo)
<1> DEFINE call == Head(todo)
<1>1. /\ WriterTypes /\ todo \in Seq(CallType) /\ todo # <<>> /\ level \in Nat
  BY DEF WriterInv, WriterTypes, MakeCall
<1>2. call \in CallType /\ Tail(todo) \in Seq(CallType) /\ Next1 = call
  BY <1>1, HeadTailProperties DEF Next1
<1>3. call \in TokenType
  BY <1>2, CallParts
<1>4. <<>> \o Tail(todo) = Tail(todo)
  BY <1>2, ConcatEmptySeq
<1>5. BeginContainer \/ AddElements \/ (EndContainer /\ level > 0)
  BY CallMade
<1>6. mode' = mode
  BY CallMade
<1> HIDE DEF call
<1>7. Write(call) /\ level' = level + Rise(call) /\ todo' = Tail(todo)
  BY <1>1, <1>2, <1>4, <1>5 DEF BeginContainer, AddElements, EndContainer, Then, Rise
<1>8. Text' = Append(Text, call) /\ Text \in Seq(TokenType)
  BY <1>1, <1>3, <1>7, WriteAppends
<1> QED
  BY <1>3, <1>6, <1>7, <1>8 DEF call

(* A call that writes none.                                                  *)
LEMMA TextKept ==
    ASSUME WriterInv, MakeCall, Head(todo)[1] \notin {"begin", "fields", "end"}
    PROVE  Text' = Text /\ level' = level /\ Text \in Seq(TokenType)
<1>1. WriterTypes
  BY DEF WriterInv
<1>2. Text \in Seq(TokenType)
  BY <1>1, ConcatProperties DEF WriterTypes, Text
<1>3. \/ FlushBuffer \/ Embed \/ RemoveOld \/ AddJSON \/ BreakOff \/ BeginUserSection \/ StartSearch
      \/ WriteMemoryContents \/ WriteContents \/ WriteUnknownObjectContents \/ Close
  BY CallMade, OtherCallMade
<1>4. level' = level
  BY <1>3 DEF FlushBuffer, Embed, RemoveOld, AddJSON, BreakOff, BeginUserSection, StartSearch,
     WriteMemoryContents, WriteContents, WriteUnknownObjectContents, Close, output
<1>5. \/ file' = file /\ buffer' = buffer
      \/ file' = file \o buffer /\ buffer' = <<>>
  BY <1>3 DEF FlushBuffer, Embed, RemoveOld, AddJSON, BreakOff, BeginUserSection, StartSearch,
     WriteMemoryContents, WriteContents, WriteUnknownObjectContents, Close, output
<1>6. Text' = Text
  <2>1. file' = file /\ buffer' = buffer => Text' = Text
    BY DEF Text
  <2> QED
    BY <1>1, <1>5, <2>1, FlushKeepsText
<1> QED
  BY <1>2, <1>4, <1>6

(* A text that is no container comes next.                                   *)
LEMMA TextComesNext ==
    ASSUME NEW rest \in Seq(CallType), NEW text \in {"scalar", "broken"}
    PROVE  TextNext(UserCalls(text) \o rest)
<1> DEFINE call == <<"json", "user", text, FALSE>>
           s == <<call>> \o Flush
<1>1. call \in CallType
  <2>1. "user" \in Names /\ text \in Texts /\ FALSE \in BOOLEAN
    BY EmbeddedNames DEF Texts
  <2> QED
    BY <2>1 DEF CallType
<1>2. Flush \in Seq(CallType)
  <2>1. <<"flush">> \in CallType
    BY DEF CallType
  <2> QED
    BY <2>1 DEF Flush
<1>3. s = UserCalls(text)
  BY DEF UserCalls
<1>4. Spoils(call)
  BY DEF Spoils
<1> HIDE DEF call
<1>5. s \in Seq(CallType) /\ s # <<>> /\ Head(s) = call
  BY <1>1, <1>2, CallCons
<1> HIDE DEF s
<1>6. s \o rest # <<>> /\ Head(s \o rest) = call
  BY <1>5, HeadTailOfConcat
<1> QED
  BY <1>3, <1>4, <1>6 DEF TextNext

(* What a call leads to while a report goes on as planned.                   *)
LEMMA PlannedStep ==
    ASSUME WriterInv, MakeCall, Planned(Text, todo, level, mode)
    PROVE  \/ /\ mode' = mode
              /\ \/ Planned(Text', todo', level', mode)
                 \/ mode = "standard" /\ TextNext(todo')
           \/ Head(todo)[1] = "close" /\ level = 0 /\ Complete(Text', mode)
<1> DEFINE call == Head(todo)
           rest == Tail(todo)
<1>1. /\ todo \in Seq(CallType) /\ todo # <<>> /\ level \in Nat /\ limit \in Int
      /\ mode \in {"standard", "recrash"}
  BY DEF WriterInv, WriterTypes, MakeCall
<1>2. call \in CallType /\ rest \in Seq(CallType) /\ Next1 = call
  BY <1>1, HeadTailProperties DEF Next1
<1>3. /\ call[1] = "json" => call[2] \in Names /\ call[3] \in Texts /\ call[4] \in BOOLEAN
      /\ call[1] = "memory" => call[2] \in Names /\ call[3] \in Words
      /\ call[1] \in {"contents", "ivars"} => call[2] \in Objects
  BY <1>2, CallParts
<1>4. CASE call[1] \in {"begin", "fields", "end"}
  <2>0. call \in TokenType
    BY <1>2, <1>4, CallParts
  <2>1. Text \in Seq(TokenType)
    BY ConcatProperties DEF WriterInv, WriterTypes, Text
  <2>2. /\ Planned(Append(Text, call), rest, level + Rise(call), mode)
        /\ call[1] = "end" => level >= 1
    BY <1>1, <2>0, <2>1, PlanWritten
  <2>3. call[1] = "end" => level > 0
    BY <1>1, <2>2
  <2>4. /\ mode' = mode /\ Text' = Append(Text, call) /\ level' = level + Rise(call)
        /\ todo' = rest
    BY <1>4, <2>3, TokenMade
  <2> QED
    BY <2>2, <2>4
<1>5. call[1] \notin {"begin", "fields", "end"} => Text' = Text /\ level' = level
  BY TextKept
<1>6. CASE call[1] \in {"flush", "limit", "remove"}
  <2>1. FlushBuffer \/ StartSearch \/ RemoveOld
    BY <1>6, CallMade, OtherCallMade
  <2>2. mode' = mode
    BY <1>6, CallMade, OtherCallMade
  <2>3. todo' = <<>> \o rest
    BY <2>1 DEF FlushBuffer, StartSearch, RemoveOld, Then
  <2>4. Planned(Text, <<>> \o rest, level, mode)
    BY <1>1, <1>6, PlanDropped
  <2> QED
    BY <1>5, <1>6, <2>2, <2>3, <2>4
<1>7. CASE call[1] = "embed"
  <2>1. Embed /\ mode' = mode
    BY <1>7, CallMade
  <2>2. PICK n \in StopsAfter(FirstObject(old)) :
            todo' = When(SubSeq(FirstObject(old), 1, n) # <<>>,
                         EmbeddedText(SubSeq(FirstObject(old), 1, n))) \o rest
    BY <2>1 DEF Embed, Then, EmbeddedText
  <2> DEFINE report == SubSeq(FirstObject(old), 1, n)
  <2>3. CASE report = <<>>
    <3>1. todo' = <<>> \o rest
      BY <2>2, <2>3 DEF When
    <3>2. Planned(Text, <<>> \o rest, level, mode)
      BY <1>1, <1>7, PlanDropped
    <3> QED
      BY <1>5, <1>7, <2>1, <3>1, <3>2
  <2>4. CASE report # <<>>
    <3>1. old # <<>>
      <4>1. old \in Seq(TokenType)
        BY DEF WriterInv, WriterTypes
      <4> QED
        BY <2>4, <4>1, StoppedReport
    <3>2. mode = "recrash"
      BY <1>1, <3>1 DEF WriterInv, OldBalanced
    <3>3. todo' = EmbeddedText(report) \o rest
      BY <2>2, <2>4 DEF When
    <3>4. Planned(Text, EmbeddedText(report) \o rest, level, "recrash")
      BY <1>1, <1>7, <2>4, <3>2, PlanEmbedded
    <3> HIDE DEF report
    <3> QED
      BY <1>5, <1>7, <2>1, <3>2, <3>3, <3>4
  <2> QED
    BY <2>3, <2>4
<1>8. CASE call[1] = "json"
  <2>1. AddJSON /\ mode' = mode
    BY <1>8, OtherCallMade
  <2>2. todo' = JSONCalls(call[2], call[3], call[4]) \o rest
    BY <1>2, <2>1 DEF AddJSON, Then, JSONCalls
  <2>3. Planned(Text, JSONCalls(call[2], call[3], call[4]) \o rest, level, mode)
    BY <1>1, <1>8, PlanJSON
  <2> QED
    BY <1>5, <1>8, <2>1, <2>2, <2>3
<1>9. CASE call[1] = "user"
  <2>1. BeginUserSection /\ mode' = mode
    BY <1>9, OtherCallMade
  <2>2. PICK info \in IF userInfo = "freed" THEN Texts ELSE {userInfo} :
            todo' = UserCalls(info) \o rest
    BY <2>1 DEF BeginUserSection, Then, UserCalls
  <2>3. info \in {"NULL", "object", "scalar", "broken"}
    BY DEF WriterInv, WriterTypes, Texts
  <2>4. /\ level = 1 /\ mode \in {"standard", "written"}
        /\ \A i \in {"NULL", "object"} : Planned(Text, UserCalls(i) \o rest, level, mode)
    BY <1>1, <1>9, PlanUser
  <2>5. CASE info \in {"NULL", "object"}
    BY <1>5, <1>9, <2>1, <2>2, <2>4, <2>5
  <2>6. CASE info \in {"scalar", "broken"}
    <3>1. TextNext(todo')
      BY <1>2, <2>2, <2>6, TextComesNext
    <3>2. mode = "standard"
      BY <1>1, <2>4
    <3> QED
      BY <2>1, <3>1, <3>2
  <2> QED
    BY <2>3, <2>5, <2>6
<1>10. CASE call[1] = "memory"
  <2> DEFINE more == MemoryCalls(call[2], call[3])
  <2>1. WriteMemoryContents /\ mode' = mode
    BY <1>10, OtherCallMade
  <2>2. todo' = more \o rest
    BY <1>2, <2>1 DEF WriteMemoryContents, Then, MemoryCalls
  <2>3. \A o : Deep(o) /\ o.depth >= 3 => more \in Quiet(o)
    BY <1>3, <1>10, MemoryOutline
  <2> HIDE DEF more
  <2>4. Planned(Text, more \o rest, level, mode)
    BY <1>1, <1>10, <2>3, PlanQuiet
  <2> QED
    BY <1>5, <1>10, <2>1, <2>2, <2>4
<1>11. CASE call[1] = "contents"
  <2> DEFINE more == ContentsCalls(call[2], limit)
  <2>1. WriteContents /\ mode' = mode
    BY <1>11, OtherCallMade
  <2>2. todo' = more \o rest
    BY <1>2, <2>1 DEF WriteContents, Then, ContentsCalls
  <2>3. \A o : Deep(o) /\ o.depth >= 3 => more \in Quiet(o)
    BY <1>1, <1>3, <1>11, ContentsOutline
  <2> HIDE DEF more
  <2>4. Planned(Text, more \o rest, level, mode)
    BY <1>1, <1>11, <2>3, PlanQuiet
  <2> QED
    BY <1>5, <1>11, <2>1, <2>2, <2>4
<1>12. CASE call[1] = "ivars"
  <2> DEFINE more == IvarsCalls(call[2])
  <2>1. WriteUnknownObjectContents /\ mode' = mode
    BY <1>12, OtherCallMade
  <2>2. todo' = more \o rest
    BY <1>2, <2>1 DEF WriteUnknownObjectContents, Then, IvarsCalls, IvarsOf
  <2>3. \A o : Deep(o) /\ o.depth >= 3 => more \in Quiet(o)
    BY <1>3, <1>12, IvarsOutline
  <2> HIDE DEF more
  <2>4. Planned(Text, more \o rest, level, mode)
    BY <1>1, <1>12, <2>3, PlanQuiet
  <2> QED
    BY <1>5, <1>12, <2>1, <2>2, <2>4
<1>13. CASE call[1] = "close"
  <2>1. level = 0 /\ Complete(Text, mode)
    BY <1>1, <1>13, PlanClosed
  <2> QED
    BY <1>5, <1>13, <2>1
<1>14. CASE call[1] = "broken"
  <2> DEFINE more == BrokenCalls(call[2], call[3], call[4])
  <2>1. BreakOff /\ mode' = mode
    BY <1>14, OtherCallMade
  <2>2. todo' = <<>> \o rest \/ (call[3] > 0 /\ todo' = more \o rest)
    BY <1>2, <2>1 DEF BreakOff, Then, BrokenCalls
  <2>3. /\ Planned(Text, <<>> \o rest, level, mode)
        /\ call[3] > 0 => Planned(Text, more \o rest, level, mode)
    BY <1>1, <1>14, PlanBroken
  <2> HIDE DEF more
  <2> QED
    BY <1>5, <1>14, <2>1, <2>2, <2>3
<1>15. call[1] \in {"begin", "fields", "end", "flush", "embed", "remove", "json", "broken", "user",
                    "limit", "memory", "contents", "ivars", "close"}
  BY OtherCallMade
<1> HIDE DEF call, rest
<1> QED
  BY <1>4, <1>6, <1>7, <1>8, <1>9, <1>10, <1>11, <1>12, <1>13, <1>14, <1>15 DEF call

(* Every call keeps the report as planned.                                   *)
LEMMA MakeCallOutline == WriterInv /\ OutlineInv /\ MakeCall => OutlineInv'
<1> SUFFICES ASSUME WriterInv, OutlineInv, MakeCall PROVE OutlineInv'
  OBVIOUS
<1>1. mode \in {"standard", "recrash"}
  BY DEF MakeCall
<1>2. \/ mode' = mode
      \/ /\ Head(todo)[1] = "close" /\ buffer' = <<>>
         /\ mode' = (IF mode = "standard" THEN "written" ELSE "rewritten")
  BY DEF MakeCall, Close, Next1
<1>3. Head(todo)[1] = "close" =>
          \/ mode' = mode
          \/ /\ buffer' = <<>>
             /\ mode' = (IF mode = "standard" THEN "written" ELSE "rewritten")
  BY <1>2
<1>4. Head(todo)[1] = "close" /\ level = 0 =>
          /\ buffer' = <<>>
          /\ mode' = (IF mode = "standard" THEN "written" ELSE "rewritten")
  BY OtherCallMade DEF Close
<1>5. \A text : /\ Complete(text, "standard") => Complete(text, "written")
                /\ Complete(text, "recrash") => Complete(text, "rewritten")
  BY DEF Complete, Fits
<1>6. CASE Planned(Text, todo, level, mode)
  <2>1. CASE /\ mode' = mode
             /\ \/ Planned(Text', todo', level', mode)
                \/ mode = "standard" /\ TextNext(todo')
    BY <1>1, <2>1 DEF OutlineInv
  <2>2. CASE Head(todo)[1] = "close" /\ level = 0 /\ Complete(Text', mode)
    <3>1. CASE mode = "standard"
      <4>1. mode' = "written" /\ buffer' = <<>> /\ Complete(Text', "written")
        BY <1>4, <1>5, <2>2, <3>1
      <4> QED
        BY <4>1 DEF OutlineInv
    <3>2. CASE mode = "recrash"
      <4>1. mode' = "rewritten" /\ buffer' = <<>> /\ Complete(Text', "rewritten")
        BY <1>4, <1>5, <2>2, <3>2
      <4> QED
        BY <4>1 DEF OutlineInv
    <3> QED
      BY <1>1, <3>1, <3>2
  <2> QED
    BY <1>6, <2>1, <2>2, PlannedStep
<1>7. CASE mode = "standard" /\ (~userWhole \/ TextNext(todo))
  <2>1. userWhole' = FALSE
    BY <1>7 DEF MakeCall, TextNext, Next1, WriterInv, WriterTypes
  <2>2. mode' = "standard" \/ (mode' = "written" /\ buffer' = <<>>)
    BY <1>2, <1>7
  <2> QED
    BY <2>1, <2>2 DEF OutlineInv
<1>8. \/ Planned(Text, todo, level, mode)
      \/ mode = "standard" /\ (~userWhole \/ TextNext(todo))
  BY <1>1 DEF OutlineInv
<1> QED
  BY <1>6, <1>7, <1>8

(* So does every step.                                                       *)
LEMMA NextOutline == WriterInv /\ OutlineInv /\ [Next]_vars => OutlineInv'
<1> SUFFICES ASSUME WriterInv, OutlineInv, [Next]_vars PROVE OutlineInv'
  OBVIOUS
<1>1. CASE BeginStandard
  BY <1>1, BeginStandardOutline
<1>2. CASE BeginRecrash
  BY <1>2, BeginRecrashOutline
<1>3. CASE MakeCall
  BY <1>3, MakeCallOutline
<1>4. CASE UNCHANGED <<mode, todo, output, userWhole>>
  <2>1. /\ mode' = mode /\ todo' = todo /\ level' = level /\ file' = file /\ buffer' = buffer
        /\ userWhole' = userWhole
    BY <1>4 DEF output
  <2>2. Text' = Text
    BY <2>1 DEF Text
  <2> QED
    BY <2>1, <2>2 DEF OutlineInv
<1>5. \/ BeginStandard \/ BeginRecrash \/ MakeCall \/ UNCHANGED <<mode, todo, output, userWhole>>
  BY DEF Next, vars, output, FreeUserInfo, AssignUserInfo, SetClasses, SetCount, Enter, Leave
<1> QED
  BY <1>1, <1>2, <1>3, <1>4, <1>5

(* A report that is complete has its sections.                               *)
LEMMA CompleteReport ==
    ASSUME NEW text \in Seq(TokenType), NEW m, Complete(text, m)
    PROVE  /\ IsWhole(text)
           /\ m = "written" => /\ Under(text, "root") = Sections
                               /\ Under(text, "crash") = {"error", "threads"}
           /\ m = "rewritten" =>
                  Under(text, "root") \in {{"report", "crash"}, {"recrash_report", "report", "crash"}}
<1>1. PICK D : text \in Piece(Start, Finish, D) /\ Fits(m, D)
  BY DEF Complete
<1>2. PICK g : Path(text, g) /\ g[0] = Start /\ g[Len(text)] = Finish /\ Noticed(text, g) = D
  BY <1>1 DEF Piece
<1>3. Run(text, g)
  BY <1>2 DEF Run
<1>4. StandardFits(D) \/ RecrashFits(D)
  BY <1>1 DEF Fits
<1>5. <<"root", "root">> \notin Noticed(text, g)
  BY <1>2, <1>4 DEF StandardFits, RecrashFits, NamesIn, Sections
<1>6. \A x : /\ x \in Under(text, "root") <=> <<"root", x>> \in D
             /\ x \in Under(text, "crash") <=> <<"crash", x>> \in D
  BY <1>2, <1>3, <1>5, RunUnder
<1>7. IsWhole(text)
  BY <1>3, RunIsWhole
<1>8. ASSUME m = "written"
      PROVE  Under(text, "root") = Sections /\ Under(text, "crash") = {"error", "threads"}
  <2>1. StandardFits(D)
    BY <1>1, <1>8 DEF Fits
  <2>2. \A x : x \in Under(text, "root") <=> x \in Sections
    BY <1>6, <2>1 DEF StandardFits, NamesIn
  <2>3. \A x : x \in Under(text, "crash") <=> x \in {"error", "threads"}
    BY <1>6, <2>1 DEF StandardFits, NamesIn
  <2> QED
    BY <2>2, <2>3
<1>9. ASSUME m = "rewritten"
      PROVE  Under(text, "root") \in {{"report", "crash"}, {"recrash_report", "report", "crash"}}
  <2>1. RecrashFits(D)
    BY <1>1, <1>9 DEF Fits
  <2>2. ASSUME NEW S, NamesIn(D, "root", S) PROVE Under(text, "root") = S
    <3>1. \A x : x \in Under(text, "root") <=> x \in S
      BY <1>6, <2>2 DEF NamesIn
    <3> QED
      BY <3>1
  <2> QED
    BY <2>1, <2>2 DEF RecrashFits
<1> QED
  BY <1>7, <1>8, <1>9

(* A report that is complete is one object with all its sections at its      *)
(* root, and the error and the threads in its crash section, unless the      *)
(* user's text was a scalar or decoding it broke off; a recrash report that  *)
(* is complete has its own, and the old report if any of it could be read    *)
(* back (crasheecrashreport_writeStandardReport,                             *)
(* crasheecrashreport_writeRecrashReport, addJSONElement).                   *)
THEOREM SectionsAreFound == Spec => []SectionsFound
<1>1. Init => WriterInv /\ OutlineInv
  BY InitWriter DEF Init, OutlineInv
<1>2. WriterInv /\ OutlineInv /\ [Next]_vars => WriterInv' /\ OutlineInv'
  BY NextWriter, NextOutline
<1>3. WriterInv /\ OutlineInv => SectionsFound
  <2> SUFFICES ASSUME WriterInv, OutlineInv PROVE SectionsFound
    OBVIOUS
  <2>1. file \in Seq(TokenType)
    BY DEF WriterInv, WriterTypes
  <2>2. buffer = <<>> => Text = file
    BY <2>1, ConcatEmptySeq DEF Text
  <2>3. ASSUME mode = "written", userWhole
        PROVE  /\ IsWhole(file) /\ Under(file, "root") = Sections
               /\ Under(file, "crash") = {"error", "threads"}
    <3>1. Complete(file, "written")
      BY <2>2, <2>3 DEF OutlineInv
    <3> QED
      BY <2>1, <3>1, CompleteReport
  <2>4. ASSUME mode = "rewritten"
        PROVE  /\ IsWhole(file)
               /\ Under(file, "root") \in {{"report", "crash"}, {"recrash_report", "report", "crash"}}
    <3>1. Complete(file, "rewritten")
      BY <2>2, <2>4 DEF OutlineInv
    <3> QED
      BY <2>1, <3>1, CompleteReport
  <2> QED
    BY <2>3, <2>4 DEF SectionsFound
<1> QED
  BY <1>1, <1>2, <1>3, PTL DEF Spec

==============================================================================
