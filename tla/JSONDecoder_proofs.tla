------------------------- MODULE JSONDecoder_proofs -------------------------
(***************************************************************************)
(* Proofs about the JSON codec at work: whatever the text and wherever the *)
(* buffer cuts it, the report that addJSONFromFile embeds it into is well  *)
(* formed and its last section is a member of its root, and what the fixer *)
(* hands out is well formed.  The inductive invariant, CodecInv, says that *)
(* the automaton of the grammar, having read what the encoder has written, *)
(* is where the encoder's context takes it to be.                          *)
(***************************************************************************)
EXTENDS JSONDecoder, WellFoundedInduction, FiniteSetTheorems, SequenceTheorems, TLAPS

-----------------------------------------------------------------------------
(* Induction over numbers, stated for sets.                                 *)

(* A set of numbers with 0 and the successors of its members is Nat.        *)
LEMMA SetInduction ==
    ASSUME NEW S \in SUBSET Nat, 0 \in S, \A n \in S : n + 1 \in S
    PROVE  S = Nat
<1> SUFFICES ASSUME Nat \ S # {} PROVE FALSE
  OBVIOUS
<1> DEFINE Below(n) == 0 .. (n - 1)
           T == {Below(n) : n \in Nat \ S}
<1>1. IsWellFoundedOn(StrictSubsetOrdering(Nat), FiniteSubsetsOf(Nat))
  BY FS_StrictSubsetOrderingWellFounded
<1>2. T # {} /\ T \subseteq FiniteSubsetsOf(Nat)
  <2>1. \A n \in Nat : Below(n) \in FiniteSubsetsOf(Nat)
    <3> TAKE n \in Nat
    <3>1. IsFiniteSet(Below(n))
      BY FS_Interval
    <3>2. Below(n) \subseteq Nat
      OBVIOUS
    <3> QED
      BY <3>1, <3>2 DEF FiniteSubsetsOf
  <2> QED
    BY <2>1
<1>3. PICK b \in T : \A c \in T : ~(<<c, b>> \in StrictSubsetOrdering(Nat))
  BY <1>1, <1>2, WFMin
<1>3a. PICK x \in Nat \ S : b = Below(x)
  BY <1>3
<1> HIDE DEF T
<1>4. x # 0 /\ x - 1 \in Nat /\ x - 1 < x
  OBVIOUS
<1>5. CASE x - 1 \in S
  BY <1>4, <1>5
<1>6. CASE x - 1 \notin S
  <2>1. Below(x - 1) \in T
   BY <1>4, <1>6 DEF T
  <2>2. Below(x - 1) \subseteq Below(x) /\ x - 1 \in Below(x) /\ x - 1 \notin Below(x - 1)
   BY <1>4
  <2>3. <<Below(x - 1), Below(x)>> \in StrictSubsetOrdering(Nat)
   BY <2>2 DEF StrictSubsetOrdering
  <2> QED
   BY <2>1, <2>3, <1>3, <1>3a
<1> QED
  BY <1>5, <1>6

-----------------------------------------------------------------------------
(* Reading a text.                                                           *)

(* The states on the way through the first n characters of a text.           *)
Run(f, s, text_, n) ==
    f = [i \in 0 .. n |-> IF i = 0 THEN s ELSE Read(f[i - 1], text_[i])]

(* What a run is, and where it ends.                                         *)
LEMMA RunFacts ==
    ASSUME NEW f, NEW s, NEW t, NEW n \in Nat, Run(f, s, t, n)
    PROVE  f[0] = s /\ \A i \in 1 .. n : f[i] = Read(f[i - 1], t[i])
<1>1. f = [i \in 0 .. n |-> IF i = 0 THEN s ELSE Read(f[i - 1], t[i])]
  BY DEF Run
<1> DEFINE g == [i \in 0 .. n |-> IF i = 0 THEN s ELSE Read(f[i - 1], t[i])]
<1>2. g[0] = s /\ \A i \in 1 .. n : g[i] = Read(f[i - 1], t[i])
  OBVIOUS
<1>3. f = g
  BY <1>1
<1> HIDE DEF g
<1> QED
  BY <1>2, <1>3

(* Every text has a run.                                                     *)
LEMMA RunExists ==
    ASSUME NEW s, NEW t, NEW n \in Nat
    PROVE  \E f : Run(f, s, t, n)
<1> DEFINE Upto == {k \in Nat : \E f : Run(f, s, t, k)}
<1>1. 0 \in Upto
  <2>1. Run([i \in 0 .. 0 |-> s], s, t, 0)
    <3> DEFINE f == [i \in 0 .. 0 |-> s]
    <3>1. f = [i \in 0 .. 0 |-> IF i = 0 THEN s ELSE Read(f[i - 1], t[i])]
      <4> HIDE DEF f
      <4>1. \A i \in 0 .. 0 : i = 0
        OBVIOUS
      <4> QED
        BY <4>1 DEF f
    <3> QED
      BY <3>1 DEF Run
  <2> QED
    BY <2>1
<1>2. ASSUME NEW k \in Upto PROVE k + 1 \in Upto
  <2>1. k \in Nat
    OBVIOUS
  <2>2. PICK f : Run(f, s, t, k)
    OBVIOUS
  <2> DEFINE next == Read(f[k], t[k + 1])
             g == [i \in 0 .. (k + 1) |-> IF i <= k THEN f[i] ELSE next]
             h == [i \in 0 .. (k + 1) |-> IF i = 0 THEN s ELSE Read(g[i - 1], t[i])]
  <2>3. f[0] = s /\ \A i \in 1 .. k : f[i] = Read(f[i - 1], t[i])
    BY <2>1, <2>2, RunFacts
  <2>4. ASSUME NEW i \in 0 .. (k + 1)
        PROVE  g[i] = IF i = 0 THEN s ELSE Read(g[i - 1], t[i])
    <3>1. g[i] = IF i <= k THEN f[i] ELSE next
      OBVIOUS
    <3>2. i # 0 => i - 1 \in 0 .. (k + 1) /\ i - 1 <= k
      BY <2>1
    <3>3. i # 0 => g[i - 1] = f[i - 1]
      BY <3>2
    <3> HIDE DEF g
    <3>4. CASE i = 0
      BY <2>1, <2>3, <3>1, <3>4
    <3>5. CASE i # 0 /\ i <= k
      <4>1. i \in 1 .. k
        BY <2>1, <3>5
      <4>2. f[i] = Read(f[i - 1], t[i])
        BY <2>3, <4>1
      <4> QED
        BY <3>1, <3>3, <3>5, <4>2
    <3>6. CASE i # 0 /\ ~(i <= k)
      <4>1. i = k + 1 /\ i - 1 = k
        BY <2>1, <3>6
      <4> QED
        BY <3>1, <3>3, <3>6, <4>1
    <3> QED
      BY <3>4, <3>5, <3>6
  <2>5. g = h
    <3> HIDE DEF next
    <3>1. \A i \in 0 .. (k + 1) : h[i] = IF i = 0 THEN s ELSE Read(g[i - 1], t[i])
      <4> HIDE DEF g
      <4> QED
        OBVIOUS
    <3>2. \A i \in 0 .. (k + 1) : g[i] = h[i]
      <4> HIDE DEF g, h
      <4> QED
        BY <2>4, <3>1
    <3>3. DOMAIN g = 0 .. (k + 1) /\ g = [i \in DOMAIN g |-> g[i]]
      OBVIOUS
    <3>4. DOMAIN h = 0 .. (k + 1) /\ h = [i \in DOMAIN h |-> h[i]]
      <4> HIDE DEF g
      <4> QED
        OBVIOUS
    <3> HIDE DEF g, h
    <3> QED
      BY <3>2, <3>3, <3>4
  <2>6. Run(g, s, t, k + 1)
    <3> HIDE DEF g
    <3> QED
      BY <2>5 DEF Run
  <2> QED
    BY <2>1, <2>6
<1>3. Upto \in SUBSET Nat
  OBVIOUS
<1> HIDE DEF Upto
<1>4. Upto = Nat
  BY <1>1, <1>2, <1>3, SetInduction
<1> QED
  BY <1>4 DEF Upto

(* Where two texts agree, their runs do.                                     *)
LEMMA RunsAgree ==
    ASSUME NEW s, NEW t, NEW u, NEW m \in Nat, NEW n \in Nat, m <= n,
           NEW f, Run(f, s, t, m), NEW g, Run(g, s, u, n),
           \A i \in 1 .. m : t[i] = u[i]
    PROVE  f[m] = g[m]
<1>1. f[0] = s /\ \A i \in 1 .. m : f[i] = Read(f[i - 1], t[i])
  BY RunFacts
<1>2. g[0] = s /\ \A i \in 1 .. n : g[i] = Read(g[i - 1], u[i])
  BY RunFacts
<1> DEFINE Upto == {k \in Nat : k <= m => f[k] = g[k]}
<1>3. 0 \in Upto
  BY <1>1, <1>2
<1>4. ASSUME NEW k \in Upto PROVE k + 1 \in Upto
  <2>1. k \in Nat /\ (k <= m => f[k] = g[k])
    OBVIOUS
  <2>2. ASSUME k + 1 <= m PROVE f[k + 1] = g[k + 1]
    <3>1. k + 1 \in 1 .. m /\ k + 1 \in 1 .. n /\ k + 1 - 1 = k /\ k <= m
      BY <2>1, <2>2
    <3>2. f[k + 1] = Read(f[k], t[k + 1]) /\ g[k + 1] = Read(g[k], u[k + 1])
      BY <1>1, <1>2, <3>1
    <3> QED
      BY <2>1, <3>1, <3>2
  <2> QED
    BY <2>1, <2>2
<1>5. Upto \in SUBSET Nat
  OBVIOUS
<1> HIDE DEF Upto
<1>6. Upto = Nat
  BY <1>3, <1>4, <1>5, SetInduction
<1>7. m \in Upto
  BY <1>6
<1> QED
  BY <1>7 DEF Upto

(* ReadAll is where a run of the text ends.                                  *)
LEMMA ReadAllRun ==
    ASSUME NEW s, NEW t \in Seq(Chars)
    PROVE  \E f : Run(f, s, t, Len(t)) /\ ReadAll(s, t) = f[Len(t)]
<1> DEFINE n == Len(t)
           f == CHOOSE f : f = [i \in 0 .. n |-> IF i = 0 THEN s ELSE Read(f[i - 1], t[i])]
<1>1. n \in Nat
  OBVIOUS
<1>2. ReadAll(s, t) = f[n]
  BY DEF ReadAll
<1> HIDE DEF n
<1>3. \E g : g = [i \in 0 .. n |-> IF i = 0 THEN s ELSE Read(g[i - 1], t[i])]
  <2>1. PICK g : Run(g, s, t, n)
    BY <1>1, RunExists
  <2>2. g = [i \in 0 .. n |-> IF i = 0 THEN s ELSE Read(g[i - 1], t[i])]
    BY <2>1 DEF Run
  <2> QED
    BY <2>2
<1>4. f = [i \in 0 .. n |-> IF i = 0 THEN s ELSE Read(f[i - 1], t[i])]
  BY <1>3
<1>5. Run(f, s, t, n)
  <2> HIDE DEF f
  <2> QED
    BY <1>4 DEF Run
<1> QED
  BY <1>2, <1>5 DEF n

(* Nothing to read leaves the state.                                         *)
LEMMA ReadNothing ==
    ASSUME NEW s
    PROVE  ReadAll(s, <<>>) = s
<1>1. <<>> \in Seq(Chars) /\ Len(<<>>) = 0
  OBVIOUS
<1>2. PICK f : Run(f, s, <<>>, 0) /\ ReadAll(s, <<>>) = f[0]
  BY <1>1, ReadAllRun
<1> QED
  BY <1>2, RunFacts

(* One character more.                                                       *)
LEMMA ReadOneMore ==
    ASSUME NEW s, NEW t \in Seq(Chars), NEW ch \in Chars
    PROVE  ReadAll(s, Append(t, ch)) = Read(ReadAll(s, t), ch)
<1> DEFINE n == Len(t)
           u == Append(t, ch)
<1>1. n \in Nat /\ u \in Seq(Chars) /\ Len(u) = n + 1 /\ u[n + 1] = ch
      /\ \A i \in 1 .. n : u[i] = t[i]
  OBVIOUS
<1> HIDE DEF u
<1>2. PICK f : Run(f, s, t, n) /\ ReadAll(s, t) = f[n]
  BY ReadAllRun
<1> HIDE DEF n
<1>3. PICK g : Run(g, s, u, n + 1) /\ ReadAll(s, u) = g[n + 1]
  BY <1>1, ReadAllRun
<1>4. f[n] = g[n]
  <2>1. n + 1 \in Nat /\ n <= n + 1
    BY <1>1
  <2>2. \A i \in 1 .. n : t[i] = u[i]
    BY <1>1
  <2> QED
    BY <1>1, <1>2, <1>3, <2>1, <2>2, RunsAgree
<1>5. g[n + 1] = Read(g[n], u[n + 1])
  <2>1. n + 1 \in Nat /\ n + 1 \in 1 .. (n + 1) /\ n + 1 - 1 = n
    BY <1>1
  <2>2. \A i \in 1 .. (n + 1) : g[i] = Read(g[i - 1], u[i])
    BY <1>3, <2>1, RunFacts
  <2>3. PICK m \in 1 .. (n + 1) : m = n + 1 /\ m - 1 = n
    BY <1>1, <2>1
  <2>4. g[m] = Read(g[m - 1], u[m])
    BY <2>2
  <2> QED
    BY <2>3, <2>4
<1> QED
  BY <1>1, <1>2, <1>3, <1>4, <1>5 DEF u

(* One text after the other.                                                 *)
LEMMA ReadOn ==
    ASSUME NEW s, NEW t \in Seq(Chars), NEW u \in Seq(Chars)
    PROVE  ReadAll(s, t \o u) = ReadAll(ReadAll(s, t), u)
<1> DEFINE Upto == {k \in Nat : \A v \in Seq(Chars) : Len(v) = k =>
                       ReadAll(s, t \o v) = ReadAll(ReadAll(s, t), v)}
<1>1. 0 \in Upto
  <2> SUFFICES ASSUME NEW v \in Seq(Chars), Len(v) = 0
               PROVE  ReadAll(s, t \o v) = ReadAll(ReadAll(s, t), v)
    OBVIOUS
  <2>1. v = <<>> /\ t \o v = t
    OBVIOUS
  <2> QED
    BY <2>1, ReadNothing
<1>2. ASSUME NEW k \in Upto PROVE k + 1 \in Upto
  <2>1. k \in Nat /\ \A v \in Seq(Chars) : Len(v) = k =>
           ReadAll(s, t \o v) = ReadAll(ReadAll(s, t), v)
    OBVIOUS
  <2>2. ASSUME NEW v \in Seq(Chars), Len(v) = k + 1
        PROVE  ReadAll(s, t \o v) = ReadAll(ReadAll(s, t), v)
    <3> DEFINE w == SubSeq(v, 1, k)
               ch == v[k + 1]
    <3>1. w \in Seq(Chars) /\ Len(w) = k /\ ch \in Chars /\ v = Append(w, ch)
      BY <2>1, <2>2
    <3> HIDE DEF w, ch
    <3>2. t \o v = Append(t \o w, ch) /\ t \o w \in Seq(Chars)
      BY <3>1
    <3>3. ReadAll(s, t \o v) = Read(ReadAll(s, t \o w), ch)
      <4>1. ReadAll(s, Append(t \o w, ch)) = Read(ReadAll(s, t \o w), ch)
        BY <3>1, <3>2, ReadOneMore
      <4> QED
        BY <3>2, <4>1
    <3>4. ReadAll(ReadAll(s, t), v) = Read(ReadAll(ReadAll(s, t), w), ch)
      BY <3>1, ReadOneMore
    <3>5. ReadAll(s, t \o w) = ReadAll(ReadAll(s, t), w)
      BY <2>1, <3>1
    <3> QED
      BY <3>3, <3>4, <3>5
  <2> QED
    BY <2>1, <2>2
<1>3. Upto \in SUBSET Nat
  OBVIOUS
<1> HIDE DEF Upto
<1>4. Upto = Nat
  BY <1>1, <1>2, <1>3, SetInduction
<1>5. Len(u) \in Upto
  BY <1>4
<1> QED
  BY <1>5 DEF Upto

(* A single character.                                                       *)
LEMMA ReadOne ==
    ASSUME NEW s, NEW ch \in Chars
    PROVE  ReadAll(s, <<ch>>) = Read(s, ch)
<1>1. <<>> \in Seq(Chars) /\ Append(<<>>, ch) = <<ch>> 
  OBVIOUS
<1>2. ReadAll(s, Append(<<>>, ch)) = Read(ReadAll(s, <<>>), ch)
  BY <1>1, ReadOneMore
<1> QED
  BY <1>1, <1>2, ReadNothing

-----------------------------------------------------------------------------
(* What single characters do to a state.                                    *)

Behind(open) == IF open = <<>> THEN "end" ELSE "more"

(* What is expected behind a value.                                          *)
LEMMA AfterPoint ==
    ASSUME NEW a, NEW o, NEW m
    PROVE  After(Point(a, o, m)) = Point(Behind(o), o, m)
  BY DEF After, Point, Behind

(* Quotes.                                                                   *)
LEMMA ReadQuote ==
    ASSUME NEW o, NEW m
    PROVE  /\ \A a \in {"firstName", "name"} : Read(Point(a, o, m), Quote) = Point("key", o, m)
           /\ \A a \in {"firstValue", "value"} : Read(Point(a, o, m), Quote) = Point("string", o, m)
           /\ Read(Point("key", o, m), Quote) = Point("colon", o, m)
           /\ Read(Point("string", o, m), Quote) = Point(Behind(o), o, m)
<1>1. Quote = "quote" /\ Quote \in Structure
  BY DEF Quote, Structure
<1>2. \A a \in {"firstName", "name"} : Read(Point(a, o, m), Quote) = Point("key", o, m)
  BY <1>1 DEF Read, Syntax, Name, Point
<1>3. \A a \in {"firstValue", "value"} : Read(Point(a, o, m), Quote) = Point("string", o, m)
  BY <1>1 DEF Read, Syntax, Value, Point
<1>4. Read(Point("key", o, m), Quote) = Point("colon", o, m)
  BY <1>1 DEF Read, Quoted, Point
<1>5. Read(Point("string", o, m), Quote) = Point(Behind(o), o, m)
  <2>1. Read(Point("string", o, m), Quote) = After(Point("string", o, m))
    BY <1>1 DEF Read, Quoted, Point
  <2> QED
    BY <2>1, AfterPoint
<1> QED
  BY <1>2, <1>3, <1>4, <1>5

(* The colon behind a name.                                                  *)
LEMMA ReadColon ==
    ASSUME NEW o, NEW m
    PROVE  Read(Point("colon", o, m), "colon") = Point("value", o, m)
  BY DEF Read, Syntax, Point

(* The comma behind a value, in an object and in an array.                   *)
LEMMA ReadComma ==
    ASSUME NEW o, NEW m, NEW a \in {"scalar", "more"}, o # <<>>
    PROVE  Read(Point(a, o, m), "comma") = Point(IF Last(o) = "rbrace" THEN "name" ELSE "value", o, m)
<1>1. "comma" \in Structure
  BY DEF Structure
<1>2. Point(a, o, m).at = a /\ Point(a, o, m).open = o
  BY DEF Point
<1>3. Read(Point(a, o, m), "comma") = Syntax(Point(a, o, m), "comma")
  BY <1>1, <1>2 DEF Read
<1>4. Syntax(Point(a, o, m), "comma") = Delimiter(Point(a, o, m), "comma")
  BY <1>2 DEF Syntax
<1> QED
  BY <1>2, <1>3, <1>4 DEF Delimiter, Point

(* White space.                                                              *)
LEMMA ReadSpace ==
    ASSUME NEW o, NEW m
    PROVE  /\ \A a \in {"firstName", "name", "firstValue", "value", "more"} :
                  Read(Point(a, o, m), "space") = Point(a, o, m)
           /\ Read(Point("scalar", o, m), "space") = Point(Behind(o), o, m)
<1>1. "space" \in Structure
  BY DEF Structure
<1>2. \A a \in {"firstName", "name", "firstValue", "value", "more"} :
                  Read(Point(a, o, m), "space") = Point(a, o, m)
  BY <1>1 DEF Read, Point
<1>3. Read(Point("scalar", o, m), "space") = Point(Behind(o), o, m)
  <2>1. Read(Point("scalar", o, m), "space") = After(Point("scalar", o, m))
    BY <1>1 DEF Read, Point
  <2> QED
    BY <2>1, AfterPoint
<1> QED
  BY <1>2, <1>3

(* Braces.                                                                   *)
LEMMA ReadOpening ==
    ASSUME NEW o, NEW m, NEW a \in {"firstValue", "value"}
    PROVE  /\ Read(Point(a, o, m), "lbrace") = Point("firstName", Append(o, "rbrace"), m)
           /\ Read(Point(a, o, m), "lbracket") = Point("firstValue", Append(o, "rbracket"), m)
<1>1. "lbrace" \in Structure /\ "lbracket" \in Structure
  BY DEF Structure
<1> QED
  BY <1>1 DEF Read, Syntax, Value, Point

(* What is expected behind a closing brace.                                  *)
LEMMA AfterClosing ==
    ASSUME NEW a, NEW o, NEW m, NEW f
    PROVE  After([Point(a, o, m) EXCEPT !.open = f]) = Point(Behind(f), f, m)
<1>1. [Point(a, o, m) EXCEPT !.open = f] = Point(a, f, m)
  BY DEF Point
<1> QED
  BY <1>1, AfterPoint

(* A brace closes the container that it belongs to.                          *)
LEMMA ClosePoint ==
    ASSUME NEW a, NEW o, NEW m, NEW brace, o # <<>>, Last(o) = brace
    PROVE  Close(Point(a, o, m), brace) = Point(Behind(Front(o)), Front(o), m)
<1>1. Point(a, o, m).open = o
  BY DEF Point
<1>2. Close(Point(a, o, m), brace) = After([Point(a, o, m) EXCEPT !.open = Front(o)])
  BY <1>1 DEF Close
<1> QED
  BY <1>2, AfterClosing

(* A closing brace where the container may end.                              *)
LEMMA ReadClosing ==
    ASSUME NEW o, NEW m, NEW brace \in {"rbrace", "rbracket"}, o # <<>>, Last(o) = brace,
           NEW a \in {"scalar", "more"} \cup {IF brace = "rbrace" THEN "firstName" ELSE "firstValue"}
    PROVE  Read(Point(a, o, m), brace) = Point(Behind(Front(o)), Front(o), m)
<1>1. "rbrace" \in Structure /\ "rbracket" \in Structure
  BY DEF Structure
<1>2. Point(a, o, m).at = a /\ Point(a, o, m).open = o
  BY DEF Point
<1>3. Read(Point(a, o, m), brace) = Syntax(Point(a, o, m), brace)
  BY <1>1, <1>2 DEF Read
<1>4. Syntax(Point(a, o, m), brace) = Close(Point(a, o, m), brace)
  BY <1>2 DEF Syntax, Delimiter
<1>5. Close(Point(a, o, m), brace) = Point(Behind(Front(o)), Front(o), m)
  BY ClosePoint
<1> QED
  BY <1>3, <1>4, <1>5, Zenon

(* Scalars.                                                                  *)
LEMMA ReadScalarChar ==
    ASSUME NEW o, NEW m, NEW a \in {"firstValue", "value", "scalar"}, NEW ch, ch \notin Structure
    PROVE  Read(Point(a, o, m), ch) = Point("scalar", o, m)
<1>1. ch \notin {"lbrace", "rbrace", "lbracket", "rbracket", "comma", "colon", "space",
                "quote", "backslash", "control", "newline", "NUL"}
  BY DEF Structure
<1>2. CASE a = "scalar"
  BY <1>2 DEF Read, Point
<1>3. CASE a # "scalar"
  <2>1. Point(a, o, m).at = a
    BY DEF Point
  <2>2. Read(Point(a, o, m), ch) = Syntax(Point(a, o, m), ch)
    BY <1>1, <1>3, <2>1 DEF Read
  <2>3. Syntax(Point(a, o, m), ch) = Value(Point(a, o, m), ch)
    BY <1>1, <1>3, <2>1 DEF Syntax
  <2>4. Value(Point(a, o, m), ch) = [Point(a, o, m) EXCEPT !.at = "scalar"]
    BY <1>1 DEF Value, Structure
  <2> QED
    BY <2>2, <2>3, <2>4 DEF Point
<1> QED
  BY <1>2, <1>3

(* What a character of a string is escaped to leaves the state, but for the  *)
(* name of a member.                                                         *)
LEMMA ReadEscape ==
    ASSUME NEW o, NEW m, NEW ch \in Chars, ch \notin {"control", "NUL"}
    PROVE  /\ ReadAll(Point("string", o, m), Escape(ch)) = Point("string", o, m)
           /\ \E n : /\ ReadAll(Point("key", o, m), Escape(ch)) = Point("key", o, n)
                     /\ Len(o) # 1 => n = m
                     /\ Len(o) = 1 /\ ch \notin {Quote, Backslash, "newline"} => n = Append(m, ch)
<1> USE DEF Quote, Backslash
<1>0. Backslash \in Chars /\ "n" \in Chars
  BY DEF Chars, Literals
<1>1. CASE ch \in {Quote, Backslash}
  <2>1. Escape(ch) = <<Backslash, ch>>
    BY <1>1 DEF Escape
  <2>2. <<Backslash, ch>> = Append(<<Backslash>>, ch) /\ <<Backslash>> \in Seq(Chars)
    BY <1>0
  <2>3. \A s : ReadAll(s, Escape(ch)) = Read(Read(s, Backslash), ch)
    <3> TAKE s
    <3>1. ReadAll(s, <<Backslash>>) = Read(s, Backslash)
      BY <1>0, ReadOne
    <3>2. ReadAll(s, Append(<<Backslash>>, ch)) = Read(ReadAll(s, <<Backslash>>), ch)
      BY <2>2, ReadOneMore
    <3> QED
      BY <2>1, <2>2, <3>1, <3>2
  <2>4. Read(Point("string", o, m), Backslash) = Point("stringEscape", o, m)
        /\ Read(Point("key", o, m), Backslash) = Point("keyEscape", o, m)
    BY DEF Read, Quoted, Point
  <2>5. Read(Point("stringEscape", o, m), ch) = Point("string", o, m)
        /\ Read(Point("keyEscape", o, m), ch) = Point("key", o, m)
    BY DEF Read, Point
  <2> QED
    BY <1>1, <2>3, <2>4, <2>5
<1>2. CASE ch = "newline"
  <2>1. Escape(ch) = <<Backslash, "n">>
    BY <1>2 DEF Escape
  <2>2. <<Backslash, "n">> = Append(<<Backslash>>, "n") /\ <<Backslash>> \in Seq(Chars)
    BY <1>0
  <2>3. \A s : ReadAll(s, Escape(ch)) = Read(Read(s, Backslash), "n")
    <3> TAKE s
    <3>1. ReadAll(s, <<Backslash>>) = Read(s, Backslash)
      BY <1>0, ReadOne
    <3>2. ReadAll(s, Append(<<Backslash>>, "n")) = Read(ReadAll(s, <<Backslash>>), "n")
      BY <1>0, <2>2, ReadOneMore
    <3> QED
      BY <2>1, <2>2, <3>1, <3>2
  <2>4. Read(Point("string", o, m), Backslash) = Point("stringEscape", o, m)
        /\ Read(Point("key", o, m), Backslash) = Point("keyEscape", o, m)
    BY DEF Read, Quoted, Point
  <2>5. Read(Point("stringEscape", o, m), "n") = Point("string", o, m)
        /\ Read(Point("keyEscape", o, m), "n") = Point("key", o, m)
    BY DEF Read, Point
  <2> QED
    BY <1>2, <2>3, <2>4, <2>5
<1>3. CASE ch \notin {Quote, Backslash, "newline"}
  <2>1. Escape(ch) = <<ch>>
    BY <1>3 DEF Escape
  <2>2. \A s : ReadAll(s, Escape(ch)) = Read(s, ch)
    BY <2>1, ReadOne
  <2>3. Read(Point("string", o, m), ch) = Point("string", o, m)
    BY <1>3 DEF Read, Quoted, Point
  <2>4. Len(o) # 1 => Read(Point("key", o, m), ch) = Point("key", o, m)
    BY <1>3 DEF Read, Quoted, Point
  <2>5. Len(o) = 1 => Read(Point("key", o, m), ch) = Point("key", o, Append(m, ch))
    BY <1>3 DEF Read, Quoted, Point
  <2> QED
    BY <1>3, <2>2, <2>3, <2>4, <2>5
<1> QED
  BY <1>1, <1>2, <1>3

-----------------------------------------------------------------------------
(* The encoder's contexts.                                                  *)

Encoders == Contexts(Chars)

(* What every call of the encoder keeps but for its level.                   *)
Stays(c, d) ==
    /\ d \in Encoders /\ d.pretty = c.pretty /\ d.isObject = c.isObject
    /\ c.room = NoLimit => d.room = NoLimit

(* The fields of a context.                                                  *)
LEMMA EncoderFields ==
    ASSUME NEW c \in Encoders
    PROVE  /\ c.text \in Seq(Chars) /\ c.room \in Nat \cup {NoLimit}
           /\ c.isObject \in Seq(BOOLEAN) /\ c.first \in BOOLEAN /\ c.pretty \in BOOLEAN
           /\ Level(c) \in Nat /\ Level(c) = Len(c.isObject)
  BY DEF Encoders, Contexts, Level

(* Call forgets an error and nothing else.                                   *)
LEMMA CallFacts ==
    ASSUME NEW c \in Encoders
    PROVE  /\ Stays(c, Call(c)) /\ OK(Call(c)) /\ Call(c).first = c.first
           /\ State(Call(c)) = State(c)
  BY DEF Encoders, Contexts, Stays, Call, OK, State, Results

(* Return notes a result and nothing else.                                   *)
LEMMA ReturnFacts ==
    ASSUME NEW c \in Encoders, NEW r \in Results
    PROVE  Stays(c, Return(c, r)) /\ Return(c, r).first = c.first /\ (OK(Return(c, r)) <=> r = "OK")
  BY DEF Encoders, Contexts, Stays, Return, OK

(* What is added is read on from where the text stands; a file has room for  *)
(* it.                                                                       *)
LEMMA AddFacts ==
    ASSUME NEW c \in Encoders, NEW data \in Seq(Chars)
    PROVE  /\ Stays(c, Add(c, data)) /\ Add(c, data).first = c.first
           /\ OK(Add(c, data)) => OK(c) /\ State(Add(c, data)) = ReadAll(State(c), data)
           /\ OK(c) /\ c.room = NoLimit => OK(Add(c, data))
<1>0. c.text \in Seq(Chars) /\ c.room \in Nat \cup {NoLimit} /\ Len(data) \in Nat
  BY EncoderFields
<1>1. CASE ~OK(c)
  BY <1>1 DEF Add, Stays
<1>t. ASSUME NEW d, d.text = c.text \o data PROVE State(d) = ReadAll(State(c), data)
  BY <1>0, <1>t, ReadOn DEF State
<1>s. c.text \o data \in Seq(Chars)
  BY <1>0
<1> DEFINE new == c.text \o data
<1> HIDE DEF new
<1>2. CASE OK(c) /\ c.room = NoLimit
  <2>1. Add(c, data) = [c EXCEPT !.text = new]
    BY <1>2 DEF Add, new
  <2>2. Add(c, data).text = new /\ OK(Add(c, data)) /\ Add(c, data).first = c.first
    BY <1>2, <2>1 DEF Encoders, Contexts, OK
  <2>3. Stays(c, Add(c, data))
    BY <2>1, <1>s DEF Encoders, Contexts, Stays, new
  <2> QED
    BY <1>2, <1>t, <2>2, <2>3 DEF new
<1>3. CASE OK(c) /\ c.room # NoLimit /\ Len(data) > c.room
  <2>1. Add(c, data) = Return(c, "CANNOT_ADD_DATA")
    BY <1>3 DEF Add
  <2> QED
    BY <1>3, <2>1, ReturnFacts DEF Results
<1>4. CASE OK(c) /\ c.room # NoLimit /\ ~(Len(data) > c.room)
  <2>0. c.room - Len(data) \in Nat
    BY <1>0, <1>4
  <2>1. Add(c, data) = [c EXCEPT !.text = new, !.room = c.room - Len(data)]
    BY <1>4 DEF Add, new
  <2>2. Add(c, data).text = new /\ OK(Add(c, data)) /\ Add(c, data).first = c.first
    BY <1>4, <2>1 DEF Encoders, Contexts, OK
  <2>3. Stays(c, Add(c, data))
    BY <1>4, <2>0, <2>1, <1>s DEF Encoders, Contexts, Stays, new
  <2> QED
    BY <1>4, <1>t, <2>2, <2>3 DEF new
<1> QED
  BY <1>1, <1>2, <1>3, <1>4

-----------------------------------------------------------------------------
(* A recursion over the numbers up to n whose step is a function.            *)
LEMMA StepsExist ==
    ASSUME NEW S, NEW a \in S, NEW n \in Nat, NEW step \in [S \X (1 .. n) -> S]
    PROVE  \E f \in [0 .. n -> S] : f[0] = a /\ \A i \in 1 .. n : f[i] = step[<<f[i - 1], i>>]
<1> DEFINE Good(f, k) == f[0] = a /\ \A i \in 1 .. k : f[i] = step[<<f[i - 1], i>>]
           Upto == {k \in Nat : k <= n => \E f \in [0 .. k -> S] : Good(f, k)}
<1>1. 0 \in Upto
  <2>1. [i \in 0 .. 0 |-> a] \in [0 .. 0 -> S] /\ Good([i \in 0 .. 0 |-> a], 0)
    OBVIOUS
  <2> QED
    BY <2>1
<1>2. ASSUME NEW k \in Upto PROVE k + 1 \in Upto
  <2>1. k \in Nat /\ (k <= n => \E f \in [0 .. k -> S] : Good(f, k))
    OBVIOUS
  <2>2. ASSUME k + 1 <= n PROVE \E f \in [0 .. (k + 1) -> S] : Good(f, k + 1)
    <3>1. PICK f \in [0 .. k -> S] : Good(f, k)
      BY <2>1, <2>2
    <3> DEFINE v == step[<<f[k], k + 1>>]
    <3>2. v \in S
      <4>1. k \in 0 .. k /\ k + 1 \in 1 .. n
        BY <2>1, <2>2
      <4>2. <<f[k], k + 1>> \in S \X (1 .. n)
        BY <4>1
      <4> QED
        BY <4>2
    <3> HIDE DEF v
    <3> DEFINE g == [i \in 0 .. (k + 1) |-> IF i <= k THEN f[i] ELSE v]
    <3>3. g \in [0 .. (k + 1) -> S]
      <4> SUFFICES ASSUME NEW i \in 0 .. (k + 1) PROVE (IF i <= k THEN f[i] ELSE v) \in S
        OBVIOUS
      <4>1. i <= k => i \in 0 .. k
        BY <2>1
      <4> QED
        BY <3>2, <4>1
    <3>4. \A i \in 0 .. k : g[i] = f[i]
      BY <2>1
    <3>5. g[k + 1] = v
      BY <2>1
    <3> HIDE DEF g
    <3>6. Good(g, k + 1)
      <4>1. g[0] = a
        BY <2>1, <3>1, <3>4
      <4>2. ASSUME NEW i \in 1 .. (k + 1) PROVE g[i] = step[<<g[i - 1], i>>]
        <5>1. CASE i = k + 1
          <6>1. i - 1 = k /\ k \in 0 .. k
            BY <2>1, <5>1
          <6>2. g[i - 1] = f[k]
            BY <3>4, <6>1
          <6> QED
            BY <3>5, <5>1, <6>2 DEF v
        <5>2. CASE i # k + 1
          <6>1. i \in 1 .. k /\ i \in 0 .. k /\ i - 1 \in 0 .. k
            BY <2>1, <5>2
          <6> QED
            BY <3>1, <3>4, <6>1
        <5> QED
          BY <5>1, <5>2
      <4> QED
        BY <4>1, <4>2
    <3> QED
      BY <3>3, <3>6
  <2> QED
    BY <2>1, <2>2
<1>3. Upto \in SUBSET Nat
  OBVIOUS
<1>5. n \in Upto => \E f \in [0 .. n -> S] : Good(f, n)
  OBVIOUS
<1> HIDE DEF Upto
<1>4. Upto = Nat
  BY <1>1, <1>2, <1>3, SetInduction
<1> QED
  BY <1>4, <1>5

-----------------------------------------------------------------------------
(* Escaping.                                                                *)

LEMMA EscapeTyped ==
    ASSUME NEW ch \in Chars
    PROVE  Escape(ch) \in Seq(Chars)
<1>1. "n" \in Chars /\ Backslash \in Chars
  BY DEF Chars, Literals
<1>2. <<Backslash, ch>> \in Seq(Chars) /\ <<Backslash, "n">> \in Seq(Chars) /\ <<ch>> \in Seq(Chars)
  BY <1>1
<1>3. Escape(ch) \in {<<Backslash, ch>>, <<Backslash, "n">>, <<ch>>}
  BY DEF Escape
<1> QED
  BY <1>2, <1>3

Strings == Seq(Chars)
Joined(t, ch) == t \o Escape(ch)

(* A string can be built a step at a time.                                   *)
LEMMA StringStepsExist ==
    ASSUME NEW a \in Strings, NEW n \in Nat, NEW step \in [Strings \X (1 .. n) -> Strings]
    PROVE  \E f \in [0 .. n -> Strings] : f[0] = a /\ \A i \in 1 .. n : f[i] = step[<<f[i - 1], i>>]
  BY StepsExist

(* Escaping goes on a character at a time.                                   *)
LEMMA EscapedSteps ==
    ASSUME NEW s \in Seq(Chars), NEW n \in 0 .. Len(s)
    PROVE  \E f \in [0 .. n -> Seq(Chars)] :
              f[0] = <<>> /\ f[n] = Escaped(s, n) /\ \A i \in 1 .. n : f[i] = Joined(f[i - 1], s[i])
<1>0. n \in Nat /\ \A i \in 1 .. n : s[i] \in Chars
  OBVIOUS
<1> DEFINE step == [p \in Strings \X (1 .. n) |-> Joined(p[1], s[p[2]])]
<1>1. step \in [Strings \X (1 .. n) -> Strings]
  <2> SUFFICES ASSUME NEW p \in Strings \X (1 .. n) PROVE Joined(p[1], s[p[2]]) \in Strings
    OBVIOUS
  <2>1. p[1] \in Strings /\ p[2] \in 1 .. n
    OBVIOUS
  <2>2. Escape(s[p[2]]) \in Seq(Chars)
    BY <1>0, <2>1, EscapeTyped
  <2> QED
    BY <2>1, <2>2 DEF Joined, Strings
<1>2. \A x \in Strings, i \in 1 .. n : step[<<x, i>>] = Joined(x, s[i])
  OBVIOUS
<1> HIDE DEF step
<1>3. PICK f \in [0 .. n -> Strings] : f[0] = <<>> /\ \A i \in 1 .. n : f[i] = step[<<f[i - 1], i>>]
  <2> DEFINE a == <<>>
  <2>1. a \in Strings
    BY DEF Strings
  <2> HIDE DEF a
  <2>2. \E f \in [0 .. n -> Strings] : f[0] = a /\ \A i \in 1 .. n : f[i] = step[<<f[i - 1], i>>]
    BY <1>0, <1>1, <2>1, StringStepsExist, Zenon
  <2> QED
    BY <2>2 DEF a
<1>4. \A i \in 1 .. n : i - 1 \in 0 .. n /\ f[i] = Joined(f[i - 1], s[i])
  <2> TAKE i \in 1 .. n
  <2>1. i - 1 \in 0 .. n
    BY <1>0
  <2>2. f[i - 1] \in Strings
    BY <2>1
  <2> QED
    BY <1>2, <1>3, <2>1, <2>2
<1> DEFINE Is(g) == g = [i \in 0 .. n |-> IF i = 0 THEN <<>> ELSE Joined(g[i - 1], s[i])]
           e == CHOOSE g : Is(g)
<1>5. Is(f)
  <2> DEFINE h == [i \in 0 .. n |-> IF i = 0 THEN <<>> ELSE Joined(f[i - 1], s[i])]
  <2>1. \A i \in 0 .. n : h[i] = IF i = 0 THEN <<>> ELSE Joined(f[i - 1], s[i])
    OBVIOUS
  <2>2. DOMAIN h = 0 .. n /\ h = [i \in DOMAIN h |-> h[i]]
    OBVIOUS
  <2> HIDE DEF h
  <2>3. \A i \in 0 .. n : f[i] = h[i]
    <3> TAKE i \in 0 .. n
    <3>1. CASE i = 0
      BY <1>3, <2>1, <3>1
    <3>2. CASE i # 0
      <4>1. i \in 1 .. n
        BY <1>0, <3>2
      <4> QED
        BY <1>4, <2>1, <3>2, <4>1
    <3> QED
      BY <3>1, <3>2
  <2>4. f = h
    BY <2>2, <2>3
  <2> QED
    BY <2>4 DEF h
<1>6. Escaped(s, n) = e[n]
  BY DEF Escaped, Joined
<1>7. Is(e)
  <2> HIDE DEF Is
  <2> QED
    BY <1>5
<1> HIDE DEF e
<1>8. e[0] = <<>> /\ \A i \in 1 .. n : e[i] = Joined(e[i - 1], s[i])
  <2> DEFINE h == [i \in 0 .. n |-> IF i = 0 THEN <<>> ELSE Joined(e[i - 1], s[i])]
  <2>1. h[0] = <<>> /\ \A i \in 1 .. n : h[i] = Joined(e[i - 1], s[i])
    BY <1>0
  <2>2. e = h
    BY <1>7
  <2> HIDE DEF h
  <2> QED
    BY <2>1, <2>2
<1> HIDE DEF Is
<1> DEFINE Upto == {k \in Nat : k <= n => e[k] = f[k]}
<1>9. 0 \in Upto
  BY <1>3, <1>8
<1>10. ASSUME NEW k \in Upto PROVE k + 1 \in Upto
  <2>1. k \in Nat /\ (k <= n => e[k] = f[k])
    OBVIOUS
  <2>2. ASSUME k + 1 <= n PROVE e[k + 1] = f[k + 1]
    <3>1. k + 1 \in 1 .. n /\ k + 1 - 1 = k /\ k <= n
      BY <2>1, <2>2, <1>0
    <3>2. e[k + 1] = Joined(e[k], s[k + 1])
      BY <1>8, <3>1
    <3>3. f[k + 1] = Joined(f[k], s[k + 1])
      BY <1>4, <3>1
    <3> QED
      BY <2>1, <3>1, <3>2, <3>3
  <2> QED
    BY <2>1, <2>2
<1>11. Upto \in SUBSET Nat /\ (n \in Upto => e[n] = f[n])
  BY <1>0
<1> HIDE DEF Upto
<1>12. Upto = Nat
  BY <1>9, <1>10, <1>11, SetInduction
<1> QED
  BY <1>0, <1>3, <1>4, <1>6, <1>11, <1>12 DEF Strings

(* What escaping yields is a string.                                         *)
LEMMA EscapedTyped ==
    ASSUME NEW s \in Seq(Chars), NEW n \in 0 .. Len(s)
    PROVE  Escaped(s, n) \in Seq(Chars)
<1>1. PICK f \in [0 .. n -> Seq(Chars)] : f[n] = Escaped(s, n)
  BY EscapedSteps
<1>2. n \in 0 .. n
  OBVIOUS
<1> QED
  BY <1>1, <1>2

(* A string without a control character is read as one, whatever it is; a    *)
(* name, too, and that of a member of the outermost object joins the members.*)
LEMMA ReadEscapedString ==
    ASSUME NEW s \in Seq(Chars), "control" \notin Range(s), "NUL" \notin Range(s), NEW o, NEW m
    PROVE  ReadAll(Point("string", o, m), Escaped(s, Len(s))) = Point("string", o, m)
<1> DEFINE n == Len(s)
<1>0. n \in Nat /\ n \in 0 .. Len(s) /\ \A i \in 1 .. n : s[i] \in Chars /\ s[i] \notin {"control", "NUL"}
  BY DEF Range
<1> HIDE DEF n
<1>1. PICK f \in [0 .. n -> Seq(Chars)] :
         f[0] = <<>> /\ f[n] = Escaped(s, n) /\ \A i \in 1 .. n : f[i] = Joined(f[i - 1], s[i])
  BY <1>0, EscapedSteps
<1> DEFINE P == Point("string", o, m)
           Upto == {k \in Nat : k <= n => ReadAll(P, f[k]) = P}
<1> HIDE DEF P
<1>2. 0 \in Upto
  BY <1>1, ReadNothing
<1>3. ASSUME NEW k \in Upto PROVE k + 1 \in Upto
  <2>1. k \in Nat /\ (k <= n => ReadAll(P, f[k]) = P)
    OBVIOUS
  <2>2. ASSUME k + 1 <= n PROVE ReadAll(P, f[k + 1]) = P
    <3>1. k + 1 \in 1 .. n /\ k + 1 - 1 = k /\ k <= n /\ k \in 0 .. n
      BY <2>1, <2>2, <1>0
    <3>2. f[k + 1] = Joined(f[k], s[k + 1]) /\ f[k] \in Seq(Chars)
      BY <1>1, <3>1
    <3>3. Escape(s[k + 1]) \in Seq(Chars)
      BY <1>0, <3>1, EscapeTyped
    <3>4. ReadAll(P, f[k + 1]) = ReadAll(ReadAll(P, f[k]), Escape(s[k + 1]))
      BY <3>2, <3>3, ReadOn DEF Joined
    <3>5. ReadAll(P, Escape(s[k + 1])) = P
      BY <1>0, <3>1, ReadEscape DEF P
    <3> QED
      BY <2>1, <3>1, <3>4, <3>5
  <2> QED
    BY <2>1, <2>2
<1>4. Upto \in SUBSET Nat /\ (n \in Upto => ReadAll(P, f[n]) = P)
  BY <1>0
<1> HIDE DEF Upto
<1>5. Upto = Nat
  BY <1>2, <1>3, <1>4, SetInduction
<1> QED
  BY <1>0, <1>1, <1>4, <1>5 DEF P, n

(* Within a name an escaped string is read without leaving the name.         *)
LEMMA ReadEscapedName ==
    ASSUME NEW s \in Seq(Chars), "control" \notin Range(s), "NUL" \notin Range(s), NEW o, NEW m
    PROVE  \E k : /\ ReadAll(Point("key", o, m), Escaped(s, Len(s))) = Point("key", o, k)
                  /\ Len(o) # 1 => k = m
<1> DEFINE n == Len(s)
<1>0. n \in Nat /\ n \in 0 .. Len(s) /\ \A i \in 1 .. n : s[i] \in Chars /\ s[i] \notin {"control", "NUL"}
  BY DEF Range
<1> HIDE DEF n
<1>1. PICK f \in [0 .. n -> Seq(Chars)] :
         f[0] = <<>> /\ f[n] = Escaped(s, n) /\ \A i \in 1 .. n : f[i] = Joined(f[i - 1], s[i])
  BY <1>0, EscapedSteps
<1> DEFINE P == Point("key", o, m)
           Key(t) == \E k : ReadAll(P, t) = Point("key", o, k) /\ (Len(o) # 1 => k = m)
           Upto == {i \in Nat : i <= n => Key(f[i])}
<1>2. 0 \in Upto
  BY <1>1, ReadNothing
<1>3. ASSUME NEW i \in Upto PROVE i + 1 \in Upto
  <2>1. i \in Nat /\ (i <= n => Key(f[i]))
    OBVIOUS
  <2>2. ASSUME i + 1 <= n PROVE Key(f[i + 1])
    <3>1. i + 1 \in 1 .. n /\ i + 1 - 1 = i /\ i <= n /\ i \in 0 .. n
      BY <2>1, <2>2, <1>0
    <3>2. f[i + 1] = Joined(f[i], s[i + 1]) /\ f[i] \in Seq(Chars)
      BY <1>1, <3>1
    <3>3. Escape(s[i + 1]) \in Seq(Chars)
      BY <1>0, <3>1, EscapeTyped
    <3>4. ReadAll(P, f[i + 1]) = ReadAll(ReadAll(P, f[i]), Escape(s[i + 1]))
      BY <3>2, <3>3, ReadOn DEF Joined
    <3>5. PICK k : ReadAll(P, f[i]) = Point("key", o, k) /\ (Len(o) # 1 => k = m)
      BY <2>1, <3>1
    <3>7. s[i + 1] \in Chars /\ s[i + 1] \notin {"control", "NUL"}
      BY <1>0, <3>1
    <3>6. PICK l : ReadAll(Point("key", o, k), Escape(s[i + 1])) = Point("key", o, l)
                   /\ (Len(o) # 1 => l = k)
      <4> DEFINE ch == s[i + 1]
      <4> HIDE DEF ch
      <4>1. ch \in Chars /\ ch \notin {"control", "NUL"}
        BY <3>7 DEF ch
      <4>2. \E l : ReadAll(Point("key", o, k), Escape(ch)) = Point("key", o, l) /\ (Len(o) # 1 => l = k)
        <5>1. \E l : /\ ReadAll(Point("key", o, k), Escape(ch)) = Point("key", o, l)
                     /\ Len(o) # 1 => l = k
                     /\ Len(o) = 1 /\ ch \notin {Quote, Backslash, "newline"} => l = Append(k, ch)
          BY <4>1, ReadEscape
        <5> QED
          BY <5>1, Zenon
      <4> QED
        BY <4>2 DEF ch
    <3> QED
      BY <3>4, <3>5, <3>6
  <2> QED
    BY <2>1, <2>2
<1>4. Upto \in SUBSET Nat /\ (n \in Upto => Key(f[n]))
  <2> HIDE DEF Key
  <2> QED
    BY <1>0
<1> HIDE DEF Upto, Key
<1>5. Upto = Nat
  BY <1>2, <1>3, <1>4, SetInduction
<1> QED
  BY <1>0, <1>1, <1>4, <1>5 DEF n, Key

(* The name of one letter becomes a member of the outermost object.          *)
LEMMA ReadEscapedLetter ==
    ASSUME NEW ch \in Chars, ch \notin {"control", "NUL", "newline", Quote, Backslash}, NEW o, NEW m,
           Len(o) = 1
    PROVE  ReadAll(Point("key", o, m), Escaped(<<ch>>, 1)) = Point("key", o, Append(m, ch))
<1>1. <<ch>> \in Seq(Chars) /\ Len(<<ch>>) = 1 /\ <<ch>>[1] = ch /\ 1 \in 0 .. Len(<<ch>>)
  OBVIOUS
<1> DEFINE s == <<ch>>
<1> HIDE DEF s
<1>2. PICK f \in [0 .. 1 -> Seq(Chars)] :
         f[0] = <<>> /\ f[1] = Escaped(s, 1) /\ \A i \in 1 .. 1 : f[i] = Joined(f[i - 1], s[i])
  BY <1>1, EscapedSteps DEF s
<1>3. Escape(ch) \in Seq(Chars)
  BY EscapeTyped
<1>4. Escaped(s, 1) = <<>> \o Escape(ch)
  <2>1. 1 \in 1 .. 1 /\ 1 - 1 = 0 /\ s[1] = ch
    BY <1>1 DEF s
  <2>2. f[1] = Joined(f[0], s[1])
    BY <1>2, <2>1
  <2> QED
    BY <1>2, <2>1, <2>2 DEF Joined
<1>5. <<>> \o Escape(ch) = Escape(ch)
  BY <1>3
<1>6. PICK k : ReadAll(Point("key", o, m), Escape(ch)) = Point("key", o, k) /\ k = Append(m, ch)
  BY ReadEscape
<1> QED
  BY <1>4, <1>5, <1>6 DEF s

-----------------------------------------------------------------------------
(* Strings and names.                                                       *)

LEMMA LeastExists ==
    ASSUME NEW S \in SUBSET Nat, S # {}
    PROVE  \E i \in S : \A j \in S : i <= j
<1> SUFFICES ASSUME \A i \in S : \E j \in S : ~(i <= j) PROVE FALSE
  OBVIOUS
<1> DEFINE Under == {k \in Nat : \A j \in S : k <= j}
<1>1. 0 \in Under
  OBVIOUS
<1>2. ASSUME NEW k \in Under PROVE k + 1 \in Under
  <2>1. k \in Nat /\ k \notin S /\ \A j \in S : k <= j
    OBVIOUS
  <2>2. \A j \in S : k + 1 <= j
    BY <2>1
  <2> QED
    BY <2>1, <2>2
<1>3. Under \in SUBSET Nat /\ \A k \in Under : \A j \in S : k <= j
  OBVIOUS
<1> HIDE DEF Under
<1>4. Under = Nat
  BY <1>1, <1>2, <1>3, SetInduction
<1>5. PICK x \in S : TRUE
  OBVIOUS
<1>6. x + 1 \in Under /\ x \in Nat
  BY <1>4
<1>7. x + 1 <= x
  BY <1>3, <1>5, <1>6
<1> QED
  BY <1>6, <1>7

(* The characters of the syntax are characters.                              *)
LEMMA SpecialChars ==
    /\ Quote \in Chars /\ Backslash \in Chars /\ "colon" \in Chars /\ "comma" \in Chars
    /\ "space" \in Chars /\ "lbrace" \in Chars /\ "rbrace" \in Chars /\ "lbracket" \in Chars
    /\ "rbracket" \in Chars
  BY DEF Chars, Literals

(* A part of the string is added, all of it if nothing is reported.          *)
LEMMA AddEscapedStringFacts ==
    ASSUME NEW c \in Encoders, NEW s \in Seq(Chars), "NUL" \notin Range(s)
    PROVE  LET d == AddEscapedString(c, s)
           IN  /\ Stays(c, d) /\ d.first = c.first
               /\ OK(d) => /\ OK(c) /\ "control" \notin Range(s)
                           /\ State(d) = ReadAll(State(c), Escaped(s, Len(s)))
               /\ OK(c) /\ c.room = NoLimit /\ "control" \notin Range(s) => OK(d)
<1> DEFINE bad == {i \in DOMAIN s : s[i] = "control"}
           first == CHOOSE i \in bad : \A j \in bad : i <= j
           kept == IF bad = {} THEN Len(s) ELSE Portion * ((first - 1) \div Portion)
           out == Add(c, Escaped(s, kept))
           d == AddEscapedString(c, s)
<1>1. d = IF bad # {} /\ OK(out) THEN Return(out, "INVALID_CHARACTER") ELSE out
  BY DEF AddEscapedString
<1>2. bad = {} <=> "control" \notin Range(s)
  BY DEF Range
<1>3. kept \in 0 .. Len(s)
  <2>1. Len(s) \in Nat /\ DOMAIN s = 1 .. Len(s)
    OBVIOUS
  <2>2. ASSUME bad # {} PROVE Portion * ((first - 1) \div Portion) \in 0 .. Len(s)
    <3>1. bad \in SUBSET Nat
      BY <2>1
    <3>2. first \in bad
      <4> HIDE DEF bad
      <4> QED
        BY <2>2, <3>1, LeastExists
    <3>3. first - 1 \in Nat /\ first - 1 <= Len(s)
      <4> HIDE DEF first
      <4> QED
        BY <2>1, <3>2
    <3> DEFINE f == first - 1
    <3> HIDE DEF f
    <3>5. f \in Nat /\ f <= Len(s)
      BY <3>3 DEF f
    <3>4. Portion * (f \div Portion) \in 0 .. f
      <4>1. Portion \in Nat \ {0}
        BY EncoderAssumption
      <4> QED
        BY <3>5, <4>1
    <3>6. Portion * (f \div Portion) \in 0 .. Len(s)
      <4> DEFINE g == Portion * (f \div Portion)
      <4> HIDE DEF g
      <4>1. g \in 0 .. f
        BY <3>4 DEF g
      <4>2. g \in 0 .. Len(s)
        BY <2>1, <3>5, <4>1
      <4> QED
        BY <4>2 DEF g
    <3> QED
      BY <3>6 DEF f
  <2>3. Len(s) \in 0 .. Len(s)
    BY <2>1
  <2> HIDE DEF bad, first
  <2> QED
    BY <2>2, <2>3
<1>4. bad = {} => kept = Len(s)
  OBVIOUS
<1> HIDE DEF bad, first, kept
<1>5. Escaped(s, kept) \in Seq(Chars)
  BY <1>3, EscapedTyped
<1>6. /\ Stays(c, out) /\ out.first = c.first
      /\ OK(out) => OK(c) /\ State(out) = ReadAll(State(c), Escaped(s, kept))
      /\ OK(c) /\ c.room = NoLimit => OK(out)
  BY <1>5, AddFacts
<1> HIDE DEF out
<1>7. CASE bad # {} /\ OK(out)
  <2>1. d = Return(out, "INVALID_CHARACTER") /\ out \in Encoders
    BY <1>1, <1>6, <1>7 DEF Stays
  <2>2. "INVALID_CHARACTER" \in Results
    BY DEF Results
  <2>3. Stays(out, d) /\ d.first = out.first /\ ~OK(d)
    BY <2>1, <2>2, ReturnFacts
  <2> HIDE DEF d
  <2>4. Stays(c, d)
    BY <1>6, <2>3 DEF Stays
  <2> QED
    BY <1>2, <1>6, <1>7, <2>3, <2>4 DEF d
<1>8. CASE ~(bad # {} /\ OK(out))
  <2>1. d = out
    BY <1>1, <1>8
  <2> HIDE DEF d
  <2>2. OK(d) => "control" \notin Range(s) /\ kept = Len(s)
    BY <1>2, <1>4, <1>8, <2>1
  <2> QED
    BY <1>6, <2>1, <2>2 DEF d
<1> QED
  BY <1>7, <1>8

(* What two calls keep, both of them keep.                                   *)
LEMMA StaysOn ==
    ASSUME NEW c, NEW d, NEW e, Stays(c, d), Stays(d, e)
    PROVE  Stays(c, e)
  BY DEF Stays

(* The string between its quotes; only a control character makes a file      *)
(* fail.                                                                     *)
LEMMA AddQuotedEscapedStringFacts ==
    ASSUME NEW c \in Encoders, NEW s \in Seq(Chars), "NUL" \notin Range(s)
    PROVE  LET d == AddQuotedEscapedString(c, s)
           IN  /\ Stays(c, d) /\ d.first = c.first
               /\ OK(d) => /\ OK(c) /\ "control" \notin Range(s)
                           /\ State(d) = Read(ReadAll(Read(State(c), Quote), Escaped(s, Len(s))), Quote)
               /\ OK(c) /\ c.room = NoLimit /\ "control" \notin Range(s) => OK(d)
<1> DEFINE open == Add(c, <<Quote>>)
           body == AddEscapedString(open, s)
           called == Call(body)
           close == Add(called, <<Quote>>)
           d == AddQuotedEscapedString(c, s)
<1>0. <<Quote>> \in Seq(Chars)
  BY SpecialChars
<1>q. \A t : ReadAll(t, <<Quote>>) = Read(t, Quote)
  BY SpecialChars, ReadOne
<1>1. d = IF ~OK(open) THEN open
          ELSE IF OK(body) /\ OK(close) THEN close ELSE Return(close, "INVALID_CHARACTER")
  BY DEF AddQuotedEscapedString
<1> HIDE DEF d
<1>2. /\ Stays(c, open) /\ open.first = c.first
      /\ OK(open) => OK(c) /\ State(open) = Read(State(c), Quote)
      /\ OK(c) /\ c.room = NoLimit => OK(open)
  <2>1. /\ Stays(c, open) /\ open.first = c.first
        /\ OK(open) => OK(c) /\ State(open) = ReadAll(State(c), <<Quote>>)
        /\ OK(c) /\ c.room = NoLimit => OK(open)
    BY <1>0, AddFacts
  <2> QED
    BY <1>q, <2>1
<1>2a. open \in Encoders /\ (c.room = NoLimit => open.room = NoLimit)
  BY <1>2 DEF Stays
<1> HIDE DEF open
<1>3. /\ Stays(open, body) /\ body.first = open.first
      /\ OK(body) => /\ OK(open) /\ "control" \notin Range(s)
                     /\ State(body) = ReadAll(State(open), Escaped(s, Len(s)))
      /\ OK(open) /\ open.room = NoLimit /\ "control" \notin Range(s) => OK(body)
  BY <1>2a, AddEscapedStringFacts
<1>3a. body \in Encoders /\ (open.room = NoLimit => body.room = NoLimit)
  BY <1>3 DEF Stays
<1> HIDE DEF body
<1>4. Stays(body, called) /\ OK(called) /\ called.first = body.first /\ State(called) = State(body)
  BY <1>3a, CallFacts
<1>4a. called \in Encoders /\ (body.room = NoLimit => called.room = NoLimit)
  BY <1>4 DEF Stays
<1> HIDE DEF called
<1>5. /\ Stays(called, close) /\ close.first = called.first
      /\ OK(close) => OK(called) /\ State(close) = Read(State(called), Quote)
      /\ OK(called) /\ called.room = NoLimit => OK(close)
  <2>1. /\ Stays(called, close) /\ close.first = called.first
        /\ OK(close) => OK(called) /\ State(close) = ReadAll(State(called), <<Quote>>)
        /\ OK(called) /\ called.room = NoLimit => OK(close)
    BY <1>0, <1>4a, AddFacts
  <2> QED
    BY <1>q, <2>1
<1> HIDE DEF close
<1>6. Stays(c, close) /\ close.first = c.first /\ close \in Encoders
  <2>1. Stays(c, body)
    BY <1>2, <1>3, StaysOn
  <2>2. Stays(c, called)
    BY <2>1, <1>4, StaysOn
  <2>3. Stays(c, close)
    BY <2>2, <1>5, StaysOn
  <2> QED
    BY <1>2, <1>3, <1>4, <1>5, <2>3 DEF Stays
<1>7. CASE ~OK(open)
  BY <1>1, <1>2, <1>7 DEF d
<1>8. CASE OK(open) /\ OK(body) /\ OK(close)
  BY <1>1, <1>2, <1>3, <1>4, <1>5, <1>6, <1>8 DEF d
<1>9. CASE OK(open) /\ ~(OK(body) /\ OK(close))
  <2>1. d = Return(close, "INVALID_CHARACTER")
    BY <1>1, <1>9
  <2>2. "INVALID_CHARACTER" \in Results
    BY DEF Results
  <2>3. Stays(close, d) /\ d.first = close.first /\ ~OK(d)
    BY <1>6, <2>1, <2>2, ReturnFacts
  <2>4. Stays(c, d)
    BY <1>6, <2>3, StaysOn
  <2>5. OK(c) /\ c.room = NoLimit /\ "control" \notin Range(s) => OK(body) /\ OK(close)
    BY <1>2, <1>2a, <1>3, <1>3a, <1>4, <1>4a, <1>5
  <2> QED
    BY <1>6, <1>9, <2>3, <2>4, <2>5 DEF d
<1> QED
  BY <1>7, <1>8, <1>9

(* A string where a value may stand.                                         *)
LEMMA AddStringPoint ==
    ASSUME NEW c \in Encoders, NEW s \in Seq(Chars), "NUL" \notin Range(s),
           NEW a \in {"firstValue", "value"}, NEW o, NEW m, State(c) = Point(a, o, m),
           OK(AddQuotedEscapedString(c, s))
    PROVE  State(AddQuotedEscapedString(c, s)) = Point(Behind(o), o, m)
<1>1. /\ "control" \notin Range(s)
      /\ State(AddQuotedEscapedString(c, s)) =
            Read(ReadAll(Read(State(c), Quote), Escaped(s, Len(s))), Quote)
  BY AddQuotedEscapedStringFacts
<1>2. Read(State(c), Quote) = Point("string", o, m)
  BY ReadQuote
<1>3. ReadAll(Point("string", o, m), Escaped(s, Len(s))) = Point("string", o, m)
  BY <1>1, ReadEscapedString
<1>4. Read(Point("string", o, m), Quote) = Point(Behind(o), o, m)
  BY ReadQuote
<1> QED
  BY <1>1, <1>2, <1>3, <1>4

(* A name.                                                                   *)
LEMMA AddNamePoint ==
    ASSUME NEW c \in Encoders, NEW s \in Seq(Chars), "NUL" \notin Range(s),
           NEW a \in {"firstName", "name"}, NEW o, NEW m, State(c) = Point(a, o, m),
           OK(AddQuotedEscapedString(c, s))
    PROVE  \E k : /\ State(AddQuotedEscapedString(c, s)) = Point("colon", o, k)
                  /\ Len(o) # 1 => k = m
                  /\ Len(o) = 1 /\ s \in {<<"e">>, <<"z">>} => k = Append(m, s[1])
<1>1. /\ "control" \notin Range(s)
      /\ State(AddQuotedEscapedString(c, s)) =
            Read(ReadAll(Read(State(c), Quote), Escaped(s, Len(s))), Quote)
  BY AddQuotedEscapedStringFacts
<1>2. Read(State(c), Quote) = Point("key", o, m)
  BY ReadQuote
<1>3. \A k : Read(Point("key", o, k), Quote) = Point("colon", o, k)
  BY ReadQuote
<1>4. CASE Len(o) = 1 /\ s \in {<<"e">>, <<"z">>}
  <2>1. PICK ch \in {"e", "z"} : s = <<ch>>
    BY <1>4
  <2>2. ch \in Chars /\ ch \notin {"control", "NUL", "newline", Quote, Backslash}
    BY DEF Chars, Literals, Quote, Backslash
  <2>3. ReadAll(Point("key", o, m), Escaped(<<ch>>, 1)) = Point("key", o, Append(m, ch))
    BY <1>4, <2>2, ReadEscapedLetter
  <2>4. Len(s) = 1 /\ s[1] = ch
    BY <2>1
  <2> QED
    BY <1>1, <1>2, <1>3, <1>4, <2>1, <2>3, <2>4
<1>5. CASE ~(Len(o) = 1 /\ s \in {<<"e">>, <<"z">>})
  <2>1. PICK k : /\ ReadAll(Point("key", o, m), Escaped(s, Len(s))) = Point("key", o, k)
                 /\ Len(o) # 1 => k = m
    BY <1>1, ReadEscapedName
  <2> QED
    BY <1>1, <1>2, <1>3, <1>5, <2>1
<1> QED
  BY <1>4, <1>5

-----------------------------------------------------------------------------
(* White space and the open containers.                                     *)

Spaces(k) == [i \in 1 .. k |-> "space"]

(* Spaces, one more at a time.                                               *)
LEMMA SpacesFacts ==
    ASSUME NEW k \in Nat
    PROVE  Spaces(k) \in Seq(Chars) /\ Spaces(k + 1) = Append(Spaces(k), "space")
<1>1. "space" \in Chars
  BY SpecialChars
<1>2. Spaces(k) \in Seq(Chars) /\ Len(Spaces(k)) = k
  BY <1>1 DEF Spaces
<1>3. Spaces(k + 1) = Append(Spaces(k), "space")
  BY <1>2 DEF Spaces
<1> QED
  BY <1>2, <1>3

(* No space at all.                                                          *)
LEMMA NoSpaces == Spaces(0) = <<>>
  BY DEF Spaces

(* Spaces are skipped, and end a scalar.                                     *)
LEMMA ReadSpaces ==
    ASSUME NEW a \in {"firstName", "name", "firstValue", "value", "more"}, NEW o, NEW m, NEW k \in Nat
    PROVE  ReadAll(Point(a, o, m), Spaces(k)) = Point(a, o, m)
<1> DEFINE P == Point(a, o, m)
           Upto == {i \in Nat : ReadAll(P, Spaces(i)) = P}
<1>1. Read(P, "space") = P
  BY ReadSpace
<1> HIDE DEF P
<1>2. 0 \in Upto
  BY NoSpaces, ReadNothing
<1>3. ASSUME NEW i \in Upto PROVE i + 1 \in Upto
  <2>1. i \in Nat /\ ReadAll(P, Spaces(i)) = P
    OBVIOUS
  <2>2. ReadAll(P, Append(Spaces(i), "space")) = Read(ReadAll(P, Spaces(i)), "space")
    BY <2>1, SpacesFacts, SpecialChars, ReadOneMore
  <2>3. ReadAll(P, Spaces(i + 1)) = P
    BY <1>1, <2>1, <2>2, SpacesFacts
  <2> QED
    BY <2>1, <2>3
<1>4. Upto \in SUBSET Nat /\ (k \in Upto => ReadAll(P, Spaces(k)) = P)
  OBVIOUS
<1> HIDE DEF Upto
<1>5. Upto = Nat
  BY <1>2, <1>3, <1>4, SetInduction
<1> QED
  BY <1>4, <1>5 DEF P

(* A scalar ends with the first space.                                       *)
LEMMA ReadSpacesAfterScalar ==
    ASSUME NEW o, o # <<>>, NEW m, NEW k \in Nat
    PROVE  ReadAll(Point("scalar", o, m), Spaces(k + 1)) = Point("more", o, m)
<1> DEFINE P == Point("scalar", o, m)
           Q == Point("more", o, m)
           Upto == {i \in Nat : ReadAll(P, Spaces(i + 1)) = Q}
<1>1. Read(P, "space") = Q /\ Read(Q, "space") = Q
  BY ReadSpace DEF Behind
<1> HIDE DEF P, Q
<1>0. \A i \in Nat : ReadAll(P, Spaces(i + 1)) = Read(ReadAll(P, Spaces(i)), "space")
  <2> TAKE i \in Nat
  <2>1. ReadAll(P, Append(Spaces(i), "space")) = Read(ReadAll(P, Spaces(i)), "space")
    BY SpacesFacts, SpecialChars, ReadOneMore
  <2> QED
    BY <2>1, SpacesFacts
<1>2. 0 \in Upto
  BY <1>0, <1>1, NoSpaces, ReadNothing
<1>3. ASSUME NEW i \in Upto PROVE i + 1 \in Upto
  <2>1. i \in Nat /\ i + 1 \in Nat /\ ReadAll(P, Spaces(i + 1)) = Q
    OBVIOUS
  <2>2. ReadAll(P, Spaces(i + 1 + 1)) = Read(ReadAll(P, Spaces(i + 1)), "space")
    BY <1>0, <2>1
  <2> QED
    BY <1>1, <2>1, <2>2
<1>4. Upto \in SUBSET Nat /\ (k \in Upto => ReadAll(P, Spaces(k + 1)) = Q)
  OBVIOUS
<1> HIDE DEF Upto
<1>5. Upto = Nat
  BY <1>2, <1>3, <1>4, SetInduction
<1> QED
  BY <1>4, <1>5 DEF P, Q

Settled(a) == IF a = "scalar" THEN "more" ELSE a

(* A line break leaves the text where a value or a brace may follow.         *)
LEMMA NewLineFacts ==
    ASSUME NEW c \in Encoders
    PROVE  LET d == NewLine(c)
           IN  /\ Stays(c, d) /\ d.first = c.first
               /\ OK(c) /\ c.room = NoLimit => OK(d)
               /\ OK(d) => OK(c)
               /\ OK(d) => \A a \in {"firstName", "name", "firstValue", "value", "more", "scalar"} : \A o, m :
                              State(c) = Point(a, o, m) /\ (a = "scalar" => o # <<>>)
                                 => State(d) = Point(Settled(a), o, m)
<1> DEFINE k == Indent * Level(c)
           n == k + 1
           d == NewLine(c)
<1>1. k \in Nat
  BY EncoderFields, EncoderAssumption
<1>2. d = Add(c, Spaces(n))
  <2>1. 1 + Indent * Level(c) = n
    BY <1>1
  <2> QED
    BY <2>1 DEF NewLine, Spaces
<1> HIDE DEF k, d
<1>3. n \in Nat
  BY <1>1
<1>4. /\ Stays(c, d) /\ d.first = c.first
      /\ OK(d) => OK(c) /\ State(d) = ReadAll(State(c), Spaces(n))
      /\ OK(c) /\ c.room = NoLimit => OK(d)
  <2> HIDE DEF n
  <2>1. Spaces(n) \in Seq(Chars)
    BY <1>3, SpacesFacts
  <2> QED
    BY <1>2, <2>1, AddFacts
<1>5. ASSUME OK(d), NEW a \in {"firstName", "name", "firstValue", "value", "more", "scalar"}, NEW o, NEW m,
             State(c) = Point(a, o, m), a = "scalar" => o # <<>>
      PROVE  State(d) = Point(Settled(a), o, m)
  <2>1. State(d) = ReadAll(Point(a, o, m), Spaces(n))
    BY <1>4, <1>5
  <2>2. CASE a = "scalar"
    BY <1>1, <1>5, <2>1, <2>2, ReadSpacesAfterScalar DEF Settled
  <2>3. CASE a # "scalar"
    <3> HIDE DEF n
    <3>1. ReadAll(Point(a, o, m), Spaces(n)) = Point(a, o, m)
      BY <1>3, <2>3, ReadSpaces
    <3> QED
      BY <2>1, <2>3, <3>1 DEF Settled
  <2> QED
    BY <2>2, <2>3
<1> HIDE DEF n
<1> QED
  BY <1>4, <1>5 DEF d

-----------------------------------------------------------------------------
(* The braces that close the containers.                                     *)
Brace(isObject) == IF isObject THEN "rbrace" ELSE "rbracket"

(* The braces that are still to close, one for each container.               *)
LEMMA BracesFacts ==
    ASSUME NEW io \in Seq(BOOLEAN)
    PROVE  /\ Braces(io) \in Seq({"rbrace", "rbracket"}) /\ Len(Braces(io)) = Len(io)
           /\ Braces(io) = <<>> <=> io = <<>>
           /\ \A b \in BOOLEAN : Braces(Append(io, b)) = Append(Braces(io), Brace(b))
           /\ io # <<>> => /\ Last(Braces(io)) = Brace(io[Len(io)])
                           /\ Front(io) \in Seq(BOOLEAN) /\ Len(Front(io)) = Len(io) - 1
                           /\ Front(Braces(io)) = Braces(Front(io))
<1>1. Braces(io) = [i \in 1 .. Len(io) |-> Brace(io[i])] /\ Len(io) \in Nat
  BY DEF Braces, Brace
<1>2. Braces(io) \in Seq({"rbrace", "rbracket"}) /\ Len(Braces(io)) = Len(io)
  BY <1>1 DEF Brace
<1>3. Braces(io) = <<>> <=> io = <<>>
  BY <1>2
<1>4. ASSUME NEW b \in BOOLEAN PROVE Braces(Append(io, b)) = Append(Braces(io), Brace(b))
  <2>1. Append(io, b) \in Seq(BOOLEAN) /\ Len(Append(io, b)) = Len(io) + 1
    OBVIOUS
  <2>2. Braces(Append(io, b)) = [i \in 1 .. Len(io) + 1 |-> Brace(Append(io, b)[i])]
    BY <2>1 DEF Braces, Brace
  <2>3. Append(Braces(io), Brace(b)) =
            [i \in 1 .. Len(io) + 1 |-> IF i = Len(io) + 1 THEN Brace(b) ELSE Brace(io[i])]
    BY <1>1, <1>2
  <2>4. \A i \in 1 .. Len(io) + 1 : Append(io, b)[i] = IF i = Len(io) + 1 THEN b ELSE io[i]
    OBVIOUS
  <2> HIDE DEF Brace
  <2> QED
    BY <1>1, <2>2, <2>3, <2>4
<1>5. ASSUME io # <<>>
      PROVE  /\ Last(Braces(io)) = Brace(io[Len(io)])
             /\ Front(io) \in Seq(BOOLEAN) /\ Len(Front(io)) = Len(io) - 1
             /\ Front(Braces(io)) = Braces(Front(io))
  <2>1. Len(io) \in Nat /\ Len(io) >= 1 /\ Len(io) - 1 \in Nat
    BY <1>5
  <2>2. Last(Braces(io)) = Brace(io[Len(io)])
    BY <1>1, <1>2, <2>1 DEF Last
  <2>3. Front(io) \in Seq(BOOLEAN) /\ Len(Front(io)) = Len(io) - 1
        /\ \A i \in 1 .. Len(io) - 1 : Front(io)[i] = io[i]
    <3>1. Front(io) = SubSeq(io, 1, Len(io) - 1)
      BY DEF Front
    <3>2. SubSeq(io, 1, Len(io) - 1) = [i \in 1 .. Len(io) - 1 |-> io[i]]
      BY <2>1
    <3> DEFINE l == Len(io) - 1
               front == [i \in 1 .. l |-> io[i]]
    <3>3. \A i \in 1 .. l : io[i] \in BOOLEAN
      BY <2>1
    <3>4. l \in Nat
      BY <2>1
    <3>5. front \in Seq(BOOLEAN) /\ Len(front) = l /\ \A i \in 1 .. l : front[i] = io[i]
      <4> HIDE DEF l
      <4> QED
        BY <3>3, <3>4
    <3>6. Front(io) = front
      BY <3>1, <3>2
    <3> HIDE DEF front
    <3> QED
      BY <3>5, <3>6
  <2>4. Front(Braces(io)) = [i \in 1 .. Len(io) - 1 |-> Brace(io[i])]
    <3>1. Front(Braces(io)) = SubSeq(Braces(io), 1, Len(io) - 1)
      BY <1>2 DEF Front
    <3>2. SubSeq(Braces(io), 1, Len(io) - 1) = [i \in 1 .. Len(io) - 1 |-> Braces(io)[i]]
      BY <1>2, <2>1
    <3>3. \A i \in 1 .. Len(io) - 1 : Braces(io)[i] = Brace(io[i])
      BY <1>1, <2>1
    <3> QED
      BY <3>1, <3>2, <3>3
  <2>5. Braces(Front(io)) = [i \in 1 .. Len(io) - 1 |-> Brace(Front(io)[i])]
    BY <2>1, <2>3 DEF Braces, Brace
  <2> QED
    BY <2>2, <2>3, <2>4, <2>5
<1> QED
  BY <1>2, <1>3, <1>4, <1>5

-----------------------------------------------------------------------------
(* What comes before an element.                                            *)

(* Where the next element of an encoding may go, and the place it then has.  *)
Ready(c, m) ==
    /\ Level(c) = 0 => c.first
    /\ \E a \in Places(c) : State(c) = Point(a, Braces(c.isObject), m)

CommaOf(c) == IF c.first THEN [Call(c) EXCEPT !.first = FALSE] ELSE Add(Call(c), <<"comma">>)
LineOf(c) == IF c.pretty /\ Level(c) > 0 THEN NewLine(CommaOf(c)) ELSE CommaOf(c)
Openings(c) == IF InObject(c) THEN {"firstName", "name"} ELSE {"firstValue", "value"}

(* The innermost of them is that of the innermost container.                 *)
LEMMA OpenFacts ==
    ASSUME NEW c \in Encoders
    PROVE  /\ Len(Braces(c.isObject)) = Level(c) /\ Level(c) \in Nat
           /\ Braces(c.isObject) = <<>> <=> Level(c) = 0
           /\ Level(c) > 0 => Last(Braces(c.isObject)) = Brace(InObject(c))
           /\ InObject(c) \in BOOLEAN /\ (InObject(c) => Level(c) > 0)
<1>1. c.isObject \in Seq(BOOLEAN) /\ Level(c) \in Nat /\ Level(c) = Len(c.isObject)
  BY EncoderFields
<1>2. c.isObject = <<>> <=> Level(c) = 0
  BY <1>1
<1>3. Level(c) > 0 => c.isObject[Level(c)] \in BOOLEAN
  BY <1>1
<1> QED
  BY <1>1, <1>2, <1>3, BracesFacts DEF InObject

(* A call that stays on its level.                                           *)
LEMMA StaysLevel ==
    ASSUME NEW c, NEW d, Stays(c, d)
    PROVE  d \in Encoders /\ d.isObject = c.isObject /\ Level(d) = Level(c) /\ (InObject(d) <=> InObject(c))
           /\ d.pretty = c.pretty /\ (c.room = NoLimit => d.room = NoLimit)
  BY DEF Stays, Level, InObject

(* The comma, or nothing before the first element.                           *)
LEMMA CommaFacts ==
    ASSUME NEW c \in Encoders
    PROVE  LET d == CommaOf(c)
           IN  /\ Stays(c, d) /\ d.first = FALSE
               /\ c.room = NoLimit => OK(d)
               /\ OK(d) => \A m : Ready(c, m) =>
                     \E a \in Openings(c) : State(d) = Point(a, Braces(c.isObject), m)
<1> DEFINE e == Call(c)
           d == CommaOf(c)
           o == Braces(c.isObject)
<1>1. Stays(c, e) /\ OK(e) /\ e.first = c.first /\ State(e) = State(c)
  BY CallFacts
<1>2. e \in Encoders /\ (c.room = NoLimit => e.room = NoLimit)
  BY <1>1, StaysLevel
<1>d. d = IF c.first THEN [e EXCEPT !.first = FALSE] ELSE Add(e, <<"comma">>)
  BY DEF CommaOf
<1>f. c.first \in BOOLEAN
  BY EncoderFields
<1> HIDE DEF e, d, o
<1>3. CASE c.first
  <2>1. d = [e EXCEPT !.first = FALSE]
    BY <1>d, <1>3
  <2>2. Stays(e, d) /\ d.first = FALSE /\ d.text = e.text /\ d.result = e.result
    BY <1>2, <2>1 DEF Stays, Encoders, Contexts
  <2>3. Stays(c, d) /\ State(d) = State(c) /\ OK(d)
    BY <1>1, <2>2, StaysOn DEF State, OK
  <2>4. ASSUME NEW m, Ready(c, m) PROVE \E a \in Openings(c) : State(c) = Point(a, o, m)
    BY <1>3, <2>4 DEF Ready, Places, Openings, o, InObject
  <2> QED
    BY <2>2, <2>3, <2>4 DEF d, o
<1>4. CASE ~c.first
  <2>1. d = Add(e, <<"comma">>) /\ "comma" \in Chars
    BY <1>d, <1>4, SpecialChars
  <2>0. <<"comma">> \in Seq(Chars)
    BY <2>1
  <2>2. /\ Stays(e, d) /\ d.first = e.first
        /\ OK(d) => OK(e) /\ State(d) = ReadAll(State(e), <<"comma">>)
        /\ OK(e) /\ e.room = NoLimit => OK(d)
    BY <1>2, <2>0, <2>1, AddFacts
  <2>3. Stays(c, d) /\ d.first = FALSE /\ (c.room = NoLimit => OK(d))
    BY <1>1, <1>2, <1>4, <1>f, <2>2, StaysOn
  <2>4. ASSUME OK(d), NEW m, Ready(c, m) PROVE \E a \in Openings(c) : State(d) = Point(a, o, m)
    <3>1. Level(c) > 0 /\ Level(c) # 0
      BY <1>4, <2>4, OpenFacts DEF Ready
    <3>2. PICK a \in {"more", "scalar"} : State(c) = Point(a, o, m)
      BY <1>4, <2>4, <3>1 DEF Ready, Places, o
    <3>3. State(d) = Read(Point(a, o, m), "comma")
      BY <1>1, <2>1, <2>2, <2>4, <3>2, ReadOne
    <3>4. o # <<>> /\ Last(o) = Brace(InObject(c)) /\ InObject(c) \in BOOLEAN
      BY <3>1, OpenFacts DEF o
    <3>5. Read(Point(a, o, m), "comma") = Point(IF Last(o) = "rbrace" THEN "name" ELSE "value", o, m)
      BY <3>4, ReadComma
    <3> QED
      BY <3>3, <3>4, <3>5 DEF Openings, Brace
  <2> QED
    BY <2>3, <2>4 DEF d, o
<1> QED
  BY <1>3, <1>4

(* The comma and the line break behind it.                                   *)
LEMMA LineFacts ==
    ASSUME NEW c \in Encoders
    PROVE  LET d == LineOf(c)
           IN  /\ Stays(c, d) /\ d.first = FALSE
               /\ c.room = NoLimit => OK(d)
               /\ OK(d) => \A m : Ready(c, m) =>
                     \E a \in Openings(c) : State(d) = Point(a, Braces(c.isObject), m)
<1> DEFINE e == CommaOf(c)
           d == LineOf(c)
           o == Braces(c.isObject)
<1>1. /\ Stays(c, e) /\ e.first = FALSE
      /\ c.room = NoLimit => OK(e)
      /\ OK(e) => \A m : Ready(c, m) => \E a \in Openings(c) : State(e) = Point(a, o, m)
  BY CommaFacts
<1>2. e \in Encoders /\ (c.room = NoLimit => e.room = NoLimit)
  BY <1>1, StaysLevel
<1>d. d = IF c.pretty /\ Level(c) > 0 THEN NewLine(e) ELSE e
  BY DEF LineOf
<1> HIDE DEF e, d, o
<1>3. CASE c.pretty /\ Level(c) > 0
  <2>1. d = NewLine(e)
    BY <1>d, <1>3
  <2>2. /\ Stays(e, d) /\ d.first = e.first
        /\ OK(e) /\ e.room = NoLimit => OK(d)
        /\ OK(d) => OK(e)
        /\ OK(d) => \A a \in {"firstName", "name", "firstValue", "value", "more", "scalar"} : \A u, m :
                       State(e) = Point(a, u, m) /\ (a = "scalar" => u # <<>>)
                          => State(d) = Point(Settled(a), u, m)
    BY <1>2, <2>1, NewLineFacts
  <2>3. Stays(c, d)
    BY <1>1, <2>2, StaysOn
  <2>4. ASSUME OK(d), NEW m, Ready(c, m) PROVE \E a \in Openings(c) : State(d) = Point(a, o, m)
    <3>1. PICK a \in Openings(c) : State(e) = Point(a, o, m)
      BY <1>1, <2>2, <2>4
    <3>2. a \in {"firstName", "name", "firstValue", "value"}
      BY DEF Openings
    <3>3. State(d) = Point(Settled(a), o, m) /\ Settled(a) = a
      BY <2>2, <2>4, <3>1, <3>2 DEF Settled
    <3> QED
      BY <3>3
  <2> QED
    BY <1>1, <1>2, <2>2, <2>3, <2>4 DEF d, o
<1>4. CASE ~(c.pretty /\ Level(c) > 0)
  BY <1>1, <1>d, <1>4 DEF d, o
<1> QED
  BY <1>3, <1>4

-----------------------------------------------------------------------------
(* How the members grow by an element of that name.                          *)
Gains(c, nm, m, k) ==
    /\ Level(c) # 1 => k = m
    /\ Level(c) = 1 /\ InObject(c) /\ nm \in {<<"e">>, <<"z">>} => k = Append(m, nm[1])

(* The text is where a value is expected, and the name is a member by now.   *)
LEMMA BeginElementFacts ==
    ASSUME NEW c \in Encoders, NEW nm \in Seq(Chars), "NUL" \notin Range(nm)
    PROVE  LET d == BeginElement(c, nm)
           IN  /\ Stays(c, d) /\ d.first = FALSE
               /\ c.room = NoLimit /\ "control" \notin Range(nm) /\ (InObject(c) => nm # NoName) => OK(d)
               /\ OK(d) => \A m : Ready(c, m) =>
                     \E a \in {"firstValue", "value"} : \E k :
                        State(d) = Point(a, Braces(c.isObject), k) /\ Gains(c, nm, m, k)
<1> DEFINE line == LineOf(c)
           quoted == AddQuotedEscapedString(line, nm)
           colon == IF c.pretty THEN <<"colon", "space">> ELSE <<"colon">>
           d == BeginElement(c, nm)
           o == Braces(c.isObject)
<1>d. d = IF ~InObject(c) \/ ~OK(line) THEN line
          ELSE IF nm = NoName THEN Return(line, "INVALID_DATA") ELSE Add(quoted, colon)
  BY DEF BeginElement, LineOf, CommaOf
<1>1. /\ Stays(c, line) /\ line.first = FALSE
      /\ c.room = NoLimit => OK(line)
      /\ OK(line) => \A m : Ready(c, m) => \E a \in Openings(c) : State(line) = Point(a, o, m)
  BY LineFacts
<1>2. line \in Encoders /\ (c.room = NoLimit => line.room = NoLimit)
  BY <1>1, StaysLevel
<1>o. Len(o) = Level(c)
  BY OpenFacts
<1> HIDE DEF line, d, o
<1>3. CASE ~InObject(c) \/ ~OK(line)
  <2>1. d = line
    BY <1>d, <1>3
  <2>2. ASSUME OK(line), NEW m, Ready(c, m)
        PROVE  \E a \in {"firstValue", "value"} : \E k : State(line) = Point(a, o, k) /\ Gains(c, nm, m, k)
    <3>1. PICK a \in Openings(c) : State(line) = Point(a, o, m)
      BY <1>1, <2>2
    <3>2. a \in {"firstValue", "value"} /\ Gains(c, nm, m, m)
      BY <1>3, <2>2 DEF Openings, Gains
    <3> QED
      BY <3>1, <3>2
  <2> QED
    BY <1>1, <2>1, <2>2 DEF d, o
<1>4. CASE InObject(c) /\ OK(line) /\ nm = NoName
  <2>1. d = Return(line, "INVALID_DATA") /\ "INVALID_DATA" \in Results
    BY <1>d, <1>4 DEF Results
  <2>2. Stays(line, d) /\ d.first = line.first /\ ~OK(d)
    BY <1>2, <2>1, ReturnFacts
  <2>3. Stays(c, d)
    BY <1>1, <2>2, StaysOn
  <2> QED
    BY <1>1, <1>4, <2>2, <2>3 DEF d
<1>5. CASE InObject(c) /\ OK(line) /\ nm # NoName
  <2>1. d = Add(quoted, colon)
    BY <1>d, <1>5
  <2>2. /\ Stays(line, quoted) /\ quoted.first = line.first
        /\ OK(quoted) => OK(line) /\ "control" \notin Range(nm)
        /\ OK(line) /\ line.room = NoLimit /\ "control" \notin Range(nm) => OK(quoted)
    BY <1>2, AddQuotedEscapedStringFacts
  <2>3. quoted \in Encoders /\ (line.room = NoLimit => quoted.room = NoLimit)
    BY <2>2, StaysLevel
  <2>4. colon \in Seq(Chars)
    BY SpecialChars
  <2>c. \A k : ReadAll(Point("colon", o, k), colon) = Point("value", o, k)
    <3> TAKE k
    <3>1. ReadAll(Point("colon", o, k), <<"colon">>) = Point("value", o, k)
      BY SpecialChars, ReadOne, ReadColon
    <3>2. ReadAll(Point("colon", o, k), <<"colon", "space">>) = Point("value", o, k)
      <4>1. <<"colon", "space">> = Append(<<"colon">>, "space") /\ <<"colon">> \in Seq(Chars)
        BY SpecialChars
      <4>2. ReadAll(Point("colon", o, k), Append(<<"colon">>, "space"))
               = Read(ReadAll(Point("colon", o, k), <<"colon">>), "space")
        BY <4>1, SpecialChars, ReadOneMore
      <4>3. Read(Point("value", o, k), "space") = Point("value", o, k)
        BY ReadSpace
      <4> QED
        BY <3>1, <4>1, <4>2, <4>3
    <3> QED
      BY <3>1, <3>2
  <2>s. ASSUME OK(quoted), NEW m, Ready(c, m)
        PROVE  \E k : State(quoted) = Point("colon", o, k) /\ Gains(c, nm, m, k)
    <3>1. PICK a \in {"firstName", "name"} : State(line) = Point(a, o, m)
      BY <1>1, <1>5, <2>s DEF Openings
    <3>2. PICK k : /\ State(quoted) = Point("colon", o, k)
                   /\ Len(o) # 1 => k = m
                   /\ Len(o) = 1 /\ nm \in {<<"e">>, <<"z">>} => k = Append(m, nm[1])
      BY <1>2, <2>s, <3>1, AddNamePoint
    <3> QED
      BY <1>o, <3>2 DEF Gains
  <2> HIDE DEF quoted, colon
  <2>5. /\ Stays(quoted, d) /\ d.first = quoted.first
        /\ OK(d) => OK(quoted) /\ State(d) = ReadAll(State(quoted), colon)
        /\ OK(quoted) /\ quoted.room = NoLimit => OK(d)
    BY <2>1, <2>3, <2>4, AddFacts
  <2>6. Stays(c, d)
    <3>1. Stays(c, quoted)
      BY <1>1, <2>2, StaysOn
    <3> QED
      BY <3>1, <2>5, StaysOn
  <2>7. ASSUME OK(d), NEW m, Ready(c, m)
        PROVE  \E a \in {"firstValue", "value"} : \E k : State(d) = Point(a, o, k) /\ Gains(c, nm, m, k)
    <3>1. PICK k : State(quoted) = Point("colon", o, k) /\ Gains(c, nm, m, k)
      BY <2>5, <2>7, <2>s
    <3>2. State(d) = Point("value", o, k)
      BY <2>5, <2>7, <2>c, <3>1
    <3> QED
      BY <3>1, <3>2
  <2> QED
    BY <1>1, <1>2, <1>5, <2>2, <2>3, <2>5, <2>6, <2>7 DEF d, o
<1> QED
  BY <1>3, <1>4, <1>5

-----------------------------------------------------------------------------
(* Elements and containers.                                                 *)

Stands(c, m) == OK(c) /\ \E a \in Places(c) : State(c) = Point(a, Braces(c.isObject), m)

Scalar(t) == t \in Seq(Chars) /\ t # <<>> /\ \A i \in DOMAIN t : t[i] \notin Structure

(* A scalar is read where a value is expected.                               *)
LEMMA ReadScalar ==
    ASSUME NEW t, Scalar(t), NEW a \in {"firstValue", "value"}, NEW o, NEW m
    PROVE  ReadAll(Point(a, o, m), t) = Point("scalar", o, m)
<1> DEFINE P == Point(a, o, m)
           S == Point("scalar", o, m)
           Upto == {n \in Nat : \A u : Scalar(u) /\ Len(u) = n + 1 => ReadAll(P, u) = S}
<1>r. \A ch \in Chars \ Structure : Read(P, ch) = S /\ Read(S, ch) = S
  BY ReadScalarChar
<1> HIDE DEF P, S
<1>1. 0 \in Upto
  <2> SUFFICES ASSUME NEW u, Scalar(u), Len(u) = 0 + 1 PROVE ReadAll(P, u) = S
    OBVIOUS
  <2>1. u = <<u[1]>> /\ u[1] \in Chars /\ u[1] \notin Structure
    BY DEF Scalar
  <2>2. ReadAll(P, <<u[1]>>) = Read(P, u[1])
    BY <2>1, ReadOne
  <2> QED
    BY <1>r, <2>1, <2>2
<1>2. ASSUME NEW n \in Upto PROVE n + 1 \in Upto
  <2>1. n \in Nat /\ \A u : Scalar(u) /\ Len(u) = n + 1 => ReadAll(P, u) = S
    OBVIOUS
  <2>2. ASSUME NEW u, Scalar(u), Len(u) = n + 1 + 1 PROVE ReadAll(P, u) = S
    <3> DEFINE w == SubSeq(u, 1, n + 1)
               ch == u[n + 2]
    <3>1. w \in Seq(Chars) /\ Len(w) = n + 1 /\ ch \in Chars /\ u = Append(w, ch) /\ ch \notin Structure
          /\ \A i \in 1 .. n + 1 : w[i] = u[i] /\ u[i] \notin Structure
      BY <2>1, <2>2 DEF Scalar
    <3> HIDE DEF w, ch
    <3>2. Scalar(w)
      <4>1. w # <<>> /\ DOMAIN w = 1 .. n + 1
        BY <2>1, <3>1
      <4> QED
        BY <3>1, <4>1 DEF Scalar
    <3>3. ReadAll(P, Append(w, ch)) = Read(ReadAll(P, w), ch)
      BY <3>1, ReadOneMore
    <3> QED
      BY <1>r, <2>1, <3>1, <3>2, <3>3
  <2> QED
    BY <2>1, <2>2
<1>3. Upto \in SUBSET Nat /\ \A n \in Upto : \A u : Scalar(u) /\ Len(u) = n + 1 => ReadAll(P, u) = S
  OBVIOUS
<1> HIDE DEF Upto
<1>4. Upto = Nat
  BY <1>1, <1>2, <1>3, SetInduction
<1>5. Len(t) - 1 \in Nat /\ Len(t) = Len(t) - 1 + 1
  BY DEF Scalar
<1> QED
  BY <1>3, <1>4, <1>5 DEF P, S

(* Where the text may stand behind an element.                               *)
LEMMA PlacesBehind ==
    ASSUME NEW c, NEW d \in Encoders, Stays(c, d), d.first = FALSE
    PROVE  "scalar" \in Places(d) /\ Behind(Braces(d.isObject)) \in Places(d)
<1>1. Braces(d.isObject) = <<>> <=> Level(d) = 0
  BY OpenFacts
<1> QED
  BY <1>1 DEF Places, Behind

(* A scalar element.                                                         *)
LEMMA AddElementFacts ==
    ASSUME NEW c \in Encoders, NEW nm \in Seq(Chars), "NUL" \notin Range(nm), NEW value \in Seq(Chars)
    PROVE  LET d == AddElement(c, nm, value)
           IN  /\ Stays(c, d) /\ d.first = FALSE
               /\ c.room = NoLimit /\ "control" \notin Range(nm) /\ (InObject(c) => nm # NoName) => OK(d)
               /\ OK(d) /\ Scalar(value) => \A m : Ready(c, m) => \E k : Stands(d, k) /\ Gains(c, nm, m, k)
<1> DEFINE e == BeginElement(c, nm)
           d == AddElement(c, nm, value)
<1>1. /\ Stays(c, e) /\ e.first = FALSE
      /\ c.room = NoLimit /\ "control" \notin Range(nm) /\ (InObject(c) => nm # NoName) => OK(e)
      /\ OK(e) => \A m : Ready(c, m) =>
           \E a \in {"firstValue", "value"} : \E k :
              State(e) = Point(a, Braces(c.isObject), k) /\ Gains(c, nm, m, k)
  BY BeginElementFacts
<1>2. e \in Encoders /\ (c.room = NoLimit => e.room = NoLimit)
  BY <1>1, StaysLevel
<1>3. d = Add(e, value)
  BY DEF AddElement
<1> HIDE DEF e, d
<1>4. /\ Stays(e, d) /\ d.first = e.first
      /\ OK(d) => OK(e) /\ State(d) = ReadAll(State(e), value)
      /\ OK(e) /\ e.room = NoLimit => OK(d)
  BY <1>2, <1>3, AddFacts
<1>5. Stays(c, d)
  BY <1>1, <1>4, StaysOn
<1>6. ASSUME OK(d), Scalar(value), NEW m, Ready(c, m) PROVE \E k : Stands(d, k) /\ Gains(c, nm, m, k)
  <2>0. PICK a \in {"firstValue", "value"} :
           \E l : State(e) = Point(a, Braces(c.isObject), l) /\ Gains(c, nm, m, l)
    BY <1>1, <1>4, <1>6
  <2>1. PICK k : State(e) = Point(a, Braces(c.isObject), k) /\ Gains(c, nm, m, k)
    BY <2>0
  <2>2. State(d) = Point("scalar", Braces(c.isObject), k)
    BY <1>4, <1>6, <2>1, ReadScalar
  <2>3. "scalar" \in Places(d) /\ d.isObject = c.isObject
    BY <1>1, <1>4, <1>5, StaysLevel, PlacesBehind
  <2> QED
    BY <1>6, <2>1, <2>2, <2>3 DEF Stands
<1> QED
  BY <1>1, <1>2, <1>4, <1>5, <1>6 DEF d

(* An element that is a string.                                              *)
LEMMA AddStringElementFacts ==
    ASSUME NEW c \in Encoders, NEW nm \in Seq(Chars), "NUL" \notin Range(nm),
           NEW s \in Seq(Chars), "NUL" \notin Range(s)
    PROVE  LET d == AddStringElement(c, nm, s)
           IN  /\ Stays(c, d) /\ d.first = FALSE
               /\ c.room = NoLimit /\ "control" \notin Range(nm) /\ (InObject(c) => nm # NoName) =>
                    ("control" \notin Range(s) => OK(d))
               /\ OK(d) => \A m : Ready(c, m) => \E k : Stands(d, k) /\ Gains(c, nm, m, k)
<1> DEFINE e == BeginElement(c, nm)
           d == AddStringElement(c, nm, s)
<1>1. /\ Stays(c, e) /\ e.first = FALSE
      /\ c.room = NoLimit /\ "control" \notin Range(nm) /\ (InObject(c) => nm # NoName) => OK(e)
      /\ OK(e) => \A m : Ready(c, m) =>
           \E a \in {"firstValue", "value"} : \E k :
              State(e) = Point(a, Braces(c.isObject), k) /\ Gains(c, nm, m, k)
  BY BeginElementFacts
<1>2. e \in Encoders /\ (c.room = NoLimit => e.room = NoLimit)
  BY <1>1, StaysLevel
<1>3. d = IF OK(e) THEN AddQuotedEscapedString(e, s) ELSE e
  BY DEF AddStringElement
<1> HIDE DEF e, d
<1>4. CASE ~OK(e)
  BY <1>1, <1>3, <1>4 DEF d
<1>5. CASE OK(e)
  <2>1. d = AddQuotedEscapedString(e, s)
    BY <1>3, <1>5
  <2>2. /\ Stays(e, d) /\ d.first = e.first
        /\ OK(e) /\ e.room = NoLimit /\ "control" \notin Range(s) => OK(d)
    BY <1>2, <2>1, AddQuotedEscapedStringFacts
  <2>3. Stays(c, d)
    BY <1>1, <2>2, StaysOn
  <2>4. ASSUME OK(d), NEW m, Ready(c, m) PROVE \E k : Stands(d, k) /\ Gains(c, nm, m, k)
    <3>0. PICK a \in {"firstValue", "value"} :
             \E l : State(e) = Point(a, Braces(c.isObject), l) /\ Gains(c, nm, m, l)
      BY <1>1, <1>5, <2>4
    <3>1. PICK k : State(e) = Point(a, Braces(c.isObject), k) /\ Gains(c, nm, m, k)
      BY <3>0
    <3>2. State(d) = Point(Behind(Braces(c.isObject)), Braces(c.isObject), k)
      BY <1>2, <2>1, <2>4, <3>1, AddStringPoint
    <3>3. d.isObject = c.isObject /\ d \in Encoders /\ d.first = FALSE
      BY <1>1, <2>2, <2>3, StaysLevel
    <3>4. Behind(Braces(d.isObject)) \in Places(d)
      BY <2>3, <3>3, PlacesBehind
    <3> QED
      BY <2>4, <3>1, <3>2, <3>3, <3>4 DEF Stands
  <2> QED
    BY <1>1, <1>2, <1>5, <2>2, <2>3, <2>4 DEF d
<1> QED
  BY <1>4, <1>5

(* A container that is begun.                                                *)
LEMMA BeginContainerFacts ==
    ASSUME NEW c \in Encoders, NEW nm \in Seq(Chars), "NUL" \notin Range(nm), NEW isObject \in BOOLEAN
    PROVE  LET d == BeginContainer(c, nm, isObject)
           IN  /\ d \in Encoders /\ (c.room = NoLimit => d.room = NoLimit)
               /\ c.room = NoLimit /\ "control" \notin Range(nm) /\ (InObject(c) => nm # NoName) => OK(d)
               /\ OK(d) => /\ d.isObject = Append(c.isObject, isObject) /\ d.first = TRUE
                           /\ \A m : Ready(c, m) => \E k : Stands(d, k) /\ Gains(c, nm, m, k)
<1> DEFINE e == BeginElement(c, nm)
           f == [e EXCEPT !.isObject = Append(@, isObject), !.first = TRUE]
           b == IF isObject THEN "lbrace" ELSE "lbracket"
           d == BeginContainer(c, nm, isObject)
           o == Braces(c.isObject)
<1>1. /\ Stays(c, e) /\ e.first = FALSE
      /\ c.room = NoLimit /\ "control" \notin Range(nm) /\ (InObject(c) => nm # NoName) => OK(e)
      /\ OK(e) => \A m : Ready(c, m) =>
           \E a \in {"firstValue", "value"} : \E k : State(e) = Point(a, o, k) /\ Gains(c, nm, m, k)
  BY BeginElementFacts
<1>2. e \in Encoders /\ e.isObject = c.isObject /\ (c.room = NoLimit => e.room = NoLimit)
  BY <1>1, StaysLevel
<1>3. d = IF ~OK(e) THEN e ELSE Add(f, <<b>>)
  BY DEF BeginContainer
<1>4. b \in Chars
  BY SpecialChars
<1>e. c.isObject \in Seq(BOOLEAN)
  BY EncoderFields
<1>io. Append(c.isObject, isObject) \in Seq(BOOLEAN) /\ Len(Append(c.isObject, isObject)) = Level(c) + 1
       /\ Append(c.isObject, isObject)[Level(c) + 1] = isObject /\ Level(c) \in Nat
  BY <1>e DEF Level
<1>br. Braces(Append(c.isObject, isObject)) = Append(o, Brace(isObject))
  BY <1>e, BracesFacts
<1> HIDE DEF e
<1>5. /\ f \in Encoders /\ f.first = TRUE /\ f.isObject = Append(c.isObject, isObject) /\ f.room = e.room
      /\ f.text = e.text /\ f.result = e.result
  BY <1>2, <1>io DEF Encoders, Contexts
<1>6. State(f) = State(e) /\ (OK(f) <=> OK(e))
  BY <1>5 DEF State, OK
<1> HIDE DEF f, d, o
<1>7. CASE ~OK(e)
  BY <1>1, <1>2, <1>3, <1>7 DEF d
<1>8. CASE OK(e)
  <2>1. d = Add(f, <<b>>) /\ <<b>> \in Seq(Chars)
    BY <1>3, <1>4, <1>8
  <2>2. /\ Stays(f, d) /\ d.first = f.first
        /\ OK(d) => OK(f) /\ State(d) = ReadAll(State(f), <<b>>)
        /\ OK(f) /\ f.room = NoLimit => OK(d)
    BY <1>5, <2>1, AddFacts
  <2>3. d \in Encoders /\ d.isObject = f.isObject /\ (f.room = NoLimit => d.room = NoLimit)
    BY <2>2, StaysLevel
  <2>4. ASSUME OK(d), NEW m, Ready(c, m) PROVE \E k : Stands(d, k) /\ Gains(c, nm, m, k)
    <3>0. PICK a \in {"firstValue", "value"} : \E l : State(e) = Point(a, o, l) /\ Gains(c, nm, m, l)
      BY <1>1, <1>8, <2>4
    <3>1. PICK k : State(e) = Point(a, o, k) /\ Gains(c, nm, m, k)
      BY <3>0
    <3>2. State(d) = Read(Point(a, o, k), b)
      BY <1>4, <1>6, <2>2, <2>4, <3>1, ReadOne
    <3>3. Read(Point(a, o, k), b) =
             Point(IF isObject THEN "firstName" ELSE "firstValue", Append(o, Brace(isObject)), k)
      BY ReadOpening DEF Brace
    <3>4. (IF isObject THEN "firstName" ELSE "firstValue") \in Places(d)
      <4>1. d.first = TRUE /\ d.isObject = Append(c.isObject, isObject)
        BY <1>5, <2>2, <2>3
      <4>2. Level(d) = Level(c) + 1 /\ Level(d) # 0 /\ (InObject(d) <=> isObject)
        BY <1>io, <4>1 DEF Level, InObject
      <4> QED
        BY <4>1, <4>2 DEF Places
    <3>5. Braces(d.isObject) = Append(o, Brace(isObject))
      BY <1>5, <1>br, <2>3
    <3> QED
      BY <2>4, <3>1, <3>2, <3>3, <3>4, <3>5 DEF Stands
  <2> HIDE DEF b
  <2> QED
    BY <1>1, <1>2, <1>5, <1>6, <1>8, <2>2, <2>3, <2>4 DEF d
<1> QED
  BY <1>7, <1>8

(* A container that is ended.                                                *)
LEMMA EndContainerFacts ==
    ASSUME NEW c \in Encoders
    PROVE  LET d == EndContainer(c)
           IN  /\ d \in Encoders /\ (c.room = NoLimit => d.room = NoLimit)
               /\ c.room = NoLimit => OK(d)
               /\ Level(c) > 0 => d.isObject = Front(c.isObject) /\ Level(d) = Level(c) - 1
               /\ Level(c) > 0 /\ OK(d) =>
                    d.first = FALSE /\ \A m : (\E a \in Places(c) : State(c) = Point(a, Braces(c.isObject), m))
                                               => Stands(d, m)
<1> DEFINE e == Call(c)
           left == [e EXCEPT !.isObject = Front(c.isObject)]
           line == IF c.pretty /\ ~c.first THEN NewLine(left) ELSE left
           low == [line EXCEPT !.first = FALSE]
           b == IF InObject(c) THEN "rbrace" ELSE "rbracket"
           d == EndContainer(c)
           o == Braces(c.isObject)
<1>1. Stays(c, e) /\ OK(e) /\ e.first = c.first /\ State(e) = State(c) /\ e \in Encoders
      /\ (c.room = NoLimit => e.room = NoLimit)
  <2>1. Stays(c, e) /\ OK(e) /\ e.first = c.first /\ State(e) = State(c)
    BY CallFacts
  <2> QED
    BY <2>1, StaysLevel
<1>d. d = IF Level(c) = 0 THEN e ELSE IF ~OK(line) THEN line ELSE Add(low, <<b>>)
  BY DEF EndContainer
<1>io. c.isObject \in Seq(BOOLEAN) /\ Level(c) \in Nat /\ Level(c) = Len(c.isObject) /\ c.first \in BOOLEAN
  BY EncoderFields
<1> HIDE DEF e, d, o
<1>2. CASE Level(c) = 0
  BY <1>1, <1>d, <1>2 DEF d
<1>3. CASE Level(c) # 0
  <2>1. Level(c) > 0 /\ c.isObject # <<>>
    BY <1>3, <1>io
  <2>2. /\ Front(c.isObject) \in Seq(BOOLEAN) /\ Len(Front(c.isObject)) = Level(c) - 1
        /\ Front(o) = Braces(Front(c.isObject)) /\ Last(o) = Brace(InObject(c)) /\ InObject(c) \in BOOLEAN
        /\ o # <<>>
    BY <1>io, <2>1, BracesFacts, OpenFacts DEF o
  <2>3. /\ left \in Encoders /\ left.room = e.room /\ left.first = e.first /\ left.text = e.text
        /\ left.result = e.result /\ left.isObject = Front(c.isObject)
    BY <1>1, <2>2 DEF Encoders, Contexts
  <2>4. State(left) = State(c) /\ OK(left) /\ (c.room = NoLimit => left.room = NoLimit)
    BY <1>1, <2>3 DEF State, OK
  <2> HIDE DEF left
  <2> DEFINE Ending(s, m) == \E a \in {"more", "scalar", IF InObject(c) THEN "firstName" ELSE "firstValue"} :
                                s = Point(a, o, m)
  <2>5. /\ Stays(left, line) /\ line.first = left.first
        /\ c.room = NoLimit => OK(line)
        /\ OK(line) => \A m : (\E a \in Places(c) : State(c) = Point(a, o, m)) => Ending(State(line), m)
    <3>1. \A m : (\E a \in Places(c) : State(c) = Point(a, o, m)) => Ending(State(c), m)
      BY <1>3 DEF Places
    <3>2. CASE c.pretty /\ ~c.first
      <4>1. line = NewLine(left)
        BY <3>2
      <4>2. /\ Stays(left, line) /\ line.first = left.first
            /\ OK(left) /\ left.room = NoLimit => OK(line)
            /\ OK(line) => \A a \in {"firstName", "name", "firstValue", "value", "more", "scalar"} : \A u, m :
                           State(left) = Point(a, u, m) /\ (a = "scalar" => u # <<>>)
                              => State(line) = Point(Settled(a), u, m)
        BY <2>3, <4>1, NewLineFacts
      <4>3. ASSUME OK(line), NEW m, NEW a \in Places(c), State(c) = Point(a, o, m)
            PROVE  Ending(State(line), m)
        <5>1. a \in {"more", "scalar"}
          BY <1>3, <3>2 DEF Places
        <5>2. State(line) = Point(Settled(a), o, m)
          BY <2>2, <2>4, <4>2, <4>3, <5>1
        <5> QED
          BY <5>1, <5>2 DEF Settled
      <4> HIDE DEF line
      <4> QED
        BY <2>4, <4>2, <4>3
    <3>3. CASE ~(c.pretty /\ ~c.first)
      <4>1. line = left
        BY <3>3
      <4> QED
        BY <2>3, <2>4, <3>1, <4>1 DEF Stays
    <3> QED
      BY <3>2, <3>3
  <2> HIDE DEF line
  <2>6. line \in Encoders /\ line.isObject = Front(c.isObject) /\ (c.room = NoLimit => line.room = NoLimit)
    BY <2>3, <2>4, <2>5, StaysLevel
  <2>7. CASE ~OK(line)
    BY <1>d, <1>3, <2>2, <2>5, <2>6, <2>7 DEF d, Level
  <2>8. CASE OK(line)
    <3>1. /\ low \in Encoders /\ low.room = line.room /\ low.first = FALSE /\ low.text = line.text
          /\ low.result = line.result /\ low.isObject = line.isObject
      BY <2>6 DEF Encoders, Contexts
    <3>2. State(low) = State(line) /\ OK(low)
      BY <2>8, <3>1 DEF State, OK
    <3>b. b \in Chars /\ b = Last(o) /\ b \in {"rbrace", "rbracket"} /\ (b = "rbrace" <=> InObject(c))
      BY <2>2, SpecialChars DEF Brace
    <3>3. d = Add(low, <<b>>) /\ <<b>> \in Seq(Chars)
      BY <1>d, <1>3, <2>8, <3>b
    <3> HIDE DEF low, b
    <3>4. /\ Stays(low, d) /\ d.first = low.first
          /\ OK(d) => OK(low) /\ State(d) = ReadAll(State(low), <<b>>)
          /\ OK(low) /\ low.room = NoLimit => OK(d)
      BY <3>1, <3>3, AddFacts
    <3>5. d \in Encoders /\ d.isObject = Front(c.isObject) /\ (low.room = NoLimit => d.room = NoLimit)
      BY <2>6, <3>1, <3>4, StaysLevel
    <3>6. ASSUME OK(d), NEW m, \E a \in Places(c) : State(c) = Point(a, o, m)
          PROVE  Stands(d, m)
      <4>1. PICK a \in {"more", "scalar", IF InObject(c) THEN "firstName" ELSE "firstValue"} :
               State(line) = Point(a, o, m)
        BY <2>5, <2>8, <3>6
      <4>2. State(d) = Read(Point(a, o, m), b)
        BY <3>b, <3>2, <3>4, <3>6, <4>1, ReadOne
      <4>3. Read(Point(a, o, m), b) = Point(Behind(Front(o)), Front(o), m)
        <5>1. a \in {"scalar", "more"} \cup {IF b = "rbrace" THEN "firstName" ELSE "firstValue"}
          BY <3>b
        <5> QED
          BY <2>2, <3>b, <5>1, ReadClosing
      <4>4. Behind(Braces(d.isObject)) \in Places(d)
        BY <3>1, <3>4, <3>5, PlacesBehind
      <4> QED
        BY <2>2, <3>5, <3>6, <4>2, <4>3, <4>4 DEF Stands
    <3> QED
      BY <1>3, <2>2, <2>6, <3>1, <3>2, <3>4, <3>5, <3>6 DEF d, o, Level
  <2> QED
    BY <2>7, <2>8
<1> QED
  BY <1>2, <1>3

-----------------------------------------------------------------------------
(* Closing containers.                                                      *)

LEMMA EncoderStepsExist ==
    ASSUME NEW a \in Encoders, NEW n \in Nat, NEW step \in [Encoders \X (1 .. n) -> Encoders]
    PROVE  \E f \in [0 .. n -> Encoders] : f[0] = a /\ \A i \in 1 .. n : f[i] = step[<<f[i - 1], i>>]
  BY StepsExist

(* A call can be repeated.                                                   *)
LEMMA EncoderRepeats ==
    ASSUME NEW a \in Encoders, NEW n \in Nat, NEW g \in [Encoders -> Encoders]
    PROVE  \E f \in [0 .. n -> Encoders] : f[0] = a /\ \A i \in 1 .. n : f[i] = g[f[i - 1]]
<1> DEFINE step == [p \in Encoders \X (1 .. n) |-> g[p[1]]]
<1>1. step \in [Encoders \X (1 .. n) -> Encoders]
  OBVIOUS
<1>2. \A x \in Encoders, i \in 1 .. n : step[<<x, i>>] = g[x]
  OBVIOUS
<1> HIDE DEF step
<1>3. PICK f \in [0 .. n -> Encoders] : f[0] = a /\ \A i \in 1 .. n : f[i] = step[<<f[i - 1], i>>]
  BY <1>1, EncoderStepsExist
<1>4. \A i \in 1 .. n : f[i] = g[f[i - 1]]
  <2> TAKE i \in 1 .. n
  <2>1. i - 1 \in 0 .. n
    OBVIOUS
  <2> QED
    BY <1>2, <1>3, <2>1
<1> QED
  BY <1>3, <1>4

(* What EndEncode does to go on.                                             *)
EndOne(c) == IF OK(c) THEN EndContainer(c) ELSE c

(* The contexts that the loop of CloseTo goes through.                       *)
LEMMA CloseSteps ==
    ASSUME NEW c \in Encoders, NEW l \in Nat
    PROVE  LET close[n \in 0 .. l] == IF n = 0 THEN c ELSE EndContainer(close[n - 1])
           IN  close[0] = c /\ \A i \in 1 .. l : close[i] = EndContainer(close[i - 1])
<1> DEFINE Is(f) == f = [n \in 0 .. l |-> IF n = 0 THEN c ELSE EndContainer(f[n - 1])]
           e == CHOOSE f : Is(f)
           g == [x \in Encoders |-> EndContainer(x)]
<1>1. g \in [Encoders -> Encoders] /\ \A x \in Encoders : g[x] = EndContainer(x)
  <2>1. \A x \in Encoders : EndContainer(x) \in Encoders
    BY EndContainerFacts
  <2> QED
    BY <2>1
<1> HIDE DEF g
<1>2. PICK f \in [0 .. l -> Encoders] : f[0] = c /\ \A i \in 1 .. l : f[i] = g[f[i - 1]]
  BY <1>1, EncoderRepeats
<1>3. ASSUME NEW i \in 0 .. l PROVE f[i] = IF i = 0 THEN c ELSE EndContainer(f[i - 1])
  <2>1. CASE i = 0
    BY <1>2, <2>1
  <2>2. CASE i # 0
    <3>1. i \in 1 .. l /\ i - 1 \in 0 .. l
      BY <2>2
    <3>2. f[i - 1] \in Encoders
      BY <3>1
    <3> QED
      BY <1>1, <1>2, <2>2, <3>1, <3>2
  <2> QED
    BY <2>1, <2>2
<1>4. Is(f)
  <2> DEFINE h == [n \in 0 .. l |-> IF n = 0 THEN c ELSE EndContainer(f[n - 1])]
  <2>1. DOMAIN h = 0 .. l /\ h = [i \in DOMAIN h |-> h[i]]
        /\ \A i \in 0 .. l : h[i] = IF i = 0 THEN c ELSE EndContainer(f[i - 1])
    OBVIOUS
  <2> HIDE DEF h
  <2>2. \A i \in 0 .. l : h[i] = f[i]
    BY <1>3, <2>1
  <2>3. f = h
    BY <2>1, <2>2
  <2> QED
    BY <2>3 DEF h
<1>5. Is(e)
  <2> HIDE DEF Is
  <2> QED
    BY <1>4
<1> HIDE DEF e
<1>6. e[0] = c /\ \A i \in 1 .. l : e[i] = EndContainer(e[i - 1])
  <2> DEFINE h == [n \in 0 .. l |-> IF n = 0 THEN c ELSE EndContainer(e[n - 1])]
  <2>1. h[0] = c /\ \A i \in 1 .. l : h[i] = EndContainer(e[i - 1])
    OBVIOUS
  <2>2. e = h
    BY <1>5
  <2> HIDE DEF h
  <2> QED
    BY <2>1, <2>2
<1> QED
  BY <1>6 DEF e

(* The contexts that the loop of EndEncode goes through.                     *)
LEMMA EndSteps ==
    ASSUME NEW c \in Encoders, NEW l \in Nat
    PROVE  LET close[n \in 0 .. l] ==
                   IF n = 0 THEN Call(c)
                   ELSE IF OK(close[n - 1]) THEN EndContainer(close[n - 1]) ELSE close[n - 1]
           IN  close[0] = Call(c) /\ \A i \in 1 .. l : close[i] = EndOne(close[i - 1])
<1> DEFINE a == Call(c)
           Is(f) == f = [n \in 0 .. l |-> IF n = 0 THEN a ELSE EndOne(f[n - 1])]
           e == CHOOSE f : Is(f)
           g == [x \in Encoders |-> EndOne(x)]
<1>0. a \in Encoders
  BY CallFacts DEF Stays
<1> HIDE DEF a
<1>1. g \in [Encoders -> Encoders] /\ \A x \in Encoders : g[x] = EndOne(x)
  <2>1. \A x \in Encoders : EndOne(x) \in Encoders
    BY EndContainerFacts DEF EndOne
  <2> QED
    BY <2>1
<1> HIDE DEF g
<1>2. PICK f \in [0 .. l -> Encoders] : f[0] = a /\ \A i \in 1 .. l : f[i] = g[f[i - 1]]
  BY <1>0, <1>1, EncoderRepeats
<1>3. ASSUME NEW i \in 0 .. l PROVE f[i] = IF i = 0 THEN a ELSE EndOne(f[i - 1])
  <2>1. CASE i = 0
    BY <1>2, <2>1
  <2>2. CASE i # 0
    <3>1. i \in 1 .. l /\ i - 1 \in 0 .. l
      BY <2>2
    <3>2. f[i - 1] \in Encoders
      BY <3>1
    <3> QED
      BY <1>1, <1>2, <2>2, <3>1, <3>2
  <2> QED
    BY <2>1, <2>2
<1>4. Is(f)
  <2> DEFINE h == [n \in 0 .. l |-> IF n = 0 THEN a ELSE EndOne(f[n - 1])]
  <2>1. DOMAIN h = 0 .. l /\ h = [i \in DOMAIN h |-> h[i]]
        /\ \A i \in 0 .. l : h[i] = IF i = 0 THEN a ELSE EndOne(f[i - 1])
    OBVIOUS
  <2> HIDE DEF h
  <2>2. \A i \in 0 .. l : h[i] = f[i]
    BY <1>3, <2>1
  <2>3. f = h
    BY <2>1, <2>2
  <2> QED
    BY <2>3 DEF h
<1>5. Is(e)
  <2> HIDE DEF Is
  <2> QED
    BY <1>4
<1> HIDE DEF e
<1>6. e[0] = a /\ \A i \in 1 .. l : e[i] = EndOne(e[i - 1])
  <2> DEFINE h == [n \in 0 .. l |-> IF n = 0 THEN a ELSE EndOne(e[n - 1])]
  <2>1. h[0] = a /\ \A i \in 1 .. l : h[i] = EndOne(e[i - 1])
    OBVIOUS
  <2>2. e = h
    BY <1>5
  <2> HIDE DEF h
  <2> QED
    BY <2>1, <2>2
<1> QED
  BY <1>6 DEF e, a, EndOne

-----------------------------------------------------------------------------
Closes(f, c, l) == f[0] = c /\ \A i \in 1 .. l : f[i] = EndContainer(f[i - 1])

(* A sequence of calls of endContainer, while nothing fails.                 *)
LEMMA ClosingSteps ==
    ASSUME NEW c \in Encoders, c.room = NoLimit, NEW m, Stands(c, m), NEW l \in 0 .. Level(c),
           NEW f, Closes(f, c, l)
    PROVE  /\ f[l] \in Encoders /\ f[l].room = NoLimit /\ Stands(f[l], m)
           /\ f[l].isObject = SubSeq(c.isObject, 1, Level(c) - l)
           /\ l > 0 => f[l].first = FALSE
<1> DEFINE Closed(n) == /\ f[n] \in Encoders /\ f[n].room = NoLimit /\ Stands(f[n], m)
                        /\ f[n].isObject = SubSeq(c.isObject, 1, Level(c) - n)
                        /\ n > 0 => f[n].first = FALSE
           Upto == {n \in Nat : n <= l => Closed(n)}
<1>0. c.isObject \in Seq(BOOLEAN) /\ Level(c) \in Nat /\ Level(c) = Len(c.isObject) /\ l \in Nat /\ l <= Level(c)
  <2>1. c.isObject \in Seq(BOOLEAN) /\ Level(c) \in Nat /\ Level(c) = Len(c.isObject)
    BY EncoderFields
  <2> QED
    BY <2>1
<1>1. 0 \in Upto
  <2>1. SubSeq(c.isObject, 1, Level(c) - 0) = c.isObject
    BY <1>0
  <2>2. f[0] = c
    BY DEF Closes
  <2> QED
    BY <2>1, <2>2
<1>2. ASSUME NEW n \in Upto PROVE n + 1 \in Upto
  <2>1. n \in Nat /\ (n <= l => Closed(n))
    OBVIOUS
  <2>2. ASSUME n + 1 <= l PROVE Closed(n + 1)
    <3>1. n <= l /\ n + 1 \in 1 .. l /\ n + 1 - 1 = n
      BY <1>0, <2>1, <2>2
    <3>2. Closed(n)
      BY <2>1, <3>1
    <3>3. f[n + 1] = EndContainer(f[n])
      BY <3>1 DEF Closes
    <3> DEFINE x == f[n]
               y == f[n + 1]
    <3>4. /\ x \in Encoders /\ x.room = NoLimit /\ Stands(x, m)
          /\ x.isObject = SubSeq(c.isObject, 1, Level(c) - n)
      BY <3>2
    <3>5. y = EndContainer(x)
      BY <3>3
    <3> HIDE DEF x, y, Closed
    <3>6. Level(x) = Level(c) - n /\ Level(x) > 0
      BY <1>0, <2>1, <2>2, <3>4 DEF Level
    <3>7. /\ y \in Encoders /\ y.room = NoLimit /\ OK(y) /\ y.isObject = Front(x.isObject)
          /\ y.first = FALSE
          /\ (\E a \in Places(x) : State(x) = Point(a, Braces(x.isObject), m)) => Stands(y, m)
      BY <3>4, <3>5, <3>6, EndContainerFacts
    <3>8. Stands(y, m)
      BY <3>4, <3>7 DEF Stands
    <3>9. y.isObject = SubSeq(c.isObject, 1, Level(c) - (n + 1))
      <4>1. Front(x.isObject) = SubSeq(x.isObject, 1, Level(x) - 1)
        BY DEF Front, Level
      <4> DEFINE k == Level(c) - n
      <4>2. k \in Nat /\ k >= 1 /\ k <= Len(c.isObject) /\ Level(c) - (n + 1) = k - 1
        BY <1>0, <2>1, <2>2
      <4> HIDE DEF k
      <4>3. SubSeq(SubSeq(c.isObject, 1, k), 1, k - 1) = SubSeq(c.isObject, 1, k - 1)
        BY <1>0, <4>2
      <4>4. x.isObject = SubSeq(c.isObject, 1, k) /\ Level(x) = k
        BY <3>4, <3>6 DEF k
      <4> QED
        BY <3>7, <4>1, <4>2, <4>3, <4>4
    <3> QED
      BY <3>7, <3>8, <3>9 DEF y, Closed
  <2> HIDE DEF Closed
  <2> QED
    BY <2>1, <2>2
<1>3. Upto \in SUBSET Nat /\ (l \in Upto => Closed(l))
  BY <1>0
<1> HIDE DEF Upto
<1>4. Upto = Nat
  BY <1>1, <1>2, <1>3, SetInduction
<1> QED
  BY <1>0, <1>3, <1>4

(* The containers inside the report's root are closed.                       *)
LEMMA CloseToFacts ==
    ASSUME NEW c \in Encoders, c.room = NoLimit, NEW m, Stands(c, m), Level(c) >= 1
    PROVE  LET d == CloseTo(c, 1)
           IN  d \in Encoders /\ d.room = NoLimit /\ Stands(d, m) /\ d.isObject = SubSeq(c.isObject, 1, 1)
<1>0. c.isObject \in Seq(BOOLEAN) /\ Level(c) \in Nat /\ Level(c) = Len(c.isObject)
  BY EncoderFields
<1> DEFINE close[n \in 0 .. Level(c)] == IF n = 0 THEN c ELSE EndContainer(close[n - 1])
           l == Level(c) - 1
<1>1. close[0] = c /\ \A i \in 1 .. Level(c) : close[i] = EndContainer(close[i - 1])
  BY <1>0, CloseSteps
<1>2. CloseTo(c, 1) = IF Level(c) > 1 THEN close[l] ELSE c
  BY DEF CloseTo
<1> HIDE DEF close
<1>3. CASE Level(c) > 1
  <2>1. l \in 0 .. Level(c) /\ (\A i \in 1 .. l : i \in 1 .. Level(c)) /\ Level(c) - l = 1
    BY <1>0, <1>3
  <2> HIDE DEF l
  <2>2. \A i \in 1 .. l : close[i] = EndContainer(close[i - 1])
    BY <1>1, <2>1
  <2> DEFINE x == close[l]
  <2>3. /\ x \in Encoders /\ x.room = NoLimit /\ Stands(x, m)
        /\ x.isObject = SubSeq(c.isObject, 1, Level(c) - l)
    <3>1. Closes(close, c, l)
      BY <1>1, <2>2 DEF Closes
    <3>2. l \in 0 .. Level(c)
      BY <2>1
    <3> QED
      BY <3>1, <3>2, ClosingSteps
  <2>4. CloseTo(c, 1) = x
    BY <1>2, <1>3
  <2> HIDE DEF x
  <2> QED
    BY <2>1, <2>3, <2>4
<1>4. CASE Level(c) = 1
  <2> DEFINE io == c.isObject
  <2>1. io \in Seq(BOOLEAN) /\ Len(io) = 1
    BY <1>0, <1>4 DEF Level
  <2> HIDE DEF io
  <2>2. SubSeq(io, 1, 1) = io
    BY <2>1
  <2> QED
    BY <1>2, <1>4, <2>2 DEF io
<1>5. Level(c) > 1 \/ Level(c) = 1
  <2>1. \A n \in Nat : n >= 1 => n > 1 \/ n = 1
    OBVIOUS
  <2> QED
    BY <1>0, <2>1, Zenon
<1> QED
  BY <1>3, <1>4, <1>5

(* The end of an encoding: where nothing fails, of a whole text.             *)
LEMMA EndEncodeFacts ==
    ASSUME NEW c \in Encoders
    PROVE  LET d == EndEncode(c)
           IN  /\ d \in Encoders
               /\ Level(c) = 0 => d = Call(c)
               /\ \A m : c.room = NoLimit /\ Level(c) = 1 /\ Stands(c, m) =>
                            d.isObject = <<>> /\ d.first = FALSE /\ Stands(d, m)
<1>0. c.isObject \in Seq(BOOLEAN) /\ Level(c) \in Nat /\ Level(c) = Len(c.isObject)
  BY EncoderFields
<1> DEFINE close[n \in 0 .. Level(c)] ==
              IF n = 0 THEN Call(c)
              ELSE IF OK(close[n - 1]) THEN EndContainer(close[n - 1]) ELSE close[n - 1]
           l == Level(c)
           d == EndEncode(c)
<1>1. close[0] = Call(c) /\ \A i \in 1 .. l : close[i] = EndOne(close[i - 1])
  BY <1>0, EndSteps
<1>2. d = close[l]
  BY DEF EndEncode
<1> HIDE DEF close, d
<1>c. Call(c) \in Encoders /\ Call(c).isObject = c.isObject /\ (c.room = NoLimit => Call(c).room = NoLimit)
      /\ OK(Call(c)) /\ Level(Call(c)) = l /\ Call(c).first = c.first /\ State(Call(c)) = State(c)
      /\ (InObject(Call(c)) <=> InObject(c))
  BY CallFacts, StaysLevel
<1>3. d \in Encoders
  <2> DEFINE Upto == {n \in Nat : n <= l => close[n] \in Encoders}
  <2>1. 0 \in Upto
    BY <1>1, <1>c
  <2>2. ASSUME NEW n \in Upto PROVE n + 1 \in Upto
    <3>1. n \in Nat /\ (n <= l => close[n] \in Encoders)
      OBVIOUS
    <3>2. ASSUME n + 1 <= l PROVE close[n + 1] \in Encoders
      <4>1. n <= l /\ n + 1 \in 1 .. l /\ n + 1 - 1 = n
        BY <1>0, <3>1, <3>2
      <4>2. close[n + 1] = EndOne(close[n])
        BY <1>1, <4>1
      <4>3. EndOne(close[n]) \in Encoders
        BY <3>1, <4>1, EndContainerFacts DEF EndOne
      <4> QED
        BY <4>2, <4>3
    <3> QED
      BY <3>1, <3>2
  <2>3. Upto \in SUBSET Nat /\ (l \in Upto => close[l] \in Encoders)
    BY <1>0
  <2> HIDE DEF Upto, l
  <2>4. Upto = Nat
    BY <2>1, <2>2, <2>3, SetInduction
  <2> QED
    BY <1>0, <1>2, <2>3, <2>4 DEF l
<1>4. l = 0 => d = Call(c)
  BY <1>1, <1>2
<1>5. ASSUME NEW m, c.room = NoLimit, l = 1, Stands(c, m)
      PROVE  d.isObject = <<>> /\ d.first = FALSE /\ Stands(d, m)
  <2> DEFINE x == Call(c)
  <2>1. d = EndContainer(x)
    BY <1>1, <1>2, <1>5, <1>c DEF EndOne
  <2>2. \E a \in Places(x) : State(x) = Point(a, Braces(x.isObject), m)
    BY <1>5, <1>c DEF Stands, Places
  <2>x. x \in Encoders /\ x.isObject = c.isObject /\ x.room = NoLimit /\ Level(x) > 0
    BY <1>5, <1>c
  <2> HIDE DEF x
  <2>3. OK(d) /\ d.isObject = Front(x.isObject) /\ d.first = FALSE /\ Stands(d, m)
    BY <2>x, <2>1, <2>2, EndContainerFacts
  <2>4. d.isObject = <<>>
    <3>1. c.isObject # <<>> /\ Len(c.isObject) = 1
      BY <1>0, <1>5 DEF Level
    <3>2. Len(Front(c.isObject)) = Len(c.isObject) - 1 /\ Front(c.isObject) \in Seq(BOOLEAN)
      BY <1>0, <3>1, BracesFacts
    <3>3. Front(c.isObject) = <<>>
      BY <3>1, <3>2
    <3> QED
      BY <2>x, <2>3, <3>3
  <2> QED
    BY <2>3, <2>4
<1> QED
  BY <1>3, <1>4, <1>5 DEF d, l

-----------------------------------------------------------------------------
(* What the decoder reads.                                                  *)

Bytes == Range(text) \cup {"NUL"}

(* The text is made of the characters that the assumptions admit.            *)
LEMMA TextFacts ==
    ASSUME TypeOK
    PROVE  /\ text \in Seq(Range(text)) /\ text \in Seq(Chars) /\ Range(text) \subseteq Chars
           /\ "NUL" \notin Range(text) /\ Range(text) \cap Results = {}
           /\ use = "file" => "control" \notin Range(text) /\ "NULL" \notin Range(text)
           /\ use = "file" => "E" \notin Range(text)
<1>1. use \in Uses /\ text \in Texts[use]
  BY DEF TypeOK
<1>2. text \in Seq(Range(text))
  BY <1>1, DecoderAssumption
<1>3. Range(text) \subseteq Chars
  BY <1>1 DEF Chars
<1>4. "NUL" \notin Range(text) /\ Range(text) \cap Results = {}
  BY <1>1, TextAssumption
<1>5. /\ use = "file" => "control" \notin Range(text) /\ "NULL" \notin Range(text)
      /\ use = "file" => "E" \notin Range(text)
  BY <1>1, TextAssumption
<1>6. text \in Seq(Chars)
  BY <1>2, <1>3
<1> QED
  BY <1>2, <1>3, <1>4, <1>5, <1>6

(* So are the strings decoded from it.                                       *)
LEMMA LettersFacts ==
    ASSUME TypeOK
    PROVE  /\ Letters \subseteq Chars /\ "NUL" \notin Letters
           /\ \A ch \in Letters : ch \in Results => ch \in {"INCOMPLETE", "INVALID_CHARACTER"}
           /\ use = "file" => "control" \notin Letters /\ "NULL" \notin Letters
<1>1. Range(Simple) = {Quote, Backslash, "newline", "/"}
  <2>1. DOMAIN Simple = {Quote, Backslash, "n", "/"}
    BY DEF Simple
  <2>2. \A ch \in {Quote, Backslash, "n", "/"} : Simple[ch] = IF ch = "n" THEN "newline" ELSE ch
    BY DEF Simple
  <2>3. Quote # "n" /\ Backslash # "n"
    BY DEF Quote, Backslash
  <2> QED
    BY <2>1, <2>2, <2>3 DEF Range
<1>2. {Quote, Backslash, "newline", "/", "pair", "INCOMPLETE", "INVALID_CHARACTER"} \subseteq Literals
  BY DEF Literals
<1>3. Literals \subseteq Chars
  BY DEF Chars
<1>4. \A ch \in {Quote, Backslash, "newline", "/", "pair"} : ch \notin Results
       /\ ch \notin {"NUL", "control", "NULL"}
  BY DEF Results, Quote, Backslash
<1>5. Letters = Range(text) \cup {Quote, Backslash, "newline", "/"} \cup {"pair", "INCOMPLETE", "INVALID_CHARACTER"}
  BY <1>1 DEF Letters
<1> QED
  BY <1>2, <1>3, <1>4, <1>5, TextFacts

(* The window holds bytes of the text, or NULs.                              *)
LEMMA WindowTyped ==
    ASSUME TypeOK, WindowFits
    PROVE  /\ window \in Seq(Bytes) /\ window \in Seq(Chars) /\ End \in Nat /\ End = Len(window)
           /\ ptr \in 1 .. End + 1 /\ \A i \in 1 .. End : window[i] \in Bytes
<1>1. window \in Seq(Bytes)
  BY DEF WindowFits, Bytes
<1>2. Bytes \subseteq Chars
  BY TextFacts DEF Bytes, Chars, Literals
<1>3. window \in Seq(Chars)
  BY <1>1, <1>2
<1>4. ptr \in 1 .. End + 1
  BY DEF TypeOK
<1> QED
  BY <1>1, <1>3, <1>4 DEF End

(* Skipping space ends at a byte of the window or behind it.                 *)
LEMMA SkipSpaceFacts ==
    ASSUME TypeOK, WindowFits, NEW p \in 1 .. End + 1
    PROVE  SkipSpace(p) \in p .. End + 1
<1>0. End \in Nat
  BY WindowTyped
<1> DEFINE solid == {i \in p .. End : window[i] # "space"}
           first == CHOOSE i \in solid : \A j \in solid : i <= j
<1>1. SkipSpace(p) = IF solid = {} THEN End + 1 ELSE first
  BY DEF SkipSpace
<1>2. solid \in SUBSET Nat /\ solid \subseteq p .. End
  BY <1>0
<1> HIDE DEF solid
<1>3. solid # {} => first \in solid
  BY <1>2, LeastExists
<1> HIDE DEF first
<1>4. CASE solid = {}
  BY <1>0, <1>1, <1>4
<1>5. CASE solid # {}
  <2>1. first \in p .. End
    BY <1>2, <1>3, <1>5
  <2>2. SkipSpace(p) = first
    BY <1>1, <1>5
  <2> QED
    BY <1>0, <2>1, <2>2
<1> QED
  BY <1>4, <1>5

-----------------------------------------------------------------------------
(* Unescaping.                                                               *)
Outcome == Seq(Letters)

(* A unit of a string stands for a letter and has a positive length or is an *)
(* error.                                                                    *)
LEMMA UnitFacts ==
    ASSUME NEW raw \in Seq(Range(text)), NEW i \in 1 .. Len(raw)
    PROVE  Unit(raw, i).letter \in Letters /\ Unit(raw, i).length \in {0, 1, 2, 3, 6}
<1>1. \A j \in 1 .. Len(raw) : raw[j] \in Letters
  BY DEF Letters
<1>2. \A e \in DOMAIN Simple : Simple[e] \in Letters
  BY DEF Letters, Range
<1>3. {"pair", "INCOMPLETE", "INVALID_CHARACTER"} \subseteq Letters
  BY DEF Letters
<1>4. i + 2 <= Len(raw) => i + 2 \in 1 .. Len(raw)
  OBVIOUS
<1> HIDE DEF Letters
<1> QED
  BY <1>1, <1>2, <1>3, <1>4 DEF Unit

Then(ch, t) == <<ch>> \o t

UnescapeAt(f, raw, i) ==
    IF i > Len(raw) THEN <<>>
    ELSE IF Unit(raw, i).length = 0 THEN <<Unit(raw, i).letter>>
    ELSE Then(Unit(raw, i).letter, f[i + Unit(raw, i).length])

(* The string from a character on, given those from the characters behind    *)
(* it.                                                                       *)
LEMMA UnescapeAtTyped ==
    ASSUME NEW raw \in Seq(Range(text)), NEW i \in 1 .. Len(raw) + 6, NEW f,
           \A j \in 1 .. Len(raw) + 6 : j > i => f[j] \in Outcome
    PROVE  UnescapeAt(f, raw, i) \in Outcome
<1>0. Len(raw) \in Nat
  OBVIOUS
<1>1. CASE i > Len(raw)
  BY <1>1 DEF UnescapeAt, Outcome
<1>2. CASE i <= Len(raw)
  <2> DEFINE ch == Unit(raw, i).letter
             k == Unit(raw, i).length
  <2>1. ch \in Letters /\ k \in {0, 1, 2, 3, 6}
    <3>1. i \in 1 .. Len(raw)
      BY <1>2
    <3> QED
      BY <3>1, UnitFacts
  <2>2. UnescapeAt(f, raw, i) = IF k = 0 THEN <<ch>> ELSE Then(ch, f[i + k])
    BY <1>0, <1>2 DEF UnescapeAt
  <2> HIDE DEF ch, k
  <2>3. <<ch>> \in Outcome
    BY <2>1 DEF Outcome
  <2>4. k # 0 => f[i + k] \in Outcome
    <3>1. k # 0 => i + k \in 1 .. Len(raw) + 6 /\ i + k > i
      BY <1>0, <1>2, <2>1
    <3> QED
      BY <3>1
  <2>5. ASSUME NEW t \in Outcome PROVE Then(ch, t) \in Outcome
    BY <2>3 DEF Then, Outcome
  <2> QED
    BY <2>2, <2>3, <2>4, <2>5
<1> QED
  BY <1>0, <1>1, <1>2

(* It depends on nothing before them.                                        *)
LEMMA UnescapeAtAgrees ==
    ASSUME NEW raw \in Seq(Range(text)), NEW i \in 1 .. Len(raw) + 6, NEW f, NEW g,
           \A j \in 1 .. Len(raw) + 6 : j > i => f[j] = g[j]
    PROVE  UnescapeAt(f, raw, i) = UnescapeAt(g, raw, i)
<1>0. Len(raw) \in Nat
  OBVIOUS
<1>1. CASE i > Len(raw)
  BY <1>1 DEF UnescapeAt
<1>2. CASE i <= Len(raw)
  <2> DEFINE k == Unit(raw, i).length
  <2>1. k \in {0, 1, 2, 3, 6}
    <3>1. i \in 1 .. Len(raw)
      BY <1>2
    <3> QED
      BY <3>1, UnitFacts
  <2>2. k # 0 => f[i + k] = g[i + k]
    <3> HIDE DEF k
    <3>1. k # 0 => i + k \in 1 .. Len(raw) + 6 /\ i + k > i
      BY <1>0, <1>2, <2>1
    <3> QED
      BY <3>1
  <2> QED
    BY <2>2 DEF UnescapeAt
<1> QED
  BY <1>0, <1>1, <1>2

(* The recursion has a solution.                                             *)
LEMMA UnescapeExists ==
    ASSUME NEW raw \in Seq(Range(text))
    PROVE  \E f : f = [i \in 1 .. Len(raw) + 6 |-> UnescapeAt(f, raw, i)]
<1> DEFINE n == Len(raw) + 6
           Good(f, k) == \A i \in 1 .. n : i > n - k => f[i] = UnescapeAt(f, raw, i)
           Upto == {k \in Nat : k <= n => \E f \in [1 .. n -> Outcome] : Good(f, k)}
<1>0. n \in Nat /\ n = Len(raw) + 6
  OBVIOUS
<1> HIDE DEF n
<1>1. 0 \in Upto
  <2>1. <<>> \in Outcome
    BY DEF Outcome
  <2>2. [i \in 1 .. n |-> <<>>] \in [1 .. n -> Outcome]
    BY <2>1
  <2>3. \A i \in 1 .. n : ~(i > n - 0)
    BY <1>0
  <2> QED
    BY <2>2, <2>3
<1>2. ASSUME NEW k \in Upto PROVE k + 1 \in Upto
  <2>1. k \in Nat /\ (k <= n => \E f \in [1 .. n -> Outcome] : Good(f, k))
    OBVIOUS
  <2>2. ASSUME k + 1 <= n PROVE \E f \in [1 .. n -> Outcome] : Good(f, k + 1)
    <3>1. PICK f \in [1 .. n -> Outcome] : Good(f, k)
      BY <1>0, <2>1, <2>2
    <3> DEFINE x == n - k
               v == UnescapeAt(f, raw, x)
               g == [f EXCEPT ![x] = v]
    <3>2. x \in 1 .. n /\ x = n - k
      BY <1>0, <2>1, <2>2
    <3> HIDE DEF x
    <3>3. v \in Outcome
      <4>1. \A j \in 1 .. n : f[j] \in Outcome
        OBVIOUS
      <4> QED
        BY <1>0, <3>2, <4>1, UnescapeAtTyped
    <3> HIDE DEF v
    <3>4. g \in [1 .. n -> Outcome] /\ g[x] = v /\ \A i \in 1 .. n : i # x => g[i] = f[i]
      BY <3>2, <3>3
    <3> HIDE DEF g
    <3>5. ASSUME NEW i \in 1 .. n, i >= x PROVE UnescapeAt(g, raw, i) = UnescapeAt(f, raw, i)
      <4>1. \A j \in 1 .. n : j > i => f[j] = g[j]
        BY <1>0, <3>2, <3>4, <3>5
      <4> QED
        <5>1. i \in 1 .. Len(raw) + 6 /\ \A j \in 1 .. Len(raw) + 6 : j > i => f[j] = g[j]
          BY <1>0, <4>1
        <5>2. UnescapeAt(f, raw, i) = UnescapeAt(g, raw, i)
          BY <5>1, UnescapeAtAgrees, Zenon
        <5> QED
          BY <5>2
    <3>6. Good(g, k + 1)
      <4> SUFFICES ASSUME NEW i \in 1 .. n, i > n - (k + 1) PROVE g[i] = UnescapeAt(g, raw, i)
        OBVIOUS
      <4>1. i >= x
        BY <1>0, <2>1, <3>2
      <4>2. CASE i = x
        BY <3>4, <3>5, <4>1, <4>2 DEF v
      <4>3. CASE i # x
        <5>1. i > n - k
          BY <1>0, <2>1, <3>2, <4>1, <4>3
        <5>2. f[i] = UnescapeAt(f, raw, i)
          BY <3>1, <5>1
        <5> QED
          BY <3>4, <3>5, <4>1, <4>3, <5>2
      <4> QED
        BY <4>2, <4>3
    <3> QED
      BY <3>4, <3>6
  <2> QED
    BY <2>1, <2>2
<1>3. Upto \in SUBSET Nat /\ (n \in Upto => \E f \in [1 .. n -> Outcome] : Good(f, n))
  BY <1>0
<1> HIDE DEF Upto
<1>4. Upto = Nat
  BY <1>1, <1>2, <1>3, SetInduction
<1>5. PICK f \in [1 .. n -> Outcome] : Good(f, n)
  BY <1>0, <1>3, <1>4
<1>6. \A i \in 1 .. n : f[i] = UnescapeAt(f, raw, i)
  <2>1. \A i \in 1 .. n : i > n - n
    BY <1>0
  <2> QED
    BY <1>5, <2>1
<1>7. f = [i \in 1 .. n |-> UnescapeAt(f, raw, i)]
  <2> DEFINE h == [i \in 1 .. n |-> UnescapeAt(f, raw, i)]
  <2>1. DOMAIN h = 1 .. n /\ h = [i \in DOMAIN h |-> h[i]] /\ \A i \in 1 .. n : h[i] = UnescapeAt(f, raw, i)
    OBVIOUS
  <2> HIDE DEF h
  <2>2. f = h
    BY <1>6, <2>1
  <2> QED
    BY <2>2 DEF h
<1> QED
  BY <1>0, <1>7

(* What unescaping yields is a string of letters.                            *)
LEMMA UnescapeFacts ==
    ASSUME NEW raw \in Seq(Range(text))
    PROVE  Unescape(raw) \in Seq(Letters)
<1> DEFINE n == Len(raw) + 6
           Is(f) == f = [i \in 1 .. n |-> UnescapeAt(f, raw, i)]
           e == CHOOSE f : Is(f)
<1>0. n \in Nat /\ n = Len(raw) + 6 /\ 1 \in 1 .. n
  OBVIOUS
<1>1. Unescape(raw) = e[1]
  BY DEF Unescape, UnescapeAt, Then
<1>2. Is(e)
  <2>1. \E f : Is(f)
    BY UnescapeExists
  <2> HIDE DEF Is
  <2> QED
    BY <2>1
<1> HIDE DEF e, n
<1>3. \A i \in 1 .. n : e[i] = UnescapeAt(e, raw, i)
  BY <1>2
<1> HIDE DEF Is
<1> DEFINE Upto == {k \in Nat : k <= n => \A i \in 1 .. n : i > n - k => e[i] \in Outcome}
<1>4. 0 \in Upto
  BY <1>0
<1>5. ASSUME NEW k \in Upto PROVE k + 1 \in Upto
  <2>1. k \in Nat /\ (k <= n => \A i \in 1 .. n : i > n - k => e[i] \in Outcome)
    OBVIOUS
  <2>2. ASSUME k + 1 <= n, NEW i \in 1 .. n, i > n - (k + 1) PROVE e[i] \in Outcome
    <3>1. \A j \in 1 .. n : j > i => e[j] \in Outcome
      BY <1>0, <2>1, <2>2
    <3>2. UnescapeAt(e, raw, i) \in Outcome
      BY <1>0, <3>1, UnescapeAtTyped
    <3> QED
      BY <1>3, <3>2
  <2> QED
    BY <2>1, <2>2
<1>6. Upto \in SUBSET Nat /\ (n \in Upto => \A i \in 1 .. n : i > n - n => e[i] \in Outcome)
  BY <1>0
<1> HIDE DEF Upto
<1>7. Upto = Nat
  BY <1>4, <1>5, <1>6, SetInduction
<1>8. 1 > n - n
  BY <1>0
<1> QED
  BY <1>0, <1>1, <1>6, <1>7, <1>8 DEF Outcome

-----------------------------------------------------------------------------
(* Strings and numbers.                                                     *)

(* Behind the first NUL of the window there is nothing else.                 *)
LEMMA NothingBehindNUL ==
    ASSUME TypeOK, WindowFits, NEW q \in 1 .. End, window[q] # "NUL"
    PROVE  \A i \in 1 .. q : window[i] \in Range(text)
<1>1. \A i \in 1 .. End : \A j \in i .. End : window[i] = "NUL" => window[j] = "NUL"
  BY DEF WindowFits
<1>2. End \in Nat /\ \A i \in 1 .. End : window[i] \in Bytes
  BY WindowTyped
<1>3. ASSUME NEW i \in 1 .. q PROVE window[i] \in Range(text)
  <2>1. i \in 1 .. End /\ q \in i .. End
    BY <1>2
  <2>2. window[i] # "NUL"
    BY <1>1, <2>1
  <2> QED
    BY <1>2, <2>1, <2>2 DEF Bytes
<1> QED
  BY <1>3

(* A part of the window in front of a character of the text.                 *)
LEMMA PartOfText ==
    ASSUME TypeOK, WindowFits, NEW p \in 1 .. End, NEW q \in p .. End, window[q] # "NUL"
    PROVE  SubSeq(window, p, q - 1) \in Seq(Range(text)) /\ Len(SubSeq(window, p, q - 1)) = q - p
           /\ \A i \in 1 .. q - p : SubSeq(window, p, q - 1)[i] = window[p + i - 1]
<1>1. window \in Seq(Bytes) /\ End \in Nat /\ End = Len(window)
  BY WindowTyped
<1>2. \A i \in 1 .. q : window[i] \in Range(text)
  BY NothingBehindNUL
<1> DEFINE l == q - p
           part == [i \in 1 .. l |-> window[p + i - 1]]
<1>3. SubSeq(window, p, q - 1) = part
  BY <1>1
<1>4. l \in Nat /\ l = q - p
  BY <1>1
<1>5. \A i \in 1 .. l : window[p + i - 1] \in Range(text)
  BY <1>1, <1>2
<1> HIDE DEF l
<1>6. part \in Seq(Range(text)) /\ Len(part) = l /\ \A i \in 1 .. l : part[i] = window[p + i - 1]
  BY <1>4, <1>5
<1> HIDE DEF part
<1> QED
  BY <1>3, <1>4, <1>6

(* A failure is a result other than OK.                                      *)
LEMMA FailedFacts ==
    ASSUME NEW r \in Results, r # "OK"
    PROVE  Failed(r).result \in Results /\ Failed(r).result # "OK"
  BY DEF Failed

(* A string that is decoded ends inside of the window.                       *)
LEMMA DecodeStringFacts ==
    ASSUME TypeOK, WindowFits, NEW p \in 1 .. End, NEW size \in Nat
    PROVE  /\ DecodeString(p, size).result \in Results
           /\ DecodeString(p, size).result = "OK" =>
                /\ DecodeString(p, size).string \in Seq(Letters)
                /\ DecodeString(p, size).next \in p + 1 .. End + 1
<1> DEFINE escaped[i \in p .. End] == i > p + 1 /\ window[i - 1] = Backslash /\ ~escaped[i - 1]
           quotes == {i \in p + 1 .. End : window[i] = Quote /\ ~escaped[i]}
           close == CHOOSE i \in quotes : \A j \in quotes : i <= j
           raw == SubSeq(window, p + 1, close - 1)
           string == Unescape(raw)
           d == DecodeString(p, size)
<1>1. d = IF window[p] # Quote THEN Failed("INVALID_CHARACTER")
          ELSE IF quotes = {} THEN Failed("INCOMPLETE")
          ELSE IF close - p - 1 >= size THEN Failed("DATA_TOO_LONG")
          ELSE IF string # <<>> /\ Last(string) \in Results THEN Failed(Last(string))
          ELSE [result |-> "OK", string |-> string, next |-> close + 1]
  BY DEF DecodeString
<1>0. End \in Nat
  BY WindowTyped
<1>2. quotes \in SUBSET Nat /\ \A i \in quotes : i \in p + 1 .. End /\ window[i] = Quote
  <2> HIDE DEF escaped
  <2> QED
    BY <1>0
<1> HIDE DEF quotes, d
<1>3. quotes # {} => close \in quotes
  BY <1>2, LeastExists
<1> HIDE DEF close
<1>4. ASSUME quotes # {}
      PROVE  string \in Seq(Letters) /\ close + 1 \in p + 1 .. End + 1
  <2>1. close \in p + 1 .. End /\ window[close] = Quote /\ Quote # "NUL"
    BY <1>2, <1>3, <1>4 DEF Quote
  <2>2. p + 1 \in 1 .. End /\ close \in (p + 1) .. End
    BY <1>0, <2>1
  <2>3. raw \in Seq(Range(text))
    BY <2>1, <2>2, PartOfText
  <2> HIDE DEF raw
  <2> QED
    BY <1>0, <2>1, <2>3, UnescapeFacts
<1>5. ASSUME string \in Seq(Letters), string # <<>>, Last(string) \in Results
      PROVE  Last(string) # "OK"
  <2> HIDE DEF string
  <2>1. Last(string) = string[Len(string)]
    BY DEF Last
  <2>2. string[Len(string)] \in Letters
    BY <1>5
  <2>3. Last(string) \in {"INCOMPLETE", "INVALID_CHARACTER"}
    BY <1>5, <2>1, <2>2, LettersFacts
  <2> QED
    BY <2>3
<1> HIDE DEF string
<1>6. {"INVALID_CHARACTER", "INCOMPLETE", "DATA_TOO_LONG"} \subseteq Results
  BY DEF Results
<1>7. CASE window[p] # Quote
  <2>1. d = Failed("INVALID_CHARACTER")
    BY <1>1, <1>7
  <2> QED
    BY <1>6, <2>1, FailedFacts DEF d
<1>8. CASE window[p] = Quote /\ quotes = {}
  <2>1. d = Failed("INCOMPLETE")
    BY <1>1, <1>8
  <2> QED
    BY <1>6, <2>1, FailedFacts DEF d
<1>9. CASE window[p] = Quote /\ quotes # {} /\ close - p - 1 >= size
  <2>1. d = Failed("DATA_TOO_LONG")
    BY <1>1, <1>9
  <2> QED
    BY <1>6, <2>1, FailedFacts DEF d
<1>10. CASE /\ window[p] = Quote /\ quotes # {} /\ ~(close - p - 1 >= size)
            /\ string # <<>> /\ Last(string) \in Results
  <2>1. d = Failed(Last(string))
    BY <1>1, <1>10
  <2>2. Last(string) # "OK"
    BY <1>4, <1>5, <1>10
  <2> QED
    BY <1>10, <2>1, <2>2, FailedFacts DEF d
<1>11. CASE /\ window[p] = Quote /\ quotes # {} /\ ~(close - p - 1 >= size)
            /\ ~(string # <<>> /\ Last(string) \in Results)
  <2>1. d = [result |-> "OK", string |-> string, next |-> close + 1]
    BY <1>1, <1>11
  <2>2. "OK" \in Results
    BY DEF Results
  <2> QED
    BY <1>4, <1>11, <2>1, <2>2 DEF d
<1> QED
  BY <1>7, <1>8, <1>9, <1>10, <1>11

(* A number that is decoded has letters, and is a scalar unless the text has *)
(* an infinite one; something follows it.                                    *)
LEMMA DecodeNumberFacts ==
    ASSUME TypeOK, WindowFits, NEW p \in 1 .. End, NEW noticed \in BOOLEAN
    PROVE  LET number == DecodeNumber(p, noticed)
           IN  /\ number.result \in Results
               /\ number.result = "OK" =>
                    /\ number.string \in Seq(Chars)
                    /\ "E" \notin Range(text) => Scalar(number.string)
                    /\ number.next \in p + 1 .. End + 1
<1> DEFINE digits == IF window[p] = "-" THEN p + 1 ELSE p
           others == {i \in digits .. End : window[i] \notin FPChars}
           stop == CHOOSE i \in others : \A j \in others : i <= j
           number == SubSeq(window, digits, stop - 1)
           isInteger == Range(number) \subseteq (IF noticed THEN {"1"} ELSE {"1", "9"})
           other == IF isInteger THEN "1" ELSE "~"
           rounded == [i \in DOMAIN number |-> IF number[i] = "9" THEN other ELSE number[i]]
           Printed == IF ~isInteger /\ "E" \in Range(number) THEN <<"inf">> ELSE rounded
           sign == SubSeq(window, p, digits - 1)
           d == DecodeNumber(p, noticed)
<1>1. d = IF digits > End \/ window[digits] \notin {"1", "9", "~"} THEN Failed("INVALID_CHARACTER")
          ELSE IF others = {} THEN Failed("INCOMPLETE")
          ELSE IF stop - digits >= StringSize /\ ~isInteger THEN Failed("DATA_TOO_LONG")
          ELSE [result |-> "OK", next |-> stop, string |-> sign \o Printed]
  BY DEF DecodeNumber
<1>0. End \in Nat /\ window \in Seq(Bytes) /\ End = Len(window)
  BY WindowTyped
<1>2. digits \in {p, p + 1} /\ digits \in Nat /\ (digits = p + 1 => window[p] = "-")
  BY <1>0
<1>m. {"1", "9", "~", "-", "E"} \subseteq FPChars /\ "inf" \in Chars
  BY DEF FPChars, Chars, Literals
<1>c. FPChars \subseteq Chars \ Structure
  BY DEF FPChars, Chars, Literals, Structure
<1>s. sign \in Seq(Chars) /\ \A i \in DOMAIN sign : sign[i] \notin Structure
  <2>1. CASE digits = p
    <3>1. sign = <<>>
      BY <1>0, <2>1
    <3> HIDE DEF sign
    <3>2. sign \in Seq(Chars) /\ DOMAIN sign = {}
      BY <3>1
    <3> QED
      BY <3>2
  <2>2. CASE digits = p + 1
    <3>1. sign = [i \in 1 .. 1 |-> window[p + i - 1]] /\ window[p] = "-"
      BY <1>0, <1>2, <2>2
    <3>2. "-" \in Chars /\ "-" \notin Structure
      BY <1>c, <1>m
    <3> HIDE DEF sign
    <3>3. DOMAIN sign = 1 .. 1 /\ \A i \in 1 .. 1 : sign[i] = "-"
      BY <3>1
    <3>4. sign \in [1 .. 1 -> Chars]
      BY <3>1, <3>2, <3>3
    <3>5. sign \in Seq(Chars)
      <4>1. 1 \in Nat
        OBVIOUS
      <4> QED
        BY <3>4, <4>1, SeqDef
    <3> QED
      BY <3>2, <3>3, <3>5
  <2> QED
    BY <1>2, <2>1, <2>2
<1> HIDE DEF digits, d, sign
<1>3. others \in SUBSET Nat /\ \A i \in others : i \in digits .. End /\ window[i] \notin FPChars
  BY <1>0, <1>2
<1>4. ASSUME others # {}
      PROVE  stop \in others /\ \A j \in others : stop <= j
  <2> HIDE DEF others
  <2> QED
    BY <1>3, <1>4, LeastExists
<1> HIDE DEF stop
<1>5. ASSUME others # {}, ~(digits > End), window[digits] \in {"1", "9", "~"}
      PROVE  /\ sign \o Printed \in Seq(Chars) /\ stop \in p + 1 .. End + 1
             /\ "E" \notin Range(text) => Scalar(sign \o Printed)
  <2>1. stop \in digits .. End /\ window[stop] \notin FPChars
    BY <1>3, <1>4, <1>5
  <2>2. window[digits] \in FPChars /\ stop # digits
    BY <1>m, <1>5, <2>1
  <2>3. stop \in p + 1 .. End /\ stop - digits \in Nat /\ stop - digits >= 1
    BY <1>0, <1>2, <2>1, <2>2
  <2>4. ASSUME NEW i \in digits .. stop - 1 PROVE window[i] \in FPChars
    <3>1. i \in digits .. End /\ i \notin others
      BY <1>0, <1>2, <1>4, <1>5, <2>1, <2>4
    <3> QED
      BY <3>1
  <2> DEFINE l == stop - digits
  <2>5. number = [i \in 1 .. l |-> window[digits + i - 1]]
    BY <1>0, <1>2, <2>1, <2>3
  <2>6. l \in Nat /\ l >= 1 /\ l = stop - digits
    BY <2>3
  <2>7. \A i \in 1 .. l : digits + i - 1 \in digits .. stop - 1
    BY <1>0, <1>2, <2>1, <2>3
  <2> HIDE DEF number, l
  <2>8. DOMAIN number = 1 .. l /\ \A i \in 1 .. l : number[i] \in FPChars /\ number[i] = window[digits + i - 1]
    BY <2>4, <2>5, <2>7
  <2>9. DOMAIN rounded = 1 .. l /\ \A i \in 1 .. l : rounded[i] \in FPChars
    BY <1>m, <2>8
  <2>10. rounded \in Seq(Chars) /\ Len(rounded) = l
    <3>1. rounded \in [1 .. l -> Chars]
      BY <1>c, <2>8, <2>9
    <3> HIDE DEF rounded
    <3> QED
      BY <2>6, <3>1
  <2>11. Printed \in Seq(Chars)
    <3>1. <<"inf">> \in Seq(Chars)
      BY <1>m
    <3> HIDE DEF rounded
    <3> QED
      BY <2>10, <3>1
  <2>12. ASSUME "E" \notin Range(text) PROVE Printed = rounded
    <3>1. ASSUME NEW i \in 1 .. l PROVE number[i] # "E"
      <4>1. number[i] = window[digits + i - 1] /\ digits + i - 1 \in 1 .. End
        BY <1>0, <1>2, <2>1, <2>7, <2>8
      <4>2. window[digits + i - 1] \in Bytes
        BY <4>1, WindowTyped
      <4> QED
        BY <2>12, <4>1, <4>2 DEF Bytes
    <3>2. "E" \notin Range(number)
      BY <2>8, <3>1 DEF Range
    <3> HIDE DEF rounded
    <3> QED
      BY <3>2
  <2> HIDE DEF Printed
  <2>13. sign \o Printed \in Seq(Chars)
    BY <1>s, <2>11
  <2>14. ASSUME "E" \notin Range(text) PROVE Scalar(sign \o Printed)
    <3>1. Printed = rounded
      BY <2>12, <2>14
    <3> DEFINE w == sign \o rounded
    <3> HIDE DEF rounded
    <3>2. Len(sign) \in Nat /\ DOMAIN sign = 1 .. Len(sign)
      BY <1>s
    <3>3. Len(w) = Len(sign) + l /\ DOMAIN w = 1 .. Len(w)
          /\ \A i \in 1 .. Len(w) : w[i] = IF i <= Len(sign) THEN sign[i] ELSE rounded[i - Len(sign)]
      BY <1>s, <2>6, <2>10
    <3>4. ASSUME NEW i \in 1 .. Len(w) PROVE w[i] \notin Structure
      <4>1. CASE i <= Len(sign)
        BY <1>s, <3>2, <3>3, <4>1
      <4>2. CASE ~(i <= Len(sign))
        <5>1. i - Len(sign) \in 1 .. l
          BY <2>6, <3>2, <3>3, <4>2
        <5>2. w[i] = rounded[i - Len(sign)] /\ rounded[i - Len(sign)] \in FPChars
          BY <2>9, <3>3, <4>2, <5>1
        <5> QED
          BY <1>c, <5>2
      <4> QED
        BY <4>1, <4>2
    <3>5. w \in Seq(Chars) /\ w # <<>>
      <4>1. Len(w) >= 1 /\ w \in Seq(Chars)
        BY <1>s, <2>6, <2>10, <3>2, <3>3
      <4> HIDE DEF w
      <4> QED
        BY <4>1
    <3> HIDE DEF w
    <3>6. Scalar(w)
      BY <3>3, <3>4, <3>5 DEF Scalar
    <3> QED
      BY <3>1, <3>6 DEF w
  <2> QED
    BY <1>0, <2>3, <2>13, <2>14
<1> HIDE DEF others, Printed, rounded, number, isInteger
<1>6. {"INVALID_CHARACTER", "INCOMPLETE", "DATA_TOO_LONG", "OK"} \subseteq Results
  BY DEF Results
<1>7. CASE digits > End \/ window[digits] \notin {"1", "9", "~"}
  <2>1. d = Failed("INVALID_CHARACTER")
    BY <1>1, <1>7
  <2> QED
    BY <1>6, <2>1, FailedFacts DEF d
<1>8. CASE ~(digits > End \/ window[digits] \notin {"1", "9", "~"}) /\ others = {}
  <2>1. d = Failed("INCOMPLETE")
    BY <1>1, <1>8
  <2> QED
    BY <1>6, <2>1, FailedFacts DEF d
<1>9. CASE ~(digits > End \/ window[digits] \notin {"1", "9", "~"}) /\ others # {}
  <2>1. d = Failed("DATA_TOO_LONG") \/ d = [result |-> "OK", next |-> stop, string |-> sign \o Printed]
    BY <1>1, <1>9
  <2>2. /\ sign \o Printed \in Seq(Chars) /\ stop \in p + 1 .. End + 1
        /\ "E" \notin Range(text) => Scalar(sign \o Printed)
    BY <1>5, <1>9
  <2>3. CASE d = Failed("DATA_TOO_LONG")
    BY <1>6, <2>3, FailedFacts DEF d
  <2>4. CASE d = [result |-> "OK", next |-> stop, string |-> sign \o Printed]
    <3>1. d.result = "OK" /\ d.next = stop /\ d.string = sign \o Printed
      BY <2>4
    <3> QED
      BY <1>6, <2>2, <3>1 DEF d
  <2> QED
    BY <2>1, <2>3, <2>4
<1> QED
  BY <1>7, <1>8, <1>9

-----------------------------------------------------------------------------
(* Filling the buffer again.                                                *)

(* What Update keeps of the invariant.                                       *)
WindowKept(w, q, k, e) ==
    /\ w \in Seq(Bytes) /\ Len(w) = End /\ q \in 1 .. End + 1 /\ k \in 0 .. Len(text)
    /\ use # "file" => w = window
    /\ \A i \in 1 .. End : \A j \in i .. End : w[i] = "NUL" => w[j] = "NUL"
    /\ use = "file" /\ ~e => \A i \in 1 .. End : w[i] # "NUL"

(* The file gives at most what is asked for, and no more than it has.        *)
LEMMA ReadFileFacts ==
    ASSUME TypeOK, NEW n \in Nat
    PROVE  LET part == ReadFile(pos, n)
           IN  part \in Seq(Range(text)) /\ Len(part) \in 0 .. n /\ pos + Len(part) \in 0 .. Len(text)
<1>0. text \in Seq(Range(text)) /\ pos \in 0 .. Len(text)
  BY TextFacts DEF TypeOK
<1> DEFINE upto == IF pos + n > Len(text) THEN Len(text) ELSE pos + n
           part == SubSeq(text, pos + 1, upto)
<1>1. ReadFile(pos, n) = part
  BY DEF ReadFile
<1>2. upto \in pos .. Len(text) /\ upto - pos \in 0 .. n /\ upto \in Nat
  BY <1>0
<1> HIDE DEF upto
<1>3. part \in Seq(Range(text)) /\ Len(part) = upto - pos
  <2> DEFINE S == Range(text)
  <2> HIDE DEF S
  <2>1. text \in Seq(S)
    BY <1>0 DEF S
  <2>2. SubSeq(text, pos + 1, upto) \in Seq(S) /\ Len(SubSeq(text, pos + 1, upto)) = upto - pos
    <3>1. \A i \in pos + 1 .. upto : i \in 1 .. Len(text)
      BY <1>0, <1>2
    <3>2. pos + 1 <= upto + 1 /\ pos + 1 \in Nat
      BY <1>0, <1>2
    <3> QED
      BY <1>0, <1>2, <2>1, <3>1, <3>2, SubSeqProperties
  <2> QED
    BY <2>2 DEF S
<1> HIDE DEF part
<1> QED
  BY <1>0, <1>1, <1>2, <1>3

(* Two pieces of the window.                                                 *)
LEMMA JoinedBytes ==
    ASSUME NEW a \in Seq(Bytes), NEW b \in Seq(Bytes)
    PROVE  /\ (a \o b) \in Seq(Bytes) /\ Len(a \o b) = Len(a) + Len(b)
           /\ \A i \in 1 .. Len(a) : (a \o b)[i] = a[i]
           /\ \A i \in Len(a) + 1 .. Len(a) + Len(b) : (a \o b)[i] = b[i - Len(a)]
<1>1. (a \o b) \in Seq(Bytes) /\ Len(a \o b) = Len(a) + Len(b)
  OBVIOUS
<1>2. \A i \in 1 .. Len(a) : (a \o b)[i] = a[i]
  OBVIOUS
<1>3. \A i \in Len(a) + 1 .. Len(a) + Len(b) : (a \o b)[i] = b[i - Len(a)]
  OBVIOUS
<1> QED
  BY <1>1, <1>2, <1>3

(* Filling the buffer leaves a window of the same size, NULs at its end      *)

(* only.                                                                     *)
LEMMA UpdateFacts ==
    ASSUME TypeOK, WindowFits, NEW p \in 1 .. End + 1, Update(p), pc = "load" => p = End + 1
    PROVE  WindowKept(window', ptr', pos', eof')
<1>0. /\ window \in Seq(Bytes) /\ End \in Nat /\ End = Len(window) /\ \A i \in 1 .. End : window[i] \in Bytes
      /\ use = "file" => End = BufferSize
      /\ pos \in 0 .. Len(text) /\ BufferSize \in Nat \ {0, 1}
  BY WindowTyped, DecoderAssumption DEF TypeOK
<1>w. /\ use # "file" => window = text
      /\ \A i \in 1 .. End : \A j \in i .. End : window[i] = "NUL" => window[j] = "NUL"
      /\ use = "file" /\ ~eof /\ pc # "load" => \A i \in 1 .. End : window[i] # "NUL"
  BY DEF WindowFits
<1> DEFINE rest == SubSeq(window, p, BufferSize)
           read == ReadFile(pos, BufferSize - Len(rest))
           filled == rest \o read
           stale == SubSeq(window, Len(filled) + 1, BufferSize)
           fill == use = "file" /\ ~eof /\ Len(rest) < BufferSize \div 2
<1>u. IF fill THEN /\ window' = filled \o stale /\ ptr' = 1 /\ pos' = pos + Len(read) /\ eof' = (stale # <<>>)
              ELSE ptr' = p /\ window' = window /\ pos' = pos /\ eof' = eof
  BY DEF Update
<1>r. use = "file" => /\ rest \in Seq(Bytes) /\ Len(rest) = BufferSize + 1 - p
                      /\ \A i \in 1 .. Len(rest) : rest[i] = window[p + i - 1]
  <2> SUFFICES ASSUME use = "file"
               PROVE  /\ rest \in Seq(Bytes) /\ Len(rest) = BufferSize + 1 - p
                      /\ \A i \in 1 .. Len(rest) : rest[i] = window[p + i - 1]
    OBVIOUS
  <2>1. BufferSize = Len(window) /\ p \in 1 .. Len(window) + 1
    BY <1>0
  <2>2. rest \in Seq(Bytes) /\ Len(rest) = BufferSize + 1 - p
    BY <1>0, <2>1
  <2>3. \A i \in 1 .. BufferSize + 1 - p : rest[i] = window[p + i - 1]
    BY <1>0, <2>1
  <2> HIDE DEF rest
  <2> QED
    BY <2>2, <2>3
<1> HIDE DEF rest
<1>1. CASE ~fill
  <2>1. window' = window /\ ptr' = p /\ pos' = pos /\ (eof' = eof)
    BY <1>u, <1>1
  <2>2. ASSUME use = "file", ~eof PROVE pc # "load"
    <3>1. ASSUME pc = "load" PROVE FALSE
      <4>1. Len(rest) = 0
        BY <1>0, <1>r, <2>2, <3>1
      <4>2. 0 < BufferSize \div 2
        BY <1>0
      <4> QED
        BY <1>1, <2>2, <4>1, <4>2
    <3> QED
      BY <3>1
  <2>3. use = "file" /\ ~eof' => \A i \in 1 .. End : window[i] # "NUL"
    BY <1>w, <2>1, <2>2
  <2> HIDE DEF fill
  <2>4. window' \in Seq(Bytes) /\ Len(window') = End /\ ptr' \in 1 .. End + 1 /\ pos' \in 0 .. Len(text)
    BY <1>0, <2>1
  <2> QED
    BY <1>w, <2>1, <2>3, <2>4 DEF WindowKept
<1>2. CASE fill
  <2>0. use = "file" /\ ~eof /\ End = BufferSize
    BY <1>0, <1>2
  <2>u. window' = filled \o stale /\ ptr' = 1 /\ pos' = pos + Len(read) /\ (eof' = (stale # <<>>))
    BY <1>u, <1>2
  <2>1. rest \in Seq(Bytes) /\ Len(rest) \in 0 .. BufferSize
    BY <1>0, <1>r, <2>0
  <2>2. read \in Seq(Range(text)) /\ Len(read) \in 0 .. BufferSize - Len(rest) /\ pos + Len(read) \in 0 .. Len(text)
    <3>1. BufferSize - Len(rest) \in Nat
      BY <1>0, <2>1
    <3> QED
      BY <3>1, ReadFileFacts
  <2>3. \A i \in 1 .. Len(rest) : rest[i] \in Range(text)
    <3> SUFFICES ASSUME NEW i \in 1 .. Len(rest) PROVE rest[i] \in Range(text)
      OBVIOUS
    <3>1. p + i - 1 \in 1 .. End /\ p # End + 1
      BY <1>0, <1>r, <2>0
    <3>2. window[p + i - 1] # "NUL" /\ window[p + i - 1] \in Bytes
      BY <1>0, <1>w, <2>0, <3>1
    <3> QED
      BY <1>r, <2>0, <3>2 DEF Bytes
  <2> HIDE DEF read, fill
  <2>4. filled \in Seq(Range(text)) /\ Len(filled) = Len(rest) + Len(read) /\ Len(filled) \in 0 .. BufferSize
    <3> DEFINE S == Range(text)
    <3> HIDE DEF S
    <3>1. rest \in Seq(S)
      BY <2>1, <2>3 DEF S
    <3>2. read \in Seq(S)
      BY <2>2 DEF S
    <3>3. filled \in Seq(S) /\ Len(filled) = Len(rest) + Len(read)
      BY <3>1, <3>2
    <3> HIDE DEF filled
    <3> QED
      BY <1>0, <2>1, <2>2, <3>3 DEF S
  <2> HIDE DEF filled
  <2> DEFINE f == Len(filled)
  <2>5. /\ stale \in Seq(Bytes) /\ Len(stale) = BufferSize - f
        /\ \A i \in 1 .. BufferSize - f : stale[i] = window[f + i]
    <3>1. f \in 0 .. Len(window) /\ BufferSize = Len(window)
      BY <1>0, <2>0, <2>4
    <3> HIDE DEF f
    <3>2. SubSeq(window, f + 1, BufferSize) \in Seq(Bytes) /\ Len(SubSeq(window, f + 1, BufferSize)) = BufferSize - f
      BY <1>0, <3>1
    <3>3. \A i \in 1 .. BufferSize - f : SubSeq(window, f + 1, BufferSize)[i] = window[f + i]
      BY <1>0, <3>1
    <3> QED
      BY <3>2, <3>3 DEF f
  <2> HIDE DEF stale
  <2>6. /\ window' \in Seq(Bytes) /\ Len(window') = BufferSize
        /\ \A i \in 1 .. f : window'[i] = filled[i]
        /\ \A i \in f + 1 .. BufferSize : window'[i] = window[i]
    <3>1. filled \in Seq(Bytes)
      BY <2>4 DEF Bytes
    <3>2. (filled \o stale) \in Seq(Bytes) /\ Len(filled \o stale) = f + Len(stale)
          /\ (\A i \in 1 .. f : (filled \o stale)[i] = filled[i])
          /\ \A i \in f + 1 .. f + Len(stale) : (filled \o stale)[i] = stale[i - f]
      <4>1. stale \in Seq(Bytes)
        BY <2>5
      <4> QED
        BY <3>1, <4>1, JoinedBytes
    <3>3. f + Len(stale) = BufferSize /\ f \in Nat
      BY <1>0, <2>4, <2>5
    <3>4. \A i \in f + 1 .. BufferSize : window'[i] = window[i]
      <4> SUFFICES ASSUME NEW i \in f + 1 .. BufferSize PROVE window'[i] = window[i]
        OBVIOUS
      <4>1. i - f \in 1 .. BufferSize - f /\ f + (i - f) = i
        BY <1>0, <3>3
      <4>2. stale[i - f] = window[f + (i - f)]
        BY <2>5, <4>1
      <4> QED
        BY <2>u, <3>2, <3>3, <4>1, <4>2
    <3> QED
      BY <2>u, <3>2, <3>3, <3>4
  <2>7. \A i \in 1 .. f : window'[i] # "NUL"
    <3> SUFFICES ASSUME NEW i \in 1 .. f PROVE window'[i] # "NUL"
      OBVIOUS
    <3>1. filled[i] \in Range(text)
      BY <2>4
    <3> QED
      BY <2>6, <3>1, TextFacts
  <2>8. ASSUME NEW i \in 1 .. End, NEW j \in i .. End, window'[i] = "NUL" PROVE window'[j] = "NUL"
    <3>1. i \in f + 1 .. BufferSize /\ j \in f + 1 .. BufferSize
      BY <1>0, <2>0, <2>4, <2>7, <2>8
    <3> QED
      BY <1>w, <2>6, <2>8, <3>1
  <2>9. ASSUME ~eof', NEW i \in 1 .. End PROVE window'[i] # "NUL"
    <3>0. stale = <<>>
      BY <2>9, <2>u, Zenon
    <3>1. Len(stale) = 0
      BY <3>0
    <3>2. i \in 1 .. f
      BY <1>0, <2>0, <2>4, <2>5, <3>1
    <3> QED
      BY <2>7, <3>2
  <2>10. ptr' \in 1 .. End + 1 /\ pos' \in 0 .. Len(text)
    BY <1>0, <2>2, <2>u
  <2> QED
    BY <2>0, <2>6, <2>8, <2>9, <2>10 DEF WindowKept
<1> QED
  BY <1>1, <1>2

-----------------------------------------------------------------------------
(* Where the encoder stands between the decoder's steps.                    *)

LEMMA FitsStands ==
    ASSUME NEW c
    PROVE  /\ Fits(c) => Stands(c, State(c).members)
           /\ \A m : Stands(c, m) => Fits(c) /\ State(c).members = m
<1>1. Fits(c) => Stands(c, State(c).members)
  BY DEF Fits, Stands
<1>2. ASSUME NEW m, Stands(c, m) PROVE Fits(c) /\ State(c).members = m
  <2>1. OK(c)
    BY <1>2 DEF Stands
  <2>2. PICK a \in Places(c) : State(c) = Point(a, Braces(c.isObject), m)
    BY <1>2 DEF Stands
  <2>3. State(c).members = m
    BY <2>2 DEF Point
  <2> QED
    BY <2>1, <2>2, <2>3 DEF Fits
<1> QED
  BY <1>1, <1>2

(* The members are those of the state.                                       *)
LEMMA MembersAreState ==
    ASSUME NEW c
    PROVE  Members(c.text) = State(c).members
  BY DEF Members, State

(* A context that stands somewhere is ready for an element.                  *)
LEMMA StandsReady ==
    ASSUME NEW c, NEW m, Stands(c, m), Level(c) = 0 => c.first
    PROVE  Ready(c, m)
  BY DEF Stands, Ready

(* What an encoding begins with.                                             *)
LEMMA BeginFacts ==
    ASSUME NEW pretty \in BOOLEAN, NEW room \in Nat \cup {NoLimit}
    PROVE  LET c == BeginEncode(pretty, room)
           IN  /\ c \in Encoders /\ c.room = room /\ c.isObject = <<>> /\ c.first = TRUE
               /\ Level(c) = 0 /\ ~InObject(c) /\ Stands(c, <<>>)
<1> DEFINE c == BeginEncode(pretty, room)
<1>1. c = [text |-> <<>>, room |-> room, isObject |-> <<>>, first |-> TRUE, pretty |-> pretty, result |-> "OK"]
  BY DEF BeginEncode
<1>2. <<>> \in Seq(Chars) /\ <<>> \in Seq(BOOLEAN) /\ "OK" \in Results
  BY DEF Results
<1>3. c \in Encoders
  BY <1>1, <1>2 DEF Encoders, Contexts
<1>4. c.text = <<>> /\ c.room = room /\ c.isObject = <<>> /\ c.first = TRUE /\ OK(c)
  BY <1>1 DEF OK
<1> HIDE DEF c
<1>5. Level(c) = 0 /\ ~InObject(c)
  BY <1>4 DEF Level, InObject
<1>6. State(c) = Point("value", <<>>, <<>>)
  BY <1>4, ReadNothing DEF State, Begin, Point
<1>7. Braces(c.isObject) = <<>>
  BY <1>2, <1>4, BracesFacts
<1>8. "value" \in Places(c)
  BY <1>4, <1>5 DEF Places
<1>9. Stands(c, <<>>)
  BY <1>4, <1>6, <1>7, <1>8 DEF Stands
<1> QED
  BY <1>3, <1>4, <1>5, <1>9 DEF c

(* The names that the code itself gives.                                     *)
LEMMA NamesTyped ==
    /\ NoName \in Seq(Chars) /\ <<"e">> \in Seq(Chars) /\ <<"z">> \in Seq(Chars) /\ <<"r">> \in Seq(Chars)
    /\ <<"x">> \in Seq(Chars) /\ <<"j">> \in Seq(Chars)
    /\ \A s \in {NoName, <<"e">>, <<"z">>, <<"r">>, <<"x">>, <<"j">>} :
          "NUL" \notin Range(s) /\ "control" \notin Range(s)
    /\ NoName # <<"e">> /\ NoName # <<"z">>
<1>1. {"NULL", "e", "z", "r", "x", "j"} \subseteq Chars
  BY DEF Chars, Literals
<1>2. \A ch \in Chars : <<ch>> \in Seq(Chars) /\ Range(<<ch>>) = {ch}
  <2> TAKE ch \in Chars
  <2>1. <<ch>> \in Seq(Chars)
    OBVIOUS
  <2>2. Range(<<ch>>) = {ch}
    BY DEF Range
  <2> QED
    BY <2>1, <2>2
<1>3. NoName = <<"NULL">>
  BY DEF NoName
<1>4. \A s \in {NoName, <<"e">>, <<"z">>, <<"r">>, <<"x">>, <<"j">>} :
          "NUL" \notin Range(s) /\ "control" \notin Range(s)
  BY <1>1, <1>2, <1>3
<1>5. NoName # <<"e">> /\ NoName # <<"z">>
  BY <1>3
<1> QED
  BY <1>1, <1>2, <1>3, <1>4, <1>5

(* The report stands inside its root object and has no member yet.           *)
LEMMA ReportFacts ==
    /\ Report \in Encoders /\ Report.room = NoLimit /\ Report.isObject = <<TRUE>>
    /\ Stands(Report, <<>>)
<1> DEFINE c == BeginEncode(TRUE, NoLimit)
<1>1. /\ c \in Encoders /\ c.room = NoLimit /\ c.isObject = <<>> /\ c.first = TRUE
      /\ Level(c) = 0 /\ ~InObject(c) /\ Stands(c, <<>>)
  BY BeginFacts
<1>2. Report = BeginContainer(c, NoName, TRUE)
  BY DEF Report
<1> HIDE DEF c
<1>3. Ready(c, <<>>)
  BY <1>1, StandsReady
<1>4. /\ Report \in Encoders /\ Report.room = NoLimit /\ OK(Report)
      /\ Report.isObject = Append(c.isObject, TRUE)
      /\ \E k : Stands(Report, k) /\ Gains(c, NoName, <<>>, k)
  BY <1>1, <1>2, <1>3, NamesTyped, BeginContainerFacts
<1>5. Append(<<>>, TRUE) = <<TRUE>>
  OBVIOUS
<1>6. Stands(Report, <<>>)
  BY <1>1, <1>4 DEF Gains
<1> QED
  BY <1>1, <1>4, <1>5, <1>6

(* The element's name has no control character if it comes from a file.      *)
LEMMA NameFacts ==
    ASSUME TypeOK, FramesFit
    PROVE  /\ name \in Seq(Chars) /\ "NUL" \notin Range(name)
           /\ use = "file" => "control" \notin Range(name)
<1>1. name \in Seq(Letters) \/ name = <<"e">> \/ name = NoName
  BY DEF FramesFit
<1>2. CASE name \in Seq(Letters)
  <2>1. \A i \in DOMAIN name : name[i] \in Letters
    BY <1>2
  <2>2. name \in Seq(Chars)
    BY <1>2, LettersFacts
  <2> QED
    BY <2>1, <2>2, LettersFacts DEF Range
<1>3. CASE name = <<"e">> \/ name = NoName
  BY <1>3, NamesTyped
<1> QED
  BY <1>1, <1>2, <1>3

(* Nor has a string, and it is not the name that stands for NULL.            *)
LEMMA StringFacts ==
    ASSUME TypeOK, NEW s \in Seq(Letters)
    PROVE  /\ s \in Seq(Chars) /\ "NUL" \notin Range(s)
           /\ use = "file" => "control" \notin Range(s) /\ s # NoName
<1>1. \A i \in DOMAIN s : s[i] \in Letters
  OBVIOUS
<1>2. s \in Seq(Chars)
  BY LettersFacts
<1>3. s = NoName => "NULL" \in Letters
  <2>1. NoName = <<"NULL">> /\ 1 \in DOMAIN NoName /\ NoName[1] = "NULL"
    BY DEF NoName
  <2> QED
    BY <1>1, <2>1
<1> QED
  BY <1>1, <1>2, <1>3, LettersFacts DEF Range

-----------------------------------------------------------------------------
(* A callback's encoding that CodecInv admits.                               *)
CallbackFits(c, stack) ==
    /\ c \in Encoders /\ stack \in Seq(BOOLEAN)
    /\ use = "file" => /\ Stands(c, <<"e">>) /\ c.room = NoLimit /\ c.isObject = <<TRUE>> \o stack
    /\ FixesFinite /\ OK(c) => /\ Fits(c) /\ c.isObject = stack
                               /\ stack = <<>> => ~c.first

(* The window after a step that has moved the pointer.                       *)
LEMMA WindowAfter ==
    ASSUME TypeOK, WindowFits, NEW p \in 1 .. End + 1, Update(p), pc = "load" => p = End + 1,
           use' = use, text' = text, pc' # "load"
    PROVE  /\ WindowFits'
           /\ ptr' \in 1 .. End' + 1 /\ pos' \in 0 .. Len(text)' /\ (use' = "file" => End' = BufferSize)
<1>1. WindowKept(window', ptr', pos', eof')
  BY UpdateFacts
<1>2. End' = End
  BY <1>1 DEF WindowKept, End
<1>3. use = "file" => End = BufferSize
  BY DEF TypeOK
<1>4. use' # "file" => window' = text'
  BY <1>1 DEF WindowKept, WindowFits
<1>5. WindowFits'
  BY <1>1, <1>2, <1>4 DEF WindowKept, WindowFits, Bytes
<1> QED
  BY <1>1, <1>2, <1>3, <1>5 DEF WindowKept

(* A callback whose encoding fits keeps the invariant.                       *)
LEMMA CallbackKeeps ==
    ASSUME CodecInv, pc \in {"element", "next", "comma"}, NEW c, NEW stack, CallbackFits(c, stack),
           NEW p \in 1 .. End + 1, Callback(c, p, stack)
    PROVE  CodecInv'
<1>0. TypeOK /\ WindowFits /\ FramesFit /\ TextFits /\ MembersFit
  BY DEF CodecInv
<1>1. /\ enc' = c /\ frames' = stack /\ Update(p) /\ result' = c.result
      /\ pc' = IF ~OK(c) THEN "finish"
               ELSE IF stack = <<>> THEN "finish"
               ELSE IF Len(stack) > Len(frames) THEN "next" ELSE "comma"
      /\ use' = use /\ text' = text /\ name' = name
  BY DEF Callback
<1>2. pc' \in {"finish", "next", "comma"} /\ (pc' # "finish" => OK(c) /\ stack # <<>>)
      /\ (pc' = "finish" /\ OK(c) => stack = <<>>)
  BY <1>1
<1>c. c \in Encoders /\ stack \in Seq(BOOLEAN) /\ c.result \in Results
  BY DEF CallbackFits, Encoders, Contexts
<1>3. /\ WindowFits'
      /\ ptr' \in 1 .. End' + 1 /\ pos' \in 0 .. Len(text)' /\ (use' = "file" => End' = BufferSize)
  BY <1>0, <1>1, <1>2, WindowAfter
<1>4. TypeOK'
  BY <1>0, <1>1, <1>2, <1>3, <1>c DEF TypeOK, Encoders
<1>5. FramesFit'
  <2>1. Letters' = Letters
    BY <1>1 DEF Letters
  <2> QED
    BY <1>0, <1>1, <1>2, <2>1 DEF FramesFit
<1>f. use = "file" => Fits(c) /\ State(c).members = <<"e">> /\ c.room = NoLimit /\ c.isObject = <<TRUE>> \o stack
  BY FitsStands DEF CallbackFits
<1>6. TextFits'
  <2>1. use' = "file" /\ pc' # "done" =>
          Fits(enc)' /\ enc'.room = NoLimit /\ enc'.isObject = <<TRUE>> \o frames'
    BY <1>1, <1>f
  <2>2. FixesFinite' /\ pc' # "done" /\ result' = "OK" =>
          /\ Fits(enc)' /\ enc'.isObject = frames'
          /\ pc' = "element" /\ frames' = <<>> => enc'.first
          /\ pc' = "finish" => frames' = <<>> /\ ~enc'.first
    BY <1>1, <1>2 DEF CallbackFits, OK, FixesFinite
  <2>3. pc' \notin {"finish", "done"} => result' = "OK"
    BY <1>1, <1>2 DEF OK
  <2> QED
    BY <2>1, <2>2, <2>3 DEF TextFits
<1>7. MembersFit'
  BY <1>1, <1>2, <1>f, MembersAreState DEF MembersFit
<1>8. ReportStaysWhole' /\ FixedReadable'
  BY <1>2 DEF ReportStaysWhole, FixedReadable
<1> QED
  BY <1>3, <1>4, <1>5, <1>6, <1>7, <1>8 DEF CodecInv

(* So does an error.                                                         *)
LEMMA FailKeeps ==
    ASSUME CodecInv, pc \in {"element", "next", "comma"}, NEW r \in Results, r # "OK", Fail(r)
    PROVE  CodecInv'
<1>0. TypeOK /\ WindowFits /\ FramesFit /\ TextFits /\ MembersFit
  BY DEF CodecInv
<1>1. /\ result' = r /\ pc' = "finish"
      /\ use' = use /\ text' = text /\ window' = window /\ ptr' = ptr /\ pos' = pos /\ (eof' = eof)
      /\ frames' = frames /\ name' = name /\ enc' = enc
  BY DEF Fail
<1>4. TypeOK'
  BY <1>0, <1>1 DEF TypeOK, End
<1>3. WindowFits'
  BY <1>0, <1>1 DEF WindowFits, End
<1>5. FramesFit'
  <2>1. Letters' = Letters
    BY <1>1 DEF Letters
  <2> QED
    BY <1>0, <1>1, <2>1 DEF FramesFit
<1>6. TextFits'
  BY <1>0, <1>1 DEF TextFits, FixesFinite
<1>7. MembersFit'
  BY <1>0, <1>1 DEF MembersFit
<1>8. ReportStaysWhole' /\ FixedReadable'
  BY <1>1 DEF ReportStaysWhole, FixedReadable
<1> QED
  BY <1>3, <1>4, <1>5, <1>6, <1>7, <1>8 DEF CodecInv

-----------------------------------------------------------------------------
(* Decoding an element.                                                     *)

Kinds == BOOLEAN

(* Two pieces of the stack of containers.                                    *)
LEMMA JoinedKinds ==
    ASSUME NEW a \in Seq(Kinds), NEW b \in Seq(Kinds)
    PROVE  /\ (a \o b) \in Seq(Kinds) /\ Len(a \o b) = Len(a) + Len(b)
           /\ \A i \in 1 .. Len(a) : (a \o b)[i] = a[i]
           /\ \A i \in Len(a) + 1 .. Len(a) + Len(b) : (a \o b)[i] = b[i - Len(a)]
<1>1. (a \o b) \in Seq(Kinds) /\ Len(a \o b) = Len(a) + Len(b)
  OBVIOUS
<1>2. \A i \in 1 .. Len(a) : (a \o b)[i] = a[i]
  OBVIOUS
<1>3. \A i \in Len(a) + 1 .. Len(a) + Len(b) : (a \o b)[i] = b[i - Len(a)]
  OBVIOUS
<1> QED
  BY <1>1, <1>2, <1>3

(* A sequence with one element in front.                                     *)
LEMMA OneInFront ==
    ASSUME NEW a \in Seq(Kinds), Len(a) = 1, NEW s \in Seq(Kinds)
    PROVE  /\ (a \o s) \in Seq(Kinds) /\ Len(a \o s) = 1 + Len(s) /\ Len(s) \in Nat
           /\ (a \o s)[1] = a[1]
           /\ s # <<>> => Len(s) > 0 /\ (a \o s)[1 + Len(s)] = s[Len(s)]
           /\ s = <<>> => (a \o s)[1 + Len(s)] = (a \o s)[1]
<1> DEFINE b == a \o s
<1>1. /\ b \in Seq(Kinds) /\ Len(b) = Len(a) + Len(s)
      /\ \A i \in 1 .. Len(a) : b[i] = a[i]
      /\ \A i \in Len(a) + 1 .. Len(a) + Len(s) : b[i] = s[i - Len(a)]
  BY JoinedKinds
<1>2. Len(s) \in Nat /\ (s # <<>> => Len(s) > 0) /\ (s = <<>> => Len(s) = 0)
  OBVIOUS
<1> HIDE DEF b
<1>3. \A i \in 2 .. 1 + Len(s) : b[i] = s[i - 1]
  BY <1>1, <1>2
<1>4. Len(s) > 0 => b[1 + Len(s)] = s[Len(s)]
  BY <1>2, <1>3
<1>5. b[1] = a[1] /\ Len(b) = 1 + Len(s)
  BY <1>1, <1>2
<1> QED
  BY <1>1, <1>2, <1>4, <1>5 DEF b

(* The root of the report stands in front of the decoder's containers.       *)
LEMMA InFront ==
    ASSUME NEW io \in Seq(BOOLEAN)
    PROVE  /\ (<<TRUE>> \o io) \in Seq(BOOLEAN)
           /\ Len(<<TRUE>> \o io) = 1 + Len(io) /\ Len(io) \in Nat
           /\ (<<TRUE>> \o io)[1] = TRUE
           /\ io = <<>> => (<<TRUE>> \o io)[1 + Len(io)] = TRUE
           /\ io # <<>> => Len(io) > 0 /\ (<<TRUE>> \o io)[1 + Len(io)] = io[Len(io)]
<1>1. <<TRUE>> \in Seq(BOOLEAN) /\ Len(<<TRUE>>) = 1 /\ <<TRUE>>[1] = TRUE
  OBVIOUS
<1> DEFINE a == <<TRUE>>
<1>2. a \in Seq(Kinds) /\ io \in Seq(Kinds) /\ Len(a) = 1 /\ (a[1] = TRUE)
  BY <1>1 DEF Kinds
<1> HIDE DEF a
<1>3. /\ (a \o io) \in Seq(BOOLEAN) /\ Len(a \o io) = 1 + Len(io) /\ Len(io) \in Nat
      /\ (a \o io)[1] = a[1]
      /\ io # <<>> => Len(io) > 0 /\ (a \o io)[1 + Len(io)] = io[Len(io)]
      /\ io = <<>> => (a \o io)[1 + Len(io)] = (a \o io)[1]
  BY <1>2, OneInFront DEF Kinds
<1>8. (a \o io)[1] = TRUE
  BY <1>2, <1>3, Zenon
<1>10. io = <<>> => (a \o io)[1 + Len(io)] = TRUE
  BY <1>3, <1>8, Zenon
<1> QED
  BY <1>3, <1>8, <1>10 DEF a

(* What the encoder is like when an element is to be decoded.                *)
LEMMA ElementReady ==
    ASSUME CodecInv, pc = "element"
    PROVE  /\ enc \in Encoders /\ frames \in Seq(BOOLEAN)
           /\ use = "file" => /\ enc.room = NoLimit /\ enc.isObject = <<TRUE>> \o frames
                              /\ InObject(enc) => name # NoName
                              /\ \E m : Ready(enc, m) /\ \A k : Gains(enc, name, m, k) => k = <<"e">>
           /\ FixesFinite => enc.isObject = frames /\ \E m : Ready(enc, m)
<1>0. TypeOK /\ FramesFit /\ TextFits /\ MembersFit
  BY DEF CodecInv
<1>1. enc \in Encoders /\ frames \in Seq(BOOLEAN) /\ result = "OK"
  BY <1>0 DEF TypeOK, Encoders, TextFits
<1>2. Level(enc) = Len(enc.isObject) /\ Level(enc) \in Nat
  BY <1>1, EncoderFields
<1>3. ASSUME use = "file"
      PROVE  /\ enc.room = NoLimit /\ enc.isObject = <<TRUE>> \o frames
             /\ InObject(enc) => name # NoName
             /\ \E m : Ready(enc, m) /\ \A k : Gains(enc, name, m, k) => k = <<"e">>
  <2>1. Fits(enc) /\ enc.room = NoLimit /\ enc.isObject = <<TRUE>> \o frames
    BY <1>0, <1>3 DEF TextFits
  <2>2. /\ Len(<<TRUE>> \o frames) = 1 + Len(frames) /\ Len(frames) \in Nat
        /\ frames = <<>> => (<<TRUE>> \o frames)[1 + Len(frames)] = TRUE
        /\ frames # <<>> => Len(frames) > 0 /\ (<<TRUE>> \o frames)[1 + Len(frames)] = frames[Len(frames)]
    BY <1>1, InFront
  <2>3. Level(enc) = 1 + Len(frames)
    BY <1>2, <2>1, <2>2
  <2>4. frames = <<>> => InObject(enc) /\ Level(enc) = 1
    BY <2>1, <2>2, <2>3 DEF InObject
  <2>5. frames # <<>> => Level(enc) # 1 /\ Level(enc) > 0 /\ (InObject(enc) <=> Last(frames))
    BY <2>1, <2>2, <2>3 DEF InObject, Last
  <2>6. /\ frames = <<>> => name = <<"e">>
        /\ frames # <<>> /\ Last(frames) => name # NoName
    BY <1>0, <1>3 DEF FramesFit
  <2>7. InObject(enc) => name # NoName
    BY <2>5, <2>6, NamesTyped
  <2> DEFINE m == State(enc).members
  <2>8. Stands(enc, m)
    BY <2>1, FitsStands
  <2>m. frames = <<>> => m = <<>>
    BY <1>0, <1>3, MembersAreState DEF MembersFit
  <2>n. frames # <<>> => m = <<"e">>
    BY <1>0, <1>3, MembersAreState DEF MembersFit
  <2> HIDE DEF m
  <2>9. Ready(enc, m)
    BY <2>4, <2>5, <2>8, StandsReady
  <2>10. ASSUME NEW k, Gains(enc, name, m, k) PROVE k = <<"e">>
    <3>1. CASE frames = <<>>
      <4>1. k = Append(m, name[1]) /\ name[1] = "e" /\ m = <<>>
        BY <2>4, <2>6, <2>10, <2>m, <3>1 DEF Gains
      <4> QED
        BY <4>1
    <3>2. CASE frames # <<>>
      BY <2>5, <2>10, <2>n, <3>2 DEF Gains
    <3> QED
      BY <3>1, <3>2
  <2> QED
    BY <2>1, <2>7, <2>9, <2>10
<1>4. ASSUME FixesFinite PROVE enc.isObject = frames /\ \E m : Ready(enc, m)
  <2>1. Fits(enc) /\ enc.isObject = frames /\ (frames = <<>> => enc.first)
    BY <1>0, <1>1, <1>4 DEF TextFits
  <2>2. Level(enc) = 0 => enc.first
    BY <1>1, <1>2, <2>1
  <2>3. Ready(enc, State(enc).members)
    BY <2>1, <2>2, FitsStands, StandsReady
  <2> QED
    BY <2>1, <2>3
<1> QED
  BY <1>1, <1>3, <1>4

(* An element that has been added, and a container that has been begun.      *)
LEMMA AddedFits ==
    ASSUME CodecInv, pc = "element", NEW d, Stays(enc, d), d.first = FALSE,
           enc.room = NoLimit /\ use = "file" /\ (InObject(enc) => name # NoName) => OK(d),
           OK(d) /\ (use = "file" \/ FixesFinite) =>
              \A m : Ready(enc, m) => \E k : Stands(d, k) /\ Gains(enc, name, m, k)
    PROVE  CallbackFits(d, frames)
<1>1. d \in Encoders /\ d.isObject = enc.isObject /\ (enc.room = NoLimit => d.room = NoLimit)
  BY StaysLevel
<1>2. use = "file" => /\ Stands(d, <<"e">>) /\ d.room = NoLimit /\ d.isObject = <<TRUE>> \o frames
  BY <1>1, ElementReady
<1>3. FixesFinite /\ OK(d) => Fits(d) /\ d.isObject = frames
  BY <1>1, ElementReady, FitsStands
<1>4. frames \in Seq(BOOLEAN)
  BY ElementReady
<1> QED
  BY <1>1, <1>2, <1>3, <1>4 DEF CallbackFits

(* A container that has been begun.                                          *)
LEMMA BegunFits ==
    ASSUME CodecInv, pc = "element", NEW isObject \in BOOLEAN, NEW d \in Encoders,
           enc.room = NoLimit => d.room = NoLimit,
           enc.room = NoLimit /\ use = "file" /\ (InObject(enc) => name # NoName) => OK(d),
           OK(d) => /\ d.isObject = Append(enc.isObject, isObject)
                    /\ \A m : Ready(enc, m) => \E k : Stands(d, k) /\ Gains(enc, name, m, k)
    PROVE  CallbackFits(d, Append(frames, isObject))
<1>0. frames \in Seq(BOOLEAN)
  BY ElementReady
<1>1. Append(frames, isObject) \in Seq(BOOLEAN) /\ Append(frames, isObject) # <<>>
      /\ Append(<<TRUE>> \o frames, isObject) = <<TRUE>> \o Append(frames, isObject)
  BY <1>0
<1>2. use = "file" => /\ Stands(d, <<"e">>) /\ d.room = NoLimit
                      /\ d.isObject = <<TRUE>> \o Append(frames, isObject)
  BY <1>1, ElementReady
<1>3. FixesFinite /\ OK(d) => Fits(d) /\ d.isObject = Append(frames, isObject)
  BY ElementReady, FitsStands
<1> QED
  BY <1>1, <1>2, <1>3 DEF CallbackFits

(* Entering a container keeps the invariant.                                 *)
LEMMA BeginFrameKeeps ==
    ASSUME CodecInv, pc = "element", NEW p \in 1 .. End, NEW isObject \in BOOLEAN,
           BeginFrame(p, isObject)
    PROVE  CodecInv'
<1>0. TypeOK /\ WindowFits /\ FramesFit
  BY DEF CodecInv
<1>1. enc \in Encoders /\ frames \in Seq(BOOLEAN)
  BY ElementReady
<1>2. /\ name \in Seq(Chars) /\ "NUL" \notin Range(name)
      /\ use = "file" => "control" \notin Range(name)
  BY <1>0, NameFacts
<1> DEFINE d == BeginContainer(enc, name, isObject)
           deep == use = "fix" /\ Len(frames) >= MaxDepth
           r == Return(d, "DATA_TOO_LONG")
<1>3. /\ d \in Encoders /\ (enc.room = NoLimit => d.room = NoLimit)
      /\ enc.room = NoLimit /\ "control" \notin Range(name) /\ (InObject(enc) => name # NoName) => OK(d)
      /\ OK(d) => /\ d.isObject = Append(enc.isObject, isObject)
                  /\ \A m : Ready(enc, m) => \E k : Stands(d, k) /\ Gains(enc, name, m, k)
  BY <1>1, <1>2, BeginContainerFacts
<1>4. Callback(IF deep THEN r ELSE d, p + 1, Append(frames, isObject))
  BY DEF BeginFrame
<1> HIDE DEF d
<1>5. CallbackFits(d, Append(frames, isObject))
  BY <1>2, <1>3, BegunFits
<1>6. r \in Encoders /\ ~OK(r)
  BY <1>3, ReturnFacts, StaysLevel DEF Results
<1>7. deep => CallbackFits(r, Append(frames, isObject))
  BY <1>5, <1>6 DEF CallbackFits
<1> HIDE DEF r
<1>8. p + 1 \in 1 .. End + 1
  BY <1>0, WindowTyped
<1>9. CallbackFits(IF deep THEN r ELSE d, Append(frames, isObject))
  BY <1>5, <1>7
<1> HIDE DEF deep
<1> QED
  BY <1>4, <1>8, <1>9, CallbackKeeps

(* So does decoding an element of any kind.                                  *)
LEMMA DecodeElementKeeps ==
    ASSUME CodecInv, DecodeElement
    PROVE  CodecInv'
<1>0. TypeOK /\ WindowFits /\ FramesFit
  BY DEF CodecInv
<1>1. enc \in Encoders /\ frames \in Seq(BOOLEAN) /\ pc = "element"
  BY ElementReady DEF DecodeElement
<1>2. /\ name \in Seq(Chars) /\ "NUL" \notin Range(name)
      /\ use = "file" => "control" \notin Range(name)
  BY <1>0, NameFacts
<1> DEFINE p == SkipSpace(ptr)
           ch == window[p]
           string == DecodeString(p, StringSize)
           numbers == {DecodeNumber(p, noticed) : noticed \in BOOLEAN}
           Taken(number) == IF number.result # "OK" THEN Fail(number.result)
                            ELSE Callback(AddElement(enc, name, number.string), number.next, frames)
<1>4. End \in Nat /\ ptr \in 1 .. End + 1
  BY <1>0, WindowTyped
<1>5. p \in 1 .. End + 1 /\ (p <= End => p \in 1 .. End)
  BY <1>0, <1>4, SkipSpaceFacts
<1>3. /\ p > End => Fail("INCOMPLETE")
      /\ p <= End /\ ch \in {"lbrace", "lbracket"} => BeginFrame(p, ch = "lbrace")
      /\ p <= End /\ ch = Quote =>
           IF string.result # "OK" THEN Fail(string.result)
           ELSE Callback(AddStringElement(enc, name, string.string), string.next, frames)
      /\ p <= End /\ ch = "true" => Callback(AddElement(enc, name, <<"true">>), p + 1, frames)
      /\ p <= End /\ ch \in FPChars \ {"."} => \E number \in numbers : Taken(number)
      /\ p <= End /\ ch \notin {"lbrace", "lbracket", Quote, "true"} \cup (FPChars \ {"."}) =>
           Fail("INVALID_CHARACTER")
  <2>1. (CASE p > End -> Fail("INCOMPLETE")
          [] p <= End /\ ch \in {"lbrace", "lbracket"} -> BeginFrame(p, ch = "lbrace")
          [] p <= End /\ ch = Quote ->
               IF string.result # "OK" THEN Fail(string.result)
               ELSE Callback(AddStringElement(enc, name, string.string), string.next, frames)
          [] p <= End /\ ch = "true" -> Callback(AddElement(enc, name, <<ch>>), p + 1, frames)
          [] p <= End /\ ch \in FPChars \ {"."} -> \E number \in numbers : Taken(number)
          [] OTHER -> Fail("INVALID_CHARACTER"))
    BY DEF DecodeElement
  <2> DEFINE A == Fail("INCOMPLETE")
             B == BeginFrame(p, ch = "lbrace")
             C == IF string.result # "OK" THEN Fail(string.result)
                  ELSE Callback(AddStringElement(enc, name, string.string), string.next, frames)
             D == Callback(AddElement(enc, name, <<ch>>), p + 1, frames)
             E == \E number \in numbers : Taken(number)
             F == Fail("INVALID_CHARACTER")
  <2>2. (CASE p > End -> A
          [] p <= End /\ ch \in {"lbrace", "lbracket"} -> B
          [] p <= End /\ ch = Quote -> C
          [] p <= End /\ ch = "true" -> D
          [] p <= End /\ ch \in FPChars \ {"."} -> E
          [] OTHER -> F)
    BY <2>1
  <2>3. ch = "true" => D = Callback(AddElement(enc, name, <<"true">>), p + 1, frames)
    OBVIOUS
  <2>4. p \in Int /\ End \in Int
    BY <1>4, <1>5
  <2> HIDE DEF A, B, C, D, E, F, p, ch
  <2>5. /\ p > End => A
        /\ p <= End /\ ch \in {"lbrace", "lbracket"} => B
        /\ p <= End /\ ch = Quote => C
        /\ p <= End /\ ch = "true" => D
        /\ p <= End /\ ch \in FPChars \ {"."} => E
        /\ p <= End /\ ch \notin {"lbrace", "lbracket", Quote, "true"} \cup (FPChars \ {"."}) => F
    BY <2>2, <2>4 DEF FPChars, Quote
  <2>6. p <= End /\ ch = "true" => Callback(AddElement(enc, name, <<"true">>), p + 1, frames)
    BY <2>3, <2>5
  <2> QED
    BY <2>5, <2>6 DEF A, B, C, E, F
<1> HIDE DEF p, ch
<1>6. StringSize \in Nat
  BY DecoderAssumption
<1>7. {"INCOMPLETE", "INVALID_CHARACTER"} \subseteq Results /\ {"INCOMPLETE", "INVALID_CHARACTER"} \cap {"OK"} = {}
  BY DEF Results
<1>a. CASE p > End
  BY <1>1, <1>3, <1>7, <1>a, FailKeeps
<1>b. CASE p <= End /\ ch \in {"lbrace", "lbracket"}
  BY <1>1, <1>3, <1>5, <1>b, BeginFrameKeeps
<1>c. CASE p <= End /\ ch = Quote
  <2>1. /\ string.result \in Results
        /\ string.result = "OK" => string.string \in Seq(Letters) /\ string.next \in p + 1 .. End + 1
    BY <1>0, <1>5, <1>6, <1>c, DecodeStringFacts
  <2> DEFINE s == string.string
             d == AddStringElement(enc, name, s)
             q == string.next
  <2>2. IF string.result # "OK" THEN Fail(string.result) ELSE Callback(d, q, frames)
    BY <1>3, <1>c
  <2>3. CASE string.result # "OK"
    <3> HIDE DEF string
    <3> QED
      BY <1>1, <2>1, <2>2, <2>3, FailKeeps
  <2>4. CASE string.result = "OK"
    <3>1. s \in Seq(Letters) /\ q \in 1 .. End + 1 /\ Callback(d, q, frames)
      BY <1>4, <1>5, <2>1, <2>2, <2>4
    <3> HIDE DEF s, q
    <3>2. /\ s \in Seq(Chars) /\ "NUL" \notin Range(s)
          /\ use = "file" => "control" \notin Range(s) /\ s # NoName
      BY <1>0, <3>1, StringFacts
    <3>3. /\ Stays(enc, d) /\ d.first = FALSE
          /\ enc.room = NoLimit /\ "control" \notin Range(name) /\ (InObject(enc) => name # NoName) =>
               ("control" \notin Range(s) => OK(d))
          /\ OK(d) => \A m : Ready(enc, m) => \E k : Stands(d, k) /\ Gains(enc, name, m, k)
      BY <1>1, <1>2, <3>2, AddStringElementFacts
    <3> HIDE DEF d
    <3>4. CallbackFits(d, frames)
      BY <1>1, <1>2, <3>2, <3>3, AddedFits
    <3> QED
      BY <1>1, <3>1, <3>4, CallbackKeeps
  <2> QED
    BY <2>3, <2>4
<1>e. ASSUME NEW v \in Seq(Chars), use = "file" \/ FixesFinite => Scalar(v), NEW q \in 1 .. End + 1, Callback(AddElement(enc, name, v), q, frames)
      PROVE  CodecInv'
  <2> DEFINE d == AddElement(enc, name, v)
  <2>1. /\ Stays(enc, d) /\ d.first = FALSE
        /\ enc.room = NoLimit /\ "control" \notin Range(name) /\ (InObject(enc) => name # NoName) => OK(d)
        /\ OK(d) /\ Scalar(v) => \A m : Ready(enc, m) => \E k : Stands(d, k) /\ Gains(enc, name, m, k)
    BY <1>1, <1>2, <1>e, AddElementFacts
  <2>2. Callback(d, q, frames)
    BY <1>e
  <2> HIDE DEF d
  <2>3. CallbackFits(d, frames)
    BY <1>1, <1>2, <1>e, <2>1, AddedFits
  <2> QED
    BY <1>1, <1>e, <2>2, <2>3, CallbackKeeps
<1>f. CASE p <= End /\ ch = "true"
  <2>1. Scalar(<<"true">>)
    <3>1. "true" \in Chars /\ "true" \notin Structure
      BY DEF Chars, Literals, Structure
    <3> QED
      BY <3>1 DEF Scalar
  <2>2. p + 1 \in 1 .. End + 1
    BY <1>4, <1>5, <1>f
  <2>3. <<"true">> \in Seq(Chars)
    BY <2>1 DEF Scalar
  <2> QED
    BY <1>3, <1>e, <1>f, <2>1, <2>2, <2>3
<1>g. CASE p <= End /\ ch \in FPChars \ {"."}
  <2>0. PICK number \in numbers : Taken(number)
    BY <1>3, <1>g
  <2>1. /\ number.result \in Results
        /\ number.result = "OK" =>
              /\ number.string \in Seq(Chars)
              /\ "E" \notin Range(text) => Scalar(number.string)
              /\ number.next \in p + 1 .. End + 1
    <3>1. PICK noticed \in BOOLEAN : number = DecodeNumber(p, noticed)
      OBVIOUS
    <3> QED
      BY <1>0, <1>5, <1>g, <3>1, DecodeNumberFacts
  <2>2. IF number.result # "OK" THEN Fail(number.result)
        ELSE Callback(AddElement(enc, name, number.string), number.next, frames)
    BY <2>0
  <2>f. use = "file" \/ FixesFinite => "E" \notin Range(text)
    BY <1>0, TextFacts DEF FixesFinite
  <2>3. CASE number.result # "OK"
    BY <1>1, <2>1, <2>2, <2>3, FailKeeps
  <2>4. CASE number.result = "OK"
    <3>1. /\ number.string \in Seq(Chars) /\ number.next \in 1 .. End + 1
          /\ use = "file" \/ FixesFinite => Scalar(number.string)
          /\ Callback(AddElement(enc, name, number.string), number.next, frames)
      BY <1>4, <1>5, <2>1, <2>2, <2>4, <2>f
    <3> QED
      BY <1>e, <3>1
  <2> QED
    BY <2>3, <2>4
<1>h. CASE p <= End /\ ch \notin {"lbrace", "lbracket", Quote, "true"} \cup (FPChars \ {"."})
  BY <1>1, <1>3, <1>7, <1>h, FailKeeps
<1>z. p > End \/ p <= End
  BY <1>4, <1>5
<1> QED
  BY <1>a, <1>b, <1>c, <1>f, <1>g, <1>h, <1>z

-----------------------------------------------------------------------------
(* The other steps between two callbacks.                                   *)

(* Loading.                                                                  *)
LEMMA LoadKeeps ==
    ASSUME CodecInv, Load
    PROVE  CodecInv'
<1>0. TypeOK /\ WindowFits /\ FramesFit /\ TextFits /\ MembersFit
  BY DEF CodecInv
<1>1. /\ pc = "load" /\ Update(ptr) /\ pc' = "element"
      /\ use' = use /\ text' = text /\ frames' = frames /\ name' = name /\ enc' = enc /\ result' = result
  BY DEF Load
<1>2. use = "file" /\ ptr = End + 1 /\ ptr \in 1 .. End + 1
  BY <1>0, <1>1, WindowTyped DEF WindowFits
<1>3. /\ WindowFits'
      /\ ptr' \in 1 .. End' + 1 /\ pos' \in 0 .. Len(text)' /\ (use' = "file" => End' = BufferSize)
  BY <1>0, <1>1, <1>2, WindowAfter
<1>4. TypeOK'
  BY <1>0, <1>1, <1>3 DEF TypeOK
<1>5. FramesFit'
  <2>1. Letters' = Letters
    BY <1>1 DEF Letters
  <2> QED
    BY <1>0, <1>1, <2>1 DEF FramesFit
<1>6. TextFits'
  BY <1>0, <1>1, <1>2 DEF TextFits, FixesFinite
<1>7. MembersFit'
  BY <1>0, <1>1, <1>2 DEF MembersFit
<1>8. ReportStaysWhole' /\ FixedReadable'
  BY <1>1 DEF ReportStaysWhole, FixedReadable
<1> QED
  BY <1>3, <1>4, <1>5, <1>6, <1>7, <1>8 DEF CodecInv

(* A step in a container that moves the pointer and adds nothing.            *)
LEMMA MoveKeeps ==
    ASSUME CodecInv, pc \in {"next", "comma"}, NEW q \in 1 .. End + 1, ptr' = q,
           pc' \in {"element", "next"},
           use' = use, text' = text, window' = window, pos' = pos, eof' = eof,
           frames' = frames, enc' = enc, result' = result,
           name' = name \/ name' \in Seq(Letters) \cup {NoName},
           pc' = "element" /\ use = "file" /\ Last(frames) => name' # NoName
    PROVE  CodecInv'
<1>0. TypeOK /\ WindowFits /\ FramesFit /\ TextFits /\ MembersFit
  BY DEF CodecInv
<1>1. frames # <<>>
  BY <1>0 DEF FramesFit
<1>2. End' = End
  BY DEF End
<1>3. WindowFits'
  BY <1>0, <1>2 DEF WindowFits
<1>4. TypeOK'
  BY <1>0, <1>2 DEF TypeOK
<1>5. FramesFit'
  <2>1. Letters' = Letters
    BY DEF Letters
  <2>2. name' \in Seq(Letters) \cup {<<"e">>, NoName}
    BY <1>0 DEF FramesFit
  <2> QED
    BY <1>0, <1>1, <2>1, <2>2 DEF FramesFit
<1>6. TextFits'
  BY <1>0, <1>1 DEF TextFits, FixesFinite
<1>7. MembersFit'
  BY <1>0, <1>1 DEF MembersFit
<1>8. ReportStaysWhole' /\ FixedReadable'
  BY DEF ReportStaysWhole, FixedReadable
<1> QED
  BY <1>3, <1>4, <1>5, <1>6, <1>7, <1>8 DEF CodecInv

(* Skipping a comma, or none, keeps the invariant.                           *)
LEMMA SkipCommaKeeps ==
    ASSUME CodecInv, SkipComma
    PROVE  CodecInv'
<1>0. TypeOK /\ WindowFits /\ pc = "comma"
  BY DEF CodecInv, SkipComma
<1> DEFINE p == SkipSpace(ptr)
           q == IF window[p] = "comma" THEN p + 1 ELSE p
<1>1. \/ Fail("INCOMPLETE")
      \/ /\ p <= End /\ ptr' = q /\ pc' = "next"
         /\ use' = use /\ text' = text /\ window' = window /\ pos' = pos /\ eof' = eof
         /\ frames' = frames /\ enc' = enc /\ result' = result /\ name' = name
  <2>1. p \in 1 .. End + 1 /\ End \in Nat
    BY <1>0, WindowTyped, SkipSpaceFacts
  <2> HIDE DEF p
  <2>2. p > End => Fail("INCOMPLETE")
    BY DEF SkipComma, p
  <2>3. p <= End => /\ ptr' = q /\ pc' = "next"
                    /\ use' = use /\ text' = text /\ window' = window /\ pos' = pos /\ eof' = eof
                    /\ frames' = frames /\ enc' = enc /\ result' = result /\ name' = name
    BY <2>1 DEF SkipComma, p
  <2> QED
    BY <2>1, <2>2, <2>3
<1>2. CASE Fail("INCOMPLETE")
  <2>1. "INCOMPLETE" \in Results /\ "INCOMPLETE" # "OK"
    BY DEF Results
  <2> QED
    BY <1>0, <1>2, <2>1, FailKeeps
<1>3. CASE /\ p <= End /\ ptr' = q /\ pc' = "next"
           /\ use' = use /\ text' = text /\ window' = window /\ pos' = pos /\ eof' = eof
           /\ frames' = frames /\ enc' = enc /\ result' = result /\ name' = name
  <2>1. p \in 1 .. End + 1 /\ End \in Nat
    BY <1>0, WindowTyped, SkipSpaceFacts
  <2>2. q \in 1 .. End + 1
    BY <1>3, <2>1
  <2> HIDE DEF p, q
  <2> QED
    BY <1>0, <1>3, <2>2, MoveKeeps
<1> QED
  BY <1>1, <1>2, <1>3

(* The end of a container.                                                   *)
LEMMA FrontOfRest ==
    ASSUME NEW io \in Seq(BOOLEAN), io # <<>>
    PROVE  Front(<<TRUE>> \o io) = <<TRUE>> \o Front(io)
<1>1. io \in Seq(Kinds) /\ <<TRUE>> \in Seq(Kinds) /\ Len(<<TRUE>>) = 1 /\ Len(io) \in Nat /\ Len(io) > 0
  BY DEF Kinds
<1> DEFINE a == <<TRUE>>
           f == Front(io)
           x == a \o io
           y == a \o f
<1>2. f \in Seq(Kinds) /\ Len(f) = Len(io) - 1 /\ \A i \in 1 .. Len(io) - 1 : f[i] = io[i]
  <2>1. f = SubSeq(io, 1, Len(io) - 1)
    BY DEF Front
  <2>2. f = [i \in 1 .. Len(io) - 1 |-> io[i]]
    BY <1>1, <2>1
  <2>3. \A i \in 1 .. Len(io) - 1 : io[i] \in Kinds
    BY <1>1
  <2> HIDE DEF f
  <2>4. \A i \in 1 .. Len(io) - 1 : f[i] = io[i]
    BY <2>2
  <2>5. f \in Seq(Kinds) /\ Len(f) = Len(io) - 1
    BY <1>1, <2>2, <2>3
  <2> QED
    BY <2>4, <2>5
<1>3. a \in Seq(Kinds) /\ Len(a) = 1
  BY <1>1
<1> HIDE DEF a, f
<1>j. /\ x \in Seq(Kinds) /\ Len(x) = Len(a) + Len(io)
      /\ \A i \in 1 .. Len(a) : x[i] = a[i]
      /\ \A i \in Len(a) + 1 .. Len(a) + Len(io) : x[i] = io[i - Len(a)]
  BY <1>1, <1>3, JoinedKinds
<1>k. /\ y \in Seq(Kinds) /\ Len(y) = Len(a) + Len(f)
      /\ \A i \in 1 .. Len(a) : y[i] = a[i]
      /\ \A i \in Len(a) + 1 .. Len(a) + Len(f) : y[i] = f[i - Len(a)]
  BY <1>2, <1>3, JoinedKinds
<1> HIDE DEF x, y
<1>4. /\ x \in Seq(Kinds) /\ Len(x) = 1 + Len(io) /\ x[1] = a[1]
      /\ \A i \in 2 .. 1 + Len(io) : x[i] = io[i - 1]
  BY <1>1, <1>3, <1>j
<1>5. /\ y \in Seq(Kinds) /\ Len(y) = Len(io) /\ y[1] = a[1]
      /\ \A i \in 2 .. Len(io) : y[i] = f[i - 1]
  BY <1>1, <1>2, <1>3, <1>k
<1>6. Front(x) \in Seq(Kinds) /\ Len(Front(x)) = Len(io) /\ \A i \in 1 .. Len(io) : Front(x)[i] = x[i]
  BY <1>1, <1>4 DEF Front
<1>7. \A i \in 1 .. Len(io) : Front(x)[i] = y[i]
  BY <1>1, <1>2, <1>4, <1>5, <1>6
<1>8. Front(x) = y
  BY <1>1, <1>5, <1>6, <1>7, SeqEqual
<1> QED
  BY <1>8 DEF x, y, a, f

(* Leaving a container keeps the invariant.                                  *)
LEMMA EndFrameKeeps ==
    ASSUME CodecInv, pc = "next", NEW p \in 1 .. End, EndFrame(p)
    PROVE  CodecInv'
<1>0. TypeOK /\ WindowFits /\ FramesFit /\ TextFits /\ MembersFit
  BY DEF CodecInv
<1>1. enc \in Encoders /\ frames \in Seq(BOOLEAN) /\ frames # <<>> /\ result = "OK"
  BY <1>0 DEF TypeOK, Encoders, TextFits, FramesFit
<1>2. Front(frames) \in Seq(BOOLEAN) /\ Len(frames) \in Nat /\ Len(frames) > 0
      /\ Front(<<TRUE>> \o frames) = <<TRUE>> \o Front(frames)
      /\ Len(<<TRUE>> \o frames) = 1 + Len(frames)
  BY <1>1, BracesFacts, InFront, FrontOfRest
<1> DEFINE d == EndContainer(enc)
           k == Call(enc)
           ended == IF use # "element" \/ Level(enc) > 2 THEN d ELSE k
<1>3. Callback(ended, p + 1, Front(frames))
  BY DEF EndFrame
<1>4. /\ d \in Encoders /\ (enc.room = NoLimit => d.room = NoLimit)
      /\ enc.room = NoLimit => OK(d)
      /\ Level(enc) > 0 => d.isObject = Front(enc.isObject)
      /\ Level(enc) > 0 /\ OK(d) =>
           d.first = FALSE /\ \A m : (\E a \in Places(enc) : State(enc) = Point(a, Braces(enc.isObject), m))
                                      => Stands(d, m)
  BY <1>1, EndContainerFacts
<1>5. k \in Encoders
  BY <1>1, CallFacts, StaysLevel
<1>6. Level(enc) = Len(enc.isObject)
  BY <1>1, EncoderFields
<1> HIDE DEF d, k
<1>7. use = "file" => /\ Stands(d, <<"e">>) /\ d.room = NoLimit /\ d.isObject = <<TRUE>> \o Front(frames)
  <2> SUFFICES ASSUME use = "file"
               PROVE  /\ Stands(d, <<"e">>) /\ d.room = NoLimit
                      /\ d.isObject = <<TRUE>> \o Front(frames)
    OBVIOUS
  <2>1. Fits(enc) /\ enc.room = NoLimit /\ enc.isObject = <<TRUE>> \o frames
    BY <1>0, <1>1 DEF TextFits
  <2>2. Level(enc) > 0
    BY <1>2, <1>6, <2>1
  <2>3. State(enc).members = <<"e">>
    BY <1>0, <1>1, MembersAreState DEF MembersFit
  <2>4. Stands(enc, <<"e">>)
    BY <2>1, <2>3, FitsStands
  <2>5. Stands(d, <<"e">>)
    BY <1>4, <2>1, <2>2, <2>4 DEF Stands
  <2> QED
    BY <1>2, <1>4, <2>1, <2>2, <2>5
<1>8. FixesFinite /\ OK(d) => Fits(d) /\ d.isObject = Front(frames) /\ d.first = FALSE
  <2> SUFFICES ASSUME FixesFinite, OK(d)
               PROVE  Fits(d) /\ d.isObject = Front(frames) /\ d.first = FALSE
    OBVIOUS
  <2>1. Fits(enc) /\ enc.isObject = frames
    BY <1>0, <1>1 DEF TextFits
  <2>2. Level(enc) > 0
    BY <1>2, <1>6, <2>1
  <2>3. Stands(enc, State(enc).members)
    BY <2>1, FitsStands
  <2>4. Stands(d, State(enc).members)
    BY <1>4, <2>2, <2>3 DEF Stands
  <2> QED
    BY <1>4, <2>1, <2>2, <2>4, FitsStands
<1>9. ended \in Encoders /\ (use # "element" => ended = d)
  BY <1>4, <1>5
<1> HIDE DEF ended
<1>10. CallbackFits(ended, Front(frames))
  BY <1>2, <1>7, <1>8, <1>9 DEF CallbackFits, FixesFinite
<1>11. p + 1 \in 1 .. End + 1
  BY <1>0, WindowTyped
<1> QED
  BY <1>3, <1>10, <1>11, CallbackKeeps

(* The head of a container's loop.                                           *)
LEMMA NextInContainerKeeps ==
    ASSUME CodecInv, NextInContainer
    PROVE  CodecInv'
<1>0. TypeOK /\ WindowFits /\ FramesFit /\ pc = "next"
  BY DEF CodecInv, NextInContainer
<1>1. frames \in Seq(BOOLEAN) /\ frames # <<>>
  BY <1>0 DEF TypeOK, FramesFit
<1> DEFINE p == SkipSpace(ptr)
           isObject == Last(frames)
           ch == window[p]
           key == DecodeString(p, NameSize)
           colon == SkipSpace(key.next)
           same == /\ use' = use /\ text' = text /\ window' = window /\ pos' = pos /\ eof' = eof
                   /\ frames' = frames /\ enc' = enc /\ result' = result
           A == Fail("INCOMPLETE")
           B == EndFrame(p)
           C == ptr' = p /\ name' = NoName /\ pc' = "element" /\ same
           D == IF key.result # "OK" THEN Fail(key.result)
                ELSE IF colon > End THEN Fail("INCOMPLETE")
                ELSE IF window[colon] # "colon" THEN Fail("INVALID_CHARACTER")
                ELSE ptr' = colon + 1 /\ name' = key.string /\ pc' = "element" /\ same
<1>2. (CASE p > End -> A
         [] p <= End /\ ch = (IF isObject THEN "rbrace" ELSE "rbracket") -> B
         [] p <= End /\ ~isObject /\ ch # "rbracket" -> C
         [] OTHER -> D)
  BY DEF NextInContainer
<1>3. End \in Nat /\ ptr \in 1 .. End + 1
  BY <1>0, WindowTyped
<1>4. p \in 1 .. End + 1 /\ (p <= End => p \in 1 .. End)
  BY <1>0, <1>3, SkipSpaceFacts
<1>5. {"INCOMPLETE", "INVALID_CHARACTER"} \subseteq Results /\ {"INCOMPLETE", "INVALID_CHARACTER"} \cap {"OK"} = {}
  BY DEF Results
<1>6. isObject \in BOOLEAN
  BY <1>1 DEF Last
<1> HIDE DEF p, ch, A, B, C, D, isObject
<1>7. \/ p > End /\ A
      \/ p <= End /\ B
      \/ p <= End /\ ~isObject /\ C
      \/ p <= End /\ isObject /\ D
  BY <1>2, <1>3, <1>4, <1>6
<1>a. CASE p > End /\ A
  BY <1>0, <1>5, <1>a, FailKeeps DEF A
<1>b. CASE p <= End /\ B
  BY <1>0, <1>4, <1>b, EndFrameKeeps DEF B
<1>c. CASE p <= End /\ ~isObject /\ C
  <2>1. p \in 1 .. End + 1 /\ ptr' = p /\ pc' = "element" /\ same /\ name' = NoName /\ ~Last(frames)
    BY <1>4, <1>c DEF C, isObject
  <2> QED
    BY <1>0, <2>1, MoveKeeps
<1>d. CASE p <= End /\ isObject /\ D
  <2>1. NameSize \in Nat
    BY DecoderAssumption
  <2>2. /\ key.result \in Results
        /\ key.result = "OK" => key.string \in Seq(Letters) /\ key.next \in p + 1 .. End + 1
    BY <1>0, <1>4, <1>d, <2>1, DecodeStringFacts
  <2> HIDE DEF key
  <2>3. CASE key.result # "OK"
    <3>1. Fail(key.result)
      BY <1>d, <2>3 DEF D
    <3> QED
      BY <1>0, <2>2, <2>3, <3>1, FailKeeps
  <2>4. CASE key.result = "OK"
    <3>1. key.string \in Seq(Letters) /\ key.next \in 1 .. End + 1
      BY <1>3, <1>4, <2>2, <2>4
    <3>2. colon \in 1 .. End + 1
      BY <1>0, <1>3, <3>1, SkipSpaceFacts
    <3> HIDE DEF colon, same
    <3>3. \/ Fail("INCOMPLETE")
          \/ Fail("INVALID_CHARACTER")
          \/ colon <= End /\ ptr' = colon + 1 /\ name' = key.string /\ pc' = "element" /\ same
      BY <1>3, <1>d, <2>4, <3>2 DEF D
    <3>4. CASE Fail("INCOMPLETE") \/ Fail("INVALID_CHARACTER")
      BY <1>0, <1>5, <3>4, FailKeeps
    <3>5. CASE colon <= End /\ ptr' = colon + 1 /\ name' = key.string /\ pc' = "element" /\ same
      <4>1. colon + 1 \in 1 .. End + 1
        BY <1>3, <3>2, <3>5
      <4>2. use = "file" => key.string # NoName
        BY <1>0, <3>1, StringFacts
      <4>3. ptr' = colon + 1 /\ name' \in Seq(Letters) /\ (use = "file" => name' # NoName)
        BY <3>1, <3>5, <4>2
      <4> QED
        BY <1>0, <3>5, <4>1, <4>3, MoveKeeps DEF same
    <3> QED
      BY <3>3, <3>4, <3>5
  <2> QED
    BY <2>3, <2>4
<1> QED
  BY <1>7, <1>a, <1>b, <1>c, <1>d

-----------------------------------------------------------------------------
(* The end, and the theorems.                                               *)

(* An ended text.                                                            *)
LEMMA EndedFacts ==
    ASSUME NEW c, NEW m, Stands(c, m), c.isObject = <<>>, c.first = FALSE
    PROVE  WellFormed(c.text) /\ Members(c.text) = m
<1>1. PICK a \in Places(c) : State(c) = Point(a, Braces(<<>>), m)
  BY DEF Stands
<1>2. Braces(<<>>) = <<>>
  <2>1. <<>> \in Seq(BOOLEAN)
    OBVIOUS
  <2> QED
    BY <2>1, BracesFacts
<1>3. Level(c) = 0
  BY DEF Level
<1>4. a \in {"end", "scalar"}
  BY <1>3 DEF Places
<1>5. ReadAll(Begin, c.text) = [at |-> a, open |-> <<>>, members |-> m]
  BY <1>1, <1>2 DEF State, Point
<1> QED
  BY <1>4, <1>5 DEF WellFormed, Members

(* The members that a report can end with.                                   *)
LEMMA Appended ==
    ASSUME NEW a \in {"e"}, NEW b \in {"z"}
    PROVE  Append(<<>>, b) = <<b>> /\ Append(<<a>>, b) = <<a, b>>
<1>1. Append(<<>>, b) = <<b>>
  OBVIOUS
<1>2. <<a>> \in Seq({a, b}) /\ Len(<<a>>) = 1 /\ <<a>>[1] = a
  OBVIOUS
<1>3. Append(<<a>>, b) \in Seq({a, b}) /\ Len(Append(<<a>>, b)) = 2
      /\ \A i \in 1 .. 2 : Append(<<a>>, b)[i] = IF i <= 1 THEN <<a>>[i] ELSE b
  BY <1>2, AppendProperties
<1>4. Append(<<a>>, b)[1] = a /\ Append(<<a>>, b)[2] = b
  BY <1>2, <1>3
<1>5. <<a, b>> \in Seq({a, b}) /\ Len(<<a, b>>) = 2 /\ <<a, b>>[1] = a /\ <<a, b>>[2] = b
  OBVIOUS
<1>6. Append(<<a>>, b) = <<a, b>>
  <2> DEFINE s == Append(<<a>>, b)
             t == <<a, b>>
  <2>1. \A i \in 1 .. Len(s) : s[i] = t[i]
    BY <1>3, <1>4, <1>5
  <2> QED
    BY <1>3, <1>5, <2>1, SeqEqual
<1> QED
  BY <1>1, <1>6

(* The section that the report ends with has a name and a scalar value.      *)
LEMMA LastSection ==
    /\ Scalar(<<"1">>) /\ <<"1">> \in Seq(Chars)
    /\ <<"z">> \in Seq(Chars) /\ "NUL" \notin Range(<<"z">>) /\ "control" \notin Range(<<"z">>)
<1>1. "1" \in Chars /\ "1" \notin Structure
  BY DEF Chars, Literals, Structure
<1> QED
  BY <1>1, NamesTyped DEF Scalar

(* Closing what is open and adding that section makes a whole report.        *)
LEMMA FileEnds ==
    ASSUME NEW c \in Encoders, c.room = NoLimit, NEW m \in {<<>>, <<"e">>}, Stands(c, m),
           Level(c) >= 1, c.isObject[1] = TRUE
    PROVE  LET d == EndEncode(AddElement(CloseTo(c, 1), <<"z">>, <<"1">>))
           IN  /\ d \in Encoders /\ WellFormed(d.text)
               /\ Members(d.text) \in {<<"e", "z">>, <<"z">>}
<1> DEFINE a == CloseTo(c, 1)
           b == AddElement(a, <<"z">>, <<"1">>)
           d == EndEncode(b)
<1>0. c.isObject \in Seq(BOOLEAN) /\ Level(c) = Len(c.isObject)
  BY EncoderFields
<1>1. a \in Encoders /\ a.room = NoLimit /\ Stands(a, m) /\ a.isObject = SubSeq(c.isObject, 1, 1)
  BY CloseToFacts
<1> HIDE DEF a
<1>2. Len(SubSeq(c.isObject, 1, 1)) = 1 /\ (SubSeq(c.isObject, 1, 1)[1] <=> c.isObject[1])
  BY <1>0
<1>3. Level(a) = 1 /\ InObject(a)
  BY <1>1, <1>2 DEF Level, InObject
<1>4. Ready(a, m)
  BY <1>1, <1>3, StandsReady
<1>5. /\ Stays(a, b) /\ b.first = FALSE
      /\ a.room = NoLimit /\ "control" \notin Range(<<"z">>) /\ (InObject(a) => <<"z">> # NoName) => OK(b)
      /\ OK(b) => \A l : Ready(a, l) => \E k : Stands(b, k) /\ Gains(a, <<"z">>, l, k)
  BY <1>1, LastSection, AddElementFacts
<1> HIDE DEF b
<1>6. <<"z">> # NoName
  BY NamesTyped
<1>7. OK(b)
  BY <1>1, <1>5, <1>6, LastSection
<1>8. PICK k : Stands(b, k) /\ Gains(a, <<"z">>, m, k)
  BY <1>4, <1>5, <1>7
<1>9. b \in Encoders /\ b.room = NoLimit /\ Level(b) = 1
  BY <1>1, <1>3, <1>5, StaysLevel
<1>10. /\ d \in Encoders
       /\ d.isObject = <<>> /\ d.first = FALSE /\ Stands(d, k)
  BY <1>8, <1>9, EndEncodeFacts
<1> HIDE DEF d
<1>11. k = Append(m, "z")
  BY <1>3, <1>8 DEF Gains
<1>12. Append(<<>>, "z") = <<"z">> /\ Append(<<"e">>, "z") = <<"e", "z">>
  BY Appended
<1>13. k \in {<<"e", "z">>, <<"z">>}
  BY <1>11, <1>12
<1>14. WellFormed(d.text) /\ Members(d.text) = k
  BY <1>10, EndedFacts
<1> QED
  BY <1>10, <1>13, <1>14 DEF d, b, a

(* After the user's section the context is still one.                        *)
LEMMA ElementEnds ==
    ASSUME TypeOK
    PROVE  EndEncode(AddElement(EndContainer(AddJSONElement(enc)), <<"z">>, <<"1">>)) \in Encoders
<1>1. enc \in Encoders
  BY DEF TypeOK, Encoders
<1> DEFINE a == BeginContainer(enc, <<"e">>, TRUE)
           b == AddStringElement(a, <<"r">>, <<"x">>)
           c == AddStringElement(b, <<"j">>, text)
           d == AddJSONElement(enc)
           e == AddElement(EndContainer(d), <<"z">>, <<"1">>)
<1>t. text \in Seq(Chars) /\ "NUL" \notin Range(text)
  BY TextFacts
<1>2. a \in Encoders
  BY <1>1, NamesTyped, BeginContainerFacts
<1> HIDE DEF a
<1>3. b \in Encoders
  BY <1>2, NamesTyped, AddStringElementFacts, StaysLevel
<1> HIDE DEF b
<1>4. c \in Encoders
  BY <1>t, <1>3, NamesTyped, AddStringElementFacts, StaysLevel
<1> HIDE DEF c
<1>5. EndContainer(c) \in Encoders
  BY <1>4, EndContainerFacts
<1>6. d = IF result = "OK" THEN enc ELSE EndContainer(c)
  BY DEF AddJSONElement, a, b, c
<1>7. d \in Encoders
  BY <1>1, <1>5, <1>6
<1> HIDE DEF d
<1>8. EndContainer(d) \in Encoders
  BY <1>7, EndContainerFacts
<1>9. e \in Encoders
  BY <1>8, LastSection, AddElementFacts, StaysLevel
<1> HIDE DEF e
<1>10. EndEncode(e) \in Encoders
  BY <1>9, EndEncodeFacts
<1> QED
  BY <1>10 DEF e, d

(* An output of the fixer with nothing open is a whole text.                 *)
LEMMA FixEnds ==
    ASSUME NEW c \in Encoders, Fits(c), c.isObject = <<>>, c.first = FALSE
    PROVE  WellFormed(EndEncode(c).text)
<1>1. Level(c) = 0
  BY DEF Level
<1>2. EndEncode(c) = Call(c)
  BY <1>1, EndEncodeFacts
<1>3. Call(c).text = c.text
  BY DEF Call, Encoders, Contexts
<1>4. WellFormed(c.text)
  BY FitsStands, EndedFacts
<1> QED
  BY <1>2, <1>3, <1>4

(* The last step keeps the invariant, and establishes what it says of the    *)
(* end.                                                                      *)
LEMMA FinishKeeps ==
    ASSUME CodecInv, Finish
    PROVE  CodecInv'
<1>0. TypeOK /\ WindowFits /\ FramesFit /\ TextFits /\ MembersFit
  BY DEF CodecInv
<1> DEFINE f == EndEncode(AddElement(CloseTo(enc, 1), <<"z">>, <<"1">>))
           e == EndEncode(AddElement(EndContainer(AddJSONElement(enc)), <<"z">>, <<"1">>))
           x == EndEncode(enc)
<1>1. /\ pc = "finish" /\ pc' = "done"
      /\ enc' = CASE use = "file" -> f
                  [] use = "element" -> e
                  [] use = "fix" /\ result = "OK" -> x
                  [] OTHER -> enc
      /\ use' = use /\ text' = text /\ window' = window /\ ptr' = ptr /\ pos' = pos /\ eof' = eof
      /\ frames' = frames /\ name' = name /\ result' = result
  BY DEF Finish
<1>2. enc \in Encoders /\ frames \in Seq(BOOLEAN)
  BY <1>0 DEF TypeOK, Encoders
<1>3. use = "file" => /\ f \in Encoders /\ WellFormed(f.text)
                      /\ Members(f.text) \in {<<"e", "z">>, <<"z">>}
  <2> SUFFICES ASSUME use = "file"
               PROVE  /\ f \in Encoders /\ WellFormed(f.text)
                      /\ Members(f.text) \in {<<"e", "z">>, <<"z">>}
    OBVIOUS
  <2>1. Fits(enc) /\ enc.room = NoLimit /\ enc.isObject = <<TRUE>> \o frames
    BY <1>0, <1>1 DEF TextFits
  <2>2. State(enc).members \in {<<>>, <<"e">>}
    BY <1>0, <1>1, MembersAreState DEF MembersFit
  <2>3. Stands(enc, State(enc).members)
    BY <2>1, FitsStands
  <2>4. Level(enc) >= 1 /\ enc.isObject[1] = TRUE
    <3>1. Level(enc) = Len(enc.isObject)
      BY <1>2, EncoderFields
    <3> QED
      BY <1>2, <2>1, <3>1, InFront
  <2> QED
    BY <1>2, <2>1, <2>2, <2>3, <2>4, FileEnds
<1>4. e \in Encoders
  BY <1>0, ElementEnds
<1>5. x \in Encoders
  BY <1>2, EndEncodeFacts
<1>6. FixesFinite /\ result = "OK" => WellFormed(x.text)
  <2> SUFFICES ASSUME FixesFinite, result = "OK" PROVE WellFormed(x.text)
    OBVIOUS
  <2>1. Fits(enc) /\ enc.isObject = <<>> /\ enc.first = FALSE
    BY <1>0, <1>1, <1>2, EncoderFields DEF TextFits
  <2> QED
    BY <1>2, <2>1, FixEnds
<1> HIDE DEF f, e, x
<1>7. enc' \in Encoders
  BY <1>1, <1>2, <1>3, <1>4, <1>5
<1>8. TypeOK'
  BY <1>0, <1>1, <1>7 DEF TypeOK, End, Encoders
<1>9. WindowFits'
  BY <1>0, <1>1 DEF WindowFits, End
<1>10. FramesFit'
  <2>1. Letters' = Letters
    BY <1>1 DEF Letters
  <2> QED
    BY <1>0, <1>1, <2>1 DEF FramesFit
<1>11. TextFits' /\ MembersFit'
  BY <1>1 DEF TextFits, MembersFit
<1>12. ReportStaysWhole'
  <2>1. use = "file" => enc' = f
    BY <1>1
  <2> QED
    BY <1>1, <1>3, <2>1 DEF ReportStaysWhole
<1>13. FixedReadable'
  <2>1. FixesFinite /\ result = "OK" => enc' = x
    BY <1>1 DEF FixesFinite
  <2> QED
    BY <1>1, <1>6, <2>1 DEF FixedReadable, FixesFinite
<1> QED
  BY <1>8, <1>9, <1>10, <1>11, <1>12, <1>13 DEF CodecInv

-----------------------------------------------------------------------------
(* The fixer's output is empty and has room for 1.5 times the text.          *)
LEMMA OutputFacts ==
    ASSUME NEW t, Len(t) \in Nat
    PROVE  /\ Output(t) \in Encoders /\ Fits(Output(t)) /\ Output(t).isObject = <<>>
           /\ Output(t).first = TRUE
<1> DEFINE l == Len(t)
           room == (l * 3) \div 2
<1>1. room \in Nat
  <2> HIDE DEF l
  <2>1. l \in Nat
    BY DEF l
  <2> QED
    BY <2>1
<1>2. Output(t) = BeginEncode(TRUE, room)
  BY DEF Output
<1> HIDE DEF room
<1>3. LET c == BeginEncode(TRUE, room)
      IN  c \in Encoders /\ c.isObject = <<>> /\ c.first = TRUE /\ Stands(c, <<>>)
  BY <1>1, BeginFacts
<1> QED
  BY <1>2, <1>3, FitsStands

(* The invariant holds at the start.                                         *)
LEMMA InitCodec ==
    ASSUME Init
    PROVE  CodecInv
<1>1. /\ use \in Uses /\ text \in Texts[use] /\ pos = 0 /\ eof = FALSE /\ frames = <<>> /\ result = "OK"
      /\ window = IF use = "file" THEN [i \in 1 .. BufferSize |-> "NUL"] ELSE text
      /\ ptr = IF use = "file" THEN BufferSize + 1 ELSE 1
      /\ name = IF use = "fix" THEN NoName ELSE <<"e">>
      /\ enc = IF use = "fix" THEN Output(text) ELSE Report
      /\ pc = IF use = "file" THEN "load" ELSE "element"
  BY DEF Init
<1>2. use \in {"file", "element", "fix"} /\ BufferSize \in Nat \ {0, 1} /\ text \in Seq(Range(text))
  BY <1>1, DecoderAssumption
<1>3. Len(text) \in Nat /\ \A i \in 1 .. Len(text) : text[i] # "NUL"
  <2>1. Range(text) \cap {"NUL"} = {}
    BY <1>1, TextAssumption
  <2>2. \A i \in 1 .. Len(text) : text[i] \in Range(text)
    BY <1>2
  <2> QED
    BY <1>2, <2>1, <2>2
<1>4. /\ Output(text) \in Encoders /\ Fits(Output(text)) /\ Output(text).isObject = <<>>
      /\ Output(text).first = TRUE
  BY <1>3, OutputFacts
<1>5. /\ Report \in Encoders /\ Report.room = NoLimit /\ Report.isObject = <<TRUE>>
      /\ Stands(Report, <<>>)
  BY ReportFacts
<1> DEFINE blank == [i \in 1 .. BufferSize |-> "NUL"]
<1>6. /\ blank \in Seq(Range(text) \cup {"NUL"}) /\ Len(blank) = BufferSize
      /\ \A i \in 1 .. BufferSize : blank[i] = "NUL"
  BY <1>2
<1> HIDE DEF blank
<1>7. use = "file" => window = blank /\ ptr = End + 1 /\ End = BufferSize
  BY <1>1, <1>6 DEF End, blank
<1>8. use # "file" => window = text /\ ptr = 1 /\ End = Len(text)
  BY <1>1 DEF End
<1>9. enc \in Encoders
  BY <1>1, <1>4, <1>5
<1>10. TypeOK
  <2>1. ptr \in 1 .. End + 1
    BY <1>2, <1>3, <1>7, <1>8
  <2>2. frames \in Seq(BOOLEAN) /\ pos \in 0 .. Len(text) /\ result \in Results
    BY <1>1, <1>3 DEF Results
  <2>3. pc \in {"load", "element", "next", "comma", "finish", "done"}
    BY <1>1
  <2> QED
    BY <1>1, <1>7, <1>9, <2>1, <2>2, <2>3 DEF TypeOK, Encoders
<1>11. WindowFits
  <2>1. window \in Seq(Range(text) \cup {"NUL"})
    <3>1. text \in Seq(Range(text) \cup {"NUL"})
      BY <1>2
    <3> QED
      BY <1>6, <1>7, <1>8, <3>1
  <2>2. \A i \in 1 .. End : \A j \in i .. End : window[i] = "NUL" => window[j] = "NUL"
    BY <1>2, <1>3, <1>6, <1>7, <1>8
  <2> QED
    BY <1>1, <1>7, <1>8, <2>1, <2>2 DEF WindowFits
<1>12. FramesFit
  BY <1>1 DEF FramesFit
<1>13. TextFits
  <2>1. use = "file" => Fits(enc) /\ enc.room = NoLimit /\ enc.isObject = <<TRUE>> \o frames
    <3>1. <<TRUE>> \o <<>> = <<TRUE>>
      OBVIOUS
    <3> QED
      BY <1>1, <1>5, <3>1, FitsStands
  <2>2. FixesFinite => Fits(enc) /\ enc.isObject = frames /\ enc.first
    BY <1>1, <1>4 DEF FixesFinite
  <2>3. pc # "finish" /\ pc # "done"
    BY <1>1
  <2> QED
    BY <1>1, <2>1, <2>2, <2>3 DEF TextFits
<1>14. MembersFit
  <2>1. use = "file" => Members(enc.text) = <<>>
    BY <1>1, <1>5, FitsStands, MembersAreState
  <2> QED
    BY <1>1, <2>1 DEF MembersFit
<1>15. ReportStaysWhole /\ FixedReadable
  BY <1>1 DEF ReportStaysWhole, FixedReadable
<1> QED
  BY <1>10, <1>11, <1>12, <1>13, <1>14, <1>15 DEF CodecInv

(* A step that changes nothing keeps it.                                     *)
LEMMA StutterCodec ==
    ASSUME CodecInv, UNCHANGED vars
    PROVE  CodecInv'
<1>1. /\ use' = use /\ text' = text /\ window' = window /\ ptr' = ptr /\ pos' = pos /\ eof' = eof
      /\ frames' = frames /\ name' = name /\ enc' = enc /\ pc' = pc /\ result' = result
  BY DEF vars
<1>2. TypeOK' = TypeOK
  BY <1>1 DEF TypeOK, End
<1>3. WindowFits' = WindowFits
  BY <1>1 DEF WindowFits, End
<1>4. FramesFit' = FramesFit
  BY <1>1 DEF FramesFit, Letters
<1>5. TextFits' = TextFits /\ MembersFit' = MembersFit
  BY <1>1 DEF TextFits, MembersFit, FixesFinite
<1>6. ReportStaysWhole' = ReportStaysWhole /\ FixedReadable' = FixedReadable
  BY <1>1 DEF ReportStaysWhole, FixedReadable, FixesFinite
<1> QED
  BY <1>2, <1>3, <1>4, <1>5, <1>6 DEF CodecInv

(* The inductive invariant of the decoding encoder: where the text of each   *)
(* context stands and what it has open agree with the decoder's frames.      *)
THEOREM CodecInvariant == Spec => []CodecInv
<1>1. Init => CodecInv
  BY InitCodec
<1>2. CodecInv /\ [Next]_vars => CodecInv'
  <2> SUFFICES ASSUME CodecInv, [Next]_vars PROVE CodecInv'
    OBVIOUS
  <2>1. CASE Load
    BY <2>1, LoadKeeps
  <2>2. CASE DecodeElement
    BY <2>2, DecodeElementKeeps
  <2>3. CASE NextInContainer
    BY <2>3, NextInContainerKeeps
  <2>4. CASE SkipComma
    BY <2>4, SkipCommaKeeps
  <2>5. CASE Finish
    BY <2>5, FinishKeeps
  <2>6. CASE UNCHANGED vars
    BY <2>6, StutterCodec
  <2> QED
    BY <2>1, <2>2, <2>3, <2>4, <2>5, <2>6 DEF Next
<1> QED
  BY <1>1, <1>2, PTL DEF Spec

(* The types of the codec hold in every step, for every text and size.       *)
THEOREM CodecTypes == Spec => []TypeOK
<1>1. CodecInv => TypeOK
  BY DEF CodecInv
<1> QED
  BY <1>1, CodecInvariant, PTL

(* Wherever the file of a report breaks off and whatever it holds (but for   *)
(* control characters), addJSONFromFile leaves a well-formed report whose    *)
(* last section is a member of its root.                                     *)
THEOREM ReportIsWhole == Spec => []ReportStaysWhole
<1>1. CodecInv => ReportStaysWhole
  BY DEF CodecInv
<1> QED
  BY <1>1, CodecInvariant, PTL

(* What fixupCrashReport hands out rather than NULL is well formed, whatever *)
(* text it is given that has no number too large for a double.               *)
THEOREM FixedIsReadable == Spec => []FixedReadable
<1>1. CodecInv => FixedReadable
  BY DEF CodecInv
<1> QED
  BY <1>1, CodecInvariant, PTL
=============================================================================
