-------------------------- MODULE BufferedFiles_proofs -----------------------
(* Proofs about the two buffered ends of a file, BufferedReader and          *)
(* BufferedWriter: for any log, any lengths of the buffer and of a line and  *)
(* any growth of the log; and for any calls of the writer and any number of  *)
(* writes that fail.  The two have no variable in common.                    *)
EXTENDS BufferedReader, BufferedWriter, SequenceTheorems, TLAPS

-----------------------------------------------------------------------------
(* The reader.                                                               *)

(* The lesser of two numbers.                                               *)
LEMMA Min2Facts ==
    ASSUME NEW a \in Nat, NEW b \in Nat
    PROVE  Min2(a, b) \in Nat /\ Min2(a, b) <= a /\ Min2(a, b) <= b
  BY DEF Min2

(* In an empty buffer fillReadBuffer moves only what nobody reads: what it  *)
(* has read stands at the beginning, with the terminator behind it.         *)
LEMMA FillKeeps ==
    ASSUME TypeOK, NothingLost, dataStartPos = dataEndPos, FillReadBuffer, UNCHANGED <<log, delivered>>
    PROVE  /\ NothingLost'
           /\ offset' \in 0..Len(file) /\ buffer' \in Memory
           /\ dataEndPos' \in 0..BufferLength /\ dataStartPos' = 0
           /\ buffer'[dataEndPos'] = "nul"
           /\ failed' \in BOOLEAN
<1> USE DEF log
<1>1. InReader = 0 /\ BufferLength \in Nat /\ Len(file) \in Nat /\ offset \in 0..Len(file)
      /\ Len(delivered) = offset /\ delivered \in Seq(Chars) /\ file \in Seq(Chars)
  BY ReaderAssumption DEF TypeOK, NothingLost, InReader
<1>2. PICK n \in 0..Min2(BufferLength, Len(file) - offset), b \in Moved :
        /\ buffer' = [i \in 0..BufferLength |->
                        IF i \in 0..(n - 1) THEN file[offset + i + 1]
                        ELSE IF i = n THEN "nul" ELSE b[i]]
        /\ dataStartPos' = 0
        /\ dataEndPos' = n
        /\ offset' = offset + n
        /\ failed' = (failed \/ (n = 0 /\ offset < Len(file)))
  BY <1>1 DEF FillReadBuffer
<1>3. n \in Nat /\ n <= BufferLength /\ n <= Len(file) - offset
  <2>1. Len(file) - offset \in Nat
    BY <1>1
  <2>2. Min2(BufferLength, Len(file) - offset) \in Nat
        /\ Min2(BufferLength, Len(file) - offset) <= BufferLength
        /\ Min2(BufferLength, Len(file) - offset) <= Len(file) - offset
    BY <1>1, <2>1, Min2Facts
  <2> QED
    BY <1>1, <1>2, <2>2
<1>4. b \in Memory
  BY <1>2 DEF Moved, TypeOK
<1>5. buffer' \in Memory
  <2>1. \A i \in 0..(n - 1) : file[offset + i + 1] \in Cells
    BY <1>1, <1>3 DEF Cells
  <2>2. "nul" \in Cells /\ \A i \in 0..BufferLength : b[i] \in Cells
    BY <1>4 DEF Memory, Cells
  <2> QED
    BY <1>2, <2>1, <2>2 DEF Memory
<1>6. buffer'[n] = "nul"
  BY <1>1, <1>2, <1>3
<1>7. offset' \in 0..Len(file) /\ dataEndPos' \in 0..BufferLength
  BY <1>1, <1>2, <1>3
<1>8. NothingLost'
  <2>1. InReader' = n /\ Len(delivered') = offset /\ offset' = offset + n
    BY <1>1, <1>2, <1>3 DEF InReader
  <2>2. ASSUME NEW i \in 1..offset', i <= offset
        PROVE  file[i] = delivered[i]
    BY <1>1, <2>2 DEF NothingLost
  <2>3. ASSUME NEW i \in 1..offset', ~(i <= offset)
        PROVE  file[i] = buffer'[i - offset - 1]
    <3>1. i - offset - 1 \in 0..(n - 1) /\ i - offset - 1 \in 0..BufferLength
      BY <1>1, <1>3, <2>1, <2>3
    <3>2. offset + (i - offset - 1) + 1 = i
      BY <1>1, <2>1
    <3> QED
      BY <1>2, <3>1, <3>2
  <2> QED
    BY <1>1, <1>2, <1>3, <2>1, <2>2, <2>3 DEF NothingLost
<1>9. failed' \in BOOLEAN
  BY <1>2 DEF TypeOK
<1> QED
  BY <1>2, <1>5, <1>6, <1>7, <1>8, <1>9

(* What the buffer holds is text, so that strchr sees all of it and nothing *)
(* behind it.                                                               *)
LEMMA HitsFacts ==
    ASSUME TypeOK, NothingLost
    PROVE  /\ \A q \in dataStartPos..(dataEndPos - 1) : buffer[q] \in Chars
           /\ \A p \in Hits : p \in dataStartPos..(dataEndPos - 1) /\ buffer[p] = "nl"
           /\ \A q \in dataStartPos..(dataEndPos - 1) : buffer[q] = "nl" => q \in Hits
<1>1. /\ BufferLength \in Nat /\ dataEndPos \in 0..BufferLength /\ dataStartPos \in 0..dataEndPos
      /\ buffer[dataEndPos] = "nul" /\ offset \in 0..Len(file) /\ file \in Seq(Chars)
      /\ Len(file) \in Nat /\ Len(delivered) \in Nat
  BY ReaderAssumption DEF TypeOK
<1>2. ASSUME NEW q \in dataStartPos..(dataEndPos - 1)
      PROVE  buffer[q] \in Chars
  <2>1. InReader = dataEndPos - dataStartPos /\ InReader = offset - Len(delivered)
    BY DEF InReader, NothingLost
  <2> DEFINE i == q - dataStartPos + Len(delivered) + 1
  <2>2. i \in 1..offset /\ i > Len(delivered) /\ dataStartPos + i - Len(delivered) - 1 = q
    BY <1>1, <1>2, <2>1
  <2>3. file[i] = buffer[q]
    BY <1>1, <2>2 DEF NothingLost
  <2>4. file[i] \in Chars
    BY <1>1, <2>2
  <2> QED
    BY <2>3, <2>4
<1>3. \A p \in Hits : p \in dataStartPos..(dataEndPos - 1) /\ buffer[p] = "nl"
  BY <1>1 DEF Hits
<1>4. ASSUME NEW q \in dataStartPos..(dataEndPos - 1), buffer[q] = "nl"
      PROVE  q \in Hits
  <2>1. q \in dataStartPos..BufferLength
    BY <1>1
  <2>2. \A r \in dataStartPos..q : r \in dataStartPos..(dataEndPos - 1)
    BY <1>1
  <2>3. \A r \in dataStartPos..q : buffer[r] # "nul"
    BY <1>2, <2>2 DEF Chars
  <2> QED
    BY <1>4, <2>1, <2>3 DEF Hits
<1> QED
  BY <1>2, <1>3, <1>4

(* A turn of the search copies no more than there is or is asked for, no    *)
(* newline but as the last character, and all there is unless it meets one  *)
(* or the limit.                                                            *)
LEMMA CopiesFacts ==
    ASSUME TypeOK, NothingLost, Consumed < Limit, NEW n \in 0..BufferLength, Copies(n)
    PROVE  /\ n <= InReader /\ n <= Limit - Consumed
           /\ \A q \in dataStartPos..(dataStartPos + n - 2) : buffer[q] # "nl"
           /\ Hits = {} => \A q \in dataStartPos..(dataEndPos - 1) : buffer[q] # "nl"
           /\ Hits = {} => n = InReader \/ n = Limit - Consumed
           /\ Hits # {} =>
                 /\ n > 0
                 /\ \/ buffer[dataStartPos + n - 1] = "nl"
                    \/ n = Limit - Consumed
                       /\ \E q \in (dataStartPos + n)..(dataEndPos - 1) : buffer[q] = "nl"
<1> DEFINE most == Min2(InReader, Limit - Consumed)
<1>1. /\ dataEndPos \in Nat /\ dataStartPos \in 0..dataEndPos /\ Len(delivered) \in Nat
      /\ before \in 0..Len(delivered) /\ Limit \in Nat
  BY ReaderAssumption DEF TypeOK
<1>2. InReader \in Nat /\ Limit - Consumed \in Nat /\ Limit - Consumed > 0
      /\ dataEndPos = dataStartPos + InReader
  BY <1>1 DEF InReader, Consumed
<1>3. most \in Nat /\ most <= InReader /\ most <= Limit - Consumed
      /\ (most = InReader \/ most = Limit - Consumed)
  BY <1>2 DEF Min2
<1> HIDE DEF most
<1>4. CASE Hits = {}
  <2>1. n = most
    BY <1>4 DEF Copies, most
  <2>2. \A q \in dataStartPos..(dataEndPos - 1) : buffer[q] # "nl"
    BY <1>4, HitsFacts
  <2>3. \A q \in dataStartPos..(dataStartPos + n - 2) : q \in dataStartPos..(dataEndPos - 1)
    BY <1>1, <1>2, <1>3, <2>1
  <2> QED
    BY <1>3, <1>4, <2>1, <2>2, <2>3
<1>5. CASE Hits # {}
  <2>1. PICK p \in Hits : (\A q \in Hits : p <= q) /\ n = Min2(most, p - dataStartPos + 1)
    BY <1>5 DEF Copies, most
  <2>2. p \in dataStartPos..(dataEndPos - 1) /\ buffer[p] = "nl"
    BY <2>1, HitsFacts
  <2>3. p - dataStartPos + 1 \in Nat /\ p - dataStartPos + 1 > 0 /\ p - dataStartPos + 1 <= InReader
    BY <1>1, <1>2, <2>2
  <2>4. n \in Nat /\ n <= most /\ n <= p - dataStartPos + 1 /\ (n = most \/ n = p - dataStartPos + 1)
    BY <1>3, <2>1, <2>3 DEF Min2
  <2>5. ASSUME NEW q \in dataStartPos..(dataStartPos + n - 2)
        PROVE  buffer[q] # "nl"
    <3>1. q < p /\ q \in dataStartPos..(dataEndPos - 1)
      BY <1>1, <2>2, <2>4
    <3>2. q \notin Hits
      BY <1>1, <2>1, <2>2, <3>1
    <3> QED
      BY <3>1, <3>2, HitsFacts
  <2>6. n > 0
    BY <1>1, <1>2, <1>3, <2>3, <2>4 
  <2>7. CASE n = p - dataStartPos + 1
    <3>1. dataStartPos + n - 1 = p
      BY <1>1, <2>2, <2>7
    <3>2. n <= InReader /\ n <= Limit - Consumed /\ buffer[dataStartPos + n - 1] = "nl"
      BY <1>2, <1>3, <2>2, <2>4, <3>1
    <3> QED
      BY <1>5, <2>5, <2>6, <3>2
  <2>8. CASE n # p - dataStartPos + 1
    <3>1. n = Limit - Consumed /\ p \in (dataStartPos + n)..(dataEndPos - 1)
      BY <1>1, <1>2, <1>3, <2>2, <2>3, <2>4, <2>8
    <3> QED
      BY <1>2, <1>3, <1>5, <2>2, <2>4, <2>5, <2>6, <3>1
  <2> QED
    BY <2>7, <2>8
<1> QED
  BY <1>4, <1>5

(* What a turn of the search leaves in delivered.                           *)
LEMMA ScanDelivers ==
    ASSUME TypeOK, NothingLost, NEW n \in 0..BufferLength, n <= InReader,
           delivered' = delivered \o [i \in 1..n |-> buffer[dataStartPos + i - 1]]
    PROVE  /\ delivered' \in Seq(Chars)
           /\ Len(delivered') = Len(delivered) + n
           /\ \A i \in 1..Len(delivered) : delivered'[i] = delivered[i]
           /\ \A i \in (Len(delivered) + 1)..(Len(delivered) + n) :
                 delivered'[i] = buffer[dataStartPos + i - Len(delivered) - 1]
<1> DEFINE s == [i \in 1..n |-> buffer[dataStartPos + i - 1]]
<1>1. /\ n \in Nat /\ dataEndPos \in Nat /\ dataStartPos \in 0..dataEndPos
      /\ delivered \in Seq(Chars) /\ Len(delivered) \in Nat
  BY ReaderAssumption DEF TypeOK
<1>2. \A i \in 1..n : buffer[dataStartPos + i - 1] \in Chars
  <2>1. \A i \in 1..n : dataStartPos + i - 1 \in dataStartPos..(dataEndPos - 1)
    BY <1>1 DEF InReader
  <2> QED
    BY <2>1, HitsFacts
<1>3. s \in Seq(Chars) /\ Len(s) = n
  BY <1>1, <1>2
<1>4. delivered' = delivered \o s
  OBVIOUS
<1>5. \A i \in 1..n : s[i] = buffer[dataStartPos + i - 1]
  OBVIOUS
<1> HIDE DEF s
<1>6. /\ delivered' \in Seq(Chars) /\ Len(delivered') = Len(delivered) + n
      /\ \A i \in 1..(Len(delivered) + n) :
            delivered'[i] = IF i <= Len(delivered) THEN delivered[i] ELSE s[i - Len(delivered)]
  <2>1. /\ delivered \o s \in Seq(Chars)
        /\ Len(delivered \o s) = Len(delivered) + Len(s)
        /\ \A i \in 1 .. Len(delivered) + Len(s) :
              (delivered \o s)[i] = IF i <= Len(delivered) THEN delivered[i] ELSE s[i - Len(delivered)]
    BY <1>1, <1>3, ConcatProperties
  <2> QED
    BY <1>3, <1>4, <2>1, Zenon
<1>7. \A i \in 1..Len(delivered) : delivered'[i] = delivered[i]
  BY <1>1, <1>6
<1>8. ASSUME NEW i \in (Len(delivered) + 1)..(Len(delivered) + n)
      PROVE  delivered'[i] = buffer[dataStartPos + i - Len(delivered) - 1]
  <2>1. i - Len(delivered) \in 1..n /\ i \in 1..(Len(delivered) + n) /\ i > Len(delivered)
    BY <1>1
  <2>2. delivered'[i] = s[i - Len(delivered)]
    <3>1. ~(i <= Len(delivered))
      BY <1>1, <2>1
    <3> QED
      BY <1>6, <2>1, <3>1, Zenon
  <2>3. dataStartPos + (i - Len(delivered)) - 1 = dataStartPos + i - Len(delivered) - 1
    BY <1>1
  <2> QED
    BY <1>5, <2>1, <2>2, <2>3
<1> QED
  BY <1>6, <1>7, <1>8

LEMMA ScanKeeps ==
    ASSUME ReaderInv, Scan PROVE ReaderInv'
<1>1. /\ TypeOK /\ Places /\ AtEnd /\ NothingLost /\ StopsAtChar /\ TrueMeansAhead
      /\ pc = "scan" /\ Consumed < Limit
  BY DEF ReaderInv, Scan, Places
<1>2. PICK n \in 0..BufferLength :
        /\ Copies(n)
        /\ delivered' = delivered \o [i \in 1..n |-> buffer[dataStartPos + i - 1]]
        /\ dataStartPos' = dataStartPos + n
        /\ found' = (Hits # {})
        /\ pc' = IF Hits = {} /\ Consumed + n < Limit THEN "fill" ELSE "returned"
  BY DEF Scan
<1>3. UNCHANGED <<log, offset, buffer, dataEndPos, before, failed, lines>>
  BY DEF Scan
<1>4. UNCHANGED <<file, grown>>
  BY <1>3 DEF log
<1>5. /\ n <= InReader /\ n <= Limit - Consumed
      /\ \A q \in dataStartPos..(dataStartPos + n - 2) : buffer[q] # "nl"
      /\ Hits = {} => \A q \in dataStartPos..(dataEndPos - 1) : buffer[q] # "nl"
      /\ Hits = {} => n = InReader \/ n = Limit - Consumed
      /\ Hits # {} =>
            /\ n > 0
            /\ \/ buffer[dataStartPos + n - 1] = "nl"
               \/ n = Limit - Consumed
                  /\ \E q \in (dataStartPos + n)..(dataEndPos - 1) : buffer[q] = "nl"
  BY <1>1, <1>2, CopiesFacts
<1>6. /\ delivered' \in Seq(Chars)
      /\ Len(delivered') = Len(delivered) + n
      /\ \A i \in 1..Len(delivered) : delivered'[i] = delivered[i]
      /\ \A i \in (Len(delivered) + 1)..(Len(delivered) + n) :
            delivered'[i] = buffer[dataStartPos + i - Len(delivered) - 1]
  BY <1>1, <1>2, <1>5, ScanDelivers
<1>7. /\ n \in Nat /\ BufferLength \in Nat /\ Limit \in Nat
      /\ dataEndPos \in 0..BufferLength /\ dataStartPos \in 0..dataEndPos
      /\ Len(delivered) \in Nat /\ before \in 0..Len(delivered) /\ offset \in Nat
  BY <1>1, ReaderAssumption DEF TypeOK
<1>8. /\ InReader = dataEndPos - dataStartPos /\ InReader' = InReader - n
      /\ Consumed = Len(delivered) - before /\ Consumed' = Consumed + n
      /\ offset = Len(delivered) + InReader
  BY <1>1, <1>2, <1>3, <1>6, <1>7 DEF InReader, Consumed, NothingLost
<1>9. TypeOK'
  <2>1. found' \in BOOLEAN /\ pc' \in {"open", "call", "scan", "fill", "returned", "done"}
    BY <1>2
  <2>2. dataStartPos' \in 0..dataEndPos' /\ before' \in 0..Len(delivered')
    BY <1>2, <1>3, <1>5, <1>6, <1>7, <1>8
  <2> QED
    BY <1>1, <1>3, <1>4, <1>6, <2>1, <2>2 DEF TypeOK
<1>10. NothingLost'
  <2>1. Len(delivered') <= offset' /\ InReader' = offset' - Len(delivered')
    BY <1>3, <1>5, <1>6, <1>7, <1>8
  <2>2. ASSUME NEW i \in 1..offset'
        PROVE  file'[i] = IF i <= Len(delivered') THEN delivered'[i]
                          ELSE buffer'[dataStartPos' + i - Len(delivered') - 1]
    <3>1. CASE i <= Len(delivered)
      <4>1. i \in 1..Len(delivered) /\ i \in 1..offset /\ i <= Len(delivered')
        BY <1>3, <1>6, <1>7, <3>1
      <4> QED
        BY <1>1, <1>4, <1>6, <3>1, <4>1 DEF NothingLost
    <3>2. CASE i > Len(delivered) /\ i <= Len(delivered')
      <4>1. i \in (Len(delivered) + 1)..(Len(delivered) + n) /\ i \in 1..offset
            /\ ~(i <= Len(delivered))
        BY <1>3, <1>6, <1>7, <3>2
      <4> QED
        BY <1>1, <1>4, <1>6, <3>2, <4>1 DEF NothingLost
    <3>3. CASE i > Len(delivered')
      <4>1. i \in 1..offset /\ ~(i <= Len(delivered)) /\ ~(i <= Len(delivered'))
            /\ dataStartPos' + i - Len(delivered') - 1 = dataStartPos + i - Len(delivered) - 1
        BY <1>2, <1>3, <1>6, <1>7, <3>3
      <4> QED
        BY <1>1, <1>3, <1>4, <4>1 DEF NothingLost
    <3> QED
      BY <1>3, <1>6, <1>7, <3>1, <3>2, <3>3
  <2> QED
    BY <2>1, <2>2 DEF NothingLost
<1>11. Places'
  <2>1. pc' = "fill" => ~found' /\ dataStartPos' = dataEndPos' /\ Consumed' < Limit
    <3>1. SUFFICES ASSUME pc' = "fill"
                   PROVE  ~found' /\ dataStartPos' = dataEndPos' /\ Consumed' < Limit
      OBVIOUS
    <3>2. Hits = {} /\ Consumed + n < Limit
      BY <1>2, <3>1
    <3>3. n = InReader
      BY <1>5, <1>7, <1>8, <3>2
    <3>4. ~found'
      BY <1>2, <3>2
    <3>5. dataStartPos' = dataEndPos' /\ Consumed' < Limit
      BY <1>2, <1>3, <1>7, <1>8, <3>2, <3>3
    <3> QED
      BY <3>4, <3>5
  <2>2. pc' \in {"fill", "returned"} /\ Consumed' <= Limit
    BY <1>2, <1>5, <1>7, <1>8
  <2> QED
    BY <2>1, <2>2 DEF Places
<1>12. AtEnd'
  <2>1. pc' = "returned" => Consumed' # 0
    BY <1>1, <1>2, <1>5, <1>7, <1>8
  <2> QED
    BY <1>2, <2>1 DEF AtEnd
<1>13. StopsAtChar'
  <2> SUFFICES ASSUME NEW i \in (before' + 1)..Len(delivered'), delivered'[i] = "nl"
               PROVE  i = Len(delivered') /\ pc' \notin {"scan", "fill"}
    BY DEF StopsAtChar
  <2>1. i > Len(delivered)
    <3>1. SUFFICES ASSUME i <= Len(delivered) PROVE FALSE
      BY <1>6, <1>7
    <3>2. i \in (before + 1)..Len(delivered) /\ i \in 1..Len(delivered)
      BY <1>3, <1>7, <3>1
    <3> QED
      BY <1>1, <1>6, <3>2 DEF StopsAtChar
  <2> DEFINE q == dataStartPos + i - Len(delivered) - 1
  <2>2. buffer[q] = "nl"
    BY <1>3, <1>6, <1>7, <2>1
  <2>3. q \in dataStartPos..(dataEndPos - 1) /\ q \in dataStartPos..(dataStartPos + n - 1)
    BY <1>3, <1>5, <1>6, <1>7, <1>8, <2>1
  <2>4. q \notin dataStartPos..(dataStartPos + n - 2)
    BY <1>5, <2>2
  <2>5. q = dataStartPos + n - 1
    BY <1>7, <2>3, <2>4
  <2>6. i = Len(delivered')
    BY <1>3, <1>6, <1>7, <2>5
  <2>7. Hits # {}
    BY <1>5, <2>2, <2>3
  <2> QED
    BY <1>2, <2>6, <2>7
<1>14. TrueMeansAhead'
  <2> SUFFICES ASSUME Hits # {}
               PROVE  \/ Consumed' > 0 /\ delivered'[Len(delivered')] = "nl"
                      \/ /\ Consumed' = Limit
                         /\ \E i \in dataStartPos'..(dataEndPos' - 1) : buffer'[i] = "nl"
    BY <1>2 DEF TrueMeansAhead
  <2>1. n > 0
    BY <1>5
  <2>2. CASE buffer[dataStartPos + n - 1] = "nl"
    <3>1. Len(delivered') \in (Len(delivered) + 1)..(Len(delivered) + n)
          /\ dataStartPos + Len(delivered') - Len(delivered) - 1 = dataStartPos + n - 1
      BY <1>6, <1>7, <2>1
    <3>2. delivered'[Len(delivered')] = "nl"
      BY <1>6, <2>2, <3>1
    <3> QED
      BY <1>7, <1>8, <2>1, <3>2
  <2>3. CASE n = Limit - Consumed /\ \E q \in (dataStartPos + n)..(dataEndPos - 1) : buffer[q] = "nl"
    <3>1. PICK q \in (dataStartPos + n)..(dataEndPos - 1) : buffer[q] = "nl"
      BY <2>3
    <3>2. q \in dataStartPos'..(dataEndPos' - 1) /\ buffer'[q] = "nl"
      BY <1>2, <1>3, <3>1
    <3>3. Consumed' = Limit
      BY <1>7, <1>8, <2>3
    <3> QED
      BY <3>2, <3>3
  <2> QED
    BY <1>5, <2>2, <2>3
<1> QED
  BY <1>9, <1>10, <1>11, <1>12, <1>13, <1>14 DEF ReaderInv

(* Opening and refilling find the buffer empty, and call for nothing else.  *)
LEMMA OpenBufferedReaderKeeps ==
    ASSUME ReaderInv, OpenBufferedReader PROVE ReaderInv'
<1>1. /\ TypeOK /\ Places /\ AtEnd /\ NothingLost /\ StopsAtChar /\ TrueMeansAhead
      /\ pc = "open" /\ dataEndPos = 0
  BY DEF ReaderInv, OpenBufferedReader, Places
<1>2. UNCHANGED <<log, call, lines>>
  BY DEF OpenBufferedReader
<1>3. UNCHANGED <<file, grown, delivered, before, found>>
  BY <1>2 DEF log, call
<1>4. Consumed' = Consumed
  BY <1>3 DEF Consumed
<1>5. CASE FillReadBuffer /\ pc' = "call"
  <2>1. dataStartPos = dataEndPos
    BY <1>1 DEF TypeOK
  <2>2. /\ NothingLost'
        /\ offset' \in 0..Len(file) /\ buffer' \in Memory
        /\ dataEndPos' \in 0..BufferLength /\ dataStartPos' = 0
        /\ buffer'[dataEndPos'] = "nul"
        /\ failed' \in BOOLEAN
    BY <1>1, <1>3, <1>5, <2>1, FillKeeps DEF log
  <2>3. dataStartPos' \in 0..dataEndPos'
    BY <2>2
  <2>4. TypeOK'
    BY <1>1, <1>2, <1>3, <1>5, <2>2, <2>3 DEF TypeOK
  <2>5. Places'
    BY <1>1, <1>4, <1>5 DEF Places
  <2>6. AtEnd' /\ TrueMeansAhead'
    BY <1>5 DEF AtEnd, TrueMeansAhead
  <2>7. StopsAtChar'
    BY <1>1, <1>3, <1>5 DEF StopsAtChar
  <2> QED
    BY <2>2, <2>4, <2>5, <2>6, <2>7 DEF ReaderInv
<1>6. CASE pc' = "done" /\ failed' = TRUE /\ UNCHANGED reader
  <2>1. UNCHANGED <<offset, buffer, dataStartPos, dataEndPos>>
    BY <1>6 DEF reader
  <2>2. TypeOK'
    BY <1>1, <1>2, <1>3, <1>6, <2>1 DEF TypeOK
  <2>3. NothingLost'
    BY <1>1, <1>3, <2>1 DEF NothingLost, InReader
  <2>4. Places'
    BY <1>1, <1>4, <1>6 DEF Places
  <2>5. AtEnd' /\ TrueMeansAhead'
    BY <1>6 DEF AtEnd, TrueMeansAhead
  <2>6. StopsAtChar'
    BY <1>1, <1>3, <1>6 DEF StopsAtChar
  <2> QED
    BY <2>2, <2>3, <2>4, <2>5, <2>6 DEF ReaderInv
<1> QED
  BY <1>5, <1>6 DEF OpenBufferedReader

LEMMA CallReaderKeeps ==
    ASSUME ReaderInv, CallReader PROVE ReaderInv'
<1>1. /\ TypeOK /\ Places /\ AtEnd /\ NothingLost /\ StopsAtChar /\ TrueMeansAhead
      /\ pc = "call" /\ before' = Len(delivered) /\ pc' = "scan"
      /\ UNCHANGED <<file, grown, offset, buffer, dataStartPos, dataEndPos,
                     delivered, found, failed, lines>>
  BY DEF ReaderInv, CallReader, log, reader
<1>2. Len(delivered) \in Nat /\ Limit \in Nat /\ Limit > 0
  BY <1>1, ReaderAssumption DEF TypeOK
<1>3. Consumed' = 0
  BY <1>1, <1>2 DEF Consumed
<1>4. TypeOK'
  BY <1>1, <1>2 DEF TypeOK
<1>5. NothingLost'
  BY <1>1 DEF NothingLost, InReader
<1>6. Places'
  BY <1>1, <1>2, <1>3 DEF Places
<1>7. AtEnd' /\ TrueMeansAhead'
  BY <1>1 DEF AtEnd, TrueMeansAhead
<1>8. StopsAtChar'
  BY <1>1, <1>2 DEF StopsAtChar
<1> QED
  BY <1>4, <1>5, <1>6, <1>7, <1>8 DEF ReaderInv

(* A refill that finds nothing to read ends a call: either read has failed  *)
(* or the log has been delivered to its end.                                *)
LEMMA FillStepKeeps ==
    ASSUME ReaderInv, Fill PROVE ReaderInv'
<1>1. /\ TypeOK /\ Places /\ AtEnd /\ NothingLost /\ StopsAtChar /\ TrueMeansAhead
      /\ pc = "fill" /\ dataStartPos = dataEndPos /\ ~found /\ Consumed < Limit
      /\ FillReadBuffer
      /\ pc' = IF dataEndPos' = dataStartPos' THEN "returned" ELSE "scan"
      /\ UNCHANGED <<file, grown, delivered, before, found, lines>>
  BY DEF ReaderInv, Fill, Places, log, call
<1>2. /\ NothingLost'
      /\ offset' \in 0..Len(file) /\ buffer' \in Memory
      /\ dataEndPos' \in 0..BufferLength /\ dataStartPos' = 0
      /\ buffer'[dataEndPos'] = "nul"
      /\ failed' \in BOOLEAN
  BY <1>1, FillKeeps DEF log
<1>3. /\ Len(file) \in Nat /\ offset \in 0..Len(file) /\ grown \in Nat /\ grown <= Len(file)
      /\ Len(delivered) \in Nat /\ BufferLength \in Nat /\ Growth \in Nat
      /\ InReader = 0 /\ Len(delivered) = offset /\ failed \in BOOLEAN
  BY <1>1, ReaderAssumption DEF TypeOK, NothingLost, InReader
<1>4. Consumed' = Consumed
  BY <1>1 DEF Consumed
<1>5. TypeOK'
  <2>1. dataStartPos' \in 0..dataEndPos' /\ pc' \in {"open", "call", "scan", "fill", "returned", "done"}
    BY <1>1, <1>2
  <2> QED
    BY <1>1, <1>2, <2>1 DEF TypeOK
<1>6. Places'
  BY <1>1, <1>4 DEF Places
<1>7. AtEnd'
  <2> SUFFICES ASSUME pc' = "returned", ~failed'
               PROVE  Len(delivered) >= Len(file) - grown
    BY <1>1 DEF AtEnd
  <2>1. dataEndPos' = 0
    BY <1>1, <1>2
  <2>2. PICK n \in 0..Min2(BufferLength - InReader, Len(file) - offset) :
          dataEndPos' = InReader + n /\ failed' = (failed \/ (n = 0 /\ offset < Len(file)))
    BY DEF FillReadBuffer, Fill
  <2>3. n = 0
    BY <1>3, <2>1, <2>2
  <2>4. ~(offset < Len(file))
    BY <2>2, <2>3
  <2> QED
    BY <1>3, <2>4
<1>8. StopsAtChar'
  <2>1. \A i \in (before + 1)..Len(delivered) : delivered[i] # "nl"
    BY <1>1 DEF StopsAtChar
  <2> QED
    BY <1>1, <2>1 DEF StopsAtChar
<1>9. TrueMeansAhead'
  BY <1>1 DEF TrueMeansAhead
<1> QED
  BY <1>2, <1>5, <1>6, <1>7, <1>8, <1>9 DEF ReaderInv

LEMMA TakeLineKeeps ==
    ASSUME ReaderInv, TakeLine PROVE ReaderInv'
<1>1. /\ TypeOK /\ Places /\ AtEnd /\ NothingLost /\ StopsAtChar /\ TrueMeansAhead
      /\ pc = "returned"
      /\ UNCHANGED <<file, grown, offset, buffer, dataStartPos, dataEndPos,
                     delivered, before, found, failed>>
  BY DEF ReaderInv, TakeLine, log, reader, call
<1>2. \/ Consumed = 0 /\ pc' = "done" /\ UNCHANGED lines
      \/ Consumed # 0 /\ pc' = "call" /\ lines' = Append(lines, Consumed - 1)
  BY DEF TakeLine
<1>3. Consumed \in Nat /\ Consumed' = Consumed /\ lines \in Seq(Nat)
  BY <1>1 DEF Consumed, TypeOK
<1>4. lines' \in Seq(Nat)
  <2>1. Consumed # 0 => Consumed - 1 \in Nat
    BY <1>3
  <2> QED
    BY <1>2, <1>3, <2>1
<1>5. TypeOK'
  BY <1>1, <1>2, <1>4 DEF TypeOK
<1>6. NothingLost'
  BY <1>1 DEF NothingLost, InReader
<1>7. Places'
  BY <1>1, <1>2, <1>3 DEF Places
<1>8. AtEnd' /\ TrueMeansAhead'
  BY <1>1, <1>2 DEF AtEnd, TrueMeansAhead
<1>9. StopsAtChar'
  BY <1>1, <1>2 DEF StopsAtChar
<1> QED
  BY <1>5, <1>6, <1>7, <1>8, <1>9 DEF ReaderInv

(* What is logged meanwhile stands behind all that was read.                *)
LEMMA LogMessageKeeps ==
    ASSUME ReaderInv, LogMessage PROVE ReaderInv'
<1>1. /\ TypeOK /\ Places /\ AtEnd /\ NothingLost /\ StopsAtChar /\ TrueMeansAhead
      /\ pc # "done" /\ grown < Growth /\ grown' = grown + 1
      /\ UNCHANGED <<offset, buffer, dataStartPos, dataEndPos,
                     delivered, before, found, pc, failed, lines>>
  BY DEF ReaderInv, LogMessage, reader, call
<1>2. PICK c \in Chars : file' = Append(file, c)
  BY DEF LogMessage
<1>3. /\ file \in Seq(Chars) /\ Len(file) \in Nat /\ grown \in 0..Growth /\ grown <= Len(file)
      /\ Growth \in Nat /\ offset \in 0..Len(file) /\ Len(delivered) \in Nat
  BY <1>1, ReaderAssumption DEF TypeOK
<1>4. file' \in Seq(Chars) /\ Len(file') = Len(file) + 1
      /\ \A i \in 1..Len(file) : file'[i] = file[i]
  BY <1>2, <1>3, AppendProperties
<1>5. TypeOK'
  BY <1>1, <1>3, <1>4 DEF TypeOK
<1>6. NothingLost'
  <2>1. \A i \in 1..offset : file'[i] = file[i]
    BY <1>3, <1>4
  <2> QED
    BY <1>1, <2>1 DEF NothingLost, InReader
<1>7. Places'
  BY <1>1 DEF Places, Consumed
<1>8. AtEnd'
  <2>1. Len(file') - grown' = Len(file) - grown
    BY <1>1, <1>3, <1>4
  <2> QED
    BY <1>1, <2>1 DEF AtEnd, Consumed
<1>9. StopsAtChar'
  BY <1>1 DEF StopsAtChar
<1>10. TrueMeansAhead'
  BY <1>1 DEF TrueMeansAhead, Consumed
<1> QED
  BY <1>5, <1>6, <1>7, <1>8, <1>9, <1>10 DEF ReaderInv

LEMMA ReaderInit == Init => ReaderInv
<1> SUFFICES ASSUME Init PROVE ReaderInv
  OBVIOUS
<1>1. /\ file \in Seq(Chars) /\ grown = 0 /\ offset = 0
      /\ buffer \in Memory /\ buffer[0] = "nul"
      /\ dataStartPos = 0 /\ dataEndPos = 0 /\ pc = "open"
      /\ delivered = <<>> /\ before = 0 /\ found = FALSE /\ failed = FALSE /\ lines = <<>>
      /\ BufferLength \in Nat /\ Limit \in Nat /\ Limit > 0 /\ Growth \in Nat
  BY ReaderAssumption DEF Init
<1>2. Len(file) \in Nat /\ Len(delivered) = 0
  BY <1>1
<1>3. TypeOK
  <2>1. delivered \in Seq(Chars) /\ lines \in Seq(Nat)
    BY <1>1
  <2>2. /\ grown \in 0..Growth /\ grown <= Len(file) /\ offset \in 0..Len(file)
        /\ dataEndPos \in 0..BufferLength /\ dataStartPos \in 0..dataEndPos
        /\ before \in 0..Len(delivered) /\ buffer[dataEndPos] = "nul"
    BY <1>1, <1>2
  <2> QED
    BY <1>1, <2>1, <2>2 DEF TypeOK
<1>4. NothingLost
  <2>1. Len(delivered) <= offset /\ InReader = offset - Len(delivered)
    <3>1. InReader = 0 /\ offset = 0
      BY <1>1 DEF InReader
    <3> QED
      BY <1>2, <3>1
  <2>2. \A i \in 1..offset : FALSE
    BY <1>1
  <2> QED
    BY <2>1, <2>2 DEF NothingLost
<1>5. Places /\ AtEnd /\ StopsAtChar /\ TrueMeansAhead
  BY <1>1, <1>2 DEF Places, AtEnd, StopsAtChar, TrueMeansAhead, Consumed
<1> QED
  BY <1>3, <1>4, <1>5 DEF ReaderInv

LEMMA ReaderStep == ReaderInv /\ [Next]_vars => ReaderInv'
<1> SUFFICES ASSUME ReaderInv, [Next]_vars PROVE ReaderInv'
  OBVIOUS
<1>1. CASE OpenBufferedReader
  BY <1>1, OpenBufferedReaderKeeps
<1>2. CASE CallReader
  BY <1>2, CallReaderKeeps
<1>3. CASE Scan
  BY <1>3, ScanKeeps
<1>4. CASE Fill
  BY <1>4, FillStepKeeps
<1>5. CASE TakeLine
  BY <1>5, TakeLineKeeps
<1>6. CASE LogMessage
  BY <1>6, LogMessageKeeps
<1>7. CASE UNCHANGED vars
  BY <1>7 DEF ReaderInv, TypeOK, Places, AtEnd, NothingLost, StopsAtChar, TrueMeansAhead,
     Consumed, InReader, vars, log, reader, call
<1> QED
  BY <1>1, <1>2, <1>3, <1>4, <1>5, <1>6, <1>7 DEF Next, Read

(* The inductive invariant of the buffered reader.                          *)
THEOREM ReaderInvariant == Spec => []ReaderInv
  BY ReaderInit, ReaderStep, PTL DEF Spec

(* The positions stay in order and the terminator stands behind what the    *)
(* buffer holds, whatever read delivers.                                    *)
THEOREM ReaderTypes == Spec => []TypeOK
<1>1. ReaderInv => TypeOK
  BY DEF ReaderInv
<1> QED
  BY <1>1, ReaderInvariant, PTL

(* The wrong length that fillReadBuffer gives memmove costs no character of *)
(* the log, because the buffer is empty whenever it is filled again.        *)
THEOREM NoCharacterLost == Spec => []NothingLost
<1>1. ReaderInv => NothingLost
  BY DEF ReaderInv
<1> QED
  BY <1>1, ReaderInvariant, PTL

(* A line of the report holds one line of the log or a part of it, and true *)
(* is returned only for a newline that is there, though it may lie behind   *)
(* the limit of the call.                                                   *)
THEOREM LinesEndWell == Spec => []LineEnds
<1>1. ReaderInv => LineEnds
  BY DEF ReaderInv, LineEnds
<1> QED
  BY <1>1, ReaderInvariant, PTL

(* The loop of addTextLinesFromFile ends with the log delivered, or because *)
(* open or read failed.                                                     *)
THEOREM WholeLogRead == Spec => []AllRead
<1>1. ReaderInv => AllRead
  BY DEF ReaderInv, AtEnd, AllRead
<1> QED
  BY <1>1, ReaderInvariant, PTL

-----------------------------------------------------------------------------
(* The writer.                                                               *)

(* Bytes counted on from byte k.                                            *)
LEMMA CountedFacts ==
    ASSUME NEW k \in Nat, NEW n \in Nat, NEW s, s = [i \in 1..n |-> k + i]
    PROVE  s \in Seq(Nat) /\ Len(s) = n /\ \A i \in 1..n : s[i] = k + i
  OBVIOUS

(* What is appended stands behind what was there.                           *)
LEMMA AppendedFacts ==
    ASSUME NEW s \in Seq(Nat), NEW t \in Seq(Nat), NEW u, u = s \o t
    PROVE  /\ u \in Seq(Nat) /\ Len(u) = Len(s) + Len(t)
           /\ \A i \in 1..Len(s) : u[i] = s[i]
           /\ \A i \in (Len(s) + 1)..(Len(s) + Len(t)) : u[i] = t[i - Len(s)]
<1>1. /\ u \in Seq(Nat)
      /\ Len(u) = Len(s) + Len(t)
      /\ \A i \in 1 .. Len(s) + Len(t) : u[i] = IF i <= Len(s) THEN s[i] ELSE t[i - Len(s)]
  BY ConcatProperties
<1>2. Len(s) \in Nat /\ Len(t) \in Nat
  OBVIOUS
<1>3. \A i \in 1..Len(s) : u[i] = s[i]
  BY <1>1, <1>2
<1>4. ASSUME NEW i \in (Len(s) + 1)..(Len(s) + Len(t))
      PROVE  u[i] = t[i - Len(s)]
  <2>1. i \in 1 .. Len(s) + Len(t) /\ ~(i <= Len(s))
    BY <1>2
  <2> QED
    BY <1>1, <2>1, Zenon
<1> QED
  BY <1>1, <1>3, <1>4

(* A file that counts its bytes still does when it is continued where it    *)
(* ends.                                                                    *)
LEMMA FileContinued ==
    ASSUME NEW s \in Seq(Nat), NEW t \in Seq(Nat), NEW u, u = s \o t,
           \A i \in 1..Len(s) : s[i] = i,
           \A i \in 1..Len(t) : t[i] = Len(s) + i
    PROVE  \A i \in 1..Len(u) : u[i] = i
<1>1. /\ Len(u) = Len(s) + Len(t)
      /\ \A i \in 1..Len(s) : u[i] = s[i]
      /\ \A i \in (Len(s) + 1)..(Len(s) + Len(t)) : u[i] = t[i - Len(s)]
  BY AppendedFacts
<1>2. Len(s) \in Nat /\ Len(t) \in Nat
  OBVIOUS
<1> TAKE i \in 1..Len(u)
<1>3. CASE i <= Len(s)
  BY <1>1, <1>2, <1>3
<1>4. CASE i > Len(s)
  <2>1. i \in (Len(s) + 1)..(Len(s) + Len(t)) /\ i - Len(s) \in 1..Len(t)
    BY <1>1, <1>2, <1>4
  <2>2. u[i] = Len(s) + (i - Len(s))
    BY <1>1, <2>1
  <2> QED
    BY <1>2, <2>1, <2>2
<1> QED
  BY <1>2, <1>3, <1>4

(* Where a flush that is over leads.                                        *)
LEMMA FlushedFacts ==
    ASSUME WriterTypeOK, NEW result \in BOOLEAN, Flushed(result)
    PROVE  /\ caller = "write" => stage' = IF length > WriterLength THEN "direct" ELSE "store"
           /\ caller = "flush" => stage' = "idle" /\ returned' = result
           /\ caller = "close" => stage' = "closed"
           /\ stage' \in {"idle", "store", "direct", "closed"} /\ returned' \in BOOLEAN
  BY DEF Flushed, WriterTypeOK

(* The numbers the invariant is about.                                      *)
LEMMA WriterNumbers ==
    ASSUME WriterTypeOK
    PROVE  /\ Position \in Nat /\ Len(output) \in Nat /\ WriterLength \in Nat /\ WriterLength > 0
           /\ accepted \in Nat /\ length \in Nat /\ sent \in Nat
  BY WriterAssumption DEF WriterTypeOK, Position

-----------------------------------------------------------------------------
LEMMA WriteBufferedWriterKeeps ==
    ASSUME WriterInv, NEW n \in Lengths, WriteBufferedWriter(n)
    PROVE  WriterInv'
<1>1. /\ WriterTypeOK /\ Stages /\ Room /\ InOrder
      /\ stage = "idle" /\ caller' = "write" /\ length' = n /\ accepted' = accepted + n
      /\ stage' = IF n > WriterLength - Position THEN "flush" ELSE "store"
      /\ UNCHANGED <<stored, output, sent, returned, failures, torn>>
  BY DEF WriterInv, WriteBufferedWriter
<1>2. n \in Nat
  BY WriterAssumption
<1>3. /\ Position \in Nat /\ Len(output) \in Nat /\ WriterLength \in Nat
      /\ accepted \in Nat /\ sent = 0
  BY <1>1, WriterNumbers DEF Stages
<1>4. Position' = Position
  BY <1>1 DEF Position
<1>5. WriterTypeOK'
  BY <1>1, <1>2, <1>3, <1>4 DEF WriterTypeOK
<1>6. Stages'
  BY <1>1, <1>2, <1>3, <1>4 DEF Stages
<1>7. Room'
  BY <1>1, <1>2, <1>3, <1>4 DEF Room
<1>8. InOrder'
  <2>1. Written' = 0 /\ Written = 0 /\ Pending = 0 /\ Pending' = n
    BY <1>1, <1>3 DEF Written, Pending
  <2> QED
    BY <1>1, <1>2, <1>3, <1>4, <2>1 DEF InOrder
<1> QED
  BY <1>5, <1>6, <1>7, <1>8 DEF WriterInv

LEMMA FlushOrCloseKeeps ==
    ASSUME WriterInv, NEW c \in {"flush", "close"}, FlushOrClose(c)
    PROVE  WriterInv'
<1>1. /\ WriterTypeOK /\ Stages /\ Room /\ InOrder
      /\ stage = "idle" /\ caller' = c /\ length' = 0 /\ stage' = "flush"
      /\ UNCHANGED <<accepted, stored, output, sent, returned, failures, torn>>
  BY DEF WriterInv, FlushOrClose
<1>2. Position \in Nat /\ Len(output) \in Nat /\ accepted \in Nat /\ sent = 0
  BY <1>1, WriterNumbers DEF Stages
<1>3. Position' = Position
  BY <1>1 DEF Position
<1>4. WriterTypeOK'
  BY <1>1, <1>3 DEF WriterTypeOK
<1>5. Stages' /\ Room'
  BY <1>1, <1>2, <1>3 DEF Stages, Room
<1>6. InOrder'
  <2>1. Written' = 0 /\ Written = 0 /\ Pending = 0 /\ Pending' = 0
    BY <1>1, <1>2 DEF Written, Pending
  <2> QED
    BY <1>1, <1>2, <1>3, <2>1 DEF InOrder
<1> QED
  BY <1>4, <1>5, <1>6 DEF WriterInv

(* A part of the buffer that is written continues the file.                 *)
LEMMA WriteBufferKeeps ==
    ASSUME WriterInv, WriteBuffer
    PROVE  WriterInv'
<1>1. /\ WriterTypeOK /\ Stages /\ Room /\ InOrder
      /\ stage = "flush" /\ Position > 0
      /\ UNCHANGED <<accepted, caller, length, failures, torn>>
  BY DEF WriterInv, WriteBuffer, writerCall
<1>2. /\ Position \in Nat /\ Len(output) \in Nat /\ WriterLength \in Nat /\ WriterLength > 0
      /\ accepted \in Nat /\ length \in Nat /\ sent \in Nat /\ sent < Position
      /\ Position = Len(stored) /\ stored \in Seq(Nat) /\ output \in Seq(Nat)
  BY <1>1, WriterNumbers DEF Stages, WriterTypeOK, Position
<1>3. PICK n \in 1..(Position - sent) :
          /\ output' = output \o SubSeq(stored, sent + 1, sent + n)
          /\ IF sent + n = Position
             THEN stored' = <<>> /\ sent' = 0 /\ Flushed(TRUE)
             ELSE sent' = sent + n /\ UNCHANGED <<stored, stage, returned>>
  BY DEF WriteBuffer
<1> DEFINE part == SubSeq(stored, sent + 1, sent + n)
<1>4. /\ n \in Nat /\ n > 0 /\ sent + n \in Nat /\ sent + n <= Position
  BY <1>2, <1>3
<1>5. /\ part \in Seq(Nat) /\ Len(part) = n
      /\ \A i \in 1..n : part[i] = stored[sent + i]
  <2>1. \A i \in (sent + 1)..(sent + n) : stored[i] \in Nat
    <3>1. \A i \in (sent + 1)..(sent + n) : i \in 1..Len(stored)
      BY <1>2, <1>4
    <3> QED
      BY <1>2, <3>1
  <2>2. /\ part \in Seq(Nat)
        /\ Len(part) = IF sent + 1 <= sent + n THEN sent + n - (sent + 1) + 1 ELSE 0
        /\ \A i \in 1 .. sent + n - (sent + 1) + 1 : part[i] = stored[sent + 1 + i - 1]
    BY <1>2, <1>4, <2>1, SubSeqProperties
  <2> HIDE DEF part
  <2>3. Len(part) = n /\ sent + n - (sent + 1) + 1 = n
    BY <1>2, <1>4, <2>2
  <2>4. ASSUME NEW i \in 1..n PROVE part[i] = stored[sent + i]
    <3>1. sent + 1 + i - 1 = sent + i
      BY <1>2, <1>4
    <3>2. i \in 1 .. sent + n - (sent + 1) + 1
      BY <2>3
    <3> QED
      BY <2>2, <3>1, <3>2
  <2> QED
    BY <2>2, <2>3, <2>4
<1>6. output' = output \o part
  BY <1>3
<1> HIDE DEF part
<1>7. output' \in Seq(Nat) /\ Len(output') = Len(output) + n
  BY <1>2, <1>5, <1>6, AppendedFacts
<1>8. ASSUME ~torn
      PROVE  /\ \A i \in (sent + 1)..Position : stored[i] = Len(output) + i - sent
             /\ Len(output) + Position - sent + Pending = accepted
             /\ \A i \in 1..Len(output') : output'[i] = i
             /\ Position <= WriterLength
  <2>1. /\ \A i \in (sent + 1)..Position : stored[i] = Len(output) + i - sent
        /\ Len(output) + Position - sent + Pending = accepted
        /\ \A i \in 1..Len(output) : output[i] = i
    BY <1>1, <1>8 DEF InOrder, Written
  <2>2. ASSUME NEW i \in 1..Len(part) PROVE part[i] = Len(output) + i
    <3>1. i \in Nat /\ sent + i \in (sent + 1)..Position /\ i \in 1..n
      BY <1>2, <1>4, <1>5
    <3>2. stored[sent + i] = Len(output) + (sent + i) - sent
      BY <2>1, <3>1
    <3>3. part[i] = stored[sent + i]
      BY <1>5, <3>1
    <3> QED
      BY <1>2, <3>1, <3>2, <3>3
  <2>3. \A i \in 1..Len(output') : output'[i] = i
    BY <1>2, <1>5, <1>6, <2>1, <2>2, FileContinued
  <2> QED
    BY <1>1, <1>8, <2>1, <2>3 DEF InOrder
<1>9. CASE sent + n = Position
  <2>1. stored' = <<>> /\ sent' = 0 /\ Flushed(TRUE)
    BY <1>3, <1>9
  <2>2. Position' = 0 /\ stored' \in Seq(Nat)
    BY <2>1 DEF Position
  <2>3. /\ caller = "write" => stage' = IF length > WriterLength THEN "direct" ELSE "store"
        /\ caller = "flush" => stage' = "idle" /\ returned' = TRUE
        /\ caller = "close" => stage' = "closed"
        /\ stage' \in {"idle", "store", "direct", "closed"} /\ returned' \in BOOLEAN
    BY <1>1, <2>1, FlushedFacts
  <2>4. caller \in {"write", "flush", "close"}
    BY <1>1 DEF WriterTypeOK
  <2>5. WriterTypeOK'
    BY <1>1, <1>2, <1>7, <2>1, <2>2, <2>3 DEF WriterTypeOK
  <2>6. Stages'
    BY <1>1, <1>2, <2>1, <2>3, <2>4 DEF Stages
  <2>7. Room'
    BY <1>1, <1>2, <2>2, <2>3, <2>4 DEF Room
  <2>8. InOrder'
    <3>1. Written' = 0 /\ Pending' = Pending
      BY <1>1, <1>2, <2>1, <2>3, <2>4 DEF Written, Pending
    <3>2. ASSUME ~torn PROVE Len(output') + Position' - Written' + Pending' = accepted'
      <4>1. Pending \in Nat
        BY <1>1, <1>2 DEF Pending
      <4>2. Len(output) + Position - sent + Pending = accepted /\ Len(output') = Len(output) + n
            /\ accepted' = accepted
        BY <1>1, <1>7, <1>8, <3>2
      <4>3. Len(output) + n + Pending = accepted
        <5>1. Len(output) \in Nat /\ sent \in Nat /\ Position \in Nat /\ n \in Nat
          BY <1>2, <1>4
        <5> QED
          BY <1>9, <4>1, <4>2, <5>1
      <4>4. Position' - Written' + Pending' = Pending
        BY <2>2, <3>1, <4>1
      <4>5. Len(output') \in Nat /\ Position' = 0 /\ Written' = 0 /\ Pending' \in Nat
        BY <1>2, <1>4, <2>2, <3>1, <4>1, <4>2
      <4> QED
        BY <4>2, <4>3, <4>4, <4>5
    <3>3. \A i \in (Written' + 1)..Position' : FALSE
      BY <2>2, <3>1
    <3> QED
      BY <1>1, <1>2, <1>8, <2>2, <2>3, <3>2, <3>3 DEF InOrder
  <2> QED
    BY <2>5, <2>6, <2>7, <2>8 DEF WriterInv
<1>10. CASE sent + n # Position
  <2>1. sent' = sent + n /\ UNCHANGED <<stored, stage, returned>> /\ sent' < Position
    <3>1. sent' = sent + n /\ UNCHANGED <<stored, stage, returned>>
      BY <1>3, <1>10
    <3> QED
      BY <1>2, <1>4, <1>10, <3>1
  <2>2. Position' = Position
    BY <2>1 DEF Position
  <2>3. WriterTypeOK'
    BY <1>1, <1>2, <1>4, <1>7, <2>1, <2>2 DEF WriterTypeOK
  <2>4. Stages' /\ Room'
    BY <1>1, <1>2, <2>1, <2>2 DEF Stages, Room
  <2>5. InOrder'
    <3>1. Written' = sent + n /\ Pending' = Pending
      BY <1>1, <2>1 DEF Written, Pending
    <3>2. ASSUME ~torn PROVE Len(output') + Position' - Written' + Pending' = accepted'
      <4>1. Pending \in Nat
        BY <1>1, <1>2 DEF Pending
      <4>2. Len(output) + Position - sent + Pending = accepted /\ Len(output') = Len(output) + n
            /\ accepted' = accepted
        BY <1>1, <1>7, <1>8, <3>2
      <4> QED
        BY <1>2, <1>4, <2>2, <3>1, <4>1, <4>2
    <3>3. ASSUME ~torn, NEW i \in (Written' + 1)..Position'
          PROVE  stored'[i] = Len(output') + i - Written'
      <4>1. i \in (sent + 1)..Position
        BY <1>2, <1>4, <2>2, <3>1
      <4>2. stored[i] = Len(output) + i - sent
        BY <1>8, <3>3, <4>1
      <4> QED
        BY <1>2, <1>4, <1>7, <2>1, <3>1, <4>1, <4>2
    <3> QED
      BY <1>1, <1>8, <2>1, <2>2, <3>2, <3>3 DEF InOrder
  <2> QED
    BY <2>3, <2>4, <2>5 DEF WriterInv
<1> QED
  BY <1>9, <1>10

LEMMA FlushNothingKeeps ==
    ASSUME WriterInv, FlushNothing
    PROVE  WriterInv'
<1>1. /\ WriterTypeOK /\ Stages /\ Room /\ InOrder
      /\ stage = "flush" /\ Position = 0 /\ Flushed(TRUE)
      /\ UNCHANGED <<accepted, stored, output, caller, length, sent, failures, torn>>
  BY DEF WriterInv, FlushNothing, writerCall
<1>2. /\ Len(output) \in Nat /\ WriterLength \in Nat /\ WriterLength > 0
      /\ accepted \in Nat /\ length \in Nat /\ sent = 0
  BY <1>1, WriterNumbers DEF Stages
<1>3. /\ caller = "write" => stage' = IF length > WriterLength THEN "direct" ELSE "store"
      /\ caller = "flush" => stage' = "idle" /\ returned' = TRUE
      /\ caller = "close" => stage' = "closed"
      /\ stage' \in {"idle", "store", "direct", "closed"} /\ returned' \in BOOLEAN
  BY <1>1, FlushedFacts
<1>4. Position' = 0
  BY <1>1 DEF Position
<1>5. caller \in {"write", "flush", "close"}
  BY <1>1 DEF WriterTypeOK
<1>6. WriterTypeOK'
  BY <1>1, <1>2, <1>3, <1>4 DEF WriterTypeOK
<1>7. Stages'
  BY <1>1, <1>2, <1>3, <1>5 DEF Stages
<1>8. Room'
  BY <1>1, <1>2, <1>3, <1>4, <1>5 DEF Room
<1>9. InOrder'
  <2>1. Written' = Written /\ Pending' = Pending
    BY <1>1, <1>2, <1>3, <1>5 DEF Written, Pending
  <2> QED
    BY <1>1, <1>2, <1>3, <1>4, <2>1 DEF InOrder
<1> QED
  BY <1>6, <1>7, <1>8, <1>9 DEF WriterInv

(* What does not fit the buffer finds it empty, and continues the file.     *)
LEMMA WriteDirectKeeps ==
    ASSUME WriterInv, WriteDirect
    PROVE  WriterInv'
<1>1. /\ WriterTypeOK /\ Stages /\ Room /\ InOrder
      /\ stage = "direct" /\ caller = "write"
      /\ UNCHANGED <<accepted, stored, caller, length, failures, torn>>
  BY DEF WriterInv, WriteDirect, writerCall, Stages
<1>2. /\ Position \in Nat /\ Len(output) \in Nat
      /\ accepted \in Nat /\ length \in Nat /\ sent \in Nat /\ sent < length
      /\ length <= accepted /\ output \in Seq(Nat)
  BY <1>1, WriterNumbers DEF Stages, WriterTypeOK
<1>3. PICK n \in 1..(length - sent) :
          /\ output' = output \o [i \in 1..n |-> accepted - length + sent + i]
          /\ IF sent + n = length
             THEN sent' = 0 /\ stage' = "idle" /\ returned' = TRUE
             ELSE sent' = sent + n /\ UNCHANGED <<stage, returned>>
  BY DEF WriteDirect
<1> DEFINE k == accepted - length + sent
<1> DEFINE part == [i \in 1..n |-> k + i]
<1>4. n \in Nat /\ n > 0 /\ sent + n <= length /\ k \in Nat
  BY <1>2, <1>3
<1>5. output' = output \o part
  BY <1>3
<1> HIDE DEF k
<1>6. part \in Seq(Nat) /\ Len(part) = n /\ \A i \in 1..n : part[i] = k + i
  BY <1>4, CountedFacts
<1> HIDE DEF part
<1>7. output' \in Seq(Nat) /\ Len(output') = Len(output) + n
  BY <1>2, <1>5, <1>6, AppendedFacts
<1>8. Position' = Position
  BY <1>1 DEF Position
<1>9. Written' = 0 /\ Written = 0 /\ Pending = length - sent
      /\ Pending' = length - sent - n
  BY <1>1, <1>2, <1>3, <1>4 DEF Written, Pending
<1>10. WriterTypeOK'
  <2>1. sent' \in Nat /\ stage' \in {"idle", "direct"} /\ returned' \in BOOLEAN
    <3>1. returned \in BOOLEAN
      BY <1>1 DEF WriterTypeOK
    <3>2. \/ sent' = 0 /\ stage' = "idle" /\ returned' = TRUE
          \/ sent' = sent + n /\ stage' = stage /\ returned' = returned
      BY <1>3
    <3>3. sent + n \in Nat
      BY <1>2, <1>4
    <3>4. CASE sent' = 0 /\ stage' = "idle" /\ returned' = TRUE
      BY <3>4
    <3>5. CASE sent' = sent + n /\ stage' = stage /\ returned' = returned
      BY <1>1, <3>1, <3>3, <3>5, Zenon
    <3> QED
      BY <3>2, <3>4, <3>5
  <2> QED
    BY <1>1, <1>7, <1>8, <2>1 DEF WriterTypeOK
<1>11. Stages'
  BY <1>1, <1>2, <1>3, <1>4 DEF Stages
<1>12. Room'
  BY <1>1, <1>3, <1>8 DEF Room
<1>13. InOrder'
  <2> SUFFICES ASSUME ~torn
               PROVE  /\ \A i \in 1..Len(output') : output'[i] = i
                      /\ \A i \in (Written' + 1)..Position' : FALSE
                      /\ Len(output') + Position' - Written' + Pending' = accepted'
    BY <1>1, <1>3, <1>8 DEF InOrder
  <2>1. Position = 0 /\ Len(output) + Position - Written + Pending = accepted
        /\ \A i \in 1..Len(output) : output[i] = i
    BY <1>1 DEF Room, InOrder
  <2>2. k = Len(output)
    BY <1>2, <1>9, <2>1 DEF k
  <2>3. \A i \in 1..Len(output') : output'[i] = i
    BY <1>2, <1>5, <1>6, <2>1, <2>2, FileContinued
  <2>4. \A i \in (Written' + 1)..Position' : FALSE
    BY <1>8, <1>9, <2>1
  <2>5. Len(output') + Position' - Written' + Pending' = accepted'
    <3>1. Position' = 0 /\ accepted' = accepted /\ Len(output) + length - sent = accepted
      BY <1>1, <1>2, <1>8, <1>9, <2>1
    <3>2. Len(output') = Len(output) + n /\ Written' = 0 /\ Pending' = length - sent - n
      BY <1>7, <1>9
    <3>3. Len(output) \in Nat /\ n \in Nat /\ length \in Nat /\ sent \in Nat
      BY <1>2, <1>4
    <3> QED
      BY <3>1, <3>2, <3>3
  <2> QED
    BY <2>3, <2>4, <2>5
<1> QED
  BY <1>10, <1>11, <1>12, <1>13 DEF WriterInv

(* A flush that fails before it has written leaves all as it was.           *)
LEMMA FailKeeps ==
    ASSUME WriterInv, Fail
    PROVE  WriterInv'
<1>1. /\ WriterTypeOK /\ Stages /\ Room /\ InOrder
      /\ (stage = "flush" /\ Position > 0) \/ stage = "direct"
      /\ failures' = failures + 1
      /\ torn' = (torn \/ caller # "flush" \/ sent > 0)
      /\ sent' = 0
      /\ IF stage = "flush" THEN Flushed(FALSE) ELSE stage' = "idle" /\ returned' = FALSE
      /\ UNCHANGED <<accepted, stored, output, caller, length>>
  BY DEF WriterInv, Fail, writerCall
<1>2. /\ Position \in Nat /\ Len(output) \in Nat /\ WriterLength \in Nat /\ WriterLength > 0
      /\ accepted \in Nat /\ length \in Nat /\ sent \in Nat /\ failures \in Nat
      /\ caller \in {"write", "flush", "close"} /\ torn \in BOOLEAN
  BY <1>1, WriterNumbers DEF WriterTypeOK
<1>3. /\ stage = "flush" /\ caller = "write" =>
            stage' = IF length > WriterLength THEN "direct" ELSE "store"
      /\ stage = "flush" /\ caller = "flush" => stage' = "idle" /\ returned' = FALSE
      /\ stage = "flush" /\ caller = "close" => stage' = "closed"
      /\ stage = "direct" => stage' = "idle" /\ returned' = FALSE
      /\ stage' \in {"idle", "store", "direct", "closed"} /\ returned' \in BOOLEAN
  BY <1>1, FlushedFacts
<1>4. Position' = Position
  BY <1>1 DEF Position
<1>5. WriterTypeOK'
  BY <1>1, <1>2, <1>3 DEF WriterTypeOK
<1>6. Stages'
  BY <1>1, <1>2, <1>3 DEF Stages
<1>7. ASSUME ~torn'
      PROVE  /\ ~torn /\ caller = "flush" /\ sent = 0 /\ stage = "flush"
             /\ stage' = "idle" /\ returned' = FALSE
  <2>1. ~torn /\ caller = "flush" /\ ~(sent > 0)
    BY <1>1, <1>7
  <2>2. stage = "flush"
    BY <1>1, <2>1 DEF Stages
  <2> QED
    BY <1>2, <1>3, <2>1, <2>2
<1>8. Room'
  BY <1>1, <1>7 DEF Room
<1>9. InOrder'
  <2> SUFFICES ASSUME ~torn'
               PROVE  /\ \A i \in 1..Len(output') : output'[i] = i
                      /\ \A i \in (Written' + 1)..Position' : stored'[i] = Len(output') + i - Written'
                      /\ Len(output') + Position' - Written' + Pending' = accepted'
    BY <1>1, <1>4, <1>7 DEF InOrder
  <2>1. Written' = 0 /\ Written = 0 /\ Pending = 0 /\ Pending' = 0
    BY <1>1, <1>7 DEF Written, Pending
  <2> QED
    BY <1>1, <1>4, <1>7, <2>1 DEF InOrder
<1> QED
  BY <1>5, <1>6, <1>8, <1>9 DEF WriterInv

(* What fits the buffer continues it.                                       *)
LEMMA StoreKeeps ==
    ASSUME WriterInv, Store
    PROVE  WriterInv'
<1>1. /\ WriterTypeOK /\ Stages /\ Room /\ InOrder
      /\ stage = "store" /\ caller = "write" /\ sent = 0
      /\ returned' = TRUE
      /\ stage' = IF Len(stored') > WriterLength THEN "overrun" ELSE "idle"
      /\ UNCHANGED <<accepted, output, caller, length, sent, failures, torn>>
  BY DEF WriterInv, Store, writerCall, Stages
<1>2. /\ Position \in Nat /\ Len(output) \in Nat /\ WriterLength \in Nat
      /\ accepted \in Nat /\ length \in Nat /\ length <= accepted
      /\ Position = Len(stored) /\ stored \in Seq(Nat)
  BY <1>1, WriterNumbers DEF Stages, WriterTypeOK, Position
<1> DEFINE k == accepted - length
<1> DEFINE part == [i \in 1..length |-> k + i]
<1>3. stored' = stored \o part
  BY DEF Store
<1>4. k \in Nat
  BY <1>2
<1> HIDE DEF k
<1>5. part \in Seq(Nat) /\ Len(part) = length /\ \A i \in 1..length : part[i] = k + i
  BY <1>2, <1>4, CountedFacts
<1> HIDE DEF part
<1>6. /\ stored' \in Seq(Nat) /\ Len(stored') = Position + length
      /\ \A i \in 1..Position : stored'[i] = stored[i]
      /\ \A i \in (Position + 1)..(Position + length) : stored'[i] = part[i - Position]
  <2>1. /\ stored' \in Seq(Nat) /\ Len(stored') = Len(stored) + Len(part)
        /\ \A i \in 1..Len(stored) : stored'[i] = stored[i]
        /\ \A i \in (Len(stored) + 1)..(Len(stored) + Len(part)) : stored'[i] = part[i - Len(stored)]
    <3>1. stored \in Seq(Nat) /\ part \in Seq(Nat)
      BY <1>2, <1>5
    <3> QED
      BY <1>3, <3>1, AppendedFacts
  <2> QED
    BY <1>2, <1>5, <2>1
<1>7. Position' = Position + length
  BY <1>6 DEF Position
<1>8. ~torn => Position' <= WriterLength /\ stage' = "idle"
  BY <1>1, <1>2, <1>6, <1>7 DEF Room
<1>9. WriterTypeOK'
  BY <1>1, <1>6, <1>8 DEF WriterTypeOK
<1>10. Stages'
  BY <1>1, <1>2 DEF Stages
<1>11. Room'
  BY <1>1 DEF Room
<1>12. InOrder'
  <2> SUFFICES ASSUME ~torn
               PROVE  /\ \A i \in 1..Len(output) : output[i] = i
                      /\ \A i \in (Written' + 1)..Position' : stored'[i] = Len(output) + i - Written'
                      /\ Len(output) + Position' - Written' + Pending' = accepted
    BY <1>1, <1>8 DEF InOrder
  <2>1. Written' = 0 /\ Written = 0 /\ Pending = length /\ Pending' = 0
    BY <1>1, <1>8 DEF Written, Pending
  <2>2. /\ \A i \in 1..Len(output) : output[i] = i
        /\ \A i \in 1..Position : stored[i] = Len(output) + i
        /\ Len(output) + Position + length = accepted
    BY <1>1, <1>2, <2>1 DEF InOrder
  <2>3. ASSUME NEW i \in 1..(Position + length) PROVE stored'[i] = Len(output) + i
    <3>1. CASE i <= Position
      BY <1>2, <1>6, <2>2, <3>1
    <3>2. CASE i > Position
      <4>1. i \in (Position + 1)..(Position + length) /\ i - Position \in 1..length
        BY <1>2, <3>2
      <4>2. stored'[i] = k + (i - Position)
        BY <1>5, <1>6, <4>1
      <4>3. k = Len(output) + Position
        BY <1>2, <2>2 DEF k
      <4> QED
        BY <1>2, <4>1, <4>2, <4>3
    <3> QED
      BY <1>2, <3>1, <3>2
  <2> QED
    BY <1>2, <1>7, <2>1, <2>2, <2>3
<1> QED
  BY <1>9, <1>10, <1>11, <1>12 DEF WriterInv

-----------------------------------------------------------------------------
LEMMA WriterBegins ==
    WriterInit => WriterInv
<1> SUFFICES ASSUME WriterInit PROVE WriterInv
  OBVIOUS
<1>1. /\ accepted = 0 /\ stage = "idle" /\ caller = "flush" /\ length = 0 /\ sent = 0
      /\ returned = TRUE /\ failures = 0 /\ torn = FALSE
      /\ stored \in Seq(Nat) /\ output \in Seq(Nat) /\ WriterLength \in Nat
  BY WriterAssumption DEF WriterInit
<1>2. Position = 0 /\ Len(output) = 0
  BY DEF WriterInit, Position
<1>3. WriterTypeOK
  BY <1>1, Zenon DEF WriterTypeOK
<1>4. Stages
  BY <1>1, <1>2 DEF Stages
<1>5. Room
  BY <1>1, <1>2 DEF Room
<1>6. InOrder
  <2>1. Written = 0 /\ Pending = 0
    BY <1>1 DEF Written, Pending
  <2> QED
    BY <1>1, <1>2, <2>1 DEF InOrder
<1> QED
  BY <1>3, <1>4, <1>5, <1>6 DEF WriterInv

LEMMA WriterStep ==
    WriterInv /\ [WriterNext]_writerVars => WriterInv'
<1> SUFFICES ASSUME WriterInv, [WriterNext]_writerVars PROVE WriterInv'
  OBVIOUS
<1>1. CASE \E n \in Lengths : WriteBufferedWriter(n)
  BY <1>1, WriteBufferedWriterKeeps
<1>2. CASE \E c \in {"flush", "close"} : FlushOrClose(c)
  BY <1>2, FlushOrCloseKeeps
<1>3. CASE WriteBuffer
  BY <1>3, WriteBufferKeeps
<1>4. CASE FlushNothing
  BY <1>4, FlushNothingKeeps
<1>5. CASE WriteDirect
  BY <1>5, WriteDirectKeeps
<1>6. CASE Fail
  BY <1>6, FailKeeps
<1>7. CASE Store
  BY <1>7, StoreKeeps
<1>8. CASE UNCHANGED writerVars
  BY <1>8
     DEF WriterInv, WriterTypeOK, Stages, Room, InOrder, Position, Written,
         Pending, writerVars, writerCall
<1> QED
  BY <1>1, <1>2, <1>3, <1>4, <1>5, <1>6, <1>7, <1>8 DEF WriterNext

(* The inductive invariant of the buffered writer.                          *)
THEOREM WriterInvariant ==
    WriterSpec => []WriterInv
  BY WriterBegins, WriterStep, PTL DEF WriterSpec

(* The types hold, the overrun included.                                    *)
THEOREM WriterTypes ==
    WriterSpec => []WriterTypeOK
<1>1. WriterInv => WriterTypeOK
  BY DEF WriterInv
<1> QED
  BY <1>1, WriterInvariant, PTL

(* However write(2) divides what it is given, and however often a flush     *)
(* that had written nothing is repeated, the file has each byte once and in *)
(* order, and the copy into the buffer stays within it.                     *)
THEOREM BytesInOrder ==
    WriterSpec => []InOrder
<1>1. WriterInv => InOrder
  BY DEF WriterInv
<1> QED
  BY <1>1, WriterInvariant, PTL

(* A flush or a closing that has succeeded leaves nothing behind.           *)
THEOREM FlushedLeavesNothing ==
    WriterSpec => []FlushedIsOut
<1>1. WriterInv => FlushedIsOut
  <2> SUFFICES ASSUME WriterInv, ~torn,
                      stage = "closed" \/ (stage = "idle" /\ caller = "flush" /\ returned)
               PROVE  Len(output) = accepted
    BY DEF FlushedIsOut
  <2>1. WriterTypeOK /\ Room /\ InOrder
    BY DEF WriterInv
  <2>2. Position = 0 /\ Written = 0 /\ Pending = 0
    BY <2>1 DEF Room, Written, Pending
  <2> QED
    BY <2>1, <2>2, WriterNumbers DEF InOrder
<1> QED
  BY <1>1, WriterInvariant, PTL

=============================================================================
