----------------------------- MODULE JSONDecoder -----------------------------
(***************************************************************************)
(* The decoding half of the JSON codec (CrasheeJSONCodec.c) at work in the *)
(* three places where the program decodes a text and encodes it again as   *)
(* it goes:                                                                *)
(*   "file"     addJSONFromFile, the report that a crash of its writer     *)
(*              left behind, read a piece at a time into a small buffer;   *)
(*   "element"  addJSONElement, the user's own section of a report;        *)
(*   "fix"      fixupCrashReport (CrasheeCrashReportFixer.c), the report   *)
(*              that is handed to the sender.                              *)
(* One step decodes what lies between two callbacks.  The recursion of     *)
(* decodeElement is the stack frames.  \uXXXX is written with one          *)
(* character for the four digits.  "9" is a digit of an integer that does  *)
(* not fit 64 bits, "~" one of a number that printf has rounded, "E" what  *)
(* makes a number too large for a double (an exponent, or its 310th digit).*)
(***************************************************************************)
EXTENDS JSONEncoder, JSONText

CONSTANTS
    Uses,       \* the uses of the decoder, a subset of the three
    Texts,      \* the texts to decode, for each use
    BufferSize, \* the bytes of addJSONFromFile's buffer (1000)
    NameSize,   \* the size of the buffer for a name
    StringSize, \* the size of the buffer for a string
    MaxDepth,   \* MAX_DEPTH of the fixer
    Documents   \* the complete texts among them, as the encoder writes them

ASSUME DecoderAssumption ==
    /\ Uses \subseteq {"file", "element", "fix"} /\ Uses \subseteq DOMAIN Texts
    /\ BufferSize \in Nat \ {0, 1} /\ NameSize \in Nat /\ StringSize \in Nat
    /\ MaxDepth \in Nat
    /\ \A u \in Uses : \A t \in Texts[u] : t \in Seq(Range(t))

(* A string of C has no NUL in it; what the encoder writes into a file has no *)
(* control character, and of a number no more than a double holds.  Nobody    *)
(* has the name that stands for NULL, and the results of the calls are no     *)
(* characters.                                                               *)
ASSUME TextAssumption ==
    /\ \A u \in Uses : \A t \in Texts[u] : Range(t) \cap (Results \cup {"NUL"}) = {}
    /\ "file" \in Uses => \A t \in Texts["file"] : Range(t) \cap {"control", "NULL", "E"} = {}

VARIABLES
    use,        \* which of the three
    text,       \* the text to decode: the file, or the bytes in memory
    window,     \* the bytes from bufferStart to bufferEnd
    ptr,        \* bufferPtr, as an index of window
    pos,        \* the bytes read from the file
    eof,        \* isEOF
    frames,     \* the containers that decodeElement is inside of
    name,       \* the name of the element to decode
    enc,        \* the encoding context
    pc,         \* "element", "next", "comma", "finish", "done"
    result      \* what decodeElement returns

vars == <<use, text, window, ptr, pos, eof, frames, name, enc, pc, result>>

-----------------------------------------------------------------------------
(* Where the report stands when the embedded element begins: inside its root *)
(* object.  The fixer begins with an empty output of 1.5 times the length.   *)
Report == BeginContainer(BeginEncode(TRUE, NoLimit), NoName, TRUE)
Output(t) == BeginEncode(TRUE, (Len(t) * 3) \div 2)

Init ==
    /\ use \in Uses
    /\ text \in Texts[use]
    /\ window = IF use = "file" THEN [i \in 1 .. BufferSize |-> "NUL"] ELSE text
    /\ ptr = IF use = "file" THEN BufferSize + 1 ELSE 1
    /\ pos = 0
    /\ eof = FALSE
    /\ frames = <<>>
    /\ name = IF use = "fix" THEN NoName ELSE <<"e">>
    /\ enc = IF use = "fix" THEN Output(text) ELSE Report
    /\ pc = IF use = "file" THEN "load" ELSE "element"
    /\ result = "OK"

ReadFile(from, n) ==
    SubSeq(text, from + 1, IF from + n > Len(text) THEN Len(text) ELSE from + n)

(* Mutant: the rest is not moved before the file fills the buffer.           *)
MutUpdate(p) ==
    LET rest == SubSeq(window, p, BufferSize)
        read == ReadFile(pos, BufferSize - Len(rest))
        kept == SubSeq(window, 1, Len(rest)) \o read
        stale == SubSeq(window, Len(kept) + 1, BufferSize)
    IN  IF use = "file" /\ ~eof /\ Len(rest) < BufferSize \div 2
        THEN /\ window' = kept \o stale
             /\ ptr' = 1
             /\ pos' = pos + Len(read)
             /\ eof' = (stale # <<>>)
        ELSE ptr' = p /\ UNCHANGED <<window, pos, eof>>

(* updateDecoder_readFile: less than half of the buffer remains, so the rest *)
(* moves to its start and the file fills it up.  A short read leaves old     *)
(* bytes behind what it has read, and bufferEnd where it is.                 *)
Update(p) ==
    LET rest == SubSeq(window, p, BufferSize)
        read == ReadFile(pos, BufferSize - Len(rest))
        filled == rest \o read
        stale == SubSeq(window, Len(filled) + 1, BufferSize)
    IN  IF use = "file" /\ ~eof /\ Len(rest) < BufferSize \div 2
        THEN /\ window' = filled \o stale
             /\ ptr' = 1
             /\ pos' = pos + Len(read)
             /\ eof' = (stale # <<>>)
        ELSE ptr' = p /\ UNCHANGED <<window, pos, eof>>

(* addJSONFromFile loads the buffer before the first element.                *)
Load ==
    /\ pc = "load"
    /\ Update(ptr)
    /\ pc' = "element"
    /\ UNCHANGED <<use, text, frames, name, enc, result>>

-----------------------------------------------------------------------------
End == Len(window)
SkipSpace(p) ==
    LET solid == {i \in p .. End : window[i] # "space"}
    IN  IF solid = {} THEN End + 1 ELSE CHOOSE i \in solid : \A j \in solid : i <= j

(* decodeString at p: the string, where it goes on, or an error.             *)
Simple == [ch \in {Quote, Backslash, "n", "/"} |-> IF ch = "n" THEN "newline" ELSE ch]
Failed(r) == [result |-> r, string |-> <<>>, next |-> 0]

(* What the characters from i on stand for: a letter and how many characters *)
(* it takes, or an error, which ends the string.  A lead surrogate and the   *)
(* trail surrogate after it become one character, of the plane below the one *)
(* that is meant.  Behind the string stands its closing quote.               *)
Unit(raw, i) ==
    LET n == Len(raw)
        e == IF i < n THEN raw[i + 1] ELSE Quote
        code == IF i + 2 <= n THEN raw[i + 2] ELSE Quote
        Is(ch, k) == [letter |-> ch, length |-> k]
    IN  IF raw[i] # Backslash THEN Is(raw[i], 1)
        ELSE IF e \in DOMAIN Simple THEN Is(Simple[e], 2)
        ELSE IF e # "u" THEN Is("INVALID_CHARACTER", 0)
        ELSE IF i + 2 > n THEN Is("INCOMPLETE", 0)
        ELSE IF code \in {"trail", Quote, Backslash} THEN Is("INVALID_CHARACTER", 0)
        ELSE IF code # "lead" THEN Is(code, 3)
        ELSE IF i + 5 > n THEN Is("INCOMPLETE", 0)
        ELSE IF raw[i + 3] = Backslash /\ raw[i + 4] = "u" /\ raw[i + 5] = "trail"
        THEN Is("pair", 6) ELSE Is("INVALID_CHARACTER", 0)

Unescape(raw) ==
    LET n == Len(raw)
        un[i \in 1 .. n + 6] ==
            LET unit == Unit(raw, i)
            IN  IF i > n THEN <<>>
                ELSE IF unit.length = 0 THEN <<unit.letter>>
                ELSE <<unit.letter>> \o un[i + unit.length]
    IN  un[1]

DecodeString(p, size) ==
    LET escaped[i \in p .. End] ==
            i > p + 1 /\ window[i - 1] = Backslash /\ ~escaped[i - 1]
        quotes == {i \in p + 1 .. End : window[i] = Quote /\ ~escaped[i]}
        close == CHOOSE i \in quotes : \A j \in quotes : i <= j
        string == Unescape(SubSeq(window, p + 1, close - 1))
    IN  IF window[p] # Quote THEN Failed("INVALID_CHARACTER")
        ELSE IF quotes = {} THEN Failed("INCOMPLETE")
        ELSE IF close - p - 1 >= size THEN Failed("DATA_TOO_LONG")
        ELSE IF string # <<>> /\ Last(string) \in Results THEN Failed(Last(string))
        ELSE [result |-> "OK", string |-> string, next |-> close + 1]

(* A number must be followed by something else.  An integer whose overflow   *)
(* shows in the sign of accum, which is undefined, is taken for a floating   *)
(* point number, as one with a point or an exponent is; otherwise what comes *)
(* out is another integer.  printf rounds a double, and has a word for one   *)
(* that is infinite.                                                         *)
FPChars == {"1", "9", "~", ".", "-", "E"}
DecodeNumber(p, noticed) ==
    LET digits == IF window[p] = "-" THEN p + 1 ELSE p
        others == {i \in digits .. End : window[i] \notin FPChars}
        stop == CHOOSE i \in others : \A j \in others : i <= j
        number == SubSeq(window, digits, stop - 1)
        isInteger == Range(number) \subseteq (IF noticed THEN {"1"} ELSE {"1", "9"})
        other == IF isInteger THEN "1" ELSE "~"
        Printed == IF ~isInteger /\ "E" \in Range(number) THEN <<"inf">>
                   ELSE [i \in DOMAIN number |-> IF number[i] = "9" THEN other ELSE number[i]]
    IN  IF digits > End \/ window[digits] \notin {"1", "9", "~"} THEN Failed("INVALID_CHARACTER")
        ELSE IF others = {} THEN Failed("INCOMPLETE")
        ELSE IF stop - digits >= StringSize /\ ~isInteger THEN Failed("DATA_TOO_LONG")
        ELSE [result |-> "OK", next |-> stop,
              string |-> SubSeq(window, p, digits - 1) \o Printed]

-----------------------------------------------------------------------------
(* An error, the encoder's or the decoder's, ends all of decodeElement.      *)
Fail(r) ==
    /\ result' = r /\ pc' = "finish"
    /\ UNCHANGED <<use, text, window, ptr, pos, eof, frames, name, enc>>

(* A callback has encoded: the file's are followed by updateDecoder.         *)
Callback(c, p, stack) ==
    /\ enc' = c
    /\ frames' = stack
    /\ Update(p)
    /\ result' = c.result
    /\ pc' = IF ~OK(c) THEN "finish"
             ELSE IF stack = <<>> THEN "finish"
             ELSE IF Len(stack) > Len(frames) THEN "next" ELSE "comma"
    /\ UNCHANGED <<use, text, name>>

(* The fixer's stack of names has a limit; the codec's own has none.         *)
BeginFrame(p, isObject) ==
    LET begun == BeginContainer(enc, name, isObject)
        deep == use = "fix" /\ Len(frames) >= MaxDepth
    IN  Callback(IF deep THEN Return(begun, "DATA_TOO_LONG") ELSE begun,
                 p + 1, Append(frames, isObject))

DecodeElement ==
    LET p == SkipSpace(ptr)
        ch == window[p]
        string == DecodeString(p, StringSize)
        numbers == {DecodeNumber(p, noticed) : noticed \in BOOLEAN}
    IN  /\ pc = "element"
        /\ CASE p > End -> Fail("INCOMPLETE")
             [] p <= End /\ ch \in {"lbrace", "lbracket"} -> BeginFrame(p, ch = "lbrace")
             [] p <= End /\ ch = Quote ->
                  IF string.result # "OK" THEN Fail(string.result)
                  ELSE Callback(AddStringElement(enc, name, string.string), string.next, frames)
             [] p <= End /\ ch = "true" ->
                  Callback(AddElement(enc, name, <<ch>>), p + 1, frames)
             [] p <= End /\ ch \in FPChars \ {"."} ->
                  \E number \in numbers :
                     IF number.result # "OK" THEN Fail(number.result)
                     ELSE Callback(AddElement(enc, name, number.string), number.next, frames)
             [] OTHER -> Fail("INVALID_CHARACTER")

(* onEndContainer: what was begun inside the element is ended; the element   *)
(* itself only where the caller asks for it.                                 *)
EndFrame(p) ==
    LET left == Front(frames)
        ended == IF use # "element" \/ Level(enc) > 2 THEN EndContainer(enc) ELSE Call(enc)
    IN  Callback(ended, p + 1, left)

(* The head of the two loops: the container ends, or its next element comes, *)
(* after a name and a colon if it is an object.                              *)
NextInContainer ==
    LET p == SkipSpace(ptr)
        isObject == Last(frames)
        key == DecodeString(p, NameSize)
        colon == SkipSpace(key.next)
    IN  /\ pc = "next"
        /\ CASE p > End -> Fail("INCOMPLETE")
             [] p <= End /\ window[p] = (IF isObject THEN "rbrace" ELSE "rbracket") -> EndFrame(p)
             [] p <= End /\ ~isObject /\ window[p] # "rbracket" ->
                  /\ ptr' = p /\ name' = NoName /\ pc' = "element"
                  /\ UNCHANGED <<use, text, window, pos, eof, frames, enc, result>>
             [] OTHER ->
                  IF key.result # "OK" THEN Fail(key.result)
                  ELSE IF colon > End THEN Fail("INCOMPLETE")
                  ELSE IF window[colon] # "colon" THEN Fail("INVALID_CHARACTER")
                  ELSE /\ ptr' = colon + 1 /\ name' = key.string /\ pc' = "element"
                       /\ UNCHANGED <<use, text, window, pos, eof, frames, enc, result>>

(* Behind an element; a missing comma is not missed.                         *)
SkipComma ==
    LET p == SkipSpace(ptr)
    IN  /\ pc = "comma"
        /\ IF p > End THEN Fail("INCOMPLETE")
           ELSE /\ ptr' = IF window[p] = "comma" THEN p + 1 ELSE p
                /\ pc' = "next"
                /\ UNCHANGED <<use, text, window, pos, eof, frames, name, enc, result>>

-----------------------------------------------------------------------------
(* The report's writer notes an error of addJSONElement in place.            *)
AddJSONElement(c) ==
    LET noted == AddStringElement(BeginContainer(c, <<"e">>, TRUE), <<"r">>, <<"x">>)
    IN  IF result = "OK" THEN c
        ELSE EndContainer(AddStringElement(noted, <<"j">>, text))

(* decodeElement has returned.  addJSONFromFile ends the containers that are *)
(* still open in it, the user's section is ended by its caller; the fixer    *)
(* returns NULL after an error.  The report's other sections come last.      *)
Finish ==
    /\ pc = "finish"
    /\ enc' = CASE use = "file" -> EndEncode(AddElement(CloseTo(enc, 1), <<"z">>, <<"1">>))
                [] use = "element" ->
                     EndEncode(AddElement(EndContainer(AddJSONElement(enc)), <<"z">>, <<"1">>))
                [] use = "fix" /\ result = "OK" -> EndEncode(enc)
                [] OTHER -> enc
    /\ pc' = "done"
    /\ UNCHANGED <<use, text, window, ptr, pos, eof, frames, name, result>>

Next == Load \/ DecodeElement \/ NextInContainer \/ SkipComma \/ Finish

Spec == Init /\ [][Next]_vars /\ WF_vars(Next)

-----------------------------------------------------------------------------
(* Properties.                                                              *)

Literals ==
    {"lbrace", "rbrace", "lbracket", "rbracket", "comma", "colon", "space", Quote, Backslash,
     "n", "/", "newline", "NUL", "pair", "INCOMPLETE", "INVALID_CHARACTER", "true", "1", "9",
     "~", ".", "-", "E", "inf", "e", "j", "r", "x", "z", "NULL"}

Chars == Literals \cup UNION {UNION {Range(t) : t \in Texts[u]} : u \in Uses}

TypeOK ==
    /\ use \in Uses /\ text \in Texts[use]
    /\ enc \in Contexts(Chars)
    /\ ptr \in 1 .. End + 1
    /\ use = "file" => End = BufferSize
    /\ pos \in 0 .. Len(text)
    /\ frames \in Seq(BOOLEAN)
    /\ pc \in {"load", "element", "next", "comma", "finish", "done"}
    /\ result \in Results

(* Wherever the file of a report breaks off, the report that it is embedded  *)
(* into is well formed, and the sections after it are members of its root.   *)
ReportStaysWhole ==
    pc = "done" /\ use = "file" =>
        /\ WellFormed(enc.text)
        /\ Members(enc.text) \in {<<"e", "z">>, <<"z">>}

(* addJSONFromFile fills its window again after a callback only if less than *)
(* half of it is left.  The characters from one callback to the next, a      *)
(* comma, white space and a name among them, are sure to be in the window if *)
(* they are fewer than that; Ended is where a callback comes.                *)
Ended(t, i) ==
    LET s == ReadAll(Begin, SubSeq(t, 1, i))
    IN  \/ s.at \in {"firstName", "firstValue", "more", "end"} /\ t[i] # "space"
        \/ s.at = "scalar" /\ (i = Len(t) \/ t[i + 1] \in Structure)

ElementsFit(t) ==
    LET half == BufferSize \div 2
    IN  \A i \in 0 .. Len(t) + 1 - half : \E j \in i + 1 .. i + half - 1 : Ended(t, j)

Embedded(t) ==
    IF use = "fix" THEN t
    ELSE <<"lbrace", Quote, "e", Quote, "colon">> \o t
             \o <<"comma", Quote, "z", Quote, "colon", "1", "rbrace">>

(* A complete text whose elements fit the window passes through the decoder  *)
(* and the encoder unchanged but for its white space, however the buffer     *)
(* cuts it.                                                                  *)
SameContent ==
    /\ pc = "done" /\ text \in Documents
    /\ use = "fix" => result = "OK"
    /\ use = "file" => ElementsFit(text)
    => Compact(enc.text) = Compact(Embedded(text))

(* "Decode and add JSON data from a file" (CrasheeJSONCodec.h): any text.    *)
(* The code does not keep to it: an element that spans more than half of the *)
(* buffer may be cut, although its name and its string fit theirs.           *)
EverySameContent ==
    pc = "done" /\ text \in Documents /\ use = "file" =>
        Compact(enc.text) = Compact(Embedded(text))

(* What the fixer hands out rather than NULL is well formed, whatever it is  *)
(* given that has no number too large for a double.                          *)
FixesFinite == use = "fix" /\ "E" \notin Range(text)
FixedReadable ==
    pc = "done" /\ FixesFinite /\ result = "OK" => WellFormed(enc.text)

(* The code does not keep to it for every text: 1e999 is decoded, and comes  *)
(* out as inf.                                                               *)
AlwaysReadable ==
    pc = "done" /\ use = "fix" /\ result = "OK" => WellFormed(enc.text)

(* What makes ReportStaysWhole and FixedReadable inductive.  A text that the *)
(* encoder may go on with stands where its context says, and has open what   *)
(* the context has.                                                          *)
State(c) == ReadAll(Begin, c.text)

Braces(isObject) == [i \in DOMAIN isObject |-> IF isObject[i] THEN "rbrace" ELSE "rbracket"]

Places(c) ==
    IF ~c.first THEN {IF Level(c) = 0 THEN "end" ELSE "more", "scalar"}
    ELSE IF Level(c) = 0 THEN {"value"}
    ELSE IF InObject(c) THEN {"firstName"} ELSE {"firstValue"}

Point(at, open, members) == [at |-> at, open |-> open, members |-> members]

Fits(c) ==
    /\ OK(c)
    /\ \E at \in Places(c) : State(c) = Point(at, Braces(c.isObject), State(c).members)

(* The file's window has nothing behind its first NUL, and, as long as there *)
(* is more to read, none.                                                    *)
WindowFits ==
    /\ use # "file" => window = text
    /\ window \in Seq(Range(text) \cup {"NUL"})
    /\ \A i \in 1 .. End : \A j \in i .. End : window[i] = "NUL" => window[j] = "NUL"
    /\ pc = "load" => use = "file" /\ ptr = End + 1
    /\ use = "file" /\ ~eof /\ pc # "load" => \A i \in 1 .. End : window[i] # "NUL"

(* The letters that a string decoded from the text can have.                 *)
Letters == Range(text) \cup Range(Simple) \cup {"pair", "INCOMPLETE", "INVALID_CHARACTER"}

(* A member of an object has a name.                                         *)
FramesFit ==
    /\ pc \in {"next", "comma"} => frames # <<>>
    /\ name \in Seq(Letters) \cup {<<"e">>, NoName}
    /\ pc \in {"load", "element"} /\ use = "file" =>
          /\ frames = <<>> => name = <<"e">>
          /\ frames # <<>> /\ Last(frames) => name # NoName

(* The containers that are open in the report are its root and those that    *)
(* the decoder is inside of; the fixer's are the latter, until it fails or   *)
(* meets an infinite number.                                                 *)
TextFits ==
    /\ pc \notin {"finish", "done"} => result = "OK"
    /\ use = "file" /\ pc # "done" =>
          Fits(enc) /\ enc.room = NoLimit /\ enc.isObject = <<TRUE>> \o frames
    /\ FixesFinite /\ pc # "done" /\ result = "OK" =>
          /\ Fits(enc) /\ enc.isObject = frames
          /\ pc = "element" /\ frames = <<>> => enc.first
          /\ pc = "finish" => frames = <<>> /\ ~enc.first

(* The embedded report is the only member so far.                            *)
MembersFit ==
    use = "file" /\ pc # "done" =>
        /\ Members(enc.text) \in {<<>>, <<"e">>}
        /\ frames # <<>> => Members(enc.text) = <<"e">>
        /\ pc \in {"load", "element"} /\ frames = <<>> => Members(enc.text) = <<>>

CodecInv ==
    /\ TypeOK /\ WindowFits /\ FramesFit /\ TextFits /\ MembersFit
    /\ ReportStaysWhole /\ FixedReadable

(* The sections that follow the user's are members of the report's root,     *)
(* whatever text the user has handed over.  The code does not keep to it: an *)
(* error inside the user's containers leaves them open.                      *)
UserSectionEnds ==
    pc = "done" /\ use = "element" =>
        WellFormed(enc.text) /\ "z" \in Range(Members(enc.text))
=============================================================================
