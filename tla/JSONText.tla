------------------------------ MODULE JSONText ------------------------------
(***************************************************************************)
(* What a JSON text is, independently of the codec: the automaton of the   *)
(* grammar with a stack of the open containers, read from left to right.   *)
(* The letters are those of JSONEncoder.                                   *)
(***************************************************************************)
EXTENDS Integers, Sequences, SequencesExt

(* The state: what may come next, the braces that must still close, and the  *)
(* letters of the names of the outermost object's members.                   *)
Begin == [at |-> "value", open |-> <<>>, members |-> <<>>]
Bad == [Begin EXCEPT !.at = "bad"]

(* After a value: more of the container, or the end of the text.             *)
After(s) == [s EXCEPT !.at = IF s.open = <<>> THEN "end" ELSE "more"]

(* No scalar has one of these; "inf" is what printf makes of an infinity.    *)
Structure == {"lbrace", "rbrace", "lbracket", "rbracket", "comma", "colon", "space",
              "quote", "backslash", "control", "newline", "NUL", "inf"}

Close(s, brace) ==
    IF s.open # <<>> /\ Last(s.open) = brace
    THEN After([s EXCEPT !.open = Front(s.open)])
    ELSE Bad

Value(s, ch) ==
    CASE ch = "lbrace" -> [s EXCEPT !.at = "firstName", !.open = Append(@, "rbrace")]
      [] ch = "lbracket" -> [s EXCEPT !.at = "firstValue", !.open = Append(@, "rbracket")]
      [] ch = "quote" -> [s EXCEPT !.at = "string"]
      [] ch \notin Structure -> [s EXCEPT !.at = "scalar"]
      [] OTHER -> Bad

Delimiter(s, ch) ==
    CASE ch = "comma" /\ s.open # <<>> ->
             [s EXCEPT !.at = IF Last(s.open) = "rbrace" THEN "name" ELSE "value"]
      [] ch \in {"rbrace", "rbracket"} -> Close(s, ch)
      [] OTHER -> Bad

(* A character of a string or of a name.                                     *)
Quoted(s, ch) ==
    IF ch = "quote" THEN IF s.at = "key" THEN [s EXCEPT !.at = "colon"] ELSE After(s)
    ELSE IF ch = "backslash"
    THEN [s EXCEPT !.at = IF s.at = "key" THEN "keyEscape" ELSE "stringEscape"]
    ELSE IF ch \in {"control", "newline", "NUL"} THEN Bad
    ELSE IF s.at = "key" /\ Len(s.open) = 1 THEN [s EXCEPT !.members = Append(@, ch)]
    ELSE s

Name(s, ch) == IF ch = "quote" THEN [s EXCEPT !.at = "key"] ELSE Bad

(* A character between strings and scalars.                                  *)
Syntax(s, ch) ==
    CASE s.at = "firstValue" -> IF ch = "rbracket" THEN Close(s, ch) ELSE Value(s, ch)
      [] s.at = "firstName" -> IF ch = "rbrace" THEN Close(s, ch) ELSE Name(s, ch)
      [] s.at = "name" -> Name(s, ch)
      [] s.at = "colon" -> IF ch = "colon" THEN [s EXCEPT !.at = "value"] ELSE Bad
      [] s.at = "value" -> Value(s, ch)
      [] s.at \in {"scalar", "more"} -> Delimiter(s, ch)
      [] s.at \in {"end", "bad"} -> Bad

Read(s, ch) ==
    IF s.at \in {"string", "key"} THEN Quoted(s, ch)
    ELSE IF s.at = "keyEscape" THEN [s EXCEPT !.at = "key"]
    ELSE IF s.at = "stringEscape" THEN [s EXCEPT !.at = "string"]
    ELSE IF s.at = "scalar" /\ ch \notin Structure THEN s
    ELSE IF ch = "space" THEN IF s.at = "scalar" THEN After(s) ELSE s
    ELSE Syntax(s, ch)

(* The state after a whole text.                                             *)
ReadAll(s, text) ==
    LET state[i \in 0 .. Len(text)] == IF i = 0 THEN s ELSE Read(state[i - 1], text[i])
    IN  state[Len(text)]

WellFormed(text) ==
    LET s == ReadAll(Begin, text)
    IN  s.at = "end" \/ (s.at = "scalar" /\ s.open = <<>>)
Members(text) == ReadAll(Begin, text).members

(* The text without the white space of pretty printing; no string of the     *)
(* instances contains a space.                                               *)
Compact(text) == SelectSeq(text, LAMBDA ch : ch # "space")
=============================================================================
