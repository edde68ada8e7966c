---------------------------- MODULE JSONEncoder ----------------------------
(***************************************************************************)
(* The encoding half of the JSON codec (CrasheeJSONCodec.c): operators on  *)
(* an encoding context, one for each function that adds to it.             *)
(*                                                                         *)
(* A text is a sequence of characters, of which only those are told apart  *)
(* that the codec tells apart: those of the syntax, a character that is    *)
(* escaped ("newline"), one that cannot be ("control"), and letters.  A    *)
(* digit, a letter or a literal such as true stands for any of its kind.   *)
(***************************************************************************)
EXTENDS Integers, Sequences, SequencesExt, FiniteSets

CONSTANTS
    Portion,    \* the characters of a string that are escaped at a time
    Indent      \* the spaces by which pretty printing indents a level

ASSUME EncoderAssumption == Portion \in Nat \ {0} /\ Indent \in Nat

Quote == "quote"
Backslash == "backslash"

(* A name is a sequence, so that <<>> is the empty name; NULL is this one.   *)
NoName == <<"NULL">>

(* CrasheeJSONEncodeContext, with what the caller's sink still accepts, what *)
(* it has accepted, and what the last call returned.  A report's file has no *)
(* limit.                                                                    *)
NoLimit == -1

Results == {"OK", "INVALID_CHARACTER", "DATA_TOO_LONG", "CANNOT_ADD_DATA",
            "INCOMPLETE", "INVALID_DATA"}

Contexts(letters) ==
    [text : Seq(letters), room : Nat \cup {NoLimit}, isObject : Seq(BOOLEAN), first : BOOLEAN,
     pretty : BOOLEAN, result : Results]

BeginEncode(pretty, room) ==
    [text |-> <<>>, room |-> room, isObject |-> <<>>, first |-> TRUE,
     pretty |-> pretty, result |-> "OK"]

Level(c) == Len(c.isObject)
InObject(c) == Level(c) > 0 /\ c.isObject[Level(c)]
OK(c) == c.result = "OK"
Call(c) == [c EXCEPT !.result = "OK"]
Return(c, r) == [c EXCEPT !.result = r]

(* The first call that fails ends a chain of calls.                          *)
Add(c, data) ==
    IF ~OK(c) THEN c
    ELSE IF c.room = NoLimit THEN [c EXCEPT !.text = c.text \o data]
    ELSE IF Len(data) > c.room THEN Return(c, "CANNOT_ADD_DATA")
    ELSE [c EXCEPT !.text = c.text \o data, !.room = c.room - Len(data)]

(* Mutant: a line break goes out as it is.                                   *)
MutEscape(ch) == IF ch \in {Quote, Backslash} THEN <<Backslash, ch>> ELSE <<ch>>

(* A string goes out escaped, a portion at a time: one with a control        *)
(* character that has no escape is dropped, and ends the string.             *)
Escape(ch) ==
    CASE ch \in {Quote, Backslash} -> <<Backslash, ch>>
      [] ch = "newline" -> <<Backslash, "n">>
      [] OTHER -> <<ch>>

Escaped(s, n) ==
    LET escaped[i \in 0 .. n] == IF i = 0 THEN <<>> ELSE escaped[i - 1] \o Escape(s[i])
    IN  escaped[n]

AddEscapedString(c, s) ==
    LET bad == {i \in DOMAIN s : s[i] = "control"}
        first == CHOOSE i \in bad : \A j \in bad : i <= j
        kept == IF bad = {} THEN Len(s) ELSE Portion * ((first - 1) \div Portion)
        out == Add(c, Escaped(s, kept))
    IN  IF bad # {} /\ OK(out) THEN Return(out, "INVALID_CHARACTER") ELSE out

(* The closing quote is added even when the string failed.  result ||        *)
(* closeResult makes 1 of any error, which is INVALID_CHARACTER.             *)
AddQuotedEscapedString(c, s) ==
    LET open == Add(c, <<Quote>>)
        body == AddEscapedString(open, s)
        close == Add(Call(body), <<Quote>>)
    IN  IF ~OK(open) THEN open
        ELSE IF OK(body) /\ OK(close) THEN close
        ELSE Return(close, "INVALID_CHARACTER")

NewLine(c) == Add(c, [i \in 1 .. 1 + Indent * Level(c) |-> "space"])

(* What comes before every element: comma, indentation, name, colon.         *)
BeginElement(c, name) ==
    LET comma == IF c.first THEN [Call(c) EXCEPT !.first = FALSE]
                            ELSE Add(Call(c), <<"comma">>)
        line == IF c.pretty /\ Level(c) > 0 THEN NewLine(comma) ELSE comma
    IN  IF ~InObject(c) \/ ~OK(line) THEN line
        ELSE IF name = NoName THEN Return(line, "INVALID_DATA")
        ELSE Add(AddQuotedEscapedString(line, name),
                 IF c.pretty THEN <<"colon", "space">> ELSE <<"colon">>)

(* addBooleanElement, addNullElement, and the numbers as printf writes them. *)
AddElement(c, name, value) == Add(BeginElement(c, name), value)

AddStringElement(c, name, s) ==
    LET begun == BeginElement(c, name)
    IN  IF OK(begun) THEN AddQuotedEscapedString(begun, s) ELSE begun

(* beginObject and beginArray: the level is entered even if the brace fails. *)
BeginContainer(c, name, isObject) ==
    LET begun == BeginElement(c, name)
    IN  IF ~OK(begun) THEN begun
        ELSE Add([begun EXCEPT !.isObject = Append(@, isObject), !.first = TRUE],
                 <<IF isObject THEN "lbrace" ELSE "lbracket">>)

EndContainer(c) ==
    LET left == [Call(c) EXCEPT !.isObject = Front(c.isObject)]
        line == IF c.pretty /\ ~c.first THEN NewLine(left) ELSE left
    IN  IF Level(c) = 0 THEN Call(c)
        ELSE IF ~OK(line) THEN line
        ELSE Add([line EXCEPT !.first = FALSE], <<IF InObject(c) THEN "rbrace" ELSE "rbracket">>)

(* Mutant: the containers are left open.                                     *)
MutCloseTo(c, level) == c

(* The loops that end containers down to a level: those of addJSONFromFile   *)
(* ignore an error, that of endEncode stops at one.                          *)
CloseTo(c, level) ==
    LET close[n \in 0 .. Level(c)] == IF n = 0 THEN c ELSE EndContainer(close[n - 1])
    IN  IF Level(c) > level THEN close[Level(c) - level] ELSE c

EndEncode(c) ==
    LET close[n \in 0 .. Level(c)] ==
            IF n = 0 THEN Call(c)
            ELSE IF OK(close[n - 1]) THEN EndContainer(close[n - 1]) ELSE close[n - 1]
    IN  close[Level(c)]
=============================================================================
