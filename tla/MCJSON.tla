------------------------------- MODULE MCJSON -------------------------------
(* Instances of JSONDecoder for TLC: documents that the encoder has written, *)
(* pretty printed and compact, all their beginnings, and short texts of any  *)
(* kind.                                                                     *)
EXTENDS JSONDecoder

(* What the encoder writes when it is called like this.                      *)
Made(c, call) ==
    CASE call[1] = "object" -> BeginContainer(c, call[2], TRUE)
      [] call[1] = "array" -> BeginContainer(c, call[2], FALSE)
      [] call[1] = "element" -> AddElement(c, call[2], call[3])
      [] call[1] = "string" -> AddStringElement(c, call[2], call[3])
      [] call[1] = "end" -> EndContainer(c)
Writing(pretty, calls) ==
    EndEncode(FoldLeft(Made, BeginEncode(pretty, NoLimit), <<<<"object", NoName>>>> \o calls)).text

Digits(n) == [i \in 1 .. n |-> "1"]
Word(n) == [i \in 1 .. n |-> "x"]

(* The same report, written with and without white space.                   *)
Written(pretty) ==
    Writing(pretty,
            << <<"element", <<"a">>, <<"1">>>>,
               <<"string", <<"b">>, <<"x", Quote, "newline", "pair">>>>,
               <<"array", <<"c", Backslash>>>>,
                   <<"element", NoName, <<"-", "1", ".", "1">>>>,
                   <<"object", NoName>>, <<"element", <<>>, <<"true">>>>, <<"end">>,
               <<"end">>,
               <<"object", <<"d">>>> >>)

Complete == {Written(TRUE), Written(FALSE)}

(* A string of the full size under a name of the full size, behind a number  *)
(* that moves it through the window.  In the root it spans 19 characters,    *)
(* the most that are fewer than half of the buffer; three levels below, 22.   *)
Wide(level, digits) ==
    Writing(TRUE,
            [i \in 1 .. level - 1 |-> <<"object", <<"n">>>>]
            \o << <<"element", <<"p">>, Digits(digits)>>, <<"string", <<"a", "b", "c">>, Word(7)>>,
                  <<"element", <<"q">>, <<"true">>>> >>)

Widest == {Wide(level, digits) : level \in {1, 4}, digits \in 1 .. 12}
Whole == Complete \cup Widest

(* An element of this one is longer than the buffer.                        *)
TooLong ==
    Writing(TRUE,
            << <<"array", <<"a">>>>, <<"element", NoName, Digits(30)>>, <<"end">>,
               <<"element", <<"b">>, <<"9", "9">>>>, <<"string", <<"c">>, Word(50)>> >>)

Beginnings == UNION {{SubSeq(t, 1, n) : n \in 0 .. Len(t)} : t \in Complete \cup {TooLong}}

(* Escapes that the encoder does not write.                                 *)
Foreign == {<<"lbracket", Quote, Backslash, "u", a, Backslash, "u", b, Quote, "rbracket">> :
              a, b \in {"x", "lead", "trail", "control"}}

Kinds == {"lbrace", "rbrace", "lbracket", "rbracket", "comma", "colon", Quote, Backslash, "1",
          "control"}
Short == UNION {[1 .. n -> Kinds] : n \in 1 .. 3}
Objects == {<<"lbrace", Quote, a, Quote, "colon">> \o b :
              a \in {"x", "control", "newline"}, b \in Short}

(* Numbers: with and without a sign, a point, too many digits, infinite.     *)
Numbers == {<<"lbracket">> \o a \o b \o <<"rbracket">> :
              a \in {<<"1">>, <<"-", "9">>}, b \in {<<>>, <<"9">>, <<".", "1">>, <<"E">>, <<"1", "E">>}}
Reports == [u \in {"file", "element", "fix"} |->
               CASE u = "file" -> Beginnings \cup Widest
                 [] u = "element" -> Beginnings
                 [] u = "fix" -> Beginnings \cup Widest \cup Foreign \cup Short \cup Objects
                                   \cup Numbers]

(* Valid JSON: an object in an object, and strings of any kind in that.      *)
Member(a, b) == <<Quote, a, Quote, "colon">> \o b
String(v) == <<Quote>> \o v \o <<Quote>>
Inner(v) == <<"lbrace">> \o Member("y", String(v)) \o <<"rbrace">>
Nested(v) == <<"lbrace">> \o Member("x", Inner(v)) \o <<"rbrace">>
Strings == {<<"x">>, <<Backslash, "u", "control">>, [i \in 1 .. 9 |-> "x"]}
UserTexts == [u \in {"element"} |-> {Nested(v) : v \in Strings}]
=============================================================================
