--------------------------- MODULE MCBufferedReader -------------------------
(* TLC instance of BufferedReader.                                          *)
EXTENDS BufferedReader, TLC

SomeFiles == UNION {[1..n -> Chars] : n \in 0..5}
=============================================================================
