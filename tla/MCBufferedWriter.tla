--------------------------- MODULE MCBufferedWriter -------------------------
(* TLC instance of BufferedWriter.                                          *)
EXTENDS BufferedWriter, TLC

(* Nothing, a part of the buffer, all of it and more.                       *)
SomeLengths == {0, 1, 2, 3, 5}
=============================================================================
