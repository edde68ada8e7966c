------------------------------ MODULE MCUpload ------------------------------
(* A default setup and one of the client's own, which sends its requests    *)
(* with GET.                                                                *)
EXTENDS Upload, TLC

CONSTANTS d, g

MCMethod == [s \in Setups |-> IF s = g THEN "GET" ELSE "POST"]
=============================================================================
