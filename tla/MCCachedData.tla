---------------------------- MODULE MCCachedData ----------------------------
(* Instances of CachedData for TLC: lists that grow, shrink and reorder.     *)
EXTENDS CachedData

CONSTANTS t1, t2, t3, h1, h2

Lists == {<<t1, t2>>, <<t2, t1, t3>>, <<t1>>}
AsksSecond == [h \in Handlers |-> t2]
=============================================================================
