--------------------------- MODULE MCReportStore ---------------------------
(* Instances of ReportStore for TLC: two seconds in a row at the end of a    *)
(* leap year, whose last day has the number 365, and one in the next year.   *)
(* The first of them is the last of its span: the low word wraps in it.      *)
EXTENDS ReportStore

CONSTANTS c1, c2, h

Late(y, d, s) == [year |-> y, yday |-> d, hour |-> 23, min |-> 59, sec |-> s]

OneLaunch == <<Late(0, 365, 56)>>
TwoSeconds == <<Late(0, 365, 56), Late(0, 365, 57)>>
YearEnd == TwoSeconds \o <<Late(1, 0, 56)>>
=============================================================================
