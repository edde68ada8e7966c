--------------------------- MODULE MCCrashCapture ---------------------------
(* TLC instances of CrashCapture.                                           *)
EXTENDS CrashCapture, TLC

AllMonitors == Monitors

(* A non-fatal report that suspends nobody, one that does, and a fatal one; *)
(* and only the first of them.                                              *)
SafeReports == {"note", "noteAll", "fatalNoteAll"}
QuietReports == {"note"}

(* Two threads crash; or one crashes, one reports, one handler crashes.     *)
TwoCrashes == [k \in EventKinds |-> IF k = "crash" THEN 2 ELSE 0]
OneOfEach == [k \in EventKinds |-> 1]
=============================================================================
