--------------------------- MODULE MCMonitorSetup ---------------------------
(* TLC instance of MonitorSetup.                                            *)
EXTENDS MonitorSetup, TLC

(* All monitors, none, those safe beside others, and a change of both kinds.*)
SomeMasks == {Monitors, {}, {"cpp", "user", "system", "appState"},
              {"mach", "signal", "system"}}
=============================================================================
