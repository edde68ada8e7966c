----------------------------- MODULE MCAppState -----------------------------
(* TLC instances of AppState.                                               *)
EXTENDS AppState

Suspending == {"crash", "noteAll"}
CrashOnly == {"crash"}
=============================================================================
