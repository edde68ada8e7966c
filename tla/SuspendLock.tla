----------------------------- MODULE SuspendLock -----------------------------
(* What crasheemc_suspendEnvironment and crasheemc_resumeEnvironment promise *)
(* the application threads that capture an event: between the two a thread   *)
(* has the process to itself, as if it held a lock that no other application *)
(* thread can take.  No code names such a lock; the suspensions make it.     *)
CONSTANTS
    Owners,     \* the threads that may take it
    None        \* nobody

VARIABLE owner

Init == owner = None

(* The last suspension is taken, and nobody else got there first.            *)
Acquire(t) == owner = None /\ owner' = t

(* The owner starts to resume the others, or dies in its handler.            *)
Release(t) == owner = t /\ owner' = None

Next == \E t \in Owners : Acquire(t) \/ Release(t)

Spec == Init /\ [][Next]_owner
=============================================================================
