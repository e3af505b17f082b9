------------------------------- MODULE Mutex --------------------------------
(***************************************************************************)
(* What the callers of a lock rely on: at most one thread is inside the    *)
(* section it protects.  priority_mutex (cpid/prioritymutex.h) is shown    *)
(* to implement this specification.                                        *)
(***************************************************************************)
CONSTANT Threads

VARIABLE inside     \* the set of threads inside the protected section

Init == inside = {}

Acquire(t) ==
  /\ inside = {}
  /\ inside' = {t}

Release(t) ==
  /\ inside = {t}
  /\ inside' = {}

Next == \E t \in Threads : Acquire(t) \/ Release(t)

Spec == Init /\ [][Next]_inside
=============================================================================
