----------------------------- MODULE AtLeastOnce -----------------------------
(***************************************************************************)
(* What ReqRepClient and ReqRepServer promise together: a request may be   *)
(* handled any number of times, and its future is given, at most once, a   *)
(* reply that some handling of this very request produced, or an           *)
(* exception.                                                              *)
(***************************************************************************)

CONSTANTS Request, Reply, NoReply, Failed

VARIABLES
  future,   \* the state of each request's future: "unused", NoReply (not
            \* ready yet), a reply, or Failed (an exception)
  handled   \* the replies the servers' callbacks gave to each request

vars == <<future, handled>>

Init ==
  /\ future = [r \in Request |-> "unused"]
  /\ handled = [r \in Request |-> {}]

Submit(r) ==
  /\ future[r] = "unused"
  /\ future' = [future EXCEPT ![r] = NoReply]
  /\ UNCHANGED handled

\* A server's callback replies v.  It may do so after the future is ready.
Handle(r, v) ==
  /\ future[r] # "unused"
  /\ handled' = [handled EXCEPT ![r] = @ \cup {v}]
  /\ UNCHANGED future

Fulfil(r) ==
  /\ future[r] = NoReply
  /\ \E v \in handled[r] : future' = [future EXCEPT ![r] = v]
  /\ UNCHANGED handled

\* One or more futures are given an exception.
Fail(R) ==
  /\ \A r \in R : future[r] = NoReply
  /\ future' = [r \in Request |-> IF r \in R THEN Failed ELSE future[r]]
  /\ UNCHANGED handled

Next ==
  \/ \E r \in Request : Submit(r) \/ Fulfil(r) \/ \E v \in Reply : Handle(r, v)
  \/ \E R \in SUBSET Request : Fail(R)

Spec == Init /\ [][Next]_vars

=============================================================================
