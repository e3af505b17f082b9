------------------------------ MODULE MCReqRep ------------------------------
(* Instances of ReqRep for TLC.                                             *)
EXTENDS ReqRep, TLC

CONSTANTS e1, e2

\* A server list that changes.
SomeServers == {{e1}, {e1, e2}}

=============================================================================
