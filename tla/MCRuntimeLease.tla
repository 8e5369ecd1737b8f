--------------------------- MODULE MCRuntimeLease ---------------------------
(* Instances of RuntimeLease for TLC: two processes that pass the same      *)
(* owner_token, as two runs of the live probe do.                           *)
EXTENDS RuntimeLease

CONSTANTS p1, p2

MCProcesses == {p1, p2}
MCSharedToken == [p \in MCProcesses |-> "yahoo-probe-owner"]
=============================================================================
