-------------------------- MODULE MCPublicShowcase --------------------------
(* Approvals of one live run that may be generated twice, and one visitor. *)
EXTENDS PublicShowcase

CONSTANTS a1, a2, a3, v1

TwoApprovals   == {a1, a2}
ThreeApprovals == {a1, a2, a3}
OneVisit       == {v1}
OneRun         == [r \in Reviews |-> "run"]
===========================================================================
