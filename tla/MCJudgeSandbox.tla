-------------------------- MODULE MCJudgeSandbox --------------------------
(* Instances of JudgeSandbox for TLC: live keys only, two of them scoped   *)
(* to the session of one of two exchanges that present one capability.     *)
EXTENDS JudgeSandbox, TLC

CONSTANTS c1, s1, s2, j1, j2, png

MCRenders == [k \in Keys |-> {png}]
MCCapOf   == [s \in Sessions |-> c1]
MCScopeOf == [k \in Keys |-> s1]

Symmetry == Permutations(Ids) \cup Permutations(Requests)
===========================================================================
