-------------------------- MODULE MCRunLifecycle --------------------------
(* Instances of RunLifecycle for TLC. *)
EXTENDS RunLifecycle, TLC

CONSTANTS d1, d2, l1, svg, png

(* Two demo keys whose briefs are equal share one .svg; the live key       *)
(* produces a .png.                                                        *)
MCRenders == [k \in Keys |-> IF k \in DemoKeys THEN {svg} ELSE {png}]

Symmetry == Permutations(Ids) \cup Permutations(Requests)
===========================================================================
