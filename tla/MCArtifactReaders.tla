------------------------- MODULE MCArtifactReaders -------------------------
(* An instance of ArtifactReaders for TLC: two demo keys whose briefs are  *)
(* equal and share one .svg, and a live key with a .png.                   *)
EXTENDS ArtifactReaders, TLC

CONSTANTS d1, d2, l1, svg, png

MCRenders == [k \in Keys |-> IF k \in DemoKeys THEN {svg} ELSE {png}]

Symmetry == Permutations(Ids) \cup Permutations(Requests)
===========================================================================
