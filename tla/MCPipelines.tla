---------------------------- MODULE MCPipelines ----------------------------
(* An instance of Pipelines for TLC: two live runs that may draw the same  *)
(* image, and a demo run that asks for more than the demo evaluator gives. *)
EXTENDS Pipelines, TLC

CONSTANTS l1, l2, d1, x, y, svg1, svg2

Image(d, s) == [digest |-> d, sha |-> s]

MCDraws ==
  (l1 :> {Image(x, "right"), Image(x, "wrong"), Image(y, "none")}) @@
  (l2 :> {Image(y, "right")}) @@
  (d1 :> <<Image(svg1, "right"), Image(svg2, "right")>>)

(* One retry, of the run whose uploads may be garbled.                     *)
MCAttempts == [r \in Runs |-> IF r = l1 THEN 2 ELSE 1]
===========================================================================
