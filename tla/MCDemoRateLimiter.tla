------------------------- MODULE MCDemoRateLimiter -------------------------
(* An instance of DemoRateLimiter for TLC: two addresses and two malformed *)
(* headers, all through the edge's proxy.                                  *)
EXTENDS DemoRateLimiter, TLC

CONSTANTS a1, a2, bad1, bad2, proxy

MCOrigins == {[edge |-> e, peer |-> proxy] : e \in {a1, a2, bad1, bad2}}

Symmetry ==
  Permutations(Requests) \cup Permutations({a1, a2}) \cup Permutations({bad1, bad2})
===========================================================================
