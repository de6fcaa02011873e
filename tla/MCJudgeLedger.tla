--------------------------- MODULE MCJudgeLedger ---------------------------
(***************************************************************************)
(* Instances of JudgeLedger for TLC.  Tokens, keys, briefs and request     *)
(* slots are interchangeable.                                              *)
(***************************************************************************)
EXTENDS JudgeLedger, TLC

Interchangeable ==
  Permutations(Sessions) \cup Permutations(Idems) \cup Permutations(Runs)
    \cup Permutations(Calls)
===========================================================================
