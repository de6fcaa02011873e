-------------------------- MODULE ShowcaseRegister --------------------------
(***************************************************************************)
(* What the durable showcase promises: one register, shown, that an        *)
(* approval either replaces or leaves exactly as it was (showcase.py       *)
(* publish, "a failed publication cannot replace a working public          *)
(* showcase").  Only when the server dies is it open whether an approval   *)
(* under way was shown.                                                    *)
(***************************************************************************)
CONSTANTS Reviews, Nil

VARIABLES shown, outcome

Init ==
  /\ shown = Nil
  /\ outcome = [r \in Reviews |-> "open"]

Show(r) ==
  /\ outcome[r] = "open"
  /\ shown' = r
  /\ outcome' = [outcome EXCEPT ![r] = "shown"]

Refuse(r) ==
  /\ outcome[r] = "open"
  /\ outcome' = [outcome EXCEPT ![r] = "refused"]
  /\ UNCHANGED shown

Crash ==
  \E L \in SUBSET Reviews :
    /\ outcome' = [r \in Reviews |-> IF r \in L THEN "lost" ELSE outcome[r]]
    /\ shown' \in {shown} \cup {r \in L : outcome[r] = "open"}

Next == Crash \/ \E r \in Reviews : Show(r) \/ Refuse(r)

Spec == Init /\ [][Next]_<<shown, outcome>>
===========================================================================
