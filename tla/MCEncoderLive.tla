--------------------------- MODULE MCEncoderLive ----------------------------
(***************************************************************************)
(* The instance for liveness, in two halves: either callers encode spans   *)
(* while a valid and an invalid configuration replace each other, or       *)
(* nobody does and two different valid configurations are among them.      *)
(***************************************************************************)
EXTENDS MCEncoder

VARIABLE reconfiguring   \* which half this is

LiveInit == Init /\ reconfiguring \in BOOLEAN
LiveNext ==
  /\ Next /\ UNCHANGED reconfiguring
  /\ IF reconfiguring THEN UNCHANGED caller ELSE configChangeRequest' # split
LiveSpec == LiveInit /\ [][LiveNext]_<<vars, reconfiguring>> /\ Fairness
=============================================================================
