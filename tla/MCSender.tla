------------------------------ MODULE MCSender ------------------------------
(***************************************************************************)
(* The sender on its own, on a node where a block at a height that is      *)
(* taken but not reported yet displaces the block that is there.  Blocks   *)
(* could then replace each other for ever; MaxMinted bounds how many are   *)
(* ever published.                                                         *)
(***************************************************************************)
EXTENDS Sender

CONSTANT MaxMinted

MCNext ==
  \/ \E d \in Sends \union Receives : minted < MaxMinted /\ NextCall(d)
  \/ SendStep \/ SendMishap \/ Interrupt
  \/ Restart \/ Reported

MCSpec == Init /\ [][MCNext]_vars /\ WF_vars(SendStep) /\ WF_vars(Reported)
=============================================================================
