----------------------------- MODULE MCAirdrop -----------------------------
(***************************************************************************)
(* Instances of the airdrop for TLC: two airdrops that share a journal and *)
(* a recipient.                                                            *)
(***************************************************************************)
EXTENDS Airdrop

CONSTANTS a1, a2, a3, r1, r2

Shared == [r \in Runs |-> IF r = r1 THEN <<a1, a2>> ELSE <<a2>>]
Single == [r \in Runs |-> <<a1, a2, a3>>]

=============================================================================
