--------------------------- MODULE MC_LoyaltyToken ---------------------------
(* Model-checking instances of LoyaltyToken.                               *)
EXTENDS LoyaltyToken

CONSTANTS alice, bob

(* Two holders, who are also the two signers: transfers, approvals and      *)
(* burns interleave with rotations from 2-of-2 to one signer and back, or   *)
(* to a list that names one of them twice.                                  *)
TwoOfTwo == [signers |-> <<alice, bob>>, threshold |-> 2]
Rotations == {<<alice>>, <<bob, alice>>, <<bob, bob>>}
==============================================================================
