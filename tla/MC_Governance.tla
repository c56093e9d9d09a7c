---------------------------- MODULE MC_Governance ----------------------------
(* Model-checking instances of Governance.                                 *)
EXTENDS Governance

CONSTANTS alice, bob

Holders == {alice, bob}
NoLists == {}
OneOfOne == [signers |-> <<alice>>, threshold |-> 1]

(* Submission, the last second of the vote, the first one after it, one     *)
(* second before the time lock and its end.                                 *)
VoteTimes == {0, 604800, 604801, 777599, 777600}
==============================================================================
