----------------------------- MODULE MC_Campaign -----------------------------
(* Model-checking instances of Campaign.                                   *)
EXTENDS Campaign

CONSTANTS ana, ben, wasm0, wasm1

NoCampaigns == <<>>

(* A campaign capped at a single claim.                                     *)
MarketTerms ==
    {[reward |-> 10, duration |-> 5, vestingDays |-> 1, maxClaims |-> {1}]}

(* An instance whose two admins hold the roles.                             *)
AdminRoles == {<<"Admin", ana>>, <<"Admin", ben>>, <<"Pauser", ana>>}

(* The clock crosses the expiration of a campaign and the time lock of an   *)
(* upgrade: one second before it, and exactly at it.                        *)
MarketTimes == {0, 5, 172799, 172800}
==============================================================================
