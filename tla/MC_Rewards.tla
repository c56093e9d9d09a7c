----------------------------- MODULE MC_Rewards -----------------------------
(* Model-checking instances of Rewards.                                    *)
EXTENDS Rewards

CONSTANTS rewards, shop, ann, bob, ops, wasm0

Everyone == {rewards, shop, ann, bob, ops}
OneSigner == [signers |-> <<shop>>, threshold |-> 1]
NoRoles == {}

NewCampaign(reward, expiration, days, cap) ==
    [merchant |-> shop, reward |-> reward, expiration |-> expiration,
     createdAt |-> 0, active |-> TRUE, paused |-> FALSE, totalClaimed |-> 0,
     vestingDays |-> days, maxClaims |-> cap]

(* A campaign paid at once and one that vests over a day, both open for 100 *)
(* seconds.  Rewards of 7 and 12 leave remainders in the divisions, and 7   *)
(* is small enough for the referral bonus to round to nothing.              *)
InstantCampaign == <<NewCampaign(7, 100, 0, {})>>

(* The second one was already claimed under the v1 code, by shop.           *)
VestingCampaign == <<[NewCampaign(12, 100, 1, {}) EXCEPT !.totalClaimed = 1]>>
V1Claims == {<<shop, 1>>}
V1Batches == SUBSET V1Claims

(* Early and in the middle of the campaign, then along and at the end of    *)
(* the vesting schedules.                                                   *)
ClaimTimes == {0, 33, 43200, 86433}

(* Rotations of the minter.                                                 *)
ShopOnly == {<<shop>>}
==============================================================================
