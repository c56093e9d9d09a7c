------------------------------- MODULE Rewards -------------------------------
(***************************************************************************)
(* The rewards contract (contracts/rewards) composed with the token and    *)
(* the campaign contracts it calls.  A cross-contract call runs inside the *)
(* caller's transaction and a panic anywhere undoes all of it, so a claim  *)
(* is one action: its guards are the checks of the three contracts.        *)
(*                                                                         *)
(* initialize grants the Admin and Pauser roles but does not write         *)
(* DataKey::Admin, the key emergency_pause, emergency_unpause and          *)
(* migrate_v1_to_v2 read.  StoredAdmin is that key: empty for a fresh      *)
(* deployment, one account on an instance upgraded from the v1 code, which *)
(* also holds LegacyClaims, the v1 records.  ClaimRecord.claimed_at and    *)
(* the referrer stored under DataKey::Referral are never read back.        *)
(***************************************************************************)
EXTENDS LoyaltyToken, Campaign

CONSTANTS
    RewardsContract,    \* address of the rewards contract
    Users,              \* accounts that claim
    RewardsAdmin,       \* account given to initialize
    RoleHolders,        \* accounts the admin grants roles to
    StoredAdmin,        \* DataKey::Admin: {} when the key is absent
    LegacyClaims,       \* ClaimedV1 pairs found at start
    Batches,            \* lists of pairs passed to migrate_v1_to_v2
    MaxU64,             \* u64::MAX
    MaxDirectSupply     \* bound on the supply an outside minter may reach

Pairs == Users \X (Nat \ {0})

ASSUME RewardsConstants ==
    /\ RewardsContract \in Address
    /\ Users \subseteq Address
    /\ RewardsAdmin \in Address
    /\ RoleHolders \subseteq Address
    /\ StoredAdmin \subseteq Address
    /\ LegacyClaims \subseteq Pairs
    /\ Batches \subseteq SUBSET Pairs
    /\ MaxU64 \in Nat /\ MaxDirectSupply \in Nat

VARIABLES
    claimed,        \* DataKey::Claimed: amount recorded, by <<user, campaign>>
    claimedV1,      \* DataKey::ClaimedV1: the pairs present
    vesting,        \* DataKey::Vesting, by <<user, campaign>>
    referred,       \* DataKey::Referral: the pairs present
    rewardsPaused,  \* DataKey::Paused
    rewardsRoles,   \* DataKey::RoleMember: the pairs present
    migrationDone,  \* DataKey::MigrationV1Done (schema version 2)
    \* History variables, read by the properties only.
    paid,           \* tokens minted to the claimant, by <<user, campaign>>
    issued          \* tokens minted by this contract, bonuses included

claimVars == <<claimed, claimedV1, vesting, referred, paid, issued>>
switchVars == <<rewardsPaused, rewardsRoles, migrationDone>>
rewardsVars == <<claimVars, switchVars>>
vars == <<tokenVars, campaignVars, rewardsVars>>

Vesting == [total : Nat, claimed : Nat, start : Nat, duration : Nat]

NoEntries == [p \in {} |-> 0]

RewardsInit ==
    /\ claimed = NoEntries
    /\ claimedV1 = LegacyClaims
    /\ vesting = NoEntries
    /\ referred = {}
    /\ rewardsPaused = FALSE
    /\ rewardsRoles = {<<"Admin", RewardsAdmin>>, <<"Pauser", RewardsAdmin>>}
    /\ migrationDone = FALSE
    /\ paid = NoEntries
    /\ issued = 0

Init == TokenInit /\ CampaignInit /\ RewardsInit

-----------------------------------------------------------------------------
(* Amounts.                                                                *)

FULL == 10000       \* basis points of a 1x multiplier
DAY == 86400

(* Faulty: the factors of the difference are swapped: it grows with time.  *)
MultiplierGrows(t, created, expires) ==
    IF t >= expires \/ expires <= created THEN FULL
    ELSE FULL + (FULL * (t - created)) \div (expires - created)

(* Faulty: the 1x base is not added.                                       *)
MultiplierWithoutBase(t, created, expires) ==
    IF t >= expires \/ expires <= created THEN FULL
    ELSE (FULL * (expires - t)) \div (expires - created)

(* The early-claim multiplier falls linearly from 2x at creation to 1x at  *)
(* expiration.                                                             *)
Multiplier(t, created, expires) ==
    IF t >= expires \/ expires <= created THEN FULL
    ELSE LET extra == (FULL * (expires - t)) \div (expires - created)
         IN  FULL + (IF extra < FULL THEN extra ELSE FULL)

(* The products of calc_multiplier (u64) and of the claim (i128) panic     *)
(* when they overflow: the release profile keeps overflow checks.          *)
MultiplierFits(t, c) == FULL * (c.expiration - t) <= MaxU64

Scaled(c) == c.reward * Multiplier(now, c.createdAt, c.expiration)

BaseAmount(c) == Scaled(c) \div FULL

AmountFits(c) == MultiplierFits(now, c) /\ InRange(Scaled(c))

Vested(v, t) ==
    LET elapsed == IF t >= v.start THEN t - v.start ELSE 0
    IN  IF elapsed >= v.duration THEN v.total
        ELSE (v.total * elapsed) \div v.duration

(* Its product panics when it overflows, like those of a claim.            *)
VestedFits(v, t) ==
    v.start < t /\ t < v.start + v.duration => InRange(v.total * (t - v.start))

-----------------------------------------------------------------------------
(* Claims.                                                                 *)

(* Faulty: v1 records are not looked at.                                   *)
HasClaimedV2(p) == p \in DOMAIN claimed

HasClaimed(p) == p \in DOMAIN claimed \/ p \in claimedV1

(* Faulty: the campaign contract is not told.                              *)
CountClaimForgotten(id) == UNCHANGED campaignVars

(* record_claim, called from inside a claim.                               *)
CountClaim(id) == RecordClaim(id)

(* mint is called by this contract, which must still be the minter.        *)
MintOne(to, amount) ==
    /\ minter = RewardsContract
    /\ Mint(to, amount)
    /\ issued' = issued + amount

MintTwo(to, amount, other, bonus) ==
    /\ minter = RewardsContract
    /\ amount > 0 /\ bonus > 0
    /\ InRange(balance[to] + amount)
    /\ InRange(balance[other] + bonus)
    /\ InRange(supply + amount + bonus)
    /\ balance' = Credit(Credit(balance, to, amount), other, bonus)
    /\ supply' = supply + amount + bonus
    /\ issued' = issued + amount + bonus
    /\ UNCHANGED <<allowance, adminVars, tokenPaused, historyVars>>

StartVesting(p, amount, days) ==
    vesting' = Put(vesting, p, [total |-> amount, claimed |-> 0,
                                start |-> now, duration |-> days * DAY])

ClaimReward(user, id) ==
    LET p == <<user, id>>
        c == campaigns[id]
        amount == BaseAmount(c)
    IN  /\ ~rewardsPaused
        /\ ~HasClaimed(p)
        /\ Exists(id) /\ IsActive(id)
        /\ AmountFits(c)
        /\ CountClaim(id)
        /\ claimed' = Put(claimed, p, amount)
        /\ \/ /\ c.vestingDays = 0
              /\ MintOne(user, amount)
              /\ paid' = Put(paid, p, amount)
              /\ UNCHANGED vesting
           \/ /\ c.vestingDays > 0
              /\ StartVesting(p, amount, c.vestingDays)
              /\ paid' = Put(paid, p, 0)
              /\ UNCHANGED <<tokenVars, issued>>
        /\ UNCHANGED <<claimedV1, referred, switchVars>>

(* Faulty: the referrer's bonus is a fifth.                                *)
ClaimWithReferralFifth(user, id, referrer) ==
    LET p == <<user, id>>
        c == campaigns[id]
        amount == BaseAmount(c) + BaseAmount(c) \div 20
    IN  /\ user # referrer
        /\ ~HasClaimed(p)
        /\ Exists(id) /\ IsActive(id)
        /\ AmountFits(c)
        /\ CountClaim(id)
        /\ claimed' = Put(claimed, p, amount)
        /\ referred' = referred \cup {p}
        /\ MintTwo(user, amount, referrer, BaseAmount(c) \div 5)
        /\ paid' = Put(paid, p, amount)
        /\ UNCHANGED <<claimedV1, vesting, switchVars>>

(* The referee gets 5% on top, the referrer 10% at once even when the      *)
(* referee's part vests.  This entry point does not look at the pause.     *)
ClaimWithReferral(user, id, referrer) ==
    LET p == <<user, id>>
        c == campaigns[id]
        amount == BaseAmount(c) + BaseAmount(c) \div 20
        bonus == BaseAmount(c) \div 10
    IN  /\ user # referrer
        /\ p \notin referred
        /\ ~HasClaimed(p)
        /\ Exists(id) /\ IsActive(id)
        /\ AmountFits(c)
        /\ CountClaim(id)
        /\ claimed' = Put(claimed, p, amount)
        /\ referred' = referred \cup {p}
        /\ \/ /\ c.vestingDays = 0
              /\ MintTwo(user, amount, referrer, bonus)
              /\ paid' = Put(paid, p, amount)
              /\ UNCHANGED vesting
           \/ /\ c.vestingDays > 0
              /\ StartVesting(p, amount, c.vestingDays)
              /\ MintOne(referrer, bonus)
              /\ paid' = Put(paid, p, 0)
        /\ UNCHANGED <<claimedV1, switchVars>>

(* Faulty: mints all that has vested, without what was claimed before.     *)
ClaimVestedAgain(user, id) ==
    LET p == <<user, id>>
        due == Vested(vesting[p], now)
    IN  /\ p \in DOMAIN vesting
        /\ due > vesting[p].claimed
        /\ vesting' = [vesting EXCEPT ![p].claimed = due]
        /\ MintOne(user, due)
        /\ paid' = [paid EXCEPT ![p] = @ + due]
        /\ UNCHANGED <<claimed, claimedV1, referred, switchVars, campaignVars>>

(* Mints what has vested since the last call; not guarded by the pause.    *)
ClaimVested(user, id) ==
    LET p == <<user, id>>
        due == Vested(vesting[p], now)
        claimable == due - vesting[p].claimed
    IN  /\ p \in DOMAIN vesting
        /\ VestedFits(vesting[p], now)
        /\ claimable > 0
        /\ vesting' = [vesting EXCEPT ![p].claimed = due]
        /\ MintOne(user, claimable)
        /\ paid' = [paid EXCEPT ![p] = @ + claimable]
        /\ UNCHANGED <<claimed, claimedV1, referred, switchVars, campaignVars>>

RedeemReward(user, amount) ==
    /\ ~rewardsPaused
    /\ Burn(user, amount)
    /\ UNCHANGED <<campaignVars, rewardsVars>>

-----------------------------------------------------------------------------
(* Administration.                                                         *)

SetRewardsPaused(flag) ==
    /\ rewardsPaused' = flag
    /\ UNCHANGED <<tokenVars, campaignVars, claimVars, rewardsRoles, migrationDone>>

HasRewardsRole(role, who) == <<role, who>> \in rewardsRoles

PauseRewards(who) == HasRewardsRole("Pauser", who) /\ SetRewardsPaused(TRUE)
UnpauseRewards(who) == HasRewardsRole("Pauser", who) /\ SetRewardsPaused(FALSE)
EmergencyPauseRewards == StoredAdmin # {} /\ SetRewardsPaused(TRUE)
EmergencyUnpauseRewards == StoredAdmin # {} /\ SetRewardsPaused(FALSE)

RewardsRoleNames == {"Admin", "Pauser"}

GrantRewardsRole(admin, role, who) ==
    /\ HasRewardsRole("Admin", admin)
    /\ rewardsRoles' = rewardsRoles \cup {<<role, who>>}
    /\ UNCHANGED <<tokenVars, campaignVars, claimVars, rewardsPaused, migrationDone>>

RevokeRewardsRole(admin, role, who) ==
    /\ HasRewardsRole("Admin", admin)
    /\ rewardsRoles' = rewardsRoles \ {<<role, who>>}
    /\ UNCHANGED <<tokenVars, campaignVars, claimVars, rewardsPaused, migrationDone>>

(* A v1 record without a v2 record becomes a v2 record of amount 0.        *)
Migrate(batch) ==
    LET moved == {p \in batch : p \in claimedV1 /\ p \notin DOMAIN claimed}
    IN  /\ StoredAdmin # {}
        /\ ~migrationDone
        /\ claimed' = [p \in DOMAIN claimed \cup moved |->
                         IF p \in moved THEN 0 ELSE claimed[p]]
        /\ claimedV1' = claimedV1 \ moved
        /\ migrationDone' = TRUE
        /\ UNCHANGED <<tokenVars, campaignVars, vesting, referred, paid, issued,
                       rewardsPaused, rewardsRoles>>

-----------------------------------------------------------------------------
ClaimNext ==
    \E u \in Users, id \in DOMAIN campaigns :
        \/ ClaimReward(u, id)
        \/ \E r \in Users : ClaimWithReferral(u, id, r)
        \/ ClaimVested(u, id)

RewardsAdminNext ==
    \/ \E a \in Address : PauseRewards(a) \/ UnpauseRewards(a)
    \/ EmergencyPauseRewards
    \/ EmergencyUnpauseRewards
    \/ \E a \in Address, b \in RoleHolders, r \in RewardsRoleNames :
          GrantRewardsRole(a, r, b) \/ RevokeRewardsRole(a, r, b)
    \/ \E batch \in Batches : Migrate(batch)

(* Only a minter that is an account can call mint from outside a claim.    *)
DirectMint ==
    /\ minter # RewardsContract
    /\ \E a \in Address, x \in Amounts :
          supply + x <= MaxDirectSupply /\ Mint(a, x)

Next ==
    \/ ClaimNext
    \/ \E u \in Users, x \in Amounts : RedeemReward(u, x)
    \/ RewardsAdminNext
    \/ /\ DirectMint \/ HolderNext \/ RotationNext \/ PauseNext
       /\ UNCHANGED <<campaignVars, rewardsVars>>
    \/ CampaignNext /\ UNCHANGED <<tokenVars, rewardsVars>>

Spec == Init /\ [][Next]_vars

-----------------------------------------------------------------------------
(* Properties.                                                             *)

(* The three contracts' storage is well typed, and every claim, vesting    *)
(* schedule and payment belongs to a pair that may hold one.               *)
RewardsTypeOK ==
    /\ DOMAIN claimed \subseteq Pairs /\ claimed \in [DOMAIN claimed -> Nat]
    /\ claimedV1 \subseteq Pairs
    /\ DOMAIN vesting \subseteq Pairs /\ vesting \in [DOMAIN vesting -> Vesting]
    /\ referred \subseteq Pairs
    /\ rewardsPaused \in BOOLEAN
    /\ rewardsRoles \subseteq RewardsRoleNames \X Address
    /\ migrationDone \in BOOLEAN
    /\ DOMAIN paid \subseteq Pairs /\ paid \in [DOMAIN paid -> Nat]
    /\ issued \in Nat

TypeOK == TokenTypeOK /\ CampaignTypeOK /\ RewardsTypeOK

(* What was minted to the claimant of a pair never exceeds the amount      *)
(* recorded, and a pair that claimed under v1 is never paid again.         *)
NeverOverpaid ==
    \A p \in DOMAIN paid :
        /\ p \in DOMAIN claimed /\ paid[p] <= claimed[p]
        /\ p \notin LegacyClaims

(* A vesting schedule holds the recorded amount; what it says was claimed  *)
(* is what was minted and never runs ahead of the clock; a pair without a  *)
(* schedule was paid in full at once.                                      *)
VestingAccounts ==
    \A p \in DOMAIN paid :
        IF p \in DOMAIN vesting
        THEN /\ vesting[p].total = claimed[p]
             /\ vesting[p].claimed = paid[p]
             /\ paid[p] <= Vested(vesting[p], now)
        ELSE paid[p] = claimed[p]

(* Every token this contract mints is accounted for by a claim: what the   *)
(* claimants were paid, plus a referral bonus of at most a tenth.          *)
IssuanceAccounted ==
    /\ issued >= SumOver(paid, DOMAIN paid)
    /\ 10 * (issued - SumOver(paid, DOMAIN paid))
         <= SumOver(claimed, referred)

(* A claim is worth between one and two rewards, and 5% more with a        *)
(* referral.                                                               *)
ClaimWithinBounds ==
    \A p \in DOMAIN paid :
        LET r == campaigns[p[2]].reward
        IN  /\ r <= claimed[p]
            /\ p \notin referred => claimed[p] <= 2 * r
            /\ p \in referred => 20 * claimed[p] <= 42 * r

(* Of two vesting claims of one campaign made in the same way, the earlier *)
(* one is worth at least as much as the later one.                         *)
EarlierEarnsMore ==
    \A p, q \in DOMAIN vesting :
        ( /\ p[2] = q[2]
          /\ (p \in referred) = (q \in referred)
          /\ vesting[p].start <= vesting[q].start )
            => vesting[p].total >= vesting[q].total

(* The campaign contract has counted every claim the rewards contract has  *)
(* paid or scheduled.                                                      *)
CountersCoverClaims ==
    \A id \in DOMAIN campaigns :
        campaigns[id].totalClaimed
            >= Cardinality({p \in DOMAIN paid : p[2] = id})

(* The rewards contract implements the entitlement ledger: a v1 claim is a *)
(* grant of nothing, and migrating it changes nothing.                     *)
Granted ==
    [p \in DOMAIN claimed \cup claimedV1 |->
       IF p \in DOMAIN claimed THEN claimed[p] ELSE 0]

PaidOut ==
    [p \in DOMAIN claimed \cup claimedV1 |->
       IF p \in DOMAIN paid THEN paid[p] ELSE 0]

Ledger == INSTANCE Entitlements WITH
            Settled <- LegacyClaims, granted <- Granted, paidOut <- PaidOut

ImplementsEntitlements == Ledger!EntitlementsSpec
=============================================================================
