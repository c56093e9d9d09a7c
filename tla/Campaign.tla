------------------------------ MODULE Campaign ------------------------------
(***************************************************************************)
(* The campaign contract (contracts/campaign): merchants' campaigns, the   *)
(* claim counter the rewards contract drives, the contract-wide pause, the *)
(* roles, and the time-locked multi-signature upgrade.                     *)
(*                                                                         *)
(* A call that panics changes nothing, so a call is one action and its     *)
(* checks are guards.  Names, descriptions and events are left out.        *)
(*                                                                         *)
(* initialize stores the admin list and grants no role.  Role members only *)
(* exist on an instance whose earlier code granted them, so they and the   *)
(* campaigns such an instance already holds are parameters: SeedRoles and  *)
(* SeedCampaigns are empty for a fresh deployment.                         *)
(***************************************************************************)
EXTENDS Storage, Integers, Sequences

CONSTANTS
    Admins,         \* accounts in DataKey::Admins
    UpgradeThreshold,   \* DataKey::Threshold
    SeedRoles,      \* <<role, account>> pairs found at start
    SeedCampaigns,  \* campaigns found at start, by id
    GrantedRoles,   \* roles that are granted and revoked
    Merchants,      \* accounts that create campaigns
    Terms,          \* [reward, duration, vestingDays, maxClaims] offered
    MaxCampaigns,   \* bound on the campaigns created
    MaxClaimCount,  \* bound on total_claimed
    Times,          \* ledger timestamps the clock may show
    Hashes,         \* wasm hashes proposed
    InitHash        \* code the instance starts with

Roles == {"Admin", "Pauser", "Recorder"}
TIMELOCK == 172800

CampaignRecord ==
    [merchant : Address, reward : Nat, expiration : Nat, createdAt : Nat,
     active : BOOLEAN, paused : BOOLEAN, totalClaimed : Nat,
     vestingDays : Nat, maxClaims : SUBSET Nat]

UpgradeProposal ==
    [hash : Hashes, proposedAt : Nat, signatures : Seq(Address)]

ASSUME CampaignConstants ==
    /\ Admins \subseteq Address
    /\ Merchants \subseteq Address
    /\ UpgradeThreshold \in Nat \ {0}
    /\ SeedRoles \subseteq Roles \X Address
    /\ GrantedRoles \subseteq Roles
    /\ SeedCampaigns \in Seq(CampaignRecord)
    /\ Terms \subseteq [reward : Nat, duration : Nat, vestingDays : Nat,
                        maxClaims : SUBSET Nat]
    /\ Times \subseteq Nat /\ 0 \in Times
    /\ MaxCampaigns \in Nat /\ MaxClaimCount \in Nat

VARIABLES
    campaigns,      \* DataKey::Campaign(id): a function on the ids in use
    nextId,         \* DataKey::NextId
    campaignPaused, \* DataKey::Paused
    roles,          \* DataKey::RoleMember: the pairs present
    upgrade,        \* DataKey::UpgradeProposal: {} when the key is absent
    code,           \* hash of the contract's wasm
    now             \* ledger timestamp

governVars == <<roles, upgrade, code>>
campaignVars == <<campaigns, nextId, campaignPaused, governVars, now>>

CampaignInit ==
    /\ campaigns = SeedCampaigns
    /\ nextId = Len(SeedCampaigns) + 1
    /\ campaignPaused = FALSE
    /\ roles = SeedRoles
    /\ upgrade = {}
    /\ code = InitHash
    /\ now = 0

(* Ledgers close at non-decreasing timestamps.                             *)
AdvanceTime ==
    /\ \E t \in Times : now < t /\ now' = t
    /\ UNCHANGED <<campaigns, nextId, campaignPaused, governVars>>

-----------------------------------------------------------------------------
Exists(id) == id \in DOMAIN campaigns

(* Faulty: looks at the flag only.                                         *)
IsActiveAfterExpiry(id) == campaigns[id].active

(* is_active looks at the merchant's flag and the expiration only.         *)
IsActive(id) == campaigns[id].active /\ now < campaigns[id].expiration

(* The record create_campaign stores.                                      *)
NewRecord(who, t) ==
    [merchant |-> who, reward |-> t.reward,
     expiration |-> now + t.duration, createdAt |-> now,
     active |-> TRUE, paused |-> FALSE, totalClaimed |-> 0,
     vestingDays |-> t.vestingDays, maxClaims |-> t.maxClaims]

(* Faulty: the next id is not stored.                                      *)
CreateCampaignSameId(who, t) ==
    /\ nextId <= MaxCampaigns
    /\ ~campaignPaused
    /\ t.reward > 0 /\ t.duration > 0
    /\ campaigns' = Put(campaigns, nextId, NewRecord(who, t))
    /\ UNCHANGED <<nextId, campaignPaused, governVars, now>>

(* Faulty: uses the id after the one it hands out.                         *)
CreateCampaignNextId(who, t) ==
    /\ nextId <= MaxCampaigns
    /\ ~campaignPaused
    /\ t.reward > 0 /\ t.duration > 0
    /\ campaigns' = Put(campaigns, nextId + 1, NewRecord(who, t))
    /\ nextId' = nextId + 1
    /\ UNCHANGED <<campaignPaused, governVars, now>>

CreateCampaign(who, t) ==
    /\ nextId <= MaxCampaigns
    /\ ~campaignPaused
    /\ t.reward > 0
    /\ t.duration > 0       \* expiration > env.ledger().timestamp()
    /\ campaigns' = Put(campaigns, nextId, NewRecord(who, t))
    /\ nextId' = nextId + 1
    /\ UNCHANGED <<campaignPaused, governVars, now>>

SetActive(id, flag) ==
    /\ Exists(id)
    /\ ~campaignPaused
    /\ campaigns' = [campaigns EXCEPT ![id].active = flag]
    /\ UNCHANGED <<nextId, campaignPaused, governVars, now>>

(* pause_campaign and resume_campaign are not guarded by the contract's    *)
(* pause.                                                                  *)
PauseCampaign(id) ==
    /\ Exists(id)
    /\ campaigns' = [campaigns EXCEPT ![id].paused = TRUE]
    /\ UNCHANGED <<nextId, campaignPaused, governVars, now>>

ResumeCampaign(id) ==
    /\ Exists(id)
    /\ campaigns' = [campaigns EXCEPT ![id].paused = FALSE]
    /\ UNCHANGED <<nextId, campaignPaused, governVars, now>>

(* Faulty: the counter goes down.                                          *)
RecordClaimSubtracts(id) ==
    /\ ~campaignPaused
    /\ Exists(id)
    /\ campaigns' = [campaigns EXCEPT ![id].totalClaimed = @ - 1]
    /\ UNCHANGED <<nextId, campaignPaused, governVars, now>>

(* record_claim checks neither its caller nor max_claims.                  *)
RecordClaim(id) ==
    /\ ~campaignPaused
    /\ Exists(id)
    /\ campaigns[id].totalClaimed < MaxClaimCount
    /\ campaigns' = [campaigns EXCEPT ![id].totalClaimed = @ + 1]
    /\ UNCHANGED <<nextId, campaignPaused, governVars, now>>

-----------------------------------------------------------------------------
(* Contract pause: by the Pauser role, or by an account of the admin list. *)

HasRole(role, who) == <<role, who>> \in roles

SetPaused(flag) ==
    /\ campaignPaused' = flag
    /\ UNCHANGED <<campaigns, nextId, governVars, now>>

Pause(who) == HasRole("Pauser", who) /\ SetPaused(TRUE)
Unpause(who) == HasRole("Pauser", who) /\ SetPaused(FALSE)
EmergencyPauseCampaigns(who) == who \in Admins /\ SetPaused(TRUE)
EmergencyUnpauseCampaigns(who) == who \in Admins /\ SetPaused(FALSE)

(* Faulty: the caller's role is not checked.                               *)
GrantRoleByAnyone(admin, role, who) ==
    /\ roles' = roles \cup {<<role, who>>}
    /\ UNCHANGED <<campaigns, nextId, campaignPaused, upgrade, code, now>>

GrantRole(admin, role, who) ==
    /\ HasRole("Admin", admin)
    /\ roles' = roles \cup {<<role, who>>}
    /\ UNCHANGED <<campaigns, nextId, campaignPaused, upgrade, code, now>>

RevokeRole(admin, role, who) ==
    /\ HasRole("Admin", admin)
    /\ roles' = roles \ {<<role, who>>}
    /\ UNCHANGED <<campaigns, nextId, campaignPaused, upgrade, code, now>>

-----------------------------------------------------------------------------
(* Upgrades.  All four calls require the Admin role.                       *)

marketVars == <<campaigns, nextId, campaignPaused, roles, now>>

ProposeUpgrade(admin, hash) ==
    /\ HasRole("Admin", admin)
    /\ upgrade = {}
    /\ upgrade' = {[hash |-> hash, proposedAt |-> now, signatures |-> <<admin>>]}
    /\ UNCHANGED <<marketVars, code>>

AuthorizeUpgrade(admin) ==
    /\ HasRole("Admin", admin)
    /\ \E p \in upgrade :
         /\ \A i \in DOMAIN p.signatures : p.signatures[i] # admin
         /\ upgrade' = {[p EXCEPT !.signatures = Append(p.signatures, admin)]}
    /\ UNCHANGED <<marketVars, code>>

(* Faulty: does not wait for the time lock.                                *)
ExecuteUpgradeAtOnce(admin) ==
    /\ HasRole("Admin", admin)
    /\ \E p \in upgrade :
         /\ Len(p.signatures) >= UpgradeThreshold
         /\ code' = p.hash
    /\ upgrade' = {}
    /\ UNCHANGED marketVars

ExecuteUpgrade(admin) ==
    /\ HasRole("Admin", admin)
    /\ \E p \in upgrade :
         /\ Len(p.signatures) >= UpgradeThreshold
         /\ now >= p.proposedAt + TIMELOCK
         /\ code' = p.hash
    /\ upgrade' = {}
    /\ UNCHANGED marketVars

CancelUpgrade(admin) ==
    /\ HasRole("Admin", admin)
    /\ upgrade' = {}
    /\ UNCHANGED <<marketVars, code>>

-----------------------------------------------------------------------------
MerchantNext ==
    \/ \E m \in Merchants, t \in Terms : CreateCampaign(m, t)
    \/ \E id \in DOMAIN campaigns, flag \in BOOLEAN : SetActive(id, flag)
    \/ \E id \in DOMAIN campaigns : PauseCampaign(id) \/ ResumeCampaign(id)

GovernNext ==
    \/ \E a, b \in Address, r \in GrantedRoles :
          GrantRole(a, r, b) \/ RevokeRole(a, r, b)
    \/ \E a \in Address, h \in Hashes : ProposeUpgrade(a, h)
    \/ \E a \in Address :
          AuthorizeUpgrade(a) \/ ExecuteUpgrade(a) \/ CancelUpgrade(a)

CampaignNext ==
    \/ AdvanceTime
    \/ MerchantNext
    \/ \E id \in DOMAIN campaigns : RecordClaim(id)
    \/ \E a \in Address : \/ Pause(a)
                           \/ Unpause(a)
                           \/ EmergencyPauseCampaigns(a)
                           \/ EmergencyUnpauseCampaigns(a)
    \/ GovernNext

CampaignSpec == CampaignInit /\ [][CampaignNext]_campaignVars

-----------------------------------------------------------------------------
(* Properties.                                                             *)

(* Ids in use are exactly those handed out, and every stored entry has the *)
(* type the contract reads it back with.                                   *)
CampaignTypeOK ==
    /\ nextId \in Nat \ {0}
    /\ campaigns \in [1 .. nextId - 1 -> CampaignRecord]
    /\ campaignPaused \in BOOLEAN
    /\ roles \subseteq Roles \X Address
    /\ upgrade \subseteq UpgradeProposal
    /\ now \in Nat

(* The terms a campaign was created with.                                  *)
TermsOf(c) == <<c.merchant, c.reward, c.expiration, c.createdAt,
                c.vestingDays, c.maxClaims>>

(* A campaign is never removed, its terms never change (a fresh id never   *)
(* overwrites it) and its claim counter never goes back.                   *)
CampaignsAreKept ==
    [][\A id \in DOMAIN campaigns :
         /\ id \in DOMAIN campaigns'
         /\ TermsOf(campaigns'[id]) = TermsOf(campaigns[id])
         /\ campaigns'[id].totalClaimed >= campaigns[id].totalClaimed]_campaignVars

(* Once expired, a campaign is never active again, whatever its merchant   *)
(* does with set_active and resume_campaign.                               *)
ExpiryIsFinal ==
    [][\A id \in DOMAIN campaigns :
         now >= campaigns[id].expiration => ~IsActive(id)']_campaignVars

(* While the contract is paused no campaign appears, none becomes active   *)
(* and no claim is counted.                                                *)
PauseFreezesCampaigns ==
    [][campaignPaused =>
         /\ DOMAIN campaigns' = DOMAIN campaigns
         /\ \A id \in DOMAIN campaigns :
              /\ campaigns'[id].active = campaigns[id].active
              /\ campaigns'[id].totalClaimed
                   = campaigns[id].totalClaimed]_campaignVars

DistinctSigners(s) == \A i, j \in DOMAIN s : s[i] = s[j] => i = j

(* At most one upgrade is pending; its signatures, which execute_upgrade   *)
(* counts by their number, are of different accounts, and it was proposed  *)
(* in the past.                                                            *)
UpgradeIsGenuine ==
    /\ \A p, q \in upgrade : p = q
    /\ \A p \in upgrade : DistinctSigners(p.signatures) /\ p.proposedAt <= now

(* The code only changes to the hash of a proposal that threshold          *)
(* different accounts signed and that has been public for the time lock.   *)
UpgradeNeedsTimelock ==
    [][\E p \in upgrade :
         /\ code' = p.hash
         /\ DistinctSigners(p.signatures)
         /\ Len(p.signatures) >= UpgradeThreshold
         /\ now - p.proposedAt >= TIMELOCK]_code

NoAdmin == \A a \in Address : ~HasRole("Admin", a)

(* When nobody holds the Admin role (a fresh deployment, or the last admin *)
(* revoked) nobody ever will, and the code is frozen for ever.             *)
LockoutIsForever ==
    [][NoAdmin => NoAdmin' /\ roles' = roles /\ upgrade' = upgrade
                  /\ code' = code]_campaignVars
=============================================================================
