-------------------------- MODULE Campaign_proofs --------------------------
(***************************************************************************)
(* Proofs about the campaign contract: type correctness, that a campaign   *)
(* is kept with its terms and stays closed once expired, and what it takes *)
(* to replace the contract's code.                                         *)
(***************************************************************************)
EXTENDS Campaign, TLAPS

(* A campaign whose flags or counter change is still a campaign.           *)
LEMMA RecordUpdates ==
    ASSUME NEW c \in CampaignRecord, NEW flag \in BOOLEAN
    PROVE  /\ [c EXCEPT !.active = flag] \in CampaignRecord
           /\ [c EXCEPT !.paused = flag] \in CampaignRecord
           /\ [c EXCEPT !.totalClaimed = @ + 1] \in CampaignRecord
  BY DEF CampaignRecord

(* create_campaign takes the next id and leaves the other campaigns alone. *)
LEMMA CreateKeepsTypes ==
    ASSUME CampaignTypeOK, NEW m \in Merchants, NEW t \in Terms,
           CreateCampaign(m, t)
    PROVE  CampaignTypeOK'
<1> USE CampaignConstants
<1>1. t.reward \in Nat /\ t.duration \in Nat /\ t.vestingDays \in Nat
        /\ t.maxClaims \in SUBSET Nat
  OBVIOUS
<1>2. NewRecord(m, t) \in CampaignRecord
  BY <1>1 DEF NewRecord, CampaignRecord, CampaignTypeOK
<1>3. 1 .. nextId' - 1 = (1 .. nextId - 1) \cup {nextId}
  BY DEF CreateCampaign, CampaignTypeOK
<1>4. campaigns' \in [1 .. nextId' - 1 -> CampaignRecord]
  BY <1>2, <1>3 DEF CreateCampaign, Put, CampaignTypeOK
<1> QED
  BY <1>4 DEF CreateCampaign, CampaignTypeOK, governVars

(* set_active, pause_campaign, resume_campaign and record_claim.           *)
LEMMA TogglesKeepTypes ==
    ASSUME CampaignTypeOK, NEW id \in DOMAIN campaigns, NEW flag \in BOOLEAN,
           \/ SetActive(id, flag)
           \/ PauseCampaign(id)
           \/ ResumeCampaign(id)
           \/ RecordClaim(id)
    PROVE  CampaignTypeOK'
<1>1. campaigns[id] \in CampaignRecord
  BY DEF CampaignTypeOK
<1>2. CASE SetActive(id, flag)
  BY <1>1, <1>2, RecordUpdates DEF SetActive, CampaignTypeOK, governVars
<1>3. CASE PauseCampaign(id)
  BY <1>1, <1>3, RecordUpdates DEF PauseCampaign, CampaignTypeOK, governVars
<1>4. CASE ResumeCampaign(id)
  BY <1>1, <1>4, RecordUpdates DEF ResumeCampaign, CampaignTypeOK, governVars
<1>5. CASE RecordClaim(id)
  BY <1>1, <1>5, RecordUpdates DEF RecordClaim, CampaignTypeOK, governVars
<1> QED
  BY <1>2, <1>3, <1>4, <1>5

(* The four calls on upgrades and the two on roles.                        *)
LEMMA GovernKeepsTypes ==
    ASSUME CampaignTypeOK, GovernNext
    PROVE  CampaignTypeOK'
<1>1. ASSUME NEW a \in Address, NEW b \in Address, NEW r \in GrantedRoles,
             GrantRole(a, r, b) \/ RevokeRole(a, r, b)
      PROVE  CampaignTypeOK'
  BY <1>1, CampaignConstants DEF GrantRole, RevokeRole, CampaignTypeOK
<1>2. ASSUME NEW a \in Address, NEW h \in Hashes, ProposeUpgrade(a, h)
      PROVE  CampaignTypeOK'
  <2>1. [hash |-> h, proposedAt |-> now, signatures |-> <<a>>]
          \in UpgradeProposal
    BY DEF UpgradeProposal, CampaignTypeOK
  <2> QED
    BY <1>2, <2>1 DEF ProposeUpgrade, marketVars, CampaignTypeOK
<1>3. ASSUME NEW a \in Address, AuthorizeUpgrade(a)
      PROVE  CampaignTypeOK'
  <2>1. PICK p \in upgrade :
          upgrade' = {[p EXCEPT !.signatures = Append(p.signatures, a)]}
    BY <1>3 DEF AuthorizeUpgrade
  <2>2. p \in UpgradeProposal
    BY DEF CampaignTypeOK
  <2>3. Append(p.signatures, a) \in Seq(Address)
    BY <2>2 DEF UpgradeProposal
  <2>4. [p EXCEPT !.signatures = Append(p.signatures, a)] \in UpgradeProposal
    BY <2>2, <2>3 DEF UpgradeProposal
  <2> QED
    BY <1>3, <2>1, <2>4 DEF AuthorizeUpgrade, marketVars, CampaignTypeOK
<1>4. ASSUME NEW a \in Address, ExecuteUpgrade(a) \/ CancelUpgrade(a)
      PROVE  CampaignTypeOK'
  BY <1>4 DEF ExecuteUpgrade, CancelUpgrade, marketVars, CampaignTypeOK
<1> QED
  BY <1>1, <1>2, <1>3, <1>4 DEF GovernNext

(* Every call, and the clock, keep the storage well typed.                 *)
LEMMA CampaignTypeStep ==
    CampaignTypeOK /\ [CampaignNext]_campaignVars => CampaignTypeOK'
<1> SUFFICES ASSUME CampaignTypeOK, [CampaignNext]_campaignVars
             PROVE  CampaignTypeOK'
  OBVIOUS
<1>1. CASE AdvanceTime
  BY <1>1, CampaignConstants DEF AdvanceTime, CampaignTypeOK, governVars
<1>2. CASE MerchantNext
  BY <1>2, CreateKeepsTypes, TogglesKeepTypes DEF MerchantNext
<1>3. CASE \E id \in DOMAIN campaigns : RecordClaim(id)
  BY <1>3, TogglesKeepTypes
<1>4. ASSUME NEW a \in Address,
             \/ Pause(a)
             \/ Unpause(a)
             \/ EmergencyPauseCampaigns(a)
             \/ EmergencyUnpauseCampaigns(a)
      PROVE  CampaignTypeOK'
  BY <1>4 DEF Pause, Unpause, EmergencyPauseCampaigns,
              EmergencyUnpauseCampaigns, SetPaused, CampaignTypeOK, governVars
<1>5. CASE GovernNext
  BY <1>5, GovernKeepsTypes
<1>6. CASE UNCHANGED campaignVars
  BY <1>6 DEF CampaignTypeOK, campaignVars, governVars
<1> QED
  BY <1>1, <1>2, <1>3, <1>4, <1>5, <1>6 DEF CampaignNext

(* What the instance starts with: nothing, or an earlier code's campaigns.  *)
LEMMA CampaignTypeInit == CampaignInit => CampaignTypeOK
<1> SUFFICES ASSUME CampaignInit PROVE CampaignTypeOK
  OBVIOUS
<1>1. SeedCampaigns \in Seq(CampaignRecord) /\ SeedRoles \subseteq Roles \X Address
  BY CampaignConstants
<1>2. /\ Len(SeedCampaigns) \in Nat
      /\ SeedCampaigns \in [1 .. Len(SeedCampaigns) -> CampaignRecord]
  BY <1>1
<1>3. nextId = Len(SeedCampaigns) + 1 /\ nextId - 1 = Len(SeedCampaigns)
  BY <1>2 DEF CampaignInit
<1>4. nextId \in Nat \ {0} /\ campaigns \in [1 .. nextId - 1 -> CampaignRecord]
  BY <1>2, <1>3 DEF CampaignInit
<1> QED
  BY <1>1, <1>4 DEF CampaignInit, CampaignTypeOK

(* Type correctness: the ids in use are always exactly those handed out,   *)
(* and every entry has the type the contract reads it back with.           *)
THEOREM CampaignTypeCorrect == CampaignSpec => []CampaignTypeOK
  BY CampaignTypeInit, CampaignTypeStep, PTL DEF CampaignSpec

-----------------------------------------------------------------------------
(* What each part of the storage is written by.                            *)

(* The campaigns: by create_campaign and the calls on one campaign.        *)
LEMMA CampaignCalls ==
    ASSUME [CampaignNext]_campaignVars
    PROVE  \/ \E m \in Merchants, t \in Terms : CreateCampaign(m, t)
           \/ \E k \in DOMAIN campaigns, flag \in BOOLEAN :
                \/ SetActive(k, flag)
                \/ PauseCampaign(k)
                \/ ResumeCampaign(k)
                \/ RecordClaim(k)
           \/ UNCHANGED campaigns
<1>1. CASE MerchantNext
  BY <1>1 DEF MerchantNext
<1>2. CASE \E k \in DOMAIN campaigns : RecordClaim(k)
  BY <1>2
<1>3. CASE AdvanceTime
  BY <1>3 DEF AdvanceTime
<1>4. ASSUME NEW a \in Address,
             \/ Pause(a)
             \/ Unpause(a)
             \/ EmergencyPauseCampaigns(a)
             \/ EmergencyUnpauseCampaigns(a)
      PROVE  UNCHANGED campaigns
  BY <1>4 DEF Pause, Unpause, EmergencyPauseCampaigns,
              EmergencyUnpauseCampaigns, SetPaused
<1>5. CASE GovernNext
  BY <1>5 DEF GovernNext, GrantRole, RevokeRole, ProposeUpgrade,
              AuthorizeUpgrade, ExecuteUpgrade, CancelUpgrade, marketVars
<1>6. CASE UNCHANGED campaignVars
  BY <1>6 DEF campaignVars
<1> QED
  BY <1>1, <1>2, <1>3, <1>4, <1>5, <1>6 DEF CampaignNext

(* Roles, upgrade and code: by the calls of GovernNext.                    *)
LEMMA OtherCallsKeepGovernance ==
    ASSUME [CampaignNext]_campaignVars, ~GovernNext
    PROVE  UNCHANGED governVars
<1>1. CASE AdvanceTime
  BY <1>1 DEF AdvanceTime
<1>2. CASE MerchantNext
  BY <1>2 DEF MerchantNext, CreateCampaign, SetActive, PauseCampaign,
              ResumeCampaign
<1>3. CASE \E k \in DOMAIN campaigns : RecordClaim(k)
  BY <1>3 DEF RecordClaim
<1>4. ASSUME NEW a \in Address,
             \/ Pause(a)
             \/ Unpause(a)
             \/ EmergencyPauseCampaigns(a)
             \/ EmergencyUnpauseCampaigns(a)
      PROVE  UNCHANGED governVars
  BY <1>4 DEF Pause, Unpause, EmergencyPauseCampaigns,
              EmergencyUnpauseCampaigns, SetPaused
<1>5. CASE UNCHANGED campaignVars
  BY <1>5 DEF campaignVars
<1> QED
  BY <1>1, <1>2, <1>3, <1>4, <1>5 DEF CampaignNext

(* The clock: by the passing of time, forwards.                            *)
LEMMA ClockStep ==
    ASSUME [CampaignNext]_campaignVars, now \in Nat
    PROVE  now' >= now /\ (~AdvanceTime => now' = now)
<1>1. CASE AdvanceTime
  BY <1>1, CampaignConstants DEF AdvanceTime
<1>2. CASE UNCHANGED now
  BY <1>2
<1>3. CASE GovernNext
  BY <1>2, <1>3 DEF GovernNext, GrantRole, RevokeRole, ProposeUpgrade,
                    AuthorizeUpgrade, ExecuteUpgrade, CancelUpgrade, marketVars
<1>4. CASE MerchantNext
  BY <1>2, <1>4 DEF MerchantNext, CreateCampaign, SetActive, PauseCampaign,
                    ResumeCampaign
<1>5. CASE \E k \in DOMAIN campaigns : RecordClaim(k)
  BY <1>2, <1>5 DEF RecordClaim
<1>6. ASSUME NEW a \in Address,
             \/ Pause(a)
             \/ Unpause(a)
             \/ EmergencyPauseCampaigns(a)
             \/ EmergencyUnpauseCampaigns(a)
      PROVE  UNCHANGED now
  BY <1>6 DEF Pause, Unpause, EmergencyPauseCampaigns,
              EmergencyUnpauseCampaigns, SetPaused
<1>7. CASE UNCHANGED campaignVars
  BY <1>2, <1>7 DEF campaignVars
<1> QED
  BY <1>1, <1>2, <1>3, <1>4, <1>5, <1>6, <1>7 DEF CampaignNext

(* The pending upgrade: by the four calls on upgrades.                     *)
LEMMA UpgradeCalls ==
    ASSUME [CampaignNext]_campaignVars, now \in Nat
    PROVE  \/ AdvanceTime
           \/ \E a \in Address, h \in Hashes : ProposeUpgrade(a, h)
           \/ \E a \in Address : AuthorizeUpgrade(a)
           \/ \E a \in Address : ExecuteUpgrade(a) \/ CancelUpgrade(a)
           \/ UNCHANGED <<upgrade, now>>
<1>1. CASE GovernNext
  BY <1>1 DEF GovernNext, GrantRole, RevokeRole
<1>2. CASE ~GovernNext
  BY <1>2, OtherCallsKeepGovernance, ClockStep DEF governVars
<1> QED
  BY <1>1, <1>2

(* The code: by execute_upgrade.                                           *)
LEMMA CodeCalls ==
    ASSUME [CampaignNext]_campaignVars, code' # code
    PROVE  \E a \in Address : ExecuteUpgrade(a)
<1>1. GovernNext
  BY OtherCallsKeepGovernance DEF governVars
<1> QED
  BY <1>1 DEF GovernNext, GrantRole, RevokeRole, ProposeUpgrade,
              AuthorizeUpgrade, CancelUpgrade

-----------------------------------------------------------------------------
(* An account that has not signed may sign without repeating a signer.     *)
LEMMA FreshSigner ==
    ASSUME NEW s \in Seq(Address), NEW a \in Address, DistinctSigners(s),
           \A i \in DOMAIN s : s[i] # a
    PROVE  DistinctSigners(Append(s, a))
<1>1. /\ DOMAIN Append(s, a) = 1 .. Len(s) + 1
      /\ DOMAIN s = 1 .. Len(s)
      /\ Append(s, a)[Len(s) + 1] = a
      /\ \A i \in 1 .. Len(s) : Append(s, a)[i] = s[i]
  OBVIOUS
<1> QED
  BY <1>1 DEF DistinctSigners

(* One step keeps the pending proposal genuine: an authorize_upgrade adds  *)
(* a signer who has not signed, every other call leaves the proposal,      *)
(* drops it or makes a fresh one, and the clock only moves forward.        *)
LEMMA GenuineUpgradeStep ==
    CampaignTypeOK /\ UpgradeIsGenuine /\ [CampaignNext]_campaignVars
      => UpgradeIsGenuine'
<1> SUFFICES ASSUME CampaignTypeOK, UpgradeIsGenuine,
                    [CampaignNext]_campaignVars
             PROVE  UpgradeIsGenuine'
  OBVIOUS
<1>1. CASE AdvanceTime
  <2>1. now \in Nat /\ now' \in Nat /\ now <= now' /\ upgrade' = upgrade
    BY <1>1, CampaignConstants DEF AdvanceTime, CampaignTypeOK, governVars
  <2>2. \A p \in upgrade : p.proposedAt \in Nat
    BY DEF CampaignTypeOK, UpgradeProposal
  <2> QED
    BY <2>1, <2>2 DEF UpgradeIsGenuine, DistinctSigners
<1>2. ASSUME NEW a \in Address, NEW h \in Hashes, ProposeUpgrade(a, h)
      PROVE  UpgradeIsGenuine'
  <2>1. DistinctSigners(<<a>>)
    BY DEF DistinctSigners
  <2>2. now \in Nat /\ now' = now
    BY <1>2 DEF ProposeUpgrade, marketVars, CampaignTypeOK
  <2> QED
    BY <1>2, <2>1, <2>2 DEF ProposeUpgrade, UpgradeIsGenuine, DistinctSigners
<1>3. ASSUME NEW a \in Address, AuthorizeUpgrade(a)
      PROVE  UpgradeIsGenuine'
  <2>1. PICK p \in upgrade :
          /\ \A i \in DOMAIN p.signatures : p.signatures[i] # a
          /\ upgrade' = {[p EXCEPT !.signatures = Append(p.signatures, a)]}
    BY <1>3 DEF AuthorizeUpgrade
  <2>2. p \in UpgradeProposal /\ p.signatures \in Seq(Address)
    BY DEF CampaignTypeOK, UpgradeProposal
  <2>3. DistinctSigners(Append(p.signatures, a))
    BY <2>1, <2>2, FreshSigner DEF UpgradeIsGenuine
  <2>4. now' = now /\ p.proposedAt <= now
    BY <1>3 DEF AuthorizeUpgrade, marketVars, UpgradeIsGenuine
  <2>5. \A q \in upgrade' :
          /\ q.signatures = Append(p.signatures, a)
          /\ q.proposedAt = p.proposedAt
    BY <2>1, <2>2 DEF UpgradeProposal
  <2>6. \A q, r \in upgrade' : q = r
    BY <2>1
  <2> QED
    BY <2>3, <2>4, <2>5, <2>6 DEF UpgradeIsGenuine, DistinctSigners
<1>4. ASSUME NEW a \in Address, ExecuteUpgrade(a) \/ CancelUpgrade(a)
      PROVE  UpgradeIsGenuine'
  BY <1>4 DEF ExecuteUpgrade, CancelUpgrade, UpgradeIsGenuine
<1>5. CASE UNCHANGED <<upgrade, now>>
  BY <1>5 DEF UpgradeIsGenuine, DistinctSigners
<1>6. \/ AdvanceTime
      \/ \E a \in Address, h \in Hashes : ProposeUpgrade(a, h)
      \/ \E a \in Address : AuthorizeUpgrade(a)
      \/ \E a \in Address : ExecuteUpgrade(a) \/ CancelUpgrade(a)
      \/ UNCHANGED <<upgrade, now>>
  BY UpgradeCalls DEF CampaignTypeOK
<1> QED
  BY <1>1, <1>2, <1>3, <1>4, <1>5, <1>6

(* The signatures a pending upgrade carries are of different accounts, and *)
(* its time lock started in the past.                                      *)
THEOREM UpgradesGenuine == CampaignSpec => []UpgradeIsGenuine
<1>1. CampaignInit => UpgradeIsGenuine
  BY DEF CampaignInit, UpgradeIsGenuine
<1> QED
  BY <1>1, CampaignTypeCorrect, GenuineUpgradeStep, PTL DEF CampaignSpec

-----------------------------------------------------------------------------
(* Only execute_upgrade changes the code, and it reads a proposal that is  *)
(* genuine, signed often enough and old enough.                            *)
LEMMA TimelockStep ==
    CampaignTypeOK /\ UpgradeIsGenuine /\ [CampaignNext]_campaignVars =>
      [\E p \in upgrade :
         /\ code' = p.hash
         /\ DistinctSigners(p.signatures)
         /\ Len(p.signatures) >= UpgradeThreshold
         /\ now - p.proposedAt >= TIMELOCK]_code
<1> SUFFICES ASSUME CampaignTypeOK, UpgradeIsGenuine,
                    [CampaignNext]_campaignVars, code' # code
             PROVE  \E p \in upgrade :
                      /\ code' = p.hash
                      /\ DistinctSigners(p.signatures)
                      /\ Len(p.signatures) >= UpgradeThreshold
                      /\ now - p.proposedAt >= TIMELOCK
  OBVIOUS
<1>1. PICK a \in Address : ExecuteUpgrade(a)
  BY CodeCalls
<1>2. PICK p \in upgrade : /\ Len(p.signatures) >= UpgradeThreshold
                           /\ now >= p.proposedAt + TIMELOCK
                           /\ code' = p.hash
  BY <1>1 DEF ExecuteUpgrade
<1>3. now \in Nat /\ p.proposedAt \in Nat
  BY DEF CampaignTypeOK, UpgradeProposal
<1>4. now - p.proposedAt >= TIMELOCK
  BY <1>2, <1>3 DEF TIMELOCK
<1>5. DistinctSigners(p.signatures)
  BY DEF UpgradeIsGenuine
<1> QED
  BY <1>2, <1>4, <1>5

(* The contract's code is only replaced by a proposal that threshold       *)
(* different accounts signed and that has been public for 48 hours.        *)
THEOREM TimelockHolds == CampaignSpec => UpgradeNeedsTimelock
  BY CampaignTypeCorrect, UpgradesGenuine, TimelockStep, PTL
  DEF CampaignSpec, UpgradeNeedsTimelock

-----------------------------------------------------------------------------
(* Every call on roles and upgrades asks for the Admin role, so nobody can *)
(* make one once nobody holds it.                                          *)
LEMMA LockoutStep ==
    NoAdmin /\ [CampaignNext]_campaignVars =>
      NoAdmin' /\ roles' = roles /\ upgrade' = upgrade /\ code' = code
<1> SUFFICES ASSUME NoAdmin, [CampaignNext]_campaignVars
             PROVE  UNCHANGED governVars
  BY DEF NoAdmin, HasRole, governVars
<1>1. ~GovernNext
  BY DEF GovernNext, GrantRole, RevokeRole, ProposeUpgrade, AuthorizeUpgrade,
         ExecuteUpgrade, CancelUpgrade, NoAdmin
<1> QED
  BY <1>1, OtherCallsKeepGovernance

(* Without an admin the roles, the pending upgrade and the code are frozen *)
(* for ever: the state a fresh deployment is in.                           *)
THEOREM LockoutHolds == CampaignSpec => LockoutIsForever
  BY LockoutStep, PTL DEF CampaignSpec, LockoutIsForever

-----------------------------------------------------------------------------
(* A campaign's terms and identity survive one step, and its claim counter *)
(* does not go back.                                                       *)
LEMMA KeptStep ==
    CampaignTypeOK /\ [CampaignNext]_campaignVars =>
      \A id \in DOMAIN campaigns :
        /\ id \in DOMAIN campaigns'
        /\ TermsOf(campaigns'[id]) = TermsOf(campaigns[id])
        /\ campaigns'[id].totalClaimed >= campaigns[id].totalClaimed
<1> SUFFICES ASSUME CampaignTypeOK, [CampaignNext]_campaignVars,
                    NEW id \in DOMAIN campaigns
             PROVE  /\ id \in DOMAIN campaigns'
                    /\ TermsOf(campaigns'[id]) = TermsOf(campaigns[id])
                    /\ campaigns'[id].totalClaimed >= campaigns[id].totalClaimed
  OBVIOUS
<1>0. campaigns[id] \in CampaignRecord /\ campaigns[id].totalClaimed \in Nat
  BY DEF CampaignTypeOK, CampaignRecord
<1>1. ASSUME NEW m \in Merchants, NEW t \in Terms, CreateCampaign(m, t)
      PROVE  id \in DOMAIN campaigns' /\ campaigns'[id] = campaigns[id]
  <2>1. id # nextId
    BY DEF CampaignTypeOK
  <2> QED
    BY <1>1, <2>1 DEF CreateCampaign, Put
<1>2. ASSUME NEW k \in DOMAIN campaigns, NEW flag \in BOOLEAN,
             \/ SetActive(k, flag)
             \/ PauseCampaign(k)
             \/ ResumeCampaign(k)
             \/ RecordClaim(k)
      PROVE  /\ id \in DOMAIN campaigns'
             /\ TermsOf(campaigns'[id]) = TermsOf(campaigns[id])
             /\ campaigns'[id].totalClaimed >= campaigns[id].totalClaimed
  <2>1. CASE SetActive(k, flag)
    BY <1>0, <2>1 DEF SetActive, TermsOf, CampaignRecord, CampaignTypeOK
  <2>2. CASE PauseCampaign(k)
    BY <1>0, <2>2 DEF PauseCampaign, TermsOf, CampaignRecord, CampaignTypeOK
  <2>3. CASE ResumeCampaign(k)
    BY <1>0, <2>3 DEF ResumeCampaign, TermsOf, CampaignRecord, CampaignTypeOK
  <2>4. CASE RecordClaim(k)
    BY <1>0, <2>4 DEF RecordClaim, TermsOf, CampaignRecord, CampaignTypeOK
  <2> QED
    BY <1>2, <2>1, <2>2, <2>3, <2>4
<1>3. CASE UNCHANGED campaigns
  BY <1>0, <1>3
<1> QED
  BY <1>0, <1>1, <1>2, <1>3, CampaignCalls

(* A campaign is never removed, its terms never change and its claim       *)
(* counter never goes back.                                                *)
THEOREM CampaignsKept == CampaignSpec => CampaignsAreKept
  BY CampaignTypeCorrect, KeptStep, PTL DEF CampaignSpec, CampaignsAreKept

(* Once expired a campaign is never active again: its expiration is kept   *)
(* and the clock does not go back.                                         *)
LEMMA ExpiryStep ==
    CampaignTypeOK /\ [CampaignNext]_campaignVars =>
      \A id \in DOMAIN campaigns :
        now >= campaigns[id].expiration => ~IsActive(id)'
<1> SUFFICES ASSUME CampaignTypeOK, [CampaignNext]_campaignVars,
                    NEW id \in DOMAIN campaigns,
                    now >= campaigns[id].expiration
             PROVE  ~IsActive(id)'
  OBVIOUS
<1>1. now \in Nat /\ campaigns[id].expiration \in Nat
  BY DEF CampaignTypeOK, CampaignRecord
<1>2. campaigns'[id].expiration = campaigns[id].expiration
  BY KeptStep DEF TermsOf
<1>3. now' \in Nat /\ now' >= now
  BY <1>1, CampaignTypeStep, ClockStep DEF CampaignTypeOK
<1>4. ~(now' < campaigns'[id].expiration)
  BY <1>1, <1>2, <1>3
<1> QED
  BY <1>4 DEF IsActive

(* No set_active or resume_campaign brings an expired campaign back.       *)
THEOREM ExpiryHolds == CampaignSpec => ExpiryIsFinal
  BY CampaignTypeCorrect, ExpiryStep, PTL DEF CampaignSpec, ExpiryIsFinal
-----------------------------------------------------------------------------
(* Of the calls that write campaigns only pause_campaign and               *)
(* resume_campaign go through while the contract is paused, and they touch *)
(* neither the active flag nor the counter.                                *)
LEMMA FrozenStep ==
    CampaignTypeOK /\ [CampaignNext]_campaignVars =>
      (campaignPaused =>
         /\ DOMAIN campaigns' = DOMAIN campaigns
         /\ \A id \in DOMAIN campaigns :
              /\ campaigns'[id].active = campaigns[id].active
              /\ campaigns'[id].totalClaimed = campaigns[id].totalClaimed)
<1> SUFFICES ASSUME CampaignTypeOK, [CampaignNext]_campaignVars, campaignPaused
             PROVE  /\ DOMAIN campaigns' = DOMAIN campaigns
                    /\ \A id \in DOMAIN campaigns :
                         /\ campaigns'[id].active = campaigns[id].active
                         /\ campaigns'[id].totalClaimed
                              = campaigns[id].totalClaimed
  OBVIOUS
<1>1. ASSUME NEW k \in DOMAIN campaigns, NEW flag \in BOOLEAN,
             campaigns' = [campaigns EXCEPT ![k].paused = flag],
             NEW id \in DOMAIN campaigns
      PROVE  /\ campaigns'[id].active = campaigns[id].active
             /\ campaigns'[id].totalClaimed = campaigns[id].totalClaimed
  <2>1. campaigns[id] \in CampaignRecord
    BY DEF CampaignTypeOK
  <2>2. \/ campaigns'[id] = campaigns[id]
        \/ campaigns'[id] = [campaigns[id] EXCEPT !.paused = flag]
    BY <1>1
  <2> QED
    BY <2>1, <2>2 DEF CampaignRecord
<1>2. ASSUME NEW k \in DOMAIN campaigns, PauseCampaign(k) \/ ResumeCampaign(k)
      PROVE  /\ DOMAIN campaigns' = DOMAIN campaigns
             /\ \A id \in DOMAIN campaigns :
                  /\ campaigns'[id].active = campaigns[id].active
                  /\ campaigns'[id].totalClaimed = campaigns[id].totalClaimed
  <2>1. PICK flag \in BOOLEAN :
          campaigns' = [campaigns EXCEPT ![k].paused = flag]
    BY <1>2 DEF PauseCampaign, ResumeCampaign
  <2> QED
    BY <1>1, <2>1
<1>3. /\ ~\E m \in Merchants, t \in Terms : CreateCampaign(m, t)
      /\ ~\E k \in DOMAIN campaigns, flag \in BOOLEAN :
            SetActive(k, flag) \/ RecordClaim(k)
  BY DEF CreateCampaign, SetActive, RecordClaim
<1>4. \/ \E k \in DOMAIN campaigns : PauseCampaign(k) \/ ResumeCampaign(k)
      \/ UNCHANGED campaigns
  BY <1>3, CampaignCalls
<1> QED
  BY <1>2, <1>4

(* While the contract is paused no campaign appears, none becomes active   *)
(* and no claim is counted.                                                *)
THEOREM PauseHolds == CampaignSpec => PauseFreezesCampaigns
  BY CampaignTypeCorrect, FrozenStep, PTL
  DEF CampaignSpec, PauseFreezesCampaigns
=============================================================================
