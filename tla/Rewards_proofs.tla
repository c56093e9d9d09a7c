--------------------------- MODULE Rewards_proofs ---------------------------
(***************************************************************************)
(* Proofs about the rewards contract composed with the token and the       *)
(* campaign contracts: type correctness, what a claim is worth, that no    *)
(* pair is paid more or sooner than it was granted, that the contract      *)
(* implements the entitlement ledger, and that claims account for every    *)
(* token it issues.                                                        *)
(***************************************************************************)
EXTENDS Rewards, LoyaltyToken_proofs, Campaign_proofs

-----------------------------------------------------------------------------
(* Integer division.                                                       *)

(* The quotient of two natural numbers rounds down.                        *)
LEMMA DivRounds ==
    ASSUME NEW a \in Nat, NEW n \in Nat \ {0}
    PROVE  /\ a \div n \in Nat
           /\ n * (a \div n) <= a
           /\ a < n * (a \div n) + n
  OBVIOUS

(* A larger factor gives no smaller product.                               *)
LEMMA MulGrows ==
    ASSUME NEW n \in Nat, NEW a \in Nat, NEW b \in Nat, a <= b
    PROVE  /\ n * a <= n * b
           /\ n * a \in Nat /\ n * b \in Nat
  OBVIOUS

(* A quotient is at least k when k times the divisor fits.                 *)
LEMMA DivAtLeast ==
    ASSUME NEW a \in Nat, NEW n \in Nat \ {0}, NEW k \in Nat, n * k <= a
    PROVE  k <= a \div n
<1> DEFINE q == a \div n
<1>1. q \in Nat /\ a < n * q + n
  BY DivRounds
<1>2. CASE q < k
  <2>1. q + 1 <= k /\ q + 1 \in Nat
    BY <1>1, <1>2
  <2>2. n * (q + 1) <= n * k
    BY <2>1, MulGrows
  <2>3. n * (q + 1) = n * q + n
    BY <1>1
  <2> QED
    BY <1>1, <2>2, <2>3
<1> QED
  BY <1>1, <1>2

(* A quotient is at most k when k times the divisor is no less.            *)
LEMMA DivAtMost ==
    ASSUME NEW a \in Nat, NEW n \in Nat \ {0}, NEW k \in Nat, a <= n * k
    PROVE  a \div n <= k
<1> DEFINE q == a \div n
<1>1. q \in Nat /\ n * q <= a
  BY DivRounds
<1>2. CASE k < q
  <2>1. k + 1 <= q /\ k + 1 \in Nat
    BY <1>1, <1>2
  <2>2. n * (k + 1) <= n * q
    BY <1>1, <2>1, MulGrows
  <2>3. n * (k + 1) = n * k + n /\ n * k \in Nat
    OBVIOUS
  <2> QED
    BY <1>1, <2>2, <2>3
<1> QED
  BY <1>1, <1>2

(* A larger dividend gives no smaller quotient.                            *)
LEMMA DivGrows ==
    ASSUME NEW a \in Nat, NEW b \in Nat, NEW n \in Nat \ {0}, a <= b
    PROVE  a \div n <= b \div n
<1>1. a \div n \in Nat /\ n * (a \div n) <= a
  BY DivRounds
<1>2. n * (a \div n) <= b
  BY <1>1
<1> QED
  BY <1>1, <1>2, DivAtLeast

-----------------------------------------------------------------------------
(* What a claim is worth.                                                  *)

(* A multiplier lies between 1x and 2x.                                    *)
LEMMA MultiplierBounds ==
    ASSUME NEW t \in Nat, NEW created \in Nat, NEW expires \in Nat
    PROVE  /\ Multiplier(t, created, expires) \in Nat
           /\ FULL <= Multiplier(t, created, expires)
           /\ Multiplier(t, created, expires) <= 2 * FULL
<1>1. CASE t >= expires \/ expires <= created
  BY <1>1 DEF Multiplier, FULL
<1>2. CASE ~(t >= expires \/ expires <= created)
  <2> DEFINE extra == (FULL * (expires - t)) \div (expires - created)
  <2>1. expires - t \in Nat /\ expires - created \in Nat \ {0}
    BY <1>2
  <2>2. FULL * (expires - t) \in Nat
    BY <2>1 DEF FULL
  <2>3. extra \in Nat
    BY <2>1, <2>2, DivRounds
  <2>4. Multiplier(t, created, expires)
          = FULL + (IF extra < FULL THEN extra ELSE FULL)
    BY <1>2 DEF Multiplier
  <2> HIDE DEF extra
  <2> QED
    BY <2>3, <2>4 DEF FULL
<1> QED
  BY <1>1, <1>2

(* A multiplier never grows with time.                                     *)
LEMMA MultiplierFalls ==
    ASSUME NEW s \in Nat, NEW t \in Nat, s <= t,
           NEW created \in Nat, NEW expires \in Nat
    PROVE  Multiplier(t, created, expires) <= Multiplier(s, created, expires)
<1>1. CASE expires <= created
  BY <1>1 DEF Multiplier, FULL
<1>2. CASE t >= expires /\ ~(expires <= created)
  <2>1. Multiplier(t, created, expires) = FULL
    BY <1>2 DEF Multiplier
  <2> QED
    BY <2>1, MultiplierBounds
<1>3. CASE ~(t >= expires) /\ ~(expires <= created)
  <2> DEFINE n == expires - created
             early == (FULL * (expires - s)) \div n
             late == (FULL * (expires - t)) \div n
  <2>1. /\ n \in Nat \ {0} /\ expires - s \in Nat /\ expires - t \in Nat
        /\ expires - t <= expires - s /\ FULL \in Nat
    BY <1>3 DEF FULL
  <2>2. /\ FULL * (expires - t) <= FULL * (expires - s)
        /\ FULL * (expires - t) \in Nat /\ FULL * (expires - s) \in Nat
    BY <2>1, MulGrows
  <2>3. late <= early
    BY <2>1, <2>2, DivGrows
  <2>4. late \in Nat /\ early \in Nat
    BY <2>1, <2>2, DivRounds
  <2>5. /\ Multiplier(t, created, expires)
             = FULL + (IF late < FULL THEN late ELSE FULL)
        /\ Multiplier(s, created, expires)
             = FULL + (IF early < FULL THEN early ELSE FULL)
    BY <1>3 DEF Multiplier
  <2> HIDE DEF late, early, n
  <2> QED
    BY <2>3, <2>4, <2>5 DEF FULL
<1> QED
  BY <1>1, <1>2, <1>3

(* The amount recorded for a claim made at t, with or without a referral.  *)
BaseAt(c, t) ==
    (c.reward * Multiplier(t, c.createdAt, c.expiration)) \div FULL

Worth(c, t, bonus) ==
    IF bonus THEN BaseAt(c, t) + BaseAt(c, t) \div 20 ELSE BaseAt(c, t)

(* The amount without a referral lies between one reward and two.          *)
LEMMA BaseBounds ==
    ASSUME NEW c \in CampaignRecord, NEW t \in Nat
    PROVE  /\ BaseAt(c, t) \in Nat
           /\ c.reward <= BaseAt(c, t)
           /\ BaseAt(c, t) <= 2 * c.reward
<1> DEFINE r == c.reward
           m == Multiplier(t, c.createdAt, c.expiration)
<1>1. r \in Nat /\ c.createdAt \in Nat /\ c.expiration \in Nat
  BY DEF CampaignRecord
<1>2. m \in Nat /\ FULL <= m /\ m <= 2 * FULL
  BY <1>1, MultiplierBounds
<1> HIDE DEF r, m
<1>3. FULL \in Nat \ {0} /\ 2 * FULL \in Nat
  BY DEF FULL
<1>4. r * FULL <= r * m /\ r * m <= r * (2 * FULL) /\ r * m \in Nat
  BY <1>1, <1>2, <1>3, MulGrows
<1>5. r * FULL = FULL * r /\ r * (2 * FULL) = FULL * (2 * r)
      /\ 2 * r \in Nat
  BY <1>1 DEF FULL
<1>6. (r * m) \div FULL \in Nat
  BY <1>3, <1>4, DivRounds
<1>7. r <= (r * m) \div FULL
  BY <1>1, <1>3, <1>4, <1>5, DivAtLeast
<1>8. (r * m) \div FULL <= 2 * r
  BY <1>1, <1>3, <1>4, <1>5, DivAtMost
<1> QED
  BY <1>6, <1>7, <1>8 DEF BaseAt, r, m

(* The amount without a referral never grows with time.                    *)
LEMMA BaseFalls ==
    ASSUME NEW c \in CampaignRecord, NEW s \in Nat, NEW t \in Nat, s <= t
    PROVE  BaseAt(c, t) <= BaseAt(c, s)
<1> DEFINE m(u) == Multiplier(u, c.createdAt, c.expiration)
<1>1. /\ c.reward \in Nat /\ c.createdAt \in Nat /\ c.expiration \in Nat
  BY DEF CampaignRecord
<1>2. m(s) \in Nat /\ m(t) \in Nat /\ m(t) <= m(s)
  BY <1>1, MultiplierBounds, MultiplierFalls
<1> HIDE DEF m
<1>3. /\ c.reward * m(t) <= c.reward * m(s)
      /\ c.reward * m(t) \in Nat /\ c.reward * m(s) \in Nat
  BY <1>1, <1>2, MulGrows
<1>4. FULL \in Nat \ {0}
  BY DEF FULL
<1> QED
  BY <1>3, <1>4, DivGrows DEF BaseAt, m

(* Between one reward and two, and 5% more with a referral.                *)
LEMMA WorthBounds ==
    ASSUME NEW c \in CampaignRecord, NEW t \in Nat, NEW bonus \in BOOLEAN
    PROVE  /\ Worth(c, t, bonus) \in Nat
           /\ c.reward <= Worth(c, t, bonus)
           /\ ~bonus => Worth(c, t, bonus) <= 2 * c.reward
           /\ bonus => 20 * Worth(c, t, bonus) <= 42 * c.reward
<1> DEFINE b == BaseAt(c, t)
           r == c.reward
<1>1. b \in Nat /\ r <= b /\ b <= 2 * r /\ r \in Nat
  BY BaseBounds DEF CampaignRecord
<1>2. Worth(c, t, bonus) = IF bonus THEN b + b \div 20 ELSE b
  BY DEF Worth
<1> HIDE DEF b, r
<1>3. b \div 20 \in Nat /\ 20 * (b \div 20) <= b
  BY <1>1
<1>4. /\ Worth(c, t, bonus) \in Nat
      /\ r <= Worth(c, t, bonus)
      /\ ~bonus => Worth(c, t, bonus) <= 2 * r
      /\ bonus => 20 * Worth(c, t, bonus) <= 42 * r
  <2>1. CASE bonus
    BY <1>1, <1>2, <1>3, <2>1
  <2>2. CASE ~bonus
    BY <1>1, <1>2, <2>2
  <2> QED
    BY <2>1, <2>2
<1> QED
  BY <1>4 DEF r

(* A later claim of the same kind is worth no more.                        *)
LEMMA WorthFalls ==
    ASSUME NEW c \in CampaignRecord, NEW s \in Nat, NEW t \in Nat, s <= t,
           NEW bonus \in BOOLEAN
    PROVE  Worth(c, t, bonus) <= Worth(c, s, bonus)
<1> DEFINE b(u) == BaseAt(c, u)
<1>1. b(s) \in Nat /\ b(t) \in Nat /\ b(t) <= b(s)
  BY BaseBounds, BaseFalls
<1>2. \A u : Worth(c, u, bonus)
              = IF bonus THEN b(u) + b(u) \div 20 ELSE b(u)
  BY DEF Worth
<1> HIDE DEF b
<1>3. b(t) \div 20 <= b(s) \div 20
      /\ b(t) \div 20 \in Nat /\ b(s) \div 20 \in Nat
  BY <1>1, DivGrows, DivRounds
<1> QED
  BY <1>1, <1>2, <1>3

(* What has vested never exceeds the total and never shrinks.              *)
LEMMA VestedBounds ==
    ASSUME NEW v \in Vesting, NEW t \in Nat
    PROVE  Vested(v, t) \in Nat /\ Vested(v, t) <= v.total
<1> DEFINE e == IF t >= v.start THEN t - v.start ELSE 0
<1>1. /\ v.total \in Nat /\ v.start \in Nat /\ v.duration \in Nat
  BY DEF Vesting
<1>2. e \in Nat
  BY <1>1
<1>3. Vested(v, t) = IF e >= v.duration THEN v.total
                     ELSE (v.total * e) \div v.duration
  BY DEF Vested
<1> HIDE DEF e
<1>4. CASE e >= v.duration
  BY <1>1, <1>3, <1>4
<1>5. CASE ~(e >= v.duration)
  <2>1. v.duration \in Nat \ {0} /\ e <= v.duration
    BY <1>1, <1>2, <1>5
  <2>2. v.total * e <= v.total * v.duration /\ v.total * e \in Nat
    BY <1>1, <1>2, <2>1, MulGrows
  <2>3. v.total * v.duration = v.duration * v.total
    BY <1>1
  <2> QED
    BY <1>1, <1>3, <1>5, <2>1, <2>2, <2>3, DivRounds, DivAtMost
<1> QED
  BY <1>4, <1>5

(* What has vested at a later time is no less.                             *)
LEMMA VestedGrows ==
    ASSUME NEW v \in Vesting, NEW s \in Nat, NEW t \in Nat, s <= t
    PROVE  Vested(v, s) <= Vested(v, t)
<1> DEFINE e(u) == IF u >= v.start THEN u - v.start ELSE 0
<1>1. /\ v.total \in Nat /\ v.start \in Nat /\ v.duration \in Nat
  BY DEF Vesting
<1>2. e(s) \in Nat /\ e(t) \in Nat /\ e(s) <= e(t)
  BY <1>1
<1>3. \A u : Vested(v, u) = IF e(u) >= v.duration THEN v.total
                            ELSE (v.total * e(u)) \div v.duration
  BY DEF Vested
<1> HIDE DEF e
<1>4. CASE e(t) >= v.duration
  BY <1>3, <1>4, VestedBounds
<1>5. CASE ~(e(t) >= v.duration)
  <2>1. v.duration \in Nat \ {0} /\ ~(e(s) >= v.duration)
    BY <1>1, <1>2, <1>5
  <2>2. /\ v.total * e(s) <= v.total * e(t)
        /\ v.total * e(s) \in Nat /\ v.total * e(t) \in Nat
    BY <1>1, <1>2, MulGrows
  <2> QED
    BY <1>3, <1>5, <2>1, <2>2, DivGrows
<1> QED
  BY <1>4, <1>5

-----------------------------------------------------------------------------
(* What each call does to the entries of claims.                           *)

(* A claim of the pair p, made now, with or without a referral.            *)
NewClaim(p, bonus) ==
    LET amount == Worth(campaigns[p[2]], now, bonus)
    IN  /\ p \in Pairs /\ ~HasClaimed(p) /\ p[2] \in DOMAIN campaigns
        /\ claimed' = Put(claimed, p, amount)
        /\ referred' = IF bonus THEN referred \cup {p} ELSE referred
        /\ \/ paid' = Put(paid, p, amount) /\ vesting' = vesting
           \/ /\ paid' = Put(paid, p, 0)
              /\ \E d \in Nat : vesting' =
                   Put(vesting, p, [total |-> amount, claimed |-> 0,
                                    start |-> now, duration |-> d])
        /\ claimedV1' = claimedV1

(* Both claims are one.                                                    *)
LEMMA ClaimIsNew ==
    ASSUME CampaignTypeOK, NEW u \in Users, NEW id \in DOMAIN campaigns,
           \/ ClaimReward(u, id)
           \/ \E r \in Users : ClaimWithReferral(u, id, r)
    PROVE  \E bonus \in BOOLEAN : NewClaim(<<u, id>>, bonus)
<1> DEFINE p == <<u, id>>
           c == campaigns[id]
<1>1. /\ p \in Pairs /\ p[2] = id
      /\ c \in CampaignRecord /\ c.vestingDays \in Nat
      /\ c.vestingDays * DAY \in Nat
  <2>1. id \in Nat \ {0} /\ c \in CampaignRecord
    BY DEF CampaignTypeOK
  <2>2. c.vestingDays \in Nat
    BY <2>1 DEF CampaignRecord
  <2>3. c.vestingDays * DAY \in Nat
    BY <2>2 DEF DAY
  <2> QED
    BY <2>1, <2>2, <2>3 DEF Pairs
<1>2. BaseAmount(c) = BaseAt(c, now)
  BY DEF BaseAmount, Scaled, BaseAt
<1>3. CASE ClaimReward(u, id)
  <2>1. Worth(c, now, FALSE) = BaseAmount(c)
    BY <1>2 DEF Worth
  <2>2. NewClaim(p, FALSE)
    BY <1>1, <1>3, <2>1 DEF ClaimReward, NewClaim, StartVesting
  <2> QED
    BY <2>2
<1>4. ASSUME NEW r \in Users, ClaimWithReferral(u, id, r)
      PROVE  \E bonus \in BOOLEAN : NewClaim(p, bonus)
  <2>1. Worth(c, now, TRUE) = BaseAmount(c) + BaseAmount(c) \div 20
    BY <1>2 DEF Worth
  <2>2. NewClaim(p, TRUE)
    BY <1>1, <1>4, <2>1 DEF ClaimWithReferral, NewClaim, StartVesting
  <2> QED
    BY <2>2
<1> QED
  BY <1>3, <1>4

(* A payment for a pair whose claim vests.                                 *)
Payment(p) ==
    LET due == Vested(vesting[p], now)
    IN  /\ p \in DOMAIN vesting /\ due - vesting[p].claimed > 0
        /\ vesting' = [vesting EXCEPT ![p].claimed = due]
        /\ paid' = [paid EXCEPT ![p] = @ + (due - vesting[p].claimed)]
        /\ UNCHANGED <<claimed, claimedV1, referred>>

(* Nothing else writes claims, schedules or payments but the migration.    *)
LEMMA ClaimCalls ==
    ASSUME CampaignTypeOK, [Next]_vars
    PROVE  \/ \E p \in Pairs, bonus \in BOOLEAN : NewClaim(p, bonus)
           \/ \E p \in Pairs : Payment(p)
           \/ \E batch \in Batches : Migrate(batch)
           \/ UNCHANGED claimVars
<1>1. ASSUME NEW u \in Users, NEW id \in DOMAIN campaigns, ClaimVested(u, id)
      PROVE  \E p \in Pairs : Payment(p)
  <2>1. <<u, id>> \in Pairs
    BY DEF Pairs, CampaignTypeOK
  <2>2. Payment(<<u, id>>)
    BY <1>1 DEF ClaimVested, Payment
  <2> QED
    BY <2>1, <2>2
<1>2. ASSUME NEW u \in Users, NEW id \in DOMAIN campaigns,
             \/ ClaimReward(u, id)
             \/ \E r \in Users : ClaimWithReferral(u, id, r)
      PROVE  \E p \in Pairs, bonus \in BOOLEAN : NewClaim(p, bonus)
  BY <1>2, ClaimIsNew DEF NewClaim
<1>3. ASSUME NEW u \in Users, NEW x \in Amounts, RedeemReward(u, x)
      PROVE  UNCHANGED claimVars
  BY <1>3 DEF RedeemReward, rewardsVars
<1>4. CASE RewardsAdminNext
  BY <1>4 DEF RewardsAdminNext, PauseRewards, UnpauseRewards,
              EmergencyPauseRewards, EmergencyUnpauseRewards,
              SetRewardsPaused, GrantRewardsRole, RevokeRewardsRole
<1>5. CASE UNCHANGED rewardsVars
  BY <1>5 DEF rewardsVars
<1>6. CASE UNCHANGED vars
  BY <1>5, <1>6 DEF vars
<1> QED
  BY <1>1, <1>2, <1>3, <1>4, <1>5, <1>6 DEF Next, ClaimNext

(* The campaign contract under the rewards contract is the campaign        *)
(* contract: record_claim is the one call the claims make.                 *)
LEMMA CampaignUnderneath ==
    [Next]_vars => [CampaignNext]_campaignVars
<1> SUFFICES ASSUME [Next]_vars PROVE [CampaignNext]_campaignVars
  OBVIOUS
<1>1. CASE ClaimNext
  BY <1>1 DEF ClaimNext, ClaimReward, ClaimWithReferral, ClaimVested,
              CountClaim, CampaignNext
<1>2. CASE UNCHANGED campaignVars
  BY <1>2
<1>3. CASE RewardsAdminNext
  BY <1>3 DEF RewardsAdminNext, PauseRewards, UnpauseRewards,
              EmergencyPauseRewards, EmergencyUnpauseRewards, Migrate,
              SetRewardsPaused, GrantRewardsRole, RevokeRewardsRole
<1>4. ASSUME NEW u \in Users, NEW x \in Amounts, RedeemReward(u, x)
      PROVE  UNCHANGED campaignVars
  BY <1>4 DEF RedeemReward
<1> QED
  BY <1>1, <1>2, <1>3, <1>4 DEF Next, vars

(* Claims and payments do not move the clock.                              *)
LEMMA ClaimsTakeNoTime ==
    ASSUME [Next]_vars, now \in Nat
    PROVE  now' >= now /\ (~UNCHANGED claimVars => now' = now)
<1>1. now' >= now
  BY CampaignUnderneath, ClockStep
<1>2. ClaimNext \/ RewardsAdminNext => now' = now
  <2>1. ASSUME NEW u \in Users, NEW id \in DOMAIN campaigns, NEW r \in Users,
               \/ ClaimReward(u, id)
               \/ ClaimWithReferral(u, id, r)
        PROVE  now' = now
    BY <2>1 DEF ClaimReward, ClaimWithReferral, CountClaim, RecordClaim
  <2>2. ASSUME NEW u \in Users, NEW id \in DOMAIN campaigns,
               ClaimVested(u, id)
        PROVE  now' = now
    BY <2>2 DEF ClaimVested, campaignVars
  <2>3. CASE RewardsAdminNext
    BY <2>3 DEF RewardsAdminNext, PauseRewards, UnpauseRewards,
                EmergencyPauseRewards, EmergencyUnpauseRewards, Migrate,
                SetRewardsPaused, GrantRewardsRole, RevokeRewardsRole,
                campaignVars
  <2> QED
    BY <2>1, <2>2, <2>3 DEF ClaimNext
<1>3. CASE UNCHANGED rewardsVars
  BY <1>1, <1>3 DEF rewardsVars
<1>4. ASSUME NEW u \in Users, NEW x \in Amounts, RedeemReward(u, x)
      PROVE  UNCHANGED claimVars
  BY <1>4 DEF RedeemReward, rewardsVars
<1>5. CASE UNCHANGED vars
  BY <1>3, <1>5 DEF vars
<1> QED
  BY <1>1, <1>2, <1>3, <1>4, <1>5 DEF Next

-----------------------------------------------------------------------------
(* The claims' part of the type invariant.                                 *)
ClaimTypes ==
    /\ DOMAIN claimed \subseteq Pairs /\ claimed \in [DOMAIN claimed -> Nat]
    /\ claimedV1 \subseteq Pairs
    /\ DOMAIN vesting \subseteq Pairs /\ vesting \in [DOMAIN vesting -> Vesting]
    /\ referred \subseteq Pairs
    /\ DOMAIN paid \subseteq Pairs /\ paid \in [DOMAIN paid -> Nat]

(* A pair is claimed under v1, under v2 or not at all, and only claims     *)
(* under v2 are paid, vest or are referred.                                *)
ClaimSets ==
    /\ LegacyClaims \subseteq DOMAIN claimed \cup claimedV1
    /\ claimedV1 \subseteq LegacyClaims
    /\ DOMAIN paid \subseteq DOMAIN claimed
    /\ DOMAIN vesting \subseteq DOMAIN paid
    /\ referred \subseteq DOMAIN paid
    /\ DOMAIN paid \cap LegacyClaims = {}

(* The accounts of one pair: its amount is what a claim at some moment was *)
(* worth, and it was paid at once or along its schedule.                   *)
Entry(p) ==
    /\ p[2] \in DOMAIN campaigns
    /\ p \in DOMAIN vesting =>
         /\ vesting[p].total = claimed[p]
         /\ vesting[p].claimed = paid[p]
         /\ vesting[p].start <= now
         /\ paid[p] <= Vested(vesting[p], now)
         /\ claimed[p] = Worth(campaigns[p[2]], vesting[p].start, p \in referred)
    /\ p \notin DOMAIN vesting =>
         /\ paid[p] = claimed[p]
         /\ \E t \in Nat :
              claimed[p] = Worth(campaigns[p[2]], t, p \in referred)

Entries == \A p \in DOMAIN paid : Entry(p)

ClaimsInv == ClaimTypes /\ ClaimSets /\ Entries

(* The terms fix what a claim is worth.                                    *)
LEMMA WorthOfTerms ==
    ASSUME NEW c, NEW d, TermsOf(c) = TermsOf(d), NEW t, NEW bonus
    PROVE  Worth(c, t, bonus) = Worth(d, t, bonus)
  BY DEF TermsOf, Worth, BaseAt

(* An entry that a step leaves alone stays sound as time passes.           *)
LEMMA EntryKept ==
    ASSUME CampaignTypeOK, ClaimTypes, [CampaignNext]_campaignVars,
           NEW p \in DOMAIN paid, Entry(p),
           paid'[p] = paid[p], claimed'[p] = claimed[p],
           p \in DOMAIN vesting' <=> p \in DOMAIN vesting,
           p \in DOMAIN vesting => vesting'[p] = vesting[p],
           p \in referred' <=> p \in referred
    PROVE  Entry(p)'
<1>1. /\ p[2] \in DOMAIN campaigns'
      /\ TermsOf(campaigns'[p[2]]) = TermsOf(campaigns[p[2]])
  BY KeptStep DEF Entry
<1>2. now \in Nat /\ now' \in Nat /\ now' >= now
  BY CampaignTypeStep, ClockStep DEF CampaignTypeOK
<1>3. \A t : Worth(campaigns'[p[2]], t, p \in referred')
               = Worth(campaigns[p[2]], t, p \in referred)
  <2>1. (p \in referred') = (p \in referred)
    OBVIOUS
  <2> QED
    BY <1>1, <2>1, WorthOfTerms
<1>4. CASE p \in DOMAIN vesting
  <2> DEFINE v == vesting[p]
  <2>1. v \in Vesting /\ v.start \in Nat /\ paid[p] \in Nat
    BY <1>4 DEF ClaimTypes, Vesting
  <2>2. Vested(v, now) <= Vested(v, now')
    BY <1>2, <2>1, VestedGrows
  <2>3. Vested(v, now) \in Nat /\ Vested(v, now') \in Nat
    BY <1>2, <2>1, VestedBounds
  <2>4. v.start <= now' /\ paid[p] <= Vested(v, now')
    BY <1>2, <1>4, <2>1, <2>2, <2>3 DEF Entry
  <2>5. /\ v.total = claimed[p] /\ v.claimed = paid[p]
        /\ claimed[p] = Worth(campaigns[p[2]], v.start, p \in referred)
    BY <1>4 DEF Entry
  <2>6. claimed[p] = Worth(campaigns'[p[2]], v.start, p \in referred')
    BY <1>3, <2>5
  <2>7. p \in DOMAIN vesting' /\ vesting'[p] = v
    BY <1>4
  <2> HIDE DEF v
  <2> QED
    BY <1>1, <2>4, <2>5, <2>6, <2>7 DEF Entry
<1>5. CASE p \notin DOMAIN vesting
  <2>1. PICK t \in Nat :
          claimed[p] = Worth(campaigns[p[2]], t, p \in referred)
    BY <1>5 DEF Entry
  <2>2. claimed[p] = Worth(campaigns'[p[2]], t, p \in referred')
    BY <1>3, <2>1
  <2>3. paid[p] = claimed[p]
    BY <1>5 DEF Entry
  <2> QED
    BY <1>1, <1>5, <2>2, <2>3 DEF Entry
<1> QED
  BY <1>4, <1>5

(* A new claim.                                                            *)
LEMMA NewClaimStep ==
    ASSUME CampaignTypeOK, ClaimsInv, [CampaignNext]_campaignVars,
           NEW p \in Pairs, NEW bonus \in BOOLEAN, NewClaim(p, bonus),
           now' = now
    PROVE  ClaimsInv'
<1> DEFINE c == campaigns[p[2]]
           amount == Worth(c, now, bonus)
<1>1. /\ c \in CampaignRecord /\ now \in Nat
      /\ p[2] \in DOMAIN campaigns
  BY DEF NewClaim, CampaignTypeOK
<1>2. amount \in Nat
  BY <1>1, WorthBounds
<1>3. /\ p[2] \in DOMAIN campaigns'
      /\ TermsOf(campaigns'[p[2]]) = TermsOf(c)
  BY <1>1, KeptStep
<1>4. \A t : Worth(campaigns'[p[2]], t, bonus) = Worth(c, t, bonus)
  BY <1>3, WorthOfTerms
<1> HIDE DEF amount, c
<1>5. /\ p \notin DOMAIN claimed /\ p \notin claimedV1
      /\ claimed' = Put(claimed, p, amount) /\ claimedV1' = claimedV1
      /\ referred' = IF bonus THEN referred \cup {p} ELSE referred
  BY DEF NewClaim, HasClaimed, amount, c
<1>6. p \notin DOMAIN paid /\ p \notin DOMAIN vesting /\ p \notin referred
      /\ p \notin LegacyClaims
  BY <1>5 DEF ClaimsInv, ClaimSets
<1>7. /\ DOMAIN claimed' = DOMAIN claimed \cup {p} /\ claimed'[p] = amount
      /\ \A q \in DOMAIN claimed : claimed'[q] = claimed[q]
      /\ claimed' \in [DOMAIN claimed' -> Nat]
  BY <1>2, <1>5 DEF Put, ClaimsInv, ClaimTypes
<1>8. p \in referred' <=> bonus
  BY <1>5, <1>6
<1>9. ASSUME NEW m \in Nat, paid' = Put(paid, p, m),
             vesting' \in [DOMAIN vesting' -> Vesting],
             DOMAIN vesting \subseteq DOMAIN vesting',
             DOMAIN vesting' \subseteq DOMAIN vesting \cup {p},
             \A q \in DOMAIN vesting : vesting'[q] = vesting[q],
             Entry(p)'
      PROVE  ClaimsInv'
  <2>1. /\ DOMAIN paid' = DOMAIN paid \cup {p}
        /\ \A q \in DOMAIN paid : paid'[q] = paid[q]
        /\ paid' \in [DOMAIN paid' -> Nat]
    BY <1>6, <1>9 DEF Put, ClaimsInv, ClaimTypes
  <2>2. ClaimTypes'
    BY <1>5, <1>7, <1>9, <2>1 DEF ClaimsInv, ClaimTypes
  <2>3. ClaimSets'
    BY <1>5, <1>6, <1>7, <1>9, <2>1 DEF ClaimsInv, ClaimSets
  <2>4. ASSUME NEW q \in DOMAIN paid PROVE Entry(q)'
    <3>1. /\ q # p /\ q \in DOMAIN claimed /\ Entry(q)
          /\ CampaignTypeOK /\ ClaimTypes
      BY <1>6 DEF ClaimsInv, ClaimSets, Entries
    <3>2. /\ paid'[q] = paid[q] /\ claimed'[q] = claimed[q]
          /\ q \in DOMAIN vesting' <=> q \in DOMAIN vesting
          /\ q \in DOMAIN vesting => vesting'[q] = vesting[q]
          /\ q \in referred' <=> q \in referred
      BY <1>5, <1>7, <1>9, <2>1, <3>1
    <3> QED
      BY <3>1, <3>2, EntryKept
  <2>5. Entries'
    BY <1>9, <2>1, <2>4 DEF Entries
  <2> QED
    BY <2>2, <2>3, <2>5 DEF ClaimsInv
<1>10. CASE paid' = Put(paid, p, amount) /\ vesting' = vesting
  <2>1. paid'[p] = amount
    BY <1>10 DEF Put
  <2>2. claimed'[p] = Worth(campaigns'[p[2]], now, p \in referred')
    <3>1. (p \in referred') = bonus
      BY <1>8
    <3> QED
      BY <1>4, <1>7, <3>1 DEF amount
  <2>3. Entry(p)'
    BY <1>1, <1>3, <1>6, <1>7, <1>10, <2>1, <2>2 DEF Entry
  <2> QED
    BY <1>2, <1>9, <1>10, <2>3 DEF ClaimsInv, ClaimTypes
<1>11. ASSUME NEW d \in Nat, paid' = Put(paid, p, 0),
              vesting' = Put(vesting, p, [total |-> amount, claimed |-> 0,
                                          start |-> now, duration |-> d])
       PROVE  ClaimsInv'
  <2> DEFINE v == [total |-> amount, claimed |-> 0,
                   start |-> now, duration |-> d]
  <2>1. v \in Vesting
    BY <1>1, <1>2 DEF Vesting
  <2>2. /\ v.total = amount /\ v.claimed = 0 /\ v.start = now
    OBVIOUS
  <2>3. vesting' = Put(vesting, p, v)
    BY <1>11
  <2> HIDE DEF v
  <2>4. /\ DOMAIN vesting' = DOMAIN vesting \cup {p} /\ vesting'[p] = v
        /\ \A q \in DOMAIN vesting : vesting'[q] = vesting[q]
        /\ vesting' \in [DOMAIN vesting' -> Vesting]
    BY <1>6, <2>1, <2>3 DEF Put, ClaimsInv, ClaimTypes
  <2>5. paid'[p] = 0
    BY <1>11 DEF Put
  <2>6. Vested(v, now) \in Nat
    BY <1>1, <2>1, VestedBounds
  <2>7. claimed'[p] = Worth(campaigns'[p[2]], v.start, p \in referred')
    <3>1. (p \in referred') = bonus
      BY <1>8
    <3> QED
      BY <1>4, <1>7, <2>2, <3>1 DEF amount
  <2>8. Entry(p)'
    BY <1>1, <1>3, <1>7, <2>2, <2>4, <2>5, <2>6, <2>7 DEF Entry
  <2> QED
    BY <1>9, <1>11, <2>4, <2>8
<1> QED
  BY <1>10, <1>11 DEF NewClaim, amount, c

(* A payment pays up to what has vested.                                   *)
LEMMA PaymentStep ==
    ASSUME CampaignTypeOK, ClaimsInv, [CampaignNext]_campaignVars,
           NEW p \in Pairs, Payment(p), now' = now
    PROVE  ClaimsInv'
<1> DEFINE v == vesting[p]
           due == Vested(v, now)
           w == [v EXCEPT !.claimed = due]
<1>1. /\ p \in DOMAIN vesting /\ p \in DOMAIN paid /\ p \in DOMAIN claimed
      /\ v \in Vesting /\ Entry(p) /\ now \in Nat
  BY DEF Payment, ClaimsInv, ClaimSets, ClaimTypes, Entries, CampaignTypeOK
<1>2. due \in Nat
  BY <1>1, VestedBounds
<1>3. /\ paid[p] \in Nat /\ v.claimed = paid[p]
  BY <1>1 DEF Entry, ClaimsInv, ClaimTypes
<1>4. /\ vesting' = [vesting EXCEPT ![p] = w]
      /\ paid' = [paid EXCEPT ![p] = due]
      /\ UNCHANGED <<claimed, claimedV1, referred>>
  <2>1. paid[p] + (due - v.claimed) = due
    BY <1>2, <1>3
  <2> QED
    BY <1>1, <2>1 DEF Payment, ClaimsInv, ClaimTypes
<1> HIDE DEF due
<1>5. /\ w \in Vesting /\ w.claimed = due
      /\ w.total = v.total /\ w.start = v.start /\ w.duration = v.duration
  BY <1>1, <1>2 DEF Vesting
<1> HIDE DEF v, w
<1>6. /\ DOMAIN vesting' = DOMAIN vesting /\ DOMAIN paid' = DOMAIN paid
      /\ vesting'[p] = w /\ paid'[p] = due
      /\ \A q \in DOMAIN paid : q # p =>
            paid'[q] = paid[q] /\ (q \in DOMAIN vesting => vesting'[q] = vesting[q])
  BY <1>1, <1>4
<1>7. ClaimTypes'
  BY <1>2, <1>4, <1>5, <1>6 DEF ClaimsInv, ClaimTypes
<1>8. ClaimSets'
  BY <1>4, <1>6 DEF ClaimsInv, ClaimSets
<1>9. Entry(p)'
  <2>1. /\ p[2] \in DOMAIN campaigns'
        /\ TermsOf(campaigns'[p[2]]) = TermsOf(campaigns[p[2]])
    BY <1>1, KeptStep DEF Entry
  <2>2. Vested(w, now) = due
    BY <1>5 DEF Vested, due
  <2>3. /\ v.total = claimed[p] /\ v.start <= now
        /\ claimed[p] = Worth(campaigns[p[2]], v.start, p \in referred)
    BY <1>1 DEF Entry, v
  <2>4. claimed[p] = Worth(campaigns'[p[2]], v.start, p \in referred)
    BY <2>1, <2>3, WorthOfTerms
  <2> QED
    BY <1>1, <1>2, <1>4, <1>5, <1>6, <2>1, <2>2, <2>3, <2>4 DEF Entry
<1>10. ASSUME NEW q \in DOMAIN paid, q # p PROVE Entry(q)'
  <2>1. Entry(q) /\ ClaimTypes
    BY DEF ClaimsInv, Entries
  <2> QED
    BY <1>4, <1>6, <1>10, <2>1, EntryKept
<1> QED
  BY <1>6, <1>7, <1>8, <1>9, <1>10 DEF ClaimsInv, Entries

(* A migration turns v1 claims into claims of nothing.                     *)
LEMMA MigrateStep ==
    ASSUME CampaignTypeOK, ClaimsInv, [CampaignNext]_campaignVars,
           NEW batch \in Batches, Migrate(batch)
    PROVE  ClaimsInv'
<1> DEFINE moved == {p \in batch : p \in claimedV1 /\ p \notin DOMAIN claimed}
<1>1. /\ claimed' = [p \in DOMAIN claimed \cup moved |->
                       IF p \in moved THEN 0 ELSE claimed[p]]
      /\ claimedV1' = claimedV1 \ moved
      /\ UNCHANGED <<vesting, referred, paid>>
  BY DEF Migrate
<1>2. moved \subseteq claimedV1 /\ moved \cap DOMAIN claimed = {}
  OBVIOUS
<1> HIDE DEF moved
<1>3. /\ DOMAIN claimed' = DOMAIN claimed \cup moved
      /\ \A q \in DOMAIN claimed : claimed'[q] = claimed[q]
  BY <1>1, <1>2
<1>4. ClaimTypes'
  BY <1>1, <1>2, <1>3 DEF ClaimsInv, ClaimTypes
<1>5. ClaimSets'
  BY <1>1, <1>2, <1>3 DEF ClaimsInv, ClaimSets
<1>6. ASSUME NEW q \in DOMAIN paid PROVE Entry(q)'
  <2>1. Entry(q) /\ ClaimTypes /\ q \in DOMAIN claimed
    BY DEF ClaimsInv, Entries, ClaimSets
  <2> QED
    BY <1>1, <1>3, <2>1, EntryKept
<1> QED
  BY <1>1, <1>4, <1>5, <1>6 DEF ClaimsInv, Entries

(* Every step keeps the accounts of the claims.                            *)
LEMMA ClaimsStep ==
    CampaignTypeOK /\ ClaimsInv /\ [Next]_vars => ClaimsInv'
<1> SUFFICES ASSUME CampaignTypeOK, ClaimsInv, [Next]_vars PROVE ClaimsInv'
  OBVIOUS
<1>1. /\ [CampaignNext]_campaignVars
      /\ ~UNCHANGED claimVars => now' = now
  BY CampaignUnderneath, ClaimsTakeNoTime DEF CampaignTypeOK
<1>2. CASE UNCHANGED claimVars
  <2>1. UNCHANGED <<claimed, claimedV1, vesting, referred, paid>>
    BY <1>2 DEF claimVars
  <2>2. ASSUME NEW q \in DOMAIN paid PROVE Entry(q)'
    <3>1. Entry(q) /\ ClaimTypes
      BY DEF ClaimsInv, Entries
    <3> QED
      BY <1>1, <2>1, <3>1, EntryKept
  <2>3. ClaimTypes' /\ ClaimSets'
    BY <2>1 DEF ClaimsInv, ClaimTypes, ClaimSets
  <2> QED
    BY <2>1, <2>2, <2>3 DEF ClaimsInv, Entries
<1>3. CASE ~UNCHANGED claimVars
  BY <1>1, <1>3, ClaimCalls, NewClaimStep, PaymentStep, MigrateStep
<1> QED
  BY <1>2, <1>3

(* The contract starts without payments; the v1 claims there may be have   *)
(* none.                                                                   *)
LEMMA ClaimsInitial == RewardsInit => ClaimsInv
<1> SUFFICES ASSUME RewardsInit PROVE ClaimsInv
  OBVIOUS
<1>1. /\ DOMAIN claimed = {} /\ DOMAIN vesting = {} /\ DOMAIN paid = {}
      /\ claimed \in [{} -> Nat] /\ paid \in [{} -> Nat]
      /\ vesting \in [{} -> Vesting]
      /\ referred = {} /\ claimedV1 = LegacyClaims
  BY DEF RewardsInit, NoEntries
<1> QED
  BY <1>1, RewardsConstants DEF ClaimsInv, ClaimTypes, ClaimSets, Entries

(* The accounts of the claims hold over a well typed campaign contract.    *)
LEMMA ClaimsHold == Spec => [](CampaignTypeOK /\ ClaimsInv)
<1>1. Init => CampaignTypeOK /\ ClaimsInv
  BY CampaignTypeInit, ClaimsInitial DEF Init
<1>2. CampaignTypeOK /\ ClaimsInv /\ [Next]_vars
        => (CampaignTypeOK /\ ClaimsInv)'
  BY CampaignUnderneath, CampaignTypeStep, ClaimsStep
<1> QED
  BY <1>1, <1>2, PTL DEF Spec

-----------------------------------------------------------------------------
(* A schedule holds the recorded amount and is never paid ahead of the     *)
(* clock; without a schedule the pair was paid in full.                    *)
THEOREM VestingAccounted == Spec => []VestingAccounts
<1>1. ClaimsInv => VestingAccounts
  BY DEF ClaimsInv, Entries, Entry, VestingAccounts
<1> QED
  BY <1>1, ClaimsHold, PTL

(* No pair is paid more than its claim recorded, and none that claimed     *)
(* under v1 is paid at all.                                                *)
THEOREM NobodyOverpaid == Spec => []NeverOverpaid
<1>1. CampaignTypeOK /\ ClaimsInv => NeverOverpaid
  <2> SUFFICES ASSUME CampaignTypeOK, ClaimsInv, NEW p \in DOMAIN paid
               PROVE  /\ p \in DOMAIN claimed /\ paid[p] <= claimed[p]
                      /\ p \notin LegacyClaims
    BY DEF NeverOverpaid
  <2>1. /\ p \in DOMAIN claimed /\ p \notin LegacyClaims
        /\ Entry(p) /\ now \in Nat
        /\ paid[p] \in Nat /\ claimed[p] \in Nat
    BY DEF ClaimsInv, ClaimSets, ClaimTypes, Entries, CampaignTypeOK
  <2>2. CASE p \in DOMAIN vesting
    <3>1. vesting[p] \in Vesting
      BY <2>2 DEF ClaimsInv, ClaimTypes
    <3>2. /\ Vested(vesting[p], now) \in Nat
          /\ Vested(vesting[p], now) <= vesting[p].total
      BY <2>1, <3>1, VestedBounds
    <3>3. /\ vesting[p].total = claimed[p]
          /\ paid[p] <= Vested(vesting[p], now)
      BY <2>1, <2>2 DEF Entry
    <3> QED
      BY <2>1, <3>2, <3>3
  <2>3. CASE p \notin DOMAIN vesting
    BY <2>1, <2>3 DEF Entry
  <2> QED
    BY <2>1, <2>2, <2>3
<1> QED
  BY <1>1, ClaimsHold, PTL

(* A claim is worth between one and two rewards of its campaign, whose     *)
(* terms do not change after it, and 5% more with a referral.              *)
THEOREM ClaimsWithinBounds == Spec => []ClaimWithinBounds
<1>1. CampaignTypeOK /\ ClaimsInv => ClaimWithinBounds
  <2> SUFFICES ASSUME CampaignTypeOK, ClaimsInv, NEW p \in DOMAIN paid
               PROVE  LET r == campaigns[p[2]].reward
                      IN  /\ r <= claimed[p]
                          /\ p \notin referred => claimed[p] <= 2 * r
                          /\ p \in referred => 20 * claimed[p] <= 42 * r
    BY DEF ClaimWithinBounds
  <2> DEFINE c == campaigns[p[2]]
  <2>1. Entry(p) /\ c \in CampaignRecord
    BY DEF ClaimsInv, Entries, Entry, CampaignTypeOK
  <2>2. PICK t \in Nat : claimed[p] = Worth(c, t, p \in referred)
    <3>1. CASE p \in DOMAIN vesting
      <4>1. vesting[p].start \in Nat
        BY <3>1 DEF ClaimsInv, ClaimTypes, Vesting
      <4> QED
        BY <2>1, <3>1, <4>1 DEF Entry
    <3>2. CASE p \notin DOMAIN vesting
      BY <2>1, <3>2 DEF Entry
    <3> QED
      BY <3>1, <3>2
  <2> HIDE DEF c
  <2>3. CASE p \in referred
    <3>1. claimed[p] = Worth(c, t, TRUE)
      BY <2>2, <2>3
    <3> QED
      BY <2>1, <2>3, <3>1, WorthBounds DEF c
  <2>4. CASE p \notin referred
    <3>1. claimed[p] = Worth(c, t, FALSE)
      <4>1. (p \in referred) = FALSE
        BY <2>4
      <4> QED
        BY <2>2, <4>1
    <3> QED
      BY <2>1, <2>4, <3>1, WorthBounds DEF c
  <2> QED
    BY <2>3, <2>4
<1> QED
  BY <1>1, ClaimsHold, PTL

(* Of two claims of one campaign that vest and were made in the same way,  *)
(* the earlier one is worth no less.                                       *)
THEOREM EarlyClaimsEarnMore == Spec => []EarlierEarnsMore
<1>1. CampaignTypeOK /\ ClaimsInv => EarlierEarnsMore
  <2> SUFFICES ASSUME CampaignTypeOK, ClaimsInv,
                      NEW p \in DOMAIN vesting, NEW q \in DOMAIN vesting,
                      p[2] = q[2], (p \in referred) = (q \in referred),
                      vesting[p].start <= vesting[q].start
               PROVE  vesting[p].total >= vesting[q].total
    BY DEF EarlierEarnsMore
  <2> DEFINE c == campaigns[p[2]]
             s == vesting[p].start
             t == vesting[q].start
             b == p \in referred
  <2>1. /\ Entry(p) /\ Entry(q)
        /\ s \in Nat /\ t \in Nat
    BY DEF ClaimsInv, Entries, ClaimSets, ClaimTypes, Vesting
  <2>2. c \in CampaignRecord
    BY <2>1 DEF Entry, CampaignTypeOK
  <2>3. vesting[p].total = Worth(c, s, b)
    BY <2>1 DEF Entry
  <2>4. vesting[q].total = Worth(c, t, b)
    BY <2>1 DEF Entry
  <2>5. b \in BOOLEAN /\ s <= t
    OBVIOUS
  <2> HIDE DEF b, s, t, c
  <2>6. /\ Worth(c, t, b) <= Worth(c, s, b)
        /\ Worth(c, t, b) \in Nat /\ Worth(c, s, b) \in Nat
    BY <2>1, <2>2, <2>5, WorthFalls, WorthBounds
  <2> QED
    BY <2>3, <2>4, <2>6
<1> QED
  BY <1>1, ClaimsHold, PTL

-----------------------------------------------------------------------------
(* Type correctness of the three contracts together.                       *)

(* Two credits in one call keep the balances well typed.                   *)
LEMMA MintTwoKeepsType ==
    ASSUME TokenTypeOK, issued \in Nat, NEW a \in Address, NEW b \in Address,
           NEW x \in Nat, NEW y \in Nat, MintTwo(a, x, b, y)
    PROVE  TokenTypeOK' /\ issued' \in Nat
<1>1. Credit(balance, a, x) \in [Address -> Nat]
  BY DEF TokenTypeOK, Credit
<1>2. Credit(Credit(balance, a, x), b, y) \in [Address -> Nat]
  BY <1>1 DEF Credit
<1> QED
  BY <1>2 DEF TokenTypeOK, MintTwo, adminVars, historyVars

(* One credit keeps the balances well typed.                               *)
LEMMA MintOneKeepsType ==
    ASSUME TokenTypeOK, issued \in Nat, NEW a \in Address, NEW x \in Nat,
           MintOne(a, x)
    PROVE  TokenTypeOK' /\ issued' \in Nat
  BY DEF TokenTypeOK, MintOne, Mint, Credit, adminVars, historyVars

(* The token is well typed and the tokens issued are counted.              *)
Minted == TokenTypeOK /\ issued \in Nat

(* Every call keeps the token's storage well typed, and counts what it     *)
(* issues.                                                                 *)
LEMMA TokenUnderneath ==
    Minted /\ CampaignTypeOK /\ ClaimsInv /\ [Next]_vars => Minted'
<1> SUFFICES ASSUME TokenTypeOK, issued \in Nat, CampaignTypeOK, ClaimsInv,
                    [Next]_vars
             PROVE  TokenTypeOK' /\ issued' \in Nat
  BY DEF Minted
<1> USE RewardsConstants
<1>1. ASSUME [TokenNext]_tokenVars, UNCHANGED issued
      PROVE  TokenTypeOK' /\ issued' \in Nat
  BY <1>1, TokenTypeStep
<1>2. ASSUME NEW id \in DOMAIN campaigns
      PROVE  /\ BaseAmount(campaigns[id]) \in Nat
             /\ BaseAmount(campaigns[id]) \div 20 \in Nat
             /\ BaseAmount(campaigns[id]) \div 10 \in Nat
  <2>1. BaseAmount(campaigns[id]) = BaseAt(campaigns[id], now)
    BY DEF BaseAmount, Scaled, BaseAt
  <2>2. BaseAt(campaigns[id], now) \in Nat
    BY BaseBounds DEF CampaignTypeOK
  <2> QED
    BY <2>1, <2>2, DivRounds
<1>3. ASSUME NEW u \in Users, NEW id \in DOMAIN campaigns, ClaimReward(u, id)
      PROVE  TokenTypeOK' /\ issued' \in Nat /\ issued' \in Nat
  <2>1. CASE UNCHANGED <<tokenVars, issued>>
    BY <1>1, <2>1
  <2>2. CASE MintOne(u, BaseAmount(campaigns[id]))
    BY <1>2, <2>2, MintOneKeepsType
  <2> QED
    BY <1>3, <2>1, <2>2 DEF ClaimReward
<1>4. ASSUME NEW u \in Users, NEW id \in DOMAIN campaigns, NEW r \in Users,
             ClaimWithReferral(u, id, r)
      PROVE  TokenTypeOK' /\ issued' \in Nat
  <2> DEFINE b == BaseAmount(campaigns[id])
  <2>1. b + b \div 20 \in Nat /\ b \div 10 \in Nat
    BY <1>2
  <2>2. \/ MintTwo(u, b + b \div 20, r, b \div 10)
        \/ MintOne(r, b \div 10)
    BY <1>4 DEF ClaimWithReferral
  <2> HIDE DEF b
  <2> QED
    BY <2>1, <2>2, MintOneKeepsType, MintTwoKeepsType
<1>5. ASSUME NEW u \in Users, NEW id \in DOMAIN campaigns, ClaimVested(u, id)
      PROVE  TokenTypeOK' /\ issued' \in Nat
  <2> DEFINE v == vesting[<<u, id>>]
             x == Vested(v, now) - v.claimed
  <2>1. x > 0 /\ MintOne(u, x) /\ v \in Vesting /\ now \in Nat
    BY <1>5 DEF ClaimVested, ClaimsInv, ClaimTypes, CampaignTypeOK
  <2>2. x \in Nat
    BY <2>1, VestedBounds DEF Vesting
  <2> HIDE DEF x
  <2> QED
    BY <2>1, <2>2, MintOneKeepsType
<1>6. ASSUME NEW u \in Users, NEW x \in Amounts, RedeemReward(u, x)
      PROVE  [TokenNext]_tokenVars /\ UNCHANGED issued
  BY <1>6 DEF RedeemReward, TokenNext, HolderNext, rewardsVars, claimVars
<1>7. CASE RewardsAdminNext
  BY <1>1, <1>7 DEF RewardsAdminNext, PauseRewards, UnpauseRewards,
                    EmergencyPauseRewards, EmergencyUnpauseRewards, Migrate,
                    SetRewardsPaused, GrantRewardsRole, RevokeRewardsRole,
                    claimVars
<1>8. DirectMint \/ HolderNext \/ RotationNext \/ PauseNext
        => [TokenNext]_tokenVars
  BY DEF DirectMint, TokenNext
<1> QED
  BY <1>1, <1>3, <1>4, <1>5, <1>6, <1>7, <1>8
     DEF Next, ClaimNext, vars, rewardsVars, claimVars

(* The pause, the roles and the migration mark.                            *)
SwitchTypes ==
    /\ rewardsPaused \in BOOLEAN
    /\ rewardsRoles \subseteq RewardsRoleNames \X Address
    /\ migrationDone \in BOOLEAN

(* The pause, the roles and the migration mark stay well typed.            *)
LEMMA SwitchStep == SwitchTypes /\ [Next]_vars => SwitchTypes'
<1> SUFFICES ASSUME SwitchTypes, [Next]_vars PROVE SwitchTypes'
  OBVIOUS
<1> USE RewardsConstants
<1>1. CASE UNCHANGED switchVars
  BY <1>1 DEF switchVars, SwitchTypes
<1>2. CASE RewardsAdminNext
  <2>1. ASSUME NEW flag \in BOOLEAN, SetRewardsPaused(flag)
        PROVE  SwitchTypes'
    BY <2>1 DEF SetRewardsPaused, SwitchTypes
  <2>2. ASSUME NEW a \in Address, NEW b \in RoleHolders,
               NEW r \in RewardsRoleNames,
               GrantRewardsRole(a, r, b) \/ RevokeRewardsRole(a, r, b)
        PROVE  SwitchTypes'
    <3>1. rewardsRoles' \subseteq rewardsRoles \cup {<<r, b>>}
          /\ UNCHANGED <<rewardsPaused, migrationDone>>
      BY <2>2 DEF GrantRewardsRole, RevokeRewardsRole
    <3>2. <<r, b>> \in RewardsRoleNames \X Address
      OBVIOUS
    <3> QED
      BY <3>1, <3>2 DEF SwitchTypes
  <2>3. ASSUME NEW batch \in Batches, Migrate(batch) PROVE SwitchTypes'
    BY <2>3 DEF Migrate, SwitchTypes
  <2> QED
    BY <1>2, <2>1, <2>2, <2>3
       DEF RewardsAdminNext, PauseRewards, UnpauseRewards,
           EmergencyPauseRewards, EmergencyUnpauseRewards
<1>3. CASE ClaimNext
  BY <1>1, <1>3 DEF ClaimNext, ClaimReward, ClaimWithReferral, ClaimVested
<1>4. ASSUME NEW u \in Users, NEW x \in Amounts, RedeemReward(u, x)
      PROVE  UNCHANGED switchVars
  BY <1>4 DEF RedeemReward, rewardsVars
<1>5. CASE UNCHANGED rewardsVars
  BY <1>1, <1>5 DEF rewardsVars
<1> QED
  BY <1>1, <1>2, <1>3, <1>4, <1>5 DEF Next, vars

(* Every storage entry of the token, campaign and rewards contracts has    *)
(* the type it is read back with, whatever they call in each other.        *)
THEOREM TypeCorrect == Spec => []TypeOK
<1> DEFINE Inv == Minted /\ CampaignTypeOK /\ ClaimsInv /\ SwitchTypes
<1>1. Init => Inv
  <2> SUFFICES ASSUME Init PROVE Inv
    OBVIOUS
  <2>1. Minted /\ CampaignTypeOK /\ ClaimsInv
    BY TokenInitTyped, CampaignTypeInit, ClaimsInitial
       DEF Init, RewardsInit, Minted
  <2>2. SwitchTypes
    <3>1. rewardsRoles = {<<"Admin", RewardsAdmin>>, <<"Pauser", RewardsAdmin>>}
          /\ rewardsPaused = FALSE /\ migrationDone = FALSE
      BY DEF Init, RewardsInit
    <3>2. /\ <<"Admin", RewardsAdmin>> \in RewardsRoleNames \X Address
          /\ <<"Pauser", RewardsAdmin>> \in RewardsRoleNames \X Address
      BY RewardsConstants DEF RewardsRoleNames
    <3> QED
      BY <3>1, <3>2 DEF SwitchTypes
  <2> QED
    BY <2>1, <2>2
<1>2. Inv /\ [Next]_vars => Inv'
  BY TokenUnderneath, CampaignUnderneath, CampaignTypeStep, ClaimsStep,
     SwitchStep
<1>3. Inv => TypeOK
  BY DEF Minted, ClaimsInv, ClaimTypes, SwitchTypes, TypeOK, RewardsTypeOK
<1> QED
  BY <1>1, <1>2, <1>3, PTL DEF Spec

-----------------------------------------------------------------------------
(* The entitlement ledger.                                                 *)

(* A claim is a grant in the entitlement ledger, paid at once or later.    *)
LEMMA LedgerGrant ==
    ASSUME CampaignTypeOK, ClaimsInv, NEW p \in Pairs, NEW bonus \in BOOLEAN,
           NewClaim(p, bonus)
    PROVE  Ledger!Grant
<1> DEFINE amount == Worth(campaigns[p[2]], now, bonus)
<1>1. amount \in Nat
  BY WorthBounds DEF NewClaim, CampaignTypeOK
<1> HIDE DEF amount
<1>2. /\ p \notin DOMAIN claimed \cup claimedV1 /\ p \notin DOMAIN paid
      /\ claimed' = Put(claimed, p, amount) /\ claimedV1' = claimedV1
  BY DEF NewClaim, HasClaimed, amount, ClaimsInv, ClaimSets
<1>3. PICK m \in {0, amount} : paid' = Put(paid, p, m)
  BY DEF NewClaim, amount
<1>4. /\ DOMAIN Granted = DOMAIN claimed \cup claimedV1
      /\ DOMAIN PaidOut = DOMAIN claimed \cup claimedV1
      /\ DOMAIN Granted' = DOMAIN Granted \cup {p}
      /\ DOMAIN PaidOut' = DOMAIN Granted'
  BY <1>2 DEF Granted, PaidOut, Put
<1>5. ASSUME NEW q \in DOMAIN Granted
      PROVE  Granted'[q] = Granted[q] /\ PaidOut'[q] = PaidOut[q]
  BY <1>2, <1>3, <1>4 DEF Granted, PaidOut, Put
<1>6. Granted'[p] = amount /\ PaidOut'[p] = m
  BY <1>2, <1>3 DEF Granted, PaidOut, Put
<1>7. 0 <= m /\ m <= amount
  BY <1>1
<1>8. p \in DOMAIN Granted' \ DOMAIN Granted
  BY <1>2, <1>4
<1> QED
  BY <1>4, <1>5, <1>6, <1>7, <1>8 DEF Ledger!Grant

(* A payment along a schedule is a payment of the ledger.                  *)
LEMMA LedgerPay ==
    ASSUME CampaignTypeOK, ClaimsInv, NEW p \in Pairs, Payment(p)
    PROVE  Ledger!Pay
<1> DEFINE due == Vested(vesting[p], now)
<1>1. /\ p \in DOMAIN vesting /\ p \in DOMAIN paid /\ p \in DOMAIN claimed
      /\ vesting[p] \in Vesting /\ Entry(p) /\ now \in Nat
  BY DEF Payment, ClaimsInv, ClaimSets, ClaimTypes, Entries, CampaignTypeOK
<1>2. due \in Nat /\ due <= vesting[p].total
  BY <1>1, VestedBounds
<1>3. /\ vesting[p].claimed = paid[p] /\ vesting[p].total = claimed[p]
      /\ paid[p] \in Nat
  BY <1>1 DEF Entry, ClaimsInv, ClaimTypes
<1>4. /\ paid' = [paid EXCEPT ![p] = due] /\ paid[p] < due
      /\ UNCHANGED <<claimed, claimedV1>>
  <2>1. /\ paid' = [paid EXCEPT ![p] = @ + (due - vesting[p].claimed)]
        /\ due - vesting[p].claimed > 0
        /\ UNCHANGED <<claimed, claimedV1>>
    BY DEF Payment
  <2> HIDE DEF due
  <2>2. paid[p] + (due - vesting[p].claimed) = due /\ paid[p] < due
    BY <1>2, <1>3, <2>1
  <2> QED
    BY <1>1, <2>1, <2>2
<1> HIDE DEF due
<1>5. /\ p \in DOMAIN Granted /\ Granted' = Granted
      /\ DOMAIN PaidOut' = DOMAIN PaidOut
      /\ \A q \in DOMAIN PaidOut \ {p} : PaidOut'[q] = PaidOut[q]
      /\ PaidOut[p] = paid[p] /\ PaidOut'[p] = due /\ Granted[p] = claimed[p]
  BY <1>1, <1>4 DEF Granted, PaidOut
<1> QED
  BY <1>2, <1>3, <1>4, <1>5 DEF Ledger!Pay

(* A pair that migrates was granted nothing before and after.              *)
LEMMA LedgerMigrate ==
    ASSUME ClaimsInv, NEW batch \in Batches, Migrate(batch)
    PROVE  Granted' = Granted /\ PaidOut' = PaidOut
<1> DEFINE moved == {p \in batch : p \in claimedV1 /\ p \notin DOMAIN claimed}
<1>1. /\ claimed' = [p \in DOMAIN claimed \cup moved |->
                       IF p \in moved THEN 0 ELSE claimed[p]]
      /\ claimedV1' = claimedV1 \ moved
      /\ paid' = paid
  BY DEF Migrate
<1>2. moved \subseteq claimedV1 /\ moved \cap DOMAIN claimed = {}
  OBVIOUS
<1> HIDE DEF moved
<1>3. /\ DOMAIN claimed' = DOMAIN claimed \cup moved
      /\ DOMAIN claimed' \cup claimedV1' = DOMAIN claimed \cup claimedV1
      /\ \A q \in DOMAIN claimed : claimed'[q] = claimed[q]
      /\ \A q \in moved : claimed'[q] = 0
  BY <1>1, <1>2
<1>4. PaidOut' = PaidOut
  BY <1>1, <1>3 DEF PaidOut
<1>5. ASSUME NEW q \in DOMAIN claimed \cup claimedV1
      PROVE  (IF q \in DOMAIN claimed' THEN claimed'[q] ELSE 0)
               = IF q \in DOMAIN claimed THEN claimed[q] ELSE 0
  BY <1>2, <1>3
<1>6. Granted' = Granted
  BY <1>3, <1>5 DEF Granted
<1> QED
  BY <1>4, <1>6

(* The contract grants each pair once, keeps what it granted and pays no   *)
(* more: it implements the entitlement ledger.                             *)
THEOREM EntitlementsImplemented == Spec => ImplementsEntitlements
<1>1. Init => Ledger!EntitlementsInit
  <2> SUFFICES ASSUME Init PROVE Ledger!EntitlementsInit
    OBVIOUS
  <2>1. /\ DOMAIN claimed = {} /\ DOMAIN paid = {}
        /\ claimedV1 = LegacyClaims
    BY DEF Init, RewardsInit, NoEntries
  <2>2. /\ Granted = [p \in LegacyClaims |-> 0]
        /\ PaidOut = [p \in LegacyClaims |-> 0]
    BY <2>1 DEF Granted, PaidOut
  <2> QED
    BY <2>2 DEF Ledger!EntitlementsInit
<1>2. CampaignTypeOK /\ ClaimsInv /\ [Next]_vars
        => [Ledger!EntitlementsNext]_(Ledger!entitlementVars)
  <2> SUFFICES ASSUME CampaignTypeOK, ClaimsInv, [Next]_vars
               PROVE  \/ Ledger!EntitlementsNext
                      \/ UNCHANGED Ledger!entitlementVars
    OBVIOUS
  <2>1. CASE UNCHANGED claimVars
    BY <2>1 DEF claimVars, Granted, PaidOut, Ledger!entitlementVars
  <2>2. ASSUME NEW batch \in Batches, Migrate(batch)
        PROVE  UNCHANGED Ledger!entitlementVars
    BY <2>2, LedgerMigrate DEF Ledger!entitlementVars
  <2> QED
    BY <2>1, <2>2, ClaimCalls, LedgerGrant, LedgerPay
       DEF Ledger!EntitlementsNext
<1> QED
  BY <1>1, <1>2, ClaimsHold, PTL
     DEF Spec, ImplementsEntitlements, Ledger!EntitlementsSpec

-----------------------------------------------------------------------------
(* The claims counted for one campaign.                                    *)
PaidFor(id) == {p \in DOMAIN paid : p[2] = id}

(* What makes CountersCoverClaims inductive: the payments are finitely     *)
(* many and of campaigns that exist.                                       *)
Counted ==
    \A id \in DOMAIN campaigns :
        /\ IsFiniteSet(PaidFor(id))
        /\ campaigns[id].totalClaimed >= Cardinality(PaidFor(id))

(* A claim adds one pair to those of its campaign, which counts it.        *)
LEMMA ClaimIsCounted ==
    ASSUME CampaignTypeOK, ClaimsInv, Counted,
           NEW u \in Users, NEW id \in DOMAIN campaigns, RecordClaim(id),
           NEW m, paid' = Put(paid, <<u, id>>, m)
    PROVE  Counted'
<1> DEFINE p == <<u, id>>
<1>1. /\ DOMAIN campaigns' = DOMAIN campaigns
      /\ campaigns'[id].totalClaimed = campaigns[id].totalClaimed + 1
      /\ \A k \in DOMAIN campaigns : k # id => campaigns'[k] = campaigns[k]
  <2>1. campaigns' = [campaigns EXCEPT ![id].totalClaimed = @ + 1]
    BY DEF RecordClaim
  <2>2. campaigns[id] \in CampaignRecord
    BY DEF CampaignTypeOK
  <2> QED
    BY <2>1, <2>2 DEF CampaignTypeOK, CampaignRecord
<1>2. DOMAIN paid' = DOMAIN paid \cup {p} /\ p[2] = id
  BY DEF Put
<1>3. ASSUME NEW k \in DOMAIN campaigns, k # id
      PROVE  PaidFor(k)' = PaidFor(k)
  BY <1>2, <1>3 DEF PaidFor
<1>4. PaidFor(id)' = PaidFor(id) \cup {p}
  BY <1>2 DEF PaidFor
<1>5. /\ IsFiniteSet(PaidFor(id))
      /\ Cardinality(PaidFor(id)) \in Nat
      /\ campaigns[id].totalClaimed >= Cardinality(PaidFor(id))
  BY FS_CardinalityType DEF Counted
<1>6. /\ IsFiniteSet(PaidFor(id) \cup {p})
      /\ Cardinality(PaidFor(id) \cup {p}) <= Cardinality(PaidFor(id)) + 1
  <2> DEFINE S == PaidFor(id)
  <2> HIDE DEF S, p
  <2>1. /\ IsFiniteSet(S \cup {p})
        /\ Cardinality(S \cup {p})
             = IF p \in S THEN Cardinality(S) ELSE Cardinality(S) + 1
    BY <1>5, FS_AddElement DEF S
  <2>2. Cardinality(S) \in Nat
    BY <1>5 DEF S
  <2> QED
    BY <2>1, <2>2 DEF S
<1>7. campaigns[id].totalClaimed \in Nat
  BY DEF CampaignTypeOK, CampaignRecord
<1>8. Cardinality(PaidFor(id) \cup {p}) \in Nat
  BY <1>6, FS_CardinalityType
<1> HIDE DEF p
<1>9. /\ IsFiniteSet(PaidFor(id)')
      /\ campaigns'[id].totalClaimed >= Cardinality(PaidFor(id)')
  BY <1>1, <1>4, <1>5, <1>6, <1>7, <1>8
<1> QED
  BY <1>1, <1>3, <1>9 DEF Counted

(* Steps that record no payment for a new pair leave the counters ahead;   *)
(* a campaign that appears has been paid for by nobody.                    *)
LEMMA CountersStayAhead ==
    ASSUME CampaignTypeOK, ClaimsInv, Counted, [CampaignNext]_campaignVars,
           DOMAIN paid' = DOMAIN paid
    PROVE  Counted'
<1> SUFFICES ASSUME NEW id \in DOMAIN campaigns'
             PROVE  /\ IsFiniteSet(PaidFor(id)')
                    /\ campaigns'[id].totalClaimed >= Cardinality(PaidFor(id)')
  BY DEF Counted
<1>1. PaidFor(id)' = PaidFor(id)
  BY DEF PaidFor
<1>2. CASE id \in DOMAIN campaigns
  <2>1. /\ IsFiniteSet(PaidFor(id))
        /\ Cardinality(PaidFor(id)) \in Nat
        /\ campaigns[id].totalClaimed >= Cardinality(PaidFor(id))
    BY <1>2, FS_CardinalityType DEF Counted
  <2>2. campaigns'[id].totalClaimed >= campaigns[id].totalClaimed
    BY <1>2, KeptStep
  <2>3. campaigns[id].totalClaimed \in Nat /\ campaigns'[id].totalClaimed \in Nat
    BY <1>2, CampaignTypeStep DEF CampaignTypeOK, CampaignRecord
  <2> QED
    BY <1>1, <2>1, <2>2, <2>3
<1>3. CASE id \notin DOMAIN campaigns
  <2>1. PaidFor(id) = {}
    BY <1>3 DEF PaidFor, ClaimsInv, Entries, Entry
  <2>2. campaigns'[id].totalClaimed \in Nat
    BY CampaignTypeStep DEF CampaignTypeOK, CampaignRecord
  <2>3. IsFiniteSet({}) /\ Cardinality({}) = 0
    BY FS_EmptySet
  <2> QED
    BY <1>1, <2>1, <2>2, <2>3
<1> QED
  BY <1>2, <1>3

(* Every call keeps the counters ahead.                                    *)
LEMMA CountedStep ==
    CampaignTypeOK /\ ClaimsInv /\ Counted /\ [Next]_vars => Counted'
<1> SUFFICES ASSUME CampaignTypeOK, ClaimsInv, Counted, [Next]_vars
             PROVE  Counted'
  OBVIOUS
<1>1. [CampaignNext]_campaignVars
  BY CampaignUnderneath
<1>2. CASE DOMAIN paid' = DOMAIN paid
  BY <1>1, <1>2, CountersStayAhead
<1>3. ASSUME NEW u \in Users, NEW id \in DOMAIN campaigns,
             \/ ClaimReward(u, id)
             \/ \E r \in Users : ClaimWithReferral(u, id, r)
      PROVE  Counted'
  <2>1. RecordClaim(id)
    BY <1>3 DEF ClaimReward, ClaimWithReferral, CountClaim
  <2>2. PICK m : paid' = Put(paid, <<u, id>>, m)
    BY <1>3 DEF ClaimReward, ClaimWithReferral
  <2> QED
    BY <2>1, <2>2, ClaimIsCounted
<1>4. ASSUME NEW u \in Users, NEW id \in DOMAIN campaigns, ClaimVested(u, id)
      PROVE  DOMAIN paid' = DOMAIN paid
  BY <1>4 DEF ClaimVested
<1>5. CASE RewardsAdminNext
  BY <1>2, <1>5 DEF RewardsAdminNext, PauseRewards, UnpauseRewards,
                    EmergencyPauseRewards, EmergencyUnpauseRewards, Migrate,
                    SetRewardsPaused, GrantRewardsRole, RevokeRewardsRole,
                    claimVars
<1>6. ASSUME NEW u \in Users, NEW x \in Amounts, RedeemReward(u, x)
      PROVE  paid' = paid
  BY <1>6 DEF RedeemReward, rewardsVars, claimVars
<1>7. CASE UNCHANGED rewardsVars
  BY <1>2, <1>7 DEF rewardsVars, claimVars
<1> QED
  BY <1>2, <1>3, <1>4, <1>5, <1>6, <1>7 DEF Next, ClaimNext, vars

(* A campaign's counter never falls behind the claims that were paid or    *)
(* scheduled for it.                                                       *)
THEOREM CountersCover == Spec => []CountersCoverClaims
<1>1. Init => Counted
  <2>1. Init => DOMAIN paid = {}
    BY DEF Init, RewardsInit, NoEntries
  <2>2. IsFiniteSet({}) /\ Cardinality({}) = 0
    BY FS_EmptySet
  <2>3. Init => \A id \in DOMAIN campaigns : campaigns[id].totalClaimed \in Nat
    BY CampaignTypeInit DEF Init, CampaignTypeOK, CampaignRecord
  <2>4. Init => \A id : PaidFor(id) = {}
    BY <2>1 DEF PaidFor
  <2> QED
    BY <2>2, <2>3, <2>4 DEF Counted
<1>2. Counted => CountersCoverClaims
  BY DEF Counted, CountersCoverClaims, PaidFor
<1> QED
  BY <1>1, <1>2, CountedStep, ClaimsHold, PTL DEF Spec

-----------------------------------------------------------------------------
(* What makes IssuanceAccounted inductive: finitely many pairs are paid.   *)
Accounted == IsFiniteSet(DOMAIN paid) /\ IssuanceAccounted

(* What was paid and what the referred claims recorded add up to natural   *)
(* numbers.                                                                *)
LEMMA SumsAreNaturals ==
    ASSUME ClaimsInv, IsFiniteSet(DOMAIN paid)
    PROVE  /\ IsFiniteSet(referred)
           /\ \A p \in DOMAIN paid : paid[p] \in Nat
           /\ \A p \in referred : claimed[p] \in Nat
           /\ SumOver(paid, DOMAIN paid) \in Nat
           /\ SumOver(claimed, referred) \in Nat
<1>1. /\ \A p \in DOMAIN paid : paid[p] \in Nat
      /\ \A p \in referred : claimed[p] \in Nat
      /\ referred \subseteq DOMAIN paid
  BY DEF ClaimsInv, ClaimTypes, ClaimSets
<1>2. IsFiniteSet(referred)
  BY <1>1, FS_Subset
<1> QED
  BY <1>1, <1>2, SumOfNaturals

(* A claim issues what it pays now and, when it is referred, a bonus of no *)
(* more than a tenth of what it records.                                   *)
LEMMA ClaimIsAccounted ==
    ASSUME ClaimsInv, Accounted, issued \in Nat,
           NEW p, p \notin DOMAIN claimed,
           NEW amount \in Nat, NEW m \in Nat, NEW bonus \in Nat,
           claimed' = Put(claimed, p, amount), paid' = Put(paid, p, m),
           issued' = issued + m + bonus,
           \/ bonus = 0 /\ referred' = referred
           \/ 10 * bonus <= amount /\ referred' = referred \cup {p}
    PROVE  Accounted'
<1> DEFINE P == SumOver(paid, DOMAIN paid)
           R == SumOver(claimed, referred)
           P2 == SumOver(paid', DOMAIN paid')
           R2 == SumOver(claimed', referred')
           c2 == claimed'
           d2 == paid'
<1>1. /\ IsFiniteSet(DOMAIN paid) /\ IsFiniteSet(referred)
      /\ \A q \in DOMAIN paid : paid[q] \in Nat
      /\ \A q \in referred : claimed[q] \in Nat
      /\ P \in Nat /\ R \in Nat
  BY SumsAreNaturals DEF Accounted
<1>2. p \notin DOMAIN paid /\ p \notin referred
      /\ referred \subseteq DOMAIN claimed
  BY DEF ClaimsInv, ClaimSets
<1>3. /\ DOMAIN d2 = DOMAIN paid \cup {p} /\ d2[p] = m
      /\ \A q \in DOMAIN paid : paid[q] \in Int /\ d2[q] = paid[q]
      /\ c2[p] = amount
      /\ \A q \in referred : claimed[q] \in Int /\ c2[q] = claimed[q]
  BY <1>1, <1>2 DEF Put
<1> HIDE DEF c2, d2
<1>4. SumOver(d2, DOMAIN d2) = P + m
  <2> DEFINE S == DOMAIN paid
  <2>1. /\ IsFiniteSet(S) /\ p \notin S /\ d2[p] \in Int
        /\ \A q \in S : paid[q] \in Int /\ d2[q] = paid[q]
    BY <1>1, <1>2, <1>3
  <2> HIDE DEF S
  <2>2. SumOver(d2, S \cup {p}) = SumOver(paid, S) + d2[p]
    BY <2>1, SumExtended
  <2>3. SumOver(d2, DOMAIN d2) = SumOver(paid, S) + m
    BY <1>3, <2>2 DEF S
  <2> QED
    BY <2>3 DEF S
<1>5. SumOver(c2, referred) = R
  BY <1>1, <1>3, SumExtensional
<1>6. SumOver(c2, referred \cup {p}) = R + amount
  <2>1. /\ IsFiniteSet(referred) /\ p \notin referred /\ c2[p] \in Int
        /\ \A q \in referred : claimed[q] \in Int /\ c2[q] = claimed[q]
    BY <1>1, <1>2, <1>3
  <2>2. SumOver(c2, referred \cup {p}) = R + c2[p]
    BY <2>1, SumExtended
  <2> QED
    BY <1>3, <2>2
<1>7. IsFiniteSet(DOMAIN d2)
  BY <1>1, <1>3, FS_AddElement
<1>8. issued >= P /\ 10 * (issued - P) <= R
  BY DEF Accounted, IssuanceAccounted
<1> HIDE DEF P, R
<1>9. P2 = P + m /\ (R2 = R \/ R2 = R + amount)
      /\ (bonus = 0 \/ (10 * bonus <= amount /\ R2 = R + amount))
  BY <1>4, <1>5, <1>6 DEF c2, d2
<1> HIDE DEF P2, R2
<1>10. issued' >= P2 /\ 10 * (issued' - P2) <= R2
  BY <1>1, <1>8, <1>9
<1> QED
  BY <1>7, <1>10 DEF Accounted, IssuanceAccounted, P2, R2, d2

(* A payment of vested tokens issues what it pays.                         *)
LEMMA PaymentIsAccounted ==
    ASSUME ClaimsInv, Accounted, issued \in Nat,
           NEW p \in DOMAIN paid, NEW m \in Nat,
           paid' = [paid EXCEPT ![p] = @ + m], issued' = issued + m,
           UNCHANGED <<claimed, referred>>
    PROVE  Accounted'
<1> DEFINE P == SumOver(paid, DOMAIN paid)
           R == SumOver(claimed, referred)
           d2 == paid'
<1>1. /\ IsFiniteSet(DOMAIN paid)
      /\ \A q \in DOMAIN paid : paid[q] \in Nat
      /\ P \in Nat /\ R \in Nat
  BY SumsAreNaturals DEF Accounted
<1>2. /\ DOMAIN d2 = DOMAIN paid /\ d2[p] = paid[p] + m
      /\ \A q \in DOMAIN paid : paid[q] \in Int /\ d2[q] \in Int
      /\ \A q \in DOMAIN paid \ {p} : d2[q] = paid[q]
  BY <1>1
<1> HIDE DEF d2
<1>3. SumOver(d2, DOMAIN paid) = P - paid[p] + d2[p]
  BY <1>1, <1>2, SumUpdate
<1>4. issued >= P /\ 10 * (issued - P) <= R
  BY DEF Accounted, IssuanceAccounted
<1> HIDE DEF P, R
<1>5. SumOver(d2, DOMAIN d2) = P + m
  BY <1>1, <1>2, <1>3
<1>6. issued' >= P + m /\ 10 * (issued' - (P + m)) <= R
  BY <1>1, <1>4
<1> QED
  BY <1>1, <1>2, <1>5, <1>6 DEF Accounted, IssuanceAccounted, R, d2

(* The migration records claims of nothing, none of them referred.         *)
LEMMA MigrationIsAccounted ==
    ASSUME ClaimsInv, Accounted, NEW batch \in Batches, Migrate(batch)
    PROVE  Accounted'
<1> DEFINE c2 == claimed'
<1>1. UNCHANGED <<paid, referred, issued>>
  BY DEF Migrate
<1>2. /\ IsFiniteSet(referred)
      /\ \A p \in referred : claimed[p] \in Nat
      /\ referred \subseteq DOMAIN claimed
  BY SumsAreNaturals DEF Accounted, ClaimsInv, ClaimSets
<1>3. \A p \in referred : claimed[p] \in Int /\ claimed[p] = c2[p]
  BY <1>2 DEF Migrate
<1> HIDE DEF c2
<1>4. SumOver(claimed, referred) = SumOver(c2, referred)
  BY <1>2, <1>3, SumExtensional
<1> QED
  BY <1>1, <1>4 DEF Accounted, IssuanceAccounted, c2

(* Every call issues what it accounts for.                                 *)
LEMMA AccountedStep ==
    TypeOK /\ ClaimsInv /\ Accounted /\ [Next]_vars => Accounted'
<1> SUFFICES ASSUME TypeOK, ClaimsInv, Accounted, [Next]_vars
             PROVE  Accounted'
  OBVIOUS
<1>1. CampaignTypeOK /\ issued \in Nat
  BY DEF TypeOK, RewardsTypeOK
<1>2. CASE UNCHANGED <<claimed, referred, paid, issued>>
  BY <1>2 DEF Accounted, IssuanceAccounted
<1>3. ASSUME NEW id \in DOMAIN campaigns
      PROVE  LET b == BaseAmount(campaigns[id])
             IN  /\ b \in Nat /\ b + b \div 20 \in Nat /\ b \div 10 \in Nat
                 /\ 10 * (b \div 10) <= b + b \div 20
  <2> DEFINE b == BaseAmount(campaigns[id])
  <2>1. b = BaseAt(campaigns[id], now)
    BY DEF BaseAmount, Scaled, BaseAt
  <2>2. b \in Nat
    BY <1>1, <2>1, BaseBounds DEF CampaignTypeOK
  <2> HIDE DEF b
  <2>3. b \div 20 \in Nat /\ b \div 10 \in Nat /\ 10 * (b \div 10) <= b
    BY <2>2, DivRounds
  <2>4. b + b \div 20 \in Nat /\ 10 * (b \div 10) <= b + b \div 20
    BY <2>2, <2>3
  <2> QED
    BY <2>2, <2>3, <2>4 DEF b
<1>4. ASSUME NEW u \in Users, NEW id \in DOMAIN campaigns, ClaimReward(u, id)
      PROVE  Accounted'
  <2> DEFINE b == BaseAmount(campaigns[id])
             p == <<u, id>>
  <2>1. /\ p \notin DOMAIN claimed /\ claimed' = Put(claimed, p, b)
        /\ referred' = referred
    BY <1>4 DEF ClaimReward, HasClaimed
  <2>2. \/ paid' = Put(paid, p, b) /\ issued' = issued + b
        \/ paid' = Put(paid, p, 0) /\ issued' = issued
    BY <1>4 DEF ClaimReward, MintOne
  <2>3. b \in Nat
    BY <1>3
  <2> HIDE DEF b, p
  <2>4. CASE paid' = Put(paid, p, b) /\ issued' = issued + b
    <3>1. issued' = issued + b + 0
      BY <1>1, <2>3, <2>4
    <3> QED
      BY <1>1, <2>1, <2>3, <2>4, <3>1, ClaimIsAccounted
  <2>5. CASE paid' = Put(paid, p, 0) /\ issued' = issued
    <3>1. issued' = issued + 0 + 0
      BY <1>1, <2>5
    <3> QED
      BY <1>1, <2>1, <2>3, <2>5, <3>1, ClaimIsAccounted
  <2> QED
    BY <2>2, <2>4, <2>5
<1>5. ASSUME NEW u \in Users, NEW id \in DOMAIN campaigns, NEW r \in Users,
             ClaimWithReferral(u, id, r)
      PROVE  Accounted'
  <2> DEFINE b == BaseAmount(campaigns[id])
             amount == b + b \div 20
             bonus == b \div 10
             p == <<u, id>>
  <2>1. /\ p \notin DOMAIN claimed /\ claimed' = Put(claimed, p, amount)
        /\ referred' = referred \cup {p}
    BY <1>5 DEF ClaimWithReferral, HasClaimed
  <2>2. \/ paid' = Put(paid, p, amount) /\ issued' = issued + amount + bonus
        \/ paid' = Put(paid, p, 0) /\ issued' = issued + bonus
    BY <1>5 DEF ClaimWithReferral, MintOne, MintTwo
  <2>3. amount \in Nat /\ bonus \in Nat /\ 10 * bonus <= amount
    BY <1>3
  <2> HIDE DEF amount, bonus, p
  <2>4. CASE paid' = Put(paid, p, amount) /\ issued' = issued + amount + bonus
    BY <1>1, <2>1, <2>3, <2>4, ClaimIsAccounted
  <2>5. CASE paid' = Put(paid, p, 0) /\ issued' = issued + bonus
    <3>1. issued' = issued + 0 + bonus
      BY <1>1, <2>3, <2>5
    <3> QED
      BY <1>1, <2>1, <2>3, <2>5, <3>1, ClaimIsAccounted
  <2> QED
    BY <2>2, <2>4, <2>5
<1>6. ASSUME NEW u \in Users, NEW id \in DOMAIN campaigns, ClaimVested(u, id)
      PROVE  Accounted'
  <2> DEFINE p == <<u, id>>
             v == vesting[p]
             x == Vested(v, now) - v.claimed
  <2>1. /\ p \in DOMAIN paid /\ v \in Vesting /\ now \in Nat /\ x > 0
        /\ paid' = [paid EXCEPT ![p] = @ + x] /\ issued' = issued + x
        /\ UNCHANGED <<claimed, referred>>
    BY <1>1, <1>6 DEF ClaimVested, MintOne, ClaimsInv, ClaimTypes, ClaimSets,
                      CampaignTypeOK
  <2>2. x \in Nat
    BY <2>1, VestedBounds DEF Vesting
  <2> HIDE DEF x, p
  <2> QED
    BY <1>1, <2>1, <2>2, PaymentIsAccounted
<1>7. ASSUME NEW u \in Users, NEW x \in Amounts, RedeemReward(u, x)
      PROVE  UNCHANGED <<claimed, referred, paid, issued>>
  BY <1>7 DEF RedeemReward, rewardsVars, claimVars
<1>8. CASE RewardsAdminNext
  BY <1>2, <1>8, MigrationIsAccounted
     DEF RewardsAdminNext, PauseRewards, UnpauseRewards,
         EmergencyPauseRewards, EmergencyUnpauseRewards, SetRewardsPaused,
         GrantRewardsRole, RevokeRewardsRole, claimVars
<1>9. CASE UNCHANGED rewardsVars
  BY <1>2, <1>9 DEF rewardsVars, claimVars
<1> QED
  BY <1>2, <1>4, <1>5, <1>6, <1>7, <1>8, <1>9 DEF Next, ClaimNext, vars

(* In every reachable state, what the contract issued is what it paid to   *)
(* claimants plus bonuses of at most a tenth of the referred claims.       *)
THEOREM IssuanceIsAccounted == Spec => []IssuanceAccounted
<1>1. Init => Accounted
  <2> SUFFICES ASSUME Init PROVE Accounted
    OBVIOUS
  <2>1. DOMAIN paid = {} /\ referred = {} /\ issued = 0
    BY DEF Init, RewardsInit, NoEntries
  <2>2. SumOver(paid, DOMAIN paid) = 0 /\ SumOver(claimed, referred) = 0
    BY <2>1, SumOfNone
  <2>3. IsFiniteSet(DOMAIN paid)
    BY <2>1, FS_EmptySet
  <2> QED
    BY <2>1, <2>2, <2>3 DEF Accounted, IssuanceAccounted
<1>2. Accounted => IssuanceAccounted
  BY DEF Accounted
<1> QED
  BY <1>1, <1>2, AccountedStep, TypeCorrect, ClaimsHold, PTL DEF Spec
=============================================================================
