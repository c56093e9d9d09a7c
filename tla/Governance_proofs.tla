------------------------- MODULE Governance_proofs -------------------------
(***************************************************************************)
(* Proofs about the governance contract: type correctness, that a proposal *)
(* is decided once, that a decision takes effect only with a majority and  *)
(* after its delay, and that the votes are backed by tokens, for any       *)
(* ledger and any order of the calls.                                      *)
(***************************************************************************)
EXTENDS Governance, LoyaltyToken_proofs

(* The basis points of finalize round down, so more than half of them is   *)
(* more than half of the votes.                                            *)
LEMMA MajorityOfBps ==
    ASSUME NEW f \in Nat, NEW a \in Nat, f + a > 0,
           (f * 10000) \div (f + a) > 5000
    PROVE  f > a
<1> DEFINE t == f + a
           d == (f * 10000) \div t
<1>1. t \in Nat \ {0} /\ d \in Nat /\ d > 5000
  OBVIOUS
<1>2. d * t <= f * 10000
  OBVIOUS
<1>3. 5001 * t <= d * t
  <2> HIDE DEF t, d
  <2> QED
    BY <1>1
<1> QED
  BY <1>1, <1>2, <1>3

(* The ledger under the votes is that of the token contract.               *)
LEMMA LedgerStep == [Next]_vars => [TokenNext]_tokenVars
  BY DEF Next, VotingNext, LedgerNext, AdvanceTime, Propose, Vote, Finalize,
         Execute, Cancel, TokenNext, HolderNext, vars

(* Governance calls leave the ledger as well typed as the token contract   *)
(* does.                                                                   *)
LEMMA LedgerTypeCorrect == Spec => []TokenTypeOK
<1>1. Init => TokenTypeOK
  BY TokenInitTyped DEF Init
<1>2. TokenTypeOK /\ [Next]_vars => TokenTypeOK'
  BY TokenTypeStep, LedgerStep
<1> QED
  BY <1>1, <1>2, PTL DEF Spec

-----------------------------------------------------------------------------
(* An element of a sequence replaced by one of the same kind.              *)
LEMMA ReplacedInSeq ==
    ASSUME NEW S, NEW s \in Seq(S), NEW i \in DOMAIN s, NEW x \in S
    PROVE  /\ [s EXCEPT ![i] = x] \in Seq(S)
           /\ Len([s EXCEPT ![i] = x]) = Len(s)
           /\ DOMAIN [s EXCEPT ![i] = x] = DOMAIN s
  OBVIOUS

(* An element of a sequence is one of the set it is over.                  *)
LEMMA MemberOfSeq ==
    ASSUME NEW S, NEW s \in Seq(S), NEW i \in DOMAIN s
    PROVE  s[i] \in S
  OBVIOUS

(* A call that rewrites one proposal keeps the contract well typed.        *)
LEMMA RewriteKeepsType ==
    ASSUME GovernanceTypeOK, NEW id \in Ids, NEW q \in Proposal,
           proposals' = [proposals EXCEPT ![id] = q],
           voted' \subseteq Address \X Ids, UNCHANGED <<now, outflow>>
    PROVE  GovernanceTypeOK'
<1>1. /\ proposals' \in Seq(Proposal) /\ DOMAIN proposals' = DOMAIN proposals
      /\ Len(proposals') = Len(proposals)
  BY ReplacedInSeq DEF GovernanceTypeOK, Ids
<1> QED
  BY <1>1 DEF GovernanceTypeOK, Ids

(* Every call, over a well typed ledger, keeps the contract well typed.    *)
LEMMA GovernanceTypeStep ==
    TokenTypeOK /\ GovernanceTypeOK /\ [Next]_vars => GovernanceTypeOK'
<1> SUFFICES ASSUME TokenTypeOK, GovernanceTypeOK, [Next]_vars
             PROVE  GovernanceTypeOK'
  OBVIOUS
<1> USE GovernanceConstants
<1>1. ASSUME UNCHANGED govVars PROVE GovernanceTypeOK'
  BY <1>1 DEF govVars, GovernanceTypeOK, Ids
<1>2. ASSUME NEW a \in Address, Propose(a) PROVE GovernanceTypeOK'
  <2> DEFINE p == [proposer |-> a, votesFor |-> 0, votesAgainst |-> 0,
                   createdAt |-> now, votingEndsAt |-> now + VOTING_PERIOD,
                   executedAt |-> 0, status |-> "Active"]
  <2>1. p \in Proposal
    BY DEF Proposal, Statuses, GovernanceTypeOK, VOTING_PERIOD
  <2>2. proposals' = Append(proposals, p) /\ outflow' = Append(outflow, 0)
        /\ UNCHANGED <<voted, now>>
    BY <1>2 DEF Propose
  <2> HIDE DEF p
  <2>3. /\ proposals' \in Seq(Proposal) /\ Ids \subseteq Ids'
        /\ outflow' \in Seq(Nat) /\ Len(outflow') = Len(proposals')
    BY <2>1, <2>2 DEF GovernanceTypeOK, Ids
  <2> QED
    BY <2>2, <2>3 DEF GovernanceTypeOK
<1>3. ASSUME NEW a \in Address, NEW id \in Ids, NEW s \in BOOLEAN,
             Vote(a, id, s)
      PROVE  GovernanceTypeOK'
  <2> DEFINE p == proposals[id]
             w == AsU64(balance[a])
             q == IF s THEN [p EXCEPT !.votesFor = @ + w]
                  ELSE [p EXCEPT !.votesAgainst = @ + w]
  <2>1. p \in Proposal /\ w \in Nat
    BY MemberOfSeq DEF GovernanceTypeOK, TokenTypeOK, AsU64, Ids
  <2>2. q \in Proposal
    <3> HIDE DEF p, w
    <3>1. CASE s
      <4>1. q = [p EXCEPT !.votesFor = @ + w]
        BY <3>1
      <4> QED
        BY <2>1, <4>1 DEF Proposal
    <3>2. CASE ~s
      <4>1. q = [p EXCEPT !.votesAgainst = @ + w]
        BY <3>2
      <4> QED
        BY <2>1, <4>1 DEF Proposal
    <3> QED
      BY <3>1, <3>2
  <2>3. proposals' = [proposals EXCEPT ![id] = q]
    BY <1>3 DEF Vote, GovernanceTypeOK, Ids
  <2>4. voted' \subseteq Address \X Ids /\ UNCHANGED <<now, outflow>>
    BY <1>3 DEF Vote, GovernanceTypeOK
  <2> QED
    BY <2>2, <2>3, <2>4, RewriteKeepsType
<1>4. ASSUME NEW id \in Ids, Finalize(id) PROVE GovernanceTypeOK'
  <2> DEFINE q == [proposals[id] EXCEPT !.status =
                     IF Carried(proposals[id]) THEN "Passed" ELSE "Failed"]
  <2>1. q \in Proposal
    <3>1. proposals[id] \in Proposal
      BY MemberOfSeq DEF GovernanceTypeOK, Ids
    <3> QED
      BY <3>1 DEF Proposal, Statuses
  <2>2. proposals' = [proposals EXCEPT ![id] = q]
    BY <1>4 DEF Finalize, GovernanceTypeOK, Ids
  <2>3. voted' \subseteq Address \X Ids /\ UNCHANGED <<now, outflow>>
    BY <1>4 DEF Finalize, GovernanceTypeOK
  <2> QED
    BY <2>1, <2>2, <2>3, RewriteKeepsType
<1>5. ASSUME NEW id \in Ids, Execute(id) PROVE GovernanceTypeOK'
  <2> DEFINE q == [proposals[id] EXCEPT !.status = "Executed",
                                        !.executedAt = now]
  <2>1. q \in Proposal
    <3>1. proposals[id] \in Proposal /\ now \in Nat
      BY MemberOfSeq DEF GovernanceTypeOK, Ids
    <3> QED
      BY <3>1 DEF Proposal, Statuses
  <2>2. proposals' = [proposals EXCEPT ![id] = q]
    BY <1>5 DEF Execute, GovernanceTypeOK, Ids
  <2>3. voted' \subseteq Address \X Ids /\ UNCHANGED <<now, outflow>>
    BY <1>5 DEF Execute, GovernanceTypeOK
  <2> QED
    BY <2>1, <2>2, <2>3, RewriteKeepsType
<1>6. ASSUME NEW a \in Address, NEW id \in Ids, Cancel(a, id)
      PROVE  GovernanceTypeOK'
  <2> DEFINE q == [proposals[id] EXCEPT !.status = "Cancelled"]
  <2>1. q \in Proposal
    <3>1. proposals[id] \in Proposal
      BY MemberOfSeq DEF GovernanceTypeOK, Ids
    <3> QED
      BY <3>1 DEF Proposal, Statuses
  <2>2. proposals' = [proposals EXCEPT ![id] = q]
    BY <1>6 DEF Cancel, GovernanceTypeOK, Ids
  <2>3. voted' \subseteq Address \X Ids /\ UNCHANGED <<now, outflow>>
    BY <1>6 DEF Cancel, GovernanceTypeOK
  <2> QED
    BY <2>1, <2>2, <2>3, RewriteKeepsType
<1>7. ASSUME NEW x \in Nat, Leaves(x) PROVE GovernanceTypeOK'
  <2>1. /\ outflow \in Seq(Nat) /\ Len(outflow) = Len(proposals)
        /\ outflow' = [id \in DOMAIN outflow |-> outflow[id] + x]
        /\ UNCHANGED <<proposals, voted, now>>
    BY <1>7 DEF Leaves, GovernanceTypeOK
  <2>2. outflow' \in Seq(Nat) /\ Len(outflow') = Len(outflow)
    BY <2>1
  <2> QED
    BY <2>1, <2>2 DEF GovernanceTypeOK, Ids
<1>8. ASSUME LedgerNext PROVE GovernanceTypeOK'
  BY <1>1, <1>7, <1>8, TokenConstants DEF LedgerNext
<1>9. ASSUME AdvanceTime PROVE GovernanceTypeOK'
  BY <1>9 DEF AdvanceTime, GovernanceTypeOK, Ids
<1>10. CASE UNCHANGED vars
  BY <1>1, <1>10 DEF vars
<1> QED
  BY <1>2, <1>3, <1>4, <1>5, <1>6, <1>8, <1>9, <1>10 DEF Next, VotingNext

(* Proposals, votes and the clock are well typed in every reachable state. *)
THEOREM GovernanceTypeCorrect == Spec => []GovernanceTypeOK
<1>1. Init => GovernanceTypeOK
  BY DEF Init, GovernanceInit, GovernanceTypeOK, Ids
<1> QED
  BY <1>1, GovernanceTypeStep, LedgerTypeCorrect, PTL DEF Spec

-----------------------------------------------------------------------------
(* What makes DecisionsAreSound inductive: the period of a vote is fixed   *)
(* when its proposal is submitted.                                         *)
Sound(p) ==
    /\ p.votingEndsAt = p.createdAt + VOTING_PERIOD
    /\ p.status \in {"Passed", "Executed"} => p.votesFor > p.votesAgainst
    /\ p.status = "Executed" => p.executedAt >= p.votingEndsAt + TIMELOCK
    /\ p.status # "Executed" => p.executedAt = 0

AllSound == \A id \in Ids : Sound(proposals[id])

(* A call that rewrites one proposal only has to account for that one.     *)
LEMMA RewriteKeepsSound ==
    ASSUME GovernanceTypeOK, AllSound, NEW id \in Ids, NEW q, Sound(q),
           proposals' = [proposals EXCEPT ![id] = q]
    PROVE  AllSound'
  BY DEF GovernanceTypeOK, AllSound, Ids

(* finalize and execute look at the clock before they decide; the other    *)
(* calls decide nothing.                                                   *)
LEMMA SoundStep ==
    TokenTypeOK /\ GovernanceTypeOK /\ AllSound /\ [Next]_vars => AllSound'
<1> SUFFICES ASSUME TokenTypeOK, GovernanceTypeOK, AllSound, [Next]_vars
             PROVE  AllSound'
  OBVIOUS
<1>1. CASE UNCHANGED proposals
  BY <1>1 DEF AllSound, Ids
<1>2. ASSUME NEW a \in Address, Propose(a) PROVE AllSound'
  <2> DEFINE p == [proposer |-> a, votesFor |-> 0, votesAgainst |-> 0,
                   createdAt |-> now, votingEndsAt |-> now + VOTING_PERIOD,
                   executedAt |-> 0, status |-> "Active"]
  <2>1. Sound(p)
    BY DEF Sound
  <2>2. proposals' = Append(proposals, p)
    BY <1>2 DEF Propose
  <2> HIDE DEF p
  <2>3. ASSUME NEW i \in Ids'
        PROVE  \/ i \in Ids /\ proposals'[i] = proposals[i]
               \/ proposals'[i] = p
    BY <2>2 DEF GovernanceTypeOK, Ids
  <2> QED
    BY <2>1, <2>3 DEF AllSound
<1>4. ASSUME NEW id \in Ids
      PROVE  proposals[id] \in Proposal /\ Sound(proposals[id])
  BY MemberOfSeq DEF GovernanceTypeOK, AllSound, Ids
<1>5. ASSUME NEW a \in Address, NEW id \in Ids, NEW s \in BOOLEAN,
             Vote(a, id, s)
      PROVE  AllSound'
  <2> DEFINE p == proposals[id]
             w == AsU64(balance[a])
             q == IF s THEN [p EXCEPT !.votesFor = @ + w]
                  ELSE [p EXCEPT !.votesAgainst = @ + w]
  <2>1. p.status = "Active" /\ p \in Proposal /\ Sound(p)
    BY <1>4, <1>5 DEF Vote
  <2>2. proposals' = [proposals EXCEPT ![id] = q]
    BY <1>5 DEF Vote, GovernanceTypeOK, Ids
  <2>3. Sound(q)
    <3> HIDE DEF p, w
    <3>1. /\ q.status = p.status /\ q.executedAt = p.executedAt
          /\ q.createdAt = p.createdAt /\ q.votingEndsAt = p.votingEndsAt
      BY <2>1 DEF Proposal
    <3> HIDE DEF q
    <3> QED
      BY <2>1, <3>1 DEF Sound
  <2> QED
    BY <2>2, <2>3, RewriteKeepsSound
<1>6. ASSUME NEW id \in Ids, Finalize(id) PROVE AllSound'
  <2> DEFINE p == proposals[id]
             v == IF Carried(p) THEN "Passed" ELSE "Failed"
             q == [p EXCEPT !.status = v]
  <2>1. p.status = "Active" /\ p \in Proposal /\ Sound(p)
    BY <1>4, <1>6 DEF Finalize
  <2>2. proposals' = [proposals EXCEPT ![id] = q]
    BY <1>6 DEF Finalize, GovernanceTypeOK, Ids
  <2>3. v = "Passed" => p.votesFor > p.votesAgainst
    <3> SUFFICES ASSUME Carried(p) PROVE p.votesFor > p.votesAgainst
      OBVIOUS
    <3>1. p.votesFor \in Nat /\ p.votesAgainst \in Nat
      BY <2>1 DEF Proposal
    <3> QED
      BY <3>1, MajorityOfBps DEF Carried, TotalVotes, THRESHOLD_BPS
  <2>4. v \in {"Passed", "Failed"}
    OBVIOUS
  <2>5. Sound(q)
    <3> HIDE DEF p, v
    <3>1. /\ q.status = v /\ q.executedAt = p.executedAt
          /\ q.createdAt = p.createdAt /\ q.votingEndsAt = p.votingEndsAt
          /\ q.votesFor = p.votesFor /\ q.votesAgainst = p.votesAgainst
      BY <2>1 DEF Proposal
    <3> HIDE DEF q
    <3> QED
      BY <2>1, <2>3, <2>4, <3>1 DEF Sound
  <2> QED
    BY <2>2, <2>5, RewriteKeepsSound
<1>7. ASSUME NEW id \in Ids, Execute(id) PROVE AllSound'
  <2> DEFINE p == proposals[id]
             q == [p EXCEPT !.status = "Executed", !.executedAt = now]
  <2>1. /\ p.status = "Passed" /\ p \in Proposal /\ Sound(p)
        /\ now >= p.votingEndsAt + TIMELOCK
    BY <1>4, <1>7 DEF Execute
  <2>2. proposals' = [proposals EXCEPT ![id] = q]
    BY <1>7 DEF Execute, GovernanceTypeOK, Ids
  <2>3. Sound(q)
    <3> HIDE DEF p
    <3>1. /\ q.status = "Executed" /\ q.executedAt = now
          /\ q.createdAt = p.createdAt /\ q.votingEndsAt = p.votingEndsAt
          /\ q.votesFor = p.votesFor /\ q.votesAgainst = p.votesAgainst
      BY <2>1 DEF Proposal
    <3> HIDE DEF q
    <3> QED
      BY <2>1, <3>1 DEF Sound
  <2> QED
    BY <2>2, <2>3, RewriteKeepsSound
<1>8. ASSUME NEW a \in Address, NEW id \in Ids, Cancel(a, id) PROVE AllSound'
  <2> DEFINE p == proposals[id]
             q == [p EXCEPT !.status = "Cancelled"]
  <2>1. p.status = "Active" /\ p \in Proposal /\ Sound(p)
    BY <1>4, <1>8 DEF Cancel
  <2>2. proposals' = [proposals EXCEPT ![id] = q]
    BY <1>8 DEF Cancel, GovernanceTypeOK, Ids
  <2>3. Sound(q)
    <3> HIDE DEF p
    <3>1. /\ q.status = "Cancelled" /\ q.executedAt = p.executedAt
          /\ q.createdAt = p.createdAt /\ q.votingEndsAt = p.votingEndsAt
      BY <2>1 DEF Proposal
    <3> HIDE DEF q
    <3> QED
      BY <2>1, <3>1 DEF Sound
  <2> QED
    BY <2>2, <2>3, RewriteKeepsSound
<1>9. LedgerNext \/ AdvanceTime \/ UNCHANGED vars => UNCHANGED proposals
  BY DEF LedgerNext, AdvanceTime, Leaves, govVars, vars
<1> QED
  BY <1>1, <1>2, <1>5, <1>6, <1>7, <1>8, <1>9 DEF Next, VotingNext

(* However the tokens move between the votes, a proposal that passed has   *)
(* more votes for than against, and none takes effect before its voting    *)
(* period and the time lock are over.                                      *)
THEOREM DecisionsSound == Spec => []DecisionsAreSound
<1>1. Init => AllSound
  BY DEF Init, GovernanceInit, AllSound, Ids
<1>2. GovernanceTypeOK /\ AllSound => DecisionsAreSound
  <2> SUFFICES ASSUME GovernanceTypeOK, AllSound, NEW id \in Ids
               PROVE  LET p == proposals[id]
                      IN  /\ p.status \in {"Passed", "Executed"}
                               => p.votesFor > p.votesAgainst
                          /\ p.status = "Executed"
                               => p.executedAt >=
                                    p.createdAt + VOTING_PERIOD + TIMELOCK
                          /\ p.status # "Executed" => p.executedAt = 0
    BY DEF DecisionsAreSound, PassedByMajority, ExecutedAfterDelay
  <2>1. Sound(proposals[id])
    BY DEF AllSound
  <2> QED
    BY <2>1 DEF Sound
<1> QED
  BY <1>1, <1>2, SoundStep, GovernanceTypeCorrect, LedgerTypeCorrect, PTL
     DEF Spec

-----------------------------------------------------------------------------
(* What one step may do to a proposal.                                     *)
Rewrites(p, q) ==
    \/ /\ q.status = p.status
       /\ p.status = "Active" \/ q = p
       /\ TotalVotes(q) > TotalVotes(p) => now <= p.votingEndsAt
    \/ /\ q.status \in Follows[p.status]
       /\ q.votesFor = p.votesFor
       /\ q.votesAgainst = p.votesAgainst

(* A rewritten proposal leaves the others as they are.                     *)
LEMMA OnlyRewrite ==
    ASSUME GovernanceTypeOK, NEW id \in Ids, NEW q, Rewrites(proposals[id], q),
           proposals' = [proposals EXCEPT ![id] = q]
    PROVE  \A i \in Ids : i \in Ids' /\ Rewrites(proposals[i], proposals'[i])
<1>1. proposals \in Seq(Proposal) /\ DOMAIN proposals' = DOMAIN proposals
  BY DEF GovernanceTypeOK
<1>2. ASSUME NEW i \in Ids PROVE Rewrites(proposals[i], proposals'[i])
  <2>1. CASE i = id
    BY <1>1, <2>1 DEF Ids
  <2>2. CASE i # id
    <3>1. proposals'[i] = proposals[i]
      BY <1>1, <2>2 DEF Ids
    <3>2. proposals[i] \in Proposal
      BY <1>1, MemberOfSeq DEF Ids
    <3> QED
      BY <3>1, <3>2 DEF Rewrites, Proposal, TotalVotes
  <2> QED
    BY <2>1, <2>2
<1> QED
  BY <1>1, <1>2 DEF Ids

(* Every call rewrites at most one proposal, in one of the ways allowed.   *)
LEMMA DecidedStep ==
    TokenTypeOK /\ GovernanceTypeOK /\ [Next]_vars
        => \A i \in Ids : i \in Ids' /\ Rewrites(proposals[i], proposals'[i])
<1> DEFINE Kept ==
      \A i \in Ids : i \in Ids' /\ Rewrites(proposals[i], proposals'[i])
<1> SUFFICES ASSUME TokenTypeOK, GovernanceTypeOK, [Next]_vars PROVE Kept
  OBVIOUS
<1>1. ASSUME NEW id \in Ids PROVE proposals[id] \in Proposal
  BY MemberOfSeq DEF GovernanceTypeOK, Ids
<1>2. CASE UNCHANGED proposals
  BY <1>1, <1>2 DEF Ids, Rewrites, Proposal, TotalVotes
<1>3. ASSUME NEW a \in Address, Propose(a) PROVE Kept
  <2>1. ASSUME NEW i \in Ids PROVE i \in Ids' /\ proposals'[i] = proposals[i]
    BY <1>3 DEF Propose, GovernanceTypeOK, Ids
  <2> QED
    BY <1>1, <2>1 DEF Rewrites, Proposal, TotalVotes
<1>4. ASSUME NEW a \in Address, NEW id \in Ids, NEW s \in BOOLEAN,
             Vote(a, id, s)
      PROVE  Kept
  <2> DEFINE p == proposals[id]
             w == AsU64(balance[a])
             q == IF s THEN [p EXCEPT !.votesFor = @ + w]
                  ELSE [p EXCEPT !.votesAgainst = @ + w]
  <2>1. p \in Proposal /\ p.status = "Active" /\ now <= p.votingEndsAt
    BY <1>1, <1>4 DEF Vote
  <2>2. proposals' = [proposals EXCEPT ![id] = q]
    BY <1>4 DEF Vote, GovernanceTypeOK, Ids
  <2>3. q.status = p.status
    <3> HIDE DEF p, w
    <3> QED
      BY <2>1 DEF Proposal
  <2>4. Rewrites(p, q)
    <3> HIDE DEF p, q
    <3> QED
      BY <2>1, <2>3 DEF Rewrites
  <2> QED
    BY <2>2, <2>4, OnlyRewrite
<1>5. ASSUME NEW id \in Ids, NEW v \in Follows[proposals[id].status], NEW q,
             q.status = v, q.votesFor = proposals[id].votesFor,
             q.votesAgainst = proposals[id].votesAgainst,
             proposals' = [proposals EXCEPT ![id] = q]
      PROVE  Kept
  <2>1. Rewrites(proposals[id], q)
    BY <1>5 DEF Rewrites
  <2> QED
    BY <1>5, <2>1, OnlyRewrite
<1>6. ASSUME NEW id \in Ids, Finalize(id) PROVE Kept
  <2> DEFINE v == IF Carried(proposals[id]) THEN "Passed" ELSE "Failed"
             q == [proposals[id] EXCEPT !.status = v]
  <2>1. v \in Follows[proposals[id].status]
    BY <1>6 DEF Finalize, Follows
  <2>2. proposals' = [proposals EXCEPT ![id] = q]
    BY <1>6 DEF Finalize, GovernanceTypeOK, Ids
  <2>3. /\ q.status = v /\ q.votesFor = proposals[id].votesFor
        /\ q.votesAgainst = proposals[id].votesAgainst
    BY <1>1 DEF Proposal
  <2> QED
    BY <1>5, <2>1, <2>2, <2>3
<1>7. ASSUME NEW id \in Ids, Execute(id) PROVE Kept
  <2> DEFINE q == [proposals[id] EXCEPT !.status = "Executed",
                                        !.executedAt = now]
  <2>1. "Executed" \in Follows[proposals[id].status]
    BY <1>7 DEF Execute, Follows
  <2>2. proposals' = [proposals EXCEPT ![id] = q]
    BY <1>7 DEF Execute, GovernanceTypeOK, Ids
  <2>3. /\ q.status = "Executed" /\ q.votesFor = proposals[id].votesFor
        /\ q.votesAgainst = proposals[id].votesAgainst
    BY <1>1 DEF Proposal
  <2> QED
    BY <1>5, <2>1, <2>2, <2>3
<1>8. ASSUME NEW a \in Address, NEW id \in Ids, Cancel(a, id) PROVE Kept
  <2> DEFINE q == [proposals[id] EXCEPT !.status = "Cancelled"]
  <2>1. "Cancelled" \in Follows[proposals[id].status]
    BY <1>8 DEF Cancel, Follows
  <2>2. proposals' = [proposals EXCEPT ![id] = q]
    BY <1>8 DEF Cancel, GovernanceTypeOK, Ids
  <2>3. /\ q.status = "Cancelled" /\ q.votesFor = proposals[id].votesFor
        /\ q.votesAgainst = proposals[id].votesAgainst
    BY <1>1 DEF Proposal
  <2> QED
    BY <1>5, <2>1, <2>2, <2>3
<1>9. LedgerNext \/ AdvanceTime \/ UNCHANGED vars => UNCHANGED proposals
  BY DEF LedgerNext, AdvanceTime, Leaves, govVars, vars
<1> QED
  BY <1>2, <1>3, <1>4, <1>6, <1>7, <1>8, <1>9 DEF Next, VotingNext

(* A proposal is decided once and only counts votes while it is open.      *)
THEOREM ProposalsDecidedOnce == Spec => DecidedOnce
<1>1. TokenTypeOK /\ GovernanceTypeOK /\ [Next]_vars
        => [\A id \in Ids :
              /\ id \in Ids'
              /\ LET p == proposals[id]
                     q == proposals'[id]
                 IN  \/ /\ q.status = p.status
                        /\ p.status = "Active" \/ q = p
                        /\ TotalVotes(q) > TotalVotes(p)
                             => now <= p.votingEndsAt
                     \/ /\ q.status \in Follows[p.status]
                        /\ q.votesFor = p.votesFor
                        /\ q.votesAgainst = p.votesAgainst]_vars
  BY DecidedStep DEF Rewrites
<1> QED
  BY <1>1, GovernanceTypeCorrect, LedgerTypeCorrect, PTL DEF Spec, DecidedOnce

-----------------------------------------------------------------------------
(* What makes VotesBackedByTokens inductive: the tokens of the accounts    *)
(* that may still vote on a proposal count with its votes.                 *)
Unvoted(id) == {a \in Address : <<a, id>> \notin voted}

VotesAndVotersBacked ==
    \A id \in Ids :
        TotalVotes(proposals[id]) + SumOver(balance, Unvoted(id))
            <= supply + selfSent + outflow[id]

(* A sum of balances is a natural number.                                  *)
LEMMA BalancesAddUp ==
    ASSUME TokenTypeOK, NEW S \in SUBSET Address
    PROVE  SumOver(balance, S) \in Nat /\ IsFiniteSet(S)
<1>1. IsFiniteSet(S) /\ \A a \in S : balance[a] \in Nat
  BY TokenConstants, FS_Subset DEF TokenTypeOK
<1> QED
  BY <1>1, SumOfNaturals

(* The casts of vote never add to a weight.                                *)
LEMMA WeightAtMostBalance ==
    ASSUME NEW x \in Nat
    PROVE  AsU64(x) \in Nat /\ AsU64(x) <= x
<1>1. MaxU64 + 1 \in Nat \ {0}
  BY GovernanceConstants
<1> QED
  BY <1>1 DEF AsU64

(* While only the ledger moves, what the voters still hold grows by no     *)
(* more than the supply, the amounts sent to oneself and the outflow do.   *)
LEMMA LedgerKeepsBacked ==
    ASSUME TokenTypeOK, TokenTypeOK', GovernanceTypeOK, GovernanceTypeOK',
           VotesAndVotersBacked,
           UNCHANGED <<proposals, voted>>, DOMAIN outflow' = DOMAIN outflow,
           NEW k, NEW n \in Nat,
           \A a \in Address :
              balance'[a] <= balance[a] + (IF a = k THEN n ELSE 0),
           \A id \in DOMAIN outflow :
              supply + selfSent + outflow[id] + n
                <= supply' + selfSent' + outflow'[id]
    PROVE  VotesAndVotersBacked'
<1> SUFFICES ASSUME NEW id \in Ids
             PROVE  TotalVotes(proposals[id]) + SumOver(balance', Unvoted(id))
                      <= supply' + selfSent' + outflow'[id]
  BY DEF VotesAndVotersBacked, Ids, Unvoted
<1> DEFINE S == Unvoted(id)
           b2 == balance'
<1>1. S \in SUBSET Address
  BY DEF Unvoted
<1>2. \A a \in S : balance[a] \in Int /\ b2[a] \in Int
                   /\ b2[a] <= balance[a] + (IF a = k THEN n ELSE 0)
  BY <1>1 DEF TokenTypeOK
<1>3. IsFiniteSet(S) /\ SumOver(balance, S) \in Nat
  BY <1>1, BalancesAddUp
<1> HIDE DEF S, b2
<1>4. SumOver(b2, S) <= SumOver(balance, S) + n
  BY <1>2, <1>3, SumGrowsBy
<1>5. SumOver(b2, S) \in Int
  BY <1>2, <1>3, SumType
<1>6. TotalVotes(proposals[id]) + SumOver(balance, S)
        <= supply + selfSent + outflow[id]
  BY DEF VotesAndVotersBacked, S
<1>7. id \in DOMAIN outflow /\ outflow[id] \in Nat
  BY DEF GovernanceTypeOK, Ids
<1>8. outflow'[id] \in Nat
  BY DEF GovernanceTypeOK, Ids
<1>9. TotalVotes(proposals[id]) \in Int
  <2>1. proposals[id] \in Proposal
    BY MemberOfSeq DEF GovernanceTypeOK, Ids
  <2> QED
    BY <2>1 DEF Proposal, TotalVotes
<1>10. supply + selfSent + outflow[id] + n <= supply' + selfSent' + outflow'[id]
  BY <1>7
<1> HIDE DEF TotalVotes
<1> QED
  BY <1>3, <1>4, <1>5, <1>6, <1>7, <1>8, <1>9, <1>10 DEF TokenTypeOK, S, b2

(* A vote takes its weight, which is no more than the voter's balance, out *)
(* of what the accounts that have not voted hold.                          *)
LEMMA VoteKeepsBacked ==
    ASSUME TokenTypeOK, GovernanceTypeOK, VotesAndVotersBacked,
           NEW a \in Address, NEW id \in Ids, NEW s \in BOOLEAN,
           Vote(a, id, s)
    PROVE  VotesAndVotersBacked'
<1> DEFINE p == proposals[id]
           w == AsU64(balance[a])
           q == IF s THEN [p EXCEPT !.votesFor = @ + w]
                ELSE [p EXCEPT !.votesAgainst = @ + w]
<1>1. p \in Proposal /\ balance[a] \in Nat /\ w \in Nat /\ w <= balance[a]
  BY MemberOfSeq, WeightAtMostBalance DEF GovernanceTypeOK, TokenTypeOK, Ids
<1>2. /\ proposals' = [proposals EXCEPT ![id] = q]
      /\ <<a, id>> \notin voted /\ voted' = voted \cup {<<a, id>>}
      /\ UNCHANGED <<tokenVars, outflow>>
  BY DEF Vote, GovernanceTypeOK, Ids
<1>3. TotalVotes(q) = TotalVotes(p) + w /\ TotalVotes(p) \in Nat
  <2> HIDE DEF p, w
  <2>1. CASE s
    <3>1. q = [p EXCEPT !.votesFor = @ + w]
      BY <2>1
    <3> QED
      BY <1>1, <3>1 DEF Proposal, TotalVotes
  <2>2. CASE ~s
    <3>1. q = [p EXCEPT !.votesAgainst = @ + w]
      BY <2>2
    <3> QED
      BY <1>1, <3>1 DEF Proposal, TotalVotes
  <2> QED
    BY <2>1, <2>2
<1> HIDE DEF p, w, q
<1>4. Ids' = Ids /\ proposals'[id] = q
      /\ \A i \in Ids \ {id} : proposals'[i] = proposals[i]
  BY <1>2 DEF Ids, GovernanceTypeOK
<1> SUFFICES ASSUME NEW i \in Ids
             PROVE  TotalVotes(proposals'[i]) + SumOver(balance, Unvoted(i)')
                      <= supply + selfSent + outflow[i]
  BY <1>2, <1>4 DEF VotesAndVotersBacked, tokenVars, historyVars
<1>5. TotalVotes(proposals[i]) + SumOver(balance, Unvoted(i))
        <= supply + selfSent + outflow[i]
  BY DEF VotesAndVotersBacked
<1>6. CASE i # id
  <2>1. Unvoted(i)' = Unvoted(i)
    BY <1>2, <1>6 DEF Unvoted
  <2> QED
    BY <1>4, <1>5, <1>6, <2>1
<1>7. CASE i = id
  <2> DEFINE S == Unvoted(id)
  <2>1. a \in S /\ Unvoted(id)' = S \ {a} /\ S \in SUBSET Address
    BY <1>2 DEF Unvoted
  <2>2. IsFiniteSet(S) /\ SumOver(balance, S \ {a}) \in Nat
    <3>1. S \ {a} \in SUBSET Address
      BY <2>1
    <3> HIDE DEF S
    <3> QED
      BY <2>1, <3>1, BalancesAddUp
  <2>3. \A b \in S : balance[b] \in Int
    BY <2>1 DEF TokenTypeOK
  <2> HIDE DEF S
  <2>4. SumOver(balance, S) = balance[a] + SumOver(balance, S \ {a})
    BY <2>1, <2>2, <2>3, SumRemove
  <2>5. TotalVotes(p) + SumOver(balance, S) <= supply + selfSent + outflow[id]
    BY <1>5, <1>7 DEF S, p
  <2>6. supply + selfSent + outflow[id] \in Int
    BY DEF TokenTypeOK, GovernanceTypeOK, Ids
  <2>7. TotalVotes(q) + SumOver(balance, S \ {a})
          <= supply + selfSent + outflow[id]
    <3> HIDE DEF TotalVotes
    <3> QED
      BY <1>1, <1>3, <2>2, <2>4, <2>5, <2>6
  <2> QED
    BY <1>4, <1>7, <2>1, <2>7 DEF S
<1> QED
  BY <1>6, <1>7

(* A new proposal has no votes and every account may vote on it: all they  *)
(* hold is the supply and what accounts sent to themselves.                *)
LEMMA ProposeKeepsBacked ==
    ASSUME TokenTypeOK, LedgerBalanced, GovernanceTypeOK, VotesAndVotersBacked,
           NEW a \in Address, Propose(a)
    PROVE  VotesAndVotersBacked'
<1> DEFINE p == [proposer |-> a, votesFor |-> 0, votesAgainst |-> 0,
                 createdAt |-> now, votingEndsAt |-> now + VOTING_PERIOD,
                 executedAt |-> 0, status |-> "Active"]
<1>0. PICK new : new = Len(proposals) + 1
  OBVIOUS
<1>1. /\ proposals' = Append(proposals, p) /\ outflow' = Append(outflow, 0)
      /\ UNCHANGED <<tokenVars, voted>>
  BY DEF Propose
<1>2. TotalVotes(p) = 0
  BY DEF TotalVotes
<1> HIDE DEF p
<1>3. /\ Ids' = Ids \cup {new} /\ new \notin Ids
      /\ proposals'[new] = p /\ outflow'[new] = 0
      /\ \A i \in Ids : proposals'[i] = proposals[i] /\ outflow'[i] = outflow[i]
  BY <1>0, <1>1 DEF Ids, GovernanceTypeOK
<1>4. Unvoted(new)' = Address /\ \A i \in Ids : Unvoted(i)' = Unvoted(i)
  BY <1>1, <1>3 DEF Unvoted, GovernanceTypeOK
<1> SUFFICES ASSUME NEW i \in Ids'
             PROVE  TotalVotes(proposals'[i]) + SumOver(balance, Unvoted(i)')
                      <= supply + selfSent + outflow'[i]
  BY <1>1 DEF VotesAndVotersBacked, tokenVars, historyVars
<1>5. CASE i \in Ids
  BY <1>3, <1>4, <1>5 DEF VotesAndVotersBacked
<1>6. CASE i = new
  <2>1. SumOver(balance, Address) = supply + selfSent
    BY DEF LedgerBalanced, TotalBalance
  <2>2. SumOver(balance, Unvoted(i)') = supply + selfSent
    BY <1>4, <1>6, <2>1
  <2>3. TotalVotes(proposals'[i]) = 0 /\ outflow'[i] = 0
    BY <1>2, <1>3, <1>6
  <2> QED
    BY <2>2, <2>3 DEF TokenTypeOK
<1> QED
  BY <1>3, <1>5, <1>6

(* mint, burn and transfer keep the votes backed.                          *)
LEMMA MovesKeepBacked ==
    ASSUME TokenTypeOK, TokenTypeOK', GovernanceTypeOK, GovernanceTypeOK',
           VotesAndVotersBacked, LedgerNext
    PROVE  VotesAndVotersBacked'
<1>1. /\ balance \in [Address -> Nat] /\ supply \in Int /\ selfSent \in Nat
      /\ \A id \in DOMAIN outflow : outflow[id] \in Nat
  BY DEF TokenTypeOK, GovernanceTypeOK
<1>2. ASSUME NEW a \in Address, NEW x \in Amounts, Mint(a, x),
             UNCHANGED govVars
      PROVE  VotesAndVotersBacked'
  <2>1. x \in Nat /\ UNCHANGED <<proposals, voted, outflow>>
    BY <1>2, TokenConstants DEF govVars
  <2>2. \A b \in Address : balance'[b] <= balance[b] + (IF b = a THEN x ELSE 0)
    BY <1>1, <1>2, <2>1 DEF Mint, Credit
  <2>3. \A id \in DOMAIN outflow :
           supply + selfSent + outflow[id] + x
             <= supply' + selfSent' + outflow'[id]
    BY <1>1, <1>2, <2>1 DEF Mint, historyVars
  <2> QED
    BY <2>1, <2>2, <2>3, LedgerKeepsBacked
<1>3. ASSUME NEW a \in Address, NEW x \in Amounts, Burn(a, x), Leaves(x)
      PROVE  VotesAndVotersBacked'
  <2>1. /\ x \in Nat /\ UNCHANGED <<proposals, voted>>
        /\ outflow' = [id \in DOMAIN outflow |-> outflow[id] + x]
    BY <1>3, TokenConstants DEF Leaves
  <2>2. \A b \in Address : balance'[b] <= balance[b] + (IF b = a THEN 0 ELSE 0)
    BY <1>1, <1>3, <2>1 DEF Burn
  <2>3. \A id \in DOMAIN outflow :
           supply + selfSent + outflow[id] + 0
             <= supply' + selfSent' + outflow'[id]
    BY <1>1, <1>3, <2>1 DEF Burn, historyVars
  <2>4. 0 \in Nat /\ DOMAIN outflow' = DOMAIN outflow
    BY <2>1
  <2> QED
    BY <2>1, <2>2, <2>3, <2>4, LedgerKeepsBacked
<1>4. ASSUME NEW a \in Address, NEW b \in Address, NEW x \in Amounts,
             Transfer(a, b, x), Leaves(IF a = b THEN 0 ELSE x)
      PROVE  VotesAndVotersBacked'
  <2>1. /\ x \in Nat /\ UNCHANGED <<proposals, voted>>
        /\ outflow' = [id \in DOMAIN outflow |->
                         outflow[id] + (IF a = b THEN 0 ELSE x)]
    BY <1>4, TokenConstants DEF Leaves
  <2>2. \A c \in Address : balance'[c] <= balance[c] + (IF c = b THEN x ELSE 0)
    BY <1>1, <1>4, <2>1 DEF Transfer, MoveTokens, Moved
  <2>3. selfSent' = selfSent + (IF a = b THEN x ELSE 0) /\ supply' = supply
    BY <1>1, <1>4, <2>1 DEF Transfer, MoveTokens
  <2>4. \A id \in DOMAIN outflow :
           supply + selfSent + outflow[id] + x
             <= supply' + selfSent' + outflow'[id]
    BY <1>1, <2>1, <2>3
  <2>5. DOMAIN outflow' = DOMAIN outflow
    BY <2>1
  <2> QED
    BY <2>1, <2>2, <2>4, <2>5, LedgerKeepsBacked
<1>5. ASSUME PauseNext, UNCHANGED govVars PROVE VotesAndVotersBacked'
  BY <1>5 DEF PauseNext, EmergencyPause, EmergencyUnpause, govVars,
              historyVars, VotesAndVotersBacked, Ids, Unvoted
<1> QED
  BY <1>2, <1>3, <1>4, <1>5 DEF LedgerNext

(* Every step keeps the votes backed.                                      *)
LEMMA BackedStep ==
    /\ TokenTypeOK /\ TokenTypeOK' /\ GovernanceTypeOK /\ GovernanceTypeOK'
    /\ LedgerBalanced /\ VotesAndVotersBacked /\ [Next]_vars
    => VotesAndVotersBacked'
<1> SUFFICES ASSUME TokenTypeOK, TokenTypeOK', GovernanceTypeOK,
                    GovernanceTypeOK', LedgerBalanced, VotesAndVotersBacked,
                    [Next]_vars
             PROVE  VotesAndVotersBacked'
  OBVIOUS
<1>1. ASSUME UNCHANGED <<tokenVars, voted, outflow>>, NEW id \in Ids, NEW q,
             q.votesFor = proposals[id].votesFor,
             q.votesAgainst = proposals[id].votesAgainst,
             proposals' = [proposals EXCEPT ![id] = q]
      PROVE  VotesAndVotersBacked'
  <2>1. Ids' = Ids
    BY <1>1 DEF Ids, GovernanceTypeOK
  <2>2. \A i \in Ids : TotalVotes(proposals'[i]) = TotalVotes(proposals[i])
    BY <1>1 DEF Ids, TotalVotes, GovernanceTypeOK
  <2> QED
    BY <1>1, <2>1, <2>2
       DEF VotesAndVotersBacked, Unvoted, tokenVars, historyVars
<1>2. ASSUME NEW id \in Ids PROVE proposals[id] \in Proposal
  BY MemberOfSeq DEF GovernanceTypeOK, Ids
<1>3. ASSUME NEW id \in Ids, Finalize(id) PROVE VotesAndVotersBacked'
  <2> DEFINE q == [proposals[id] EXCEPT !.status =
                     IF Carried(proposals[id]) THEN "Passed" ELSE "Failed"]
  <2>1. /\ proposals' = [proposals EXCEPT ![id] = q]
        /\ UNCHANGED <<tokenVars, voted, outflow>>
    BY <1>3 DEF Finalize, GovernanceTypeOK, Ids
  <2>2. /\ q.votesFor = proposals[id].votesFor
        /\ q.votesAgainst = proposals[id].votesAgainst
    BY <1>2 DEF Proposal
  <2> QED
    BY <1>1, <2>1, <2>2
<1>4. ASSUME NEW id \in Ids, Execute(id) PROVE VotesAndVotersBacked'
  <2> DEFINE q == [proposals[id] EXCEPT !.status = "Executed",
                                        !.executedAt = now]
  <2>1. /\ proposals' = [proposals EXCEPT ![id] = q]
        /\ UNCHANGED <<tokenVars, voted, outflow>>
    BY <1>4 DEF Execute, GovernanceTypeOK, Ids
  <2>2. /\ q.votesFor = proposals[id].votesFor
        /\ q.votesAgainst = proposals[id].votesAgainst
    BY <1>2 DEF Proposal
  <2> QED
    BY <1>1, <2>1, <2>2
<1>5. ASSUME NEW a \in Address, NEW id \in Ids, Cancel(a, id)
      PROVE  VotesAndVotersBacked'
  <2> DEFINE q == [proposals[id] EXCEPT !.status = "Cancelled"]
  <2>1. /\ proposals' = [proposals EXCEPT ![id] = q]
        /\ UNCHANGED <<tokenVars, voted, outflow>>
    BY <1>5 DEF Cancel, GovernanceTypeOK, Ids
  <2>2. /\ q.votesFor = proposals[id].votesFor
        /\ q.votesAgainst = proposals[id].votesAgainst
    BY <1>2 DEF Proposal
  <2> QED
    BY <1>1, <2>1, <2>2
<1>6. AdvanceTime \/ UNCHANGED vars
        => UNCHANGED <<tokenVars, proposals, voted, outflow>>
  BY DEF AdvanceTime, vars, govVars
<1>7. CASE UNCHANGED <<tokenVars, proposals, voted, outflow>>
  BY <1>7 DEF VotesAndVotersBacked, Ids, Unvoted, tokenVars, historyVars
<1> QED
  BY <1>3, <1>4, <1>5, <1>6, <1>7, VoteKeepsBacked, ProposeKeepsBacked,
     MovesKeepBacked DEF Next, VotingNext

(* The balances under the votes add up as the token contract's do.         *)
LEMMA LedgerStaysBalanced == Spec => []LedgerBalanced
<1>1. Init => LedgerBalanced
  BY LedgerSumInit DEF Init
<1>2. TokenTypeOK /\ LedgerBalanced /\ [Next]_vars => LedgerBalanced'
  BY LedgerSumStep, LedgerStep
<1> QED
  BY <1>1, <1>2, LedgerTypeCorrect, PTL DEF Spec

(* However tokens move between the votes, no proposal gets more votes than *)
(* the supply, what accounts sent to themselves, and what left an account  *)
(* while it was open: no token votes twice unless it changed hands.        *)
THEOREM VotesBacked == Spec => []VotesBackedByTokens
<1>1. Init => VotesAndVotersBacked
  BY DEF Init, GovernanceInit, VotesAndVotersBacked, Ids
<1>2. TokenTypeOK /\ GovernanceTypeOK /\ VotesAndVotersBacked
        => VotesBackedByTokens
  <2> SUFFICES ASSUME TokenTypeOK, GovernanceTypeOK, VotesAndVotersBacked,
                      NEW id \in Ids
               PROVE  TotalVotes(proposals[id])
                        <= supply + selfSent + outflow[id]
    BY DEF VotesBackedByTokens
  <2>1. SumOver(balance, Unvoted(id)) \in Nat
    <3>1. Unvoted(id) \in SUBSET Address
      BY DEF Unvoted
    <3> QED
      BY <3>1, BalancesAddUp
  <2>2. TotalVotes(proposals[id]) \in Nat
    <3>1. proposals[id] \in Proposal
      BY MemberOfSeq DEF GovernanceTypeOK, Ids
    <3> QED
      BY <3>1 DEF Proposal, TotalVotes
  <2>3. supply + selfSent + outflow[id] \in Int
    BY DEF TokenTypeOK, GovernanceTypeOK, Ids
  <2>4. TotalVotes(proposals[id]) + SumOver(balance, Unvoted(id))
          <= supply + selfSent + outflow[id]
    BY DEF VotesAndVotersBacked
  <2> HIDE DEF TotalVotes
  <2> QED
    BY <2>1, <2>2, <2>3, <2>4
<1> QED
  BY <1>1, <1>2, BackedStep, LedgerStaysBalanced, GovernanceTypeCorrect,
     LedgerTypeCorrect, PTL DEF Spec
=============================================================================
