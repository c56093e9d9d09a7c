----------------------------- MODULE Governance -----------------------------
(***************************************************************************)
(* The governance contract (contracts/governance) over the token ledger    *)
(* whose balances it reads as voting weights.  Nothing is locked or        *)
(* snapshotted: tokens are minted, burned and transferred between the      *)
(* votes, and finalize reads the supply of its own moment.                 *)
(*                                                                         *)
(* A call that panics changes nothing, so its assertions and the overflow  *)
(* checks of the release profile are guards.  Descriptions are left out.   *)
(***************************************************************************)
EXTENDS LoyaltyToken

CONSTANTS
    MinStake,       \* MIN_STAKE
    MaxU64,         \* u64::MAX
    Times,          \* ledger timestamps the clock may show
    MaxProposals,   \* bound on the proposals submitted
    MaxOutflow      \* bound on the tokens leaving accounts per proposal

VOTING_PERIOD == 604800
TIMELOCK == 172800
QUORUM_BPS == 1000
THRESHOLD_BPS == 5000

ASSUME GovernanceConstants ==
    /\ MinStake \in Nat \ {0}
    /\ MaxU64 \in Nat
    /\ Times \subseteq Nat /\ 0 \in Times
    /\ MaxProposals \in Nat /\ MaxOutflow \in Nat

VARIABLES
    proposals,      \* DataKey::Proposal(id), ids handed out from 1
    voted,          \* DataKey::Voted: the <<voter, id>> pairs present
    now,            \* ledger timestamp
    outflow         \* history: tokens that left an account, transferred
                    \* or burned, since each proposal was submitted

govVars == <<proposals, voted, now, outflow>>
vars == <<tokenVars, govVars>>

Statuses == {"Active", "Passed", "Failed", "Executed", "Cancelled"}

Proposal ==
    [proposer : Address, votesFor : Nat, votesAgainst : Nat, createdAt : Nat,
     votingEndsAt : Nat, executedAt : Nat, status : Statuses]

GovernanceInit ==
    /\ proposals = <<>>
    /\ voted = {}
    /\ now = 0
    /\ outflow = <<>>

Init == TokenInit /\ GovernanceInit

-----------------------------------------------------------------------------
(* The cast "as u64" keeps the low 64 bits.                                *)
AsU64(x) == x % (MaxU64 + 1)

Ids == DOMAIN proposals

TotalVotes(p) == p.votesFor + p.votesAgainst

QuorumRequired == (AsU64(supply) * QUORUM_BPS) \div 10000

(* The sums and products finalize computes on u64; the second product is   *)
(* only reached when there are enough votes.                               *)
FinalizeFits(p) ==
    /\ TotalVotes(p) <= MaxU64
    /\ AsU64(supply) * QUORUM_BPS <= MaxU64
    /\ TotalVotes(p) >= QuorumRequired /\ TotalVotes(p) > 0
         => p.votesFor * 10000 <= MaxU64

(* Faulty: half of the votes is enough.                                    *)
CarriedByHalf(p) ==
    /\ TotalVotes(p) >= QuorumRequired
    /\ TotalVotes(p) > 0
    /\ (p.votesFor * 10000) \div TotalVotes(p) >= THRESHOLD_BPS

Carried(p) ==
    /\ TotalVotes(p) >= QuorumRequired
    /\ TotalVotes(p) > 0
    /\ (p.votesFor * 10000) \div TotalVotes(p) > THRESHOLD_BPS

-----------------------------------------------------------------------------
Propose(who) ==
    /\ Len(proposals) < MaxProposals
    /\ balance[who] >= MinStake
    /\ proposals' = Append(proposals,
         [proposer |-> who, votesFor |-> 0, votesAgainst |-> 0,
          createdAt |-> now, votingEndsAt |-> now + VOTING_PERIOD,
          executedAt |-> 0, status |-> "Active"])
    /\ outflow' = Append(outflow, 0)
    /\ UNCHANGED <<tokenVars, voted, now>>

(* Faulty: an address may vote again.                                      *)
VoteAgain(voter, id, support) ==
    LET p == proposals[id]
        weight == AsU64(balance[voter])
    IN  /\ p.status = "Active"
        /\ now <= p.votingEndsAt
        /\ balance[voter] > 0
        /\ TotalVotes(p) + weight <= MaxU64
        /\ IF support
           THEN proposals' = [proposals EXCEPT ![id].votesFor = @ + weight]
           ELSE proposals' = [proposals EXCEPT ![id].votesAgainst = @ + weight]
        /\ voted' = voted \cup {<<voter, id>>}
        /\ UNCHANGED <<tokenVars, now, outflow>>

(* Faulty: a vote against is taken off the votes for.                      *)
VoteNetted(voter, id, support) ==
    LET p == proposals[id]
        weight == AsU64(balance[voter])
    IN  /\ <<voter, id>> \notin voted
        /\ p.status = "Active"
        /\ now <= p.votingEndsAt
        /\ balance[voter] > 0
        /\ proposals' = [proposals EXCEPT ![id].votesFor =
                           IF support THEN @ + weight ELSE @ - weight]
        /\ voted' = voted \cup {<<voter, id>>}
        /\ UNCHANGED <<tokenVars, now, outflow>>

Vote(voter, id, support) ==
    LET p == proposals[id]
        weight == AsU64(balance[voter])
    IN  /\ <<voter, id>> \notin voted
        /\ p.status = "Active"
        /\ now <= p.votingEndsAt
        /\ balance[voter] > 0
        /\ IF support
           THEN /\ p.votesFor + weight <= MaxU64
                /\ proposals' = [proposals EXCEPT ![id].votesFor = @ + weight]
           ELSE /\ p.votesAgainst + weight <= MaxU64
                /\ proposals' = [proposals EXCEPT ![id].votesAgainst = @ + weight]
        /\ voted' = voted \cup {<<voter, id>>}
        /\ UNCHANGED <<tokenVars, now, outflow>>

Finalize(id) ==
    LET p == proposals[id]
    IN  /\ p.status = "Active"
        /\ now > p.votingEndsAt
        /\ FinalizeFits(p)
        /\ proposals' = [proposals EXCEPT ![id].status =
                           IF Carried(p) THEN "Passed" ELSE "Failed"]
        /\ UNCHANGED <<tokenVars, voted, now, outflow>>

(* Faulty: does not wait for the time lock.                                *)
ExecuteAtOnce(id) ==
    /\ proposals[id].status = "Passed"
    /\ proposals' = [proposals EXCEPT ![id].status = "Executed",
                                      ![id].executedAt = now]
    /\ UNCHANGED <<tokenVars, voted, now, outflow>>

(* Any account may execute.                                                *)
Execute(id) ==
    /\ proposals[id].status = "Passed"
    /\ now >= proposals[id].votingEndsAt + TIMELOCK
    /\ proposals' = [proposals EXCEPT ![id].status = "Executed",
                                      ![id].executedAt = now]
    /\ UNCHANGED <<tokenVars, voted, now, outflow>>

(* Faulty: the status is not checked.                                      *)
CancelAnytime(who, id) ==
    /\ proposals[id].proposer = who
    /\ proposals' = [proposals EXCEPT ![id].status = "Cancelled"]
    /\ UNCHANGED <<tokenVars, voted, now, outflow>>

(* The proposer may cancel until somebody finalizes, after the vote too.   *)
Cancel(who, id) ==
    /\ proposals[id].proposer = who
    /\ proposals[id].status = "Active"
    /\ proposals' = [proposals EXCEPT ![id].status = "Cancelled"]
    /\ UNCHANGED <<tokenVars, voted, now, outflow>>

AdvanceTime ==
    /\ \E t \in Times : now < t /\ now' = t
    /\ UNCHANGED <<tokenVars, proposals, voted, outflow>>

-----------------------------------------------------------------------------
(* The ledger moves on between the votes.                                  *)

Leaves(amount) ==
    /\ outflow' = [id \in DOMAIN outflow |-> outflow[id] + amount]
    /\ \A id \in DOMAIN outflow : outflow'[id] <= MaxOutflow
    /\ UNCHANGED <<proposals, voted, now>>

LedgerNext ==
    \/ \E a \in Address, x \in Amounts : Mint(a, x) /\ UNCHANGED govVars
    \/ \E a \in Address, x \in Amounts : Burn(a, x) /\ Leaves(x)
    \/ \E a, b \in Address, x \in Amounts :
          Transfer(a, b, x) /\ Leaves(IF a = b THEN 0 ELSE x)
    \/ PauseNext /\ UNCHANGED govVars

VotingNext ==
    \/ \E a \in Address : Propose(a)
    \/ \E a \in Address, id \in Ids, s \in BOOLEAN : Vote(a, id, s)
    \/ \E id \in Ids : Finalize(id) \/ Execute(id)
    \/ \E a \in Address, id \in Ids : Cancel(a, id)

Next == VotingNext \/ LedgerNext \/ AdvanceTime

Spec == Init /\ [][Next]_vars

-----------------------------------------------------------------------------
(* Properties.                                                             *)

(* Proposals and votes are well typed, and only submitted proposals have   *)
(* voters.                                                                 *)
GovernanceTypeOK ==
    /\ proposals \in Seq(Proposal)
    /\ voted \subseteq Address \X Ids
    /\ now \in Nat
    /\ outflow \in Seq(Nat) /\ Len(outflow) = Len(proposals)

(* Weights are read when a vote is cast and tokens are not locked, so the  *)
(* votes may exceed the supply; but only by tokens that left an account    *)
(* while the proposal was open, or that a transfer to oneself created.     *)
(* Counting one address twice would break this.                            *)
VotesBackedByTokens ==
    \A id \in Ids :
        TotalVotes(proposals[id]) <= supply + selfSent + outflow[id]

(* A proposal that passed has more votes for than against, whatever the    *)
(* rounding of the basis points.                                           *)
PassedByMajority ==
    \A id \in Ids : proposals[id].status \in {"Passed", "Executed"}
        => proposals[id].votesFor > proposals[id].votesAgainst

(* A decision takes effect no sooner than the voting period and the time   *)
(* lock after its submission, and nothing else leaves a mark of execution. *)
ExecutedAfterDelay ==
    \A id \in Ids :
        LET p == proposals[id]
        IN  /\ p.status = "Executed"
                 => p.executedAt >= p.createdAt + VOTING_PERIOD + TIMELOCK
            /\ p.status # "Executed" => p.executedAt = 0

(* A decision that takes effect was carried, and waited its time.          *)
DecisionsAreSound == PassedByMajority /\ ExecutedAfterDelay

Follows == [Active |-> {"Passed", "Failed", "Cancelled"},
            Passed |-> {"Executed"},
            Failed |-> {}, Executed |-> {}, Cancelled |-> {}]

(* Votes are only counted while a proposal is open, it is decided once,    *)
(* and only a passed one is executed: nothing reopens a proposal, removes  *)
(* it, or edits the tally behind a decision.                               *)
DecidedOnce ==
    [][\A id \in Ids :
         /\ id \in Ids'
         /\ LET p == proposals[id]
                q == proposals'[id]
            IN  \/ /\ q.status = p.status
                   /\ p.status = "Active" \/ q = p
                   /\ TotalVotes(q) > TotalVotes(p) => now <= p.votingEndsAt
                \/ /\ q.status \in Follows[p.status]
                   /\ q.votesFor = p.votesFor
                   /\ q.votesAgainst = p.votesAgainst]_vars
=============================================================================
