------------------------------- MODULE Indexer -------------------------------
(***************************************************************************)
(* The event indexer (backend/src/indexer/indexer.ts), the tables it fills *)
(* (campaign.service.ts, reward.service.ts) and the other writers of those *)
(* tables: the REST handlers and the job that deactivates expired rows.    *)
(*                                                                         *)
(* Node runs one callback at a time, so the code between two awaits is one *)
(* action; a database transaction is one action.  setInterval starts a     *)
(* poll whether or not the previous one has ended: each of Pollers is a    *)
(* poll that may be in flight.  Every await on the RPC server or on the    *)
(* database may be rejected, and the process may stop at any time.         *)
(*                                                                         *)
(* The chain is the sequence of the events the indexer's filter selects    *)
(* and processEvent handles, one per transaction, so a position in the     *)
(* sequence stands for a paging token and for a transaction hash alike.    *)
(* POST /campaigns is left out: no campaign on chain has one of the ids    *)
(* (Date.now()) it gives its rows.                                         *)
(***************************************************************************)
EXTENDS Storage, Naturals, Sequences, FiniteSets

CONSTANTS
    Campaigns,      \* ids of the campaigns created on chain
    Pollers,        \* polls that may be in flight together
    LIMIT,          \* events asked for by one poll (100)
    MAX_EVENT_RETRIES,
    Today,          \* time at which the expiry job runs
    OnChainExpiry,  \* expiration of the campaigns on chain
    MaxEvents,      \* bound on the events of the chain
    MaxFaults,      \* bound on the rejected awaits
    MaxCrashes      \* bound on the restarts

ASSUME IndexerConstants ==
    /\ LIMIT \in Nat \ {0}
    /\ MAX_EVENT_RETRIES \in Nat \ {0}
    /\ Today \in Nat /\ OnChainExpiry \in Nat
    /\ MaxEvents \in Nat /\ MaxFaults \in Nat /\ MaxCrashes \in Nat

VARIABLES
    chain,          \* events in ledger order
    cursor,         \* indexer_state: position of the last event committed
    campaignRows,   \* table campaigns, by id
    rewardRows,     \* table rewards, by <<user, campaign>>: the position of
                    \* its event, 0 when tx_hash is null
    recorded,       \* table transactions: positions present
    deadLetters,    \* table dead_letter_events: positions present
    polls,          \* polls in flight
    startup,        \* how far startIndexer has come in this process
    faults, crashes,
    \* History variables, read by the properties only.
    dropped,        \* events whose dead letter could not be written
    patched         \* campaigns whose owner deactivated the row

tables == <<campaignRows, rewardRows, recorded, deadLetters>>
history == <<dropped, patched>>
vars == <<chain, cursor, tables, polls, startup, faults, crashes, history>>

Users == Address

Event == [kind : {"CAM_CRT", "CAM_DEACT"}, campaign : Campaigns]
    \cup [kind : {"RWD_CLM"}, campaign : Campaigns, user : Users]
    \cup [kind : {"RWD_RDM"}, user : Users]

CampaignRow == [active : BOOLEAN, expiration : Nat, deleted : BOOLEAN]

Stages == {"idle", "asked", "write", "record", "bury", "commit", "backoff"}

(* setup: the two tables are being ensured; first: the first poll is due   *)
(* or under way; running: the timer and the expiry job are; failed: no poll *)
(* and no job will ever run in this process.                               *)
Startups == {"setup", "first", "running", "failed"}

IdlePoll == [pc |-> "idle", at |-> 0, last |-> 0, attempt |-> 0]

Init ==
    /\ chain = <<>>
    /\ cursor = 0
    /\ campaignRows = [id \in {} |-> 0]
    /\ rewardRows = [p \in {} |-> 0]
    /\ recorded = {} /\ deadLetters = {}
    /\ polls = [p \in Pollers |-> IdlePoll]
    /\ startup = "setup"
    /\ faults = 0 /\ crashes = 0
    /\ dropped = {} /\ patched = {}

-----------------------------------------------------------------------------
(* The chain.                                                              *)

Emitted(kind, id) ==
    \E i \in DOMAIN chain : chain[i].kind = kind /\ chain[i].campaign = id

OnChain(event) == \E i \in DOMAIN chain : chain[i] = event

(* A campaign is created once, a pair claims once; set_active(false) may   *)
(* be repeated.                                                            *)
Emit(event) ==
    /\ Len(chain) < MaxEvents
    /\ event.kind \in {"CAM_CRT", "RWD_CLM"} => ~OnChain(event)
    /\ event.kind \in {"CAM_DEACT", "RWD_CLM"} =>
         OnChain([kind |-> "CAM_CRT", campaign |-> event.campaign])
    /\ event.kind = "RWD_RDM" =>
         \E i \in DOMAIN chain :
            chain[i].kind = "RWD_CLM" /\ chain[i].user = event.user
    /\ chain' = Append(chain, event)
    /\ UNCHANGED <<cursor, tables, polls, startup, faults, crashes, history>>

-----------------------------------------------------------------------------
(* One poll.                                                               *)

Goto(p, pc) == polls' = [polls EXCEPT ![p].pc = pc]

Done(p) ==
    /\ polls' = [polls EXCEPT ![p] = IdlePoll]
    /\ startup' = "running"

Fault ==
    /\ faults < MaxFaults
    /\ faults' = faults + 1
    /\ UNCHANGED <<chain, crashes>>

(* startIndexer awaits the two CREATE TABLE IF NOT EXISTS.                 *)
EnsureTables ==
    /\ startup = "setup"
    /\ startup' = "first"
    /\ UNCHANGED <<chain, cursor, tables, polls, faults, crashes, history>>

(* A rejection of either goes through startIndexer to the callback of      *)
(* listen, where it is an unhandled rejection, which is logged and nothing *)
(* more: the server keeps answering, without an indexer and without the    *)
(* expiry job.                                                             *)
StartupFails ==
    /\ startup = "setup"
    /\ Fault
    /\ startup' = "failed"
    /\ UNCHANGED <<cursor, tables, polls, history>>

(* A poll reads the cursor.  startIndexer awaits the first one before it   *)
(* starts the timer, which starts one whether or not others are in flight. *)
StartPoll(p) ==
    /\ polls[p].pc = "idle"
    /\ \/ startup = "running"
       \/ startup = "first" /\ \A q \in Pollers : polls[q].pc = "idle"
    /\ polls' = [polls EXCEPT ![p] = [IdlePoll EXCEPT !.pc = "asked",
                                                      !.at = cursor + 1]]
    /\ UNCHANGED <<chain, cursor, tables, startup, faults, crashes, history>>

(* Faulty: assumes a full page.                                            *)
ReceiveFullPage(p) ==
    /\ polls[p].pc = "asked"
    /\ polls[p].at <= Len(chain)
    /\ polls' = [polls EXCEPT ![p].pc = "write", ![p].attempt = 1,
                             ![p].last = polls[p].at + LIMIT - 1]
    /\ UNCHANGED <<chain, cursor, tables, startup, faults, crashes, history>>

(* getEvents answers with at most LIMIT events after the cursor.           *)
Receive(p) ==
    LET newest == IF Len(chain) < polls[p].at + LIMIT THEN Len(chain)
                  ELSE polls[p].at + LIMIT - 1
    IN  /\ polls[p].pc = "asked"
        /\ IF newest < polls[p].at
           THEN Done(p)
           ELSE /\ polls' = [polls EXCEPT ![p].pc = "write",
                               ![p].last = newest, ![p].attempt = 1]
                /\ UNCHANGED startup
        /\ UNCHANGED <<chain, cursor, tables, faults, crashes, history>>

(* Faulty: ON CONFLICT DO NOTHING.                                         *)
UpsertedOnce(id, flag) ==
    IF id \in DOMAIN campaignRows THEN campaignRows
    ELSE Put(campaignRows, id,
             [active |-> flag, expiration |-> 0, deleted |-> FALSE])

Upserted(id, flag) ==
    Put(campaignRows, id,
        IF id \in DOMAIN campaignRows
        THEN [campaignRows[id] EXCEPT !.active = flag]
        ELSE [active |-> flag, expiration |-> 0, deleted |-> FALSE])

(* Faulty: no conflict on the transaction hash is seen.                    *)
HasRewardNever(i) == FALSE

HasReward(i) == \E k \in DOMAIN rewardRows : rewardRows[k] = i

(* The unique pair and the reference to the campaign are constraints of    *)
(* the rewards table; a conflict on the transaction hash is ignored.       *)
InsertRefused(i) ==
    /\ chain[i].kind = "RWD_CLM"
    /\ ~HasReward(i)
    /\ \/ <<chain[i].user, chain[i].campaign>> \in DOMAIN rewardRows
       \/ chain[i].campaign \notin DOMAIN campaignRows

(* The first write of processEvent.                                        *)
WriteEvent(p) ==
    LET i == polls[p].at
        e == chain[i]
    IN  /\ polls[p].pc = "write"
        /\ ~InsertRefused(i)
        /\ campaignRows' =
             CASE e.kind = "CAM_CRT" -> Upserted(e.campaign, TRUE)
               [] e.kind = "CAM_DEACT" -> Upserted(e.campaign, FALSE)
               [] OTHER -> campaignRows
        /\ rewardRows' =
             IF e.kind = "RWD_CLM" /\ ~HasReward(i)
             THEN Put(rewardRows, <<e.user, e.campaign>>, i) ELSE rewardRows
        /\ Goto(p, "record")
        /\ UNCHANGED <<chain, cursor, recorded, deadLetters, startup, faults,
                       crashes, history>>

NextEvent(p) ==
    polls' = IF polls[p].at < polls[p].last
             THEN [polls EXCEPT ![p].pc = "write", ![p].at = @ + 1,
                                ![p].attempt = 1]
             ELSE [polls EXCEPT ![p].pc = "commit"]

RecordTransaction(p) ==
    /\ polls[p].pc = "record"
    /\ recorded' = recorded \cup {polls[p].at}
    /\ NextEvent(p)
    /\ UNCHANGED <<chain, cursor, campaignRows, rewardRows, deadLetters,
                   startup, faults, crashes, history>>

(* Faulty: retries without a bound.                                        *)
RetryForever(p) == polls' = [polls EXCEPT ![p].pc = "write"]

(* processEventWithRetry: the whole event again, or the dead letter.       *)
Retry(p) ==
    polls' = IF polls[p].attempt < MAX_EVENT_RETRIES
             THEN [polls EXCEPT ![p].pc = "write", ![p].attempt = @ + 1]
             ELSE [polls EXCEPT ![p].pc = "bury"]

(* Faulty: the unique violation is swallowed.                              *)
WriteRefusedSwallowed(p) ==
    /\ polls[p].pc = "write"
    /\ InsertRefused(polls[p].at)
    /\ Goto(p, "record")
    /\ UNCHANGED <<chain, cursor, tables, startup, faults, crashes, history>>

WriteRefused(p) ==
    /\ polls[p].pc = "write"
    /\ InsertRefused(polls[p].at)
    /\ Retry(p)
    /\ UNCHANGED <<chain, cursor, tables, startup, faults, crashes, history>>

DatabaseFails(p) ==
    /\ polls[p].pc \in {"write", "record"}
    /\ Fault
    /\ Retry(p)
    /\ UNCHANGED <<cursor, tables, startup, history>>

DeadLetterEvent(p) ==
    /\ polls[p].pc = "bury"
    /\ deadLetters' = deadLetters \cup {polls[p].at}
    /\ NextEvent(p)
    /\ UNCHANGED <<chain, cursor, campaignRows, rewardRows, recorded, startup,
                   faults, crashes, history>>

(* A failure to write the dead letter is logged and the poll goes on.      *)
DeadLetterFails(p) ==
    /\ polls[p].pc = "bury"
    /\ Fault
    /\ dropped' = dropped \cup {polls[p].at}
    /\ NextEvent(p)
    /\ UNCHANGED <<cursor, tables, startup, patched>>

(* Faulty: saves the tip of the chain instead of the last event received.  *)
SaveCheckpointAtTip(p) ==
    /\ polls[p].pc = "commit"
    /\ cursor' = Len(chain)
    /\ Done(p)
    /\ UNCHANGED <<chain, tables, faults, crashes, history>>

SaveCheckpoint(p) ==
    /\ polls[p].pc = "commit"
    /\ cursor' = polls[p].last
    /\ Done(p)
    /\ UNCHANGED <<chain, tables, faults, crashes, history>>

(* getEvents or the checkpoint fails: the poll sleeps, then ends.          *)
PollFails(p) ==
    /\ polls[p].pc \in {"asked", "commit"}
    /\ Fault
    /\ Goto(p, "backoff")
    /\ UNCHANGED <<cursor, tables, startup, history>>

BackoffEnds(p) ==
    /\ polls[p].pc = "backoff"
    /\ Done(p)
    /\ UNCHANGED <<chain, cursor, tables, faults, crashes, history>>

(* A process whose start failed may be restarted beyond the bound: its     *)
(* failure was counted as a fault.                                         *)
Restart ==
    /\ \/ crashes < MaxCrashes /\ crashes' = crashes + 1
       \/ startup = "failed" /\ UNCHANGED crashes
    /\ polls' = [p \in Pollers |-> IdlePoll]
    /\ startup' = "setup"
    /\ UNCHANGED <<chain, cursor, tables, faults, history>>

-----------------------------------------------------------------------------
(* The other writers.  REST requests are answered from the moment the      *)
(* server listens, whatever becomes of startIndexer.                       *)

others == <<chain, cursor, recorded, deadLetters, polls, startup, faults,
            crashes, dropped>>

(* PATCH /campaigns/:id by the owner.  The row is read before it is        *)
(* updated, and the update does not look at deleted_at again: a request    *)
(* that read the row in time deactivates it after its deletion too.        *)
DeactivateCampaign(id) ==
    /\ id \in DOMAIN campaignRows
    /\ campaignRows' = [campaignRows EXCEPT ![id].active = FALSE]
    /\ patched' = patched \cup {id}
    /\ UNCHANGED <<others, rewardRows>>

(* DELETE /campaigns/:id and POST /campaigns/:id/restore.                  *)
SoftDelete(id, flag) ==
    /\ id \in DOMAIN campaignRows /\ campaignRows[id].deleted # flag
    /\ campaignRows' = [campaignRows EXCEPT ![id].deleted = flag]
    /\ UNCHANGED <<others, rewardRows, patched>>

(* POST /user/:address/rewards/claim: a row without a transaction hash.    *)
CreateRewardClaim(user, id) ==
    /\ id \in DOMAIN campaignRows
    /\ <<user, id>> \notin DOMAIN rewardRows
    /\ rewardRows' = Put(rewardRows, <<user, id>>, 0)
    /\ UNCHANGED <<others, campaignRows, patched>>

Expirable(row) == row.active /\ row.expiration < Today /\ ~row.deleted

(* index.ts starts the job after startIndexer has resolved.                *)
DeactivateExpiredCampaigns ==
    /\ startup = "running"
    /\ \E id \in DOMAIN campaignRows : Expirable(campaignRows[id])
    /\ campaignRows' =
         [id \in DOMAIN campaignRows |->
            IF Expirable(campaignRows[id])
            THEN [campaignRows[id] EXCEPT !.active = FALSE]
            ELSE campaignRows[id]]
    /\ UNCHANGED <<others, rewardRows, patched>>

-----------------------------------------------------------------------------
(* What a poll does when nothing but the data stops it.                    *)
PollStep(p) ==
    \/ StartPoll(p)
    \/ Receive(p)
    \/ WriteEvent(p)
    \/ WriteRefused(p)
    \/ RecordTransaction(p)
    \/ DeadLetterEvent(p)
    \/ SaveCheckpoint(p)
    \/ BackoffEnds(p)

Trouble ==
    \/ \E p \in Pollers : DatabaseFails(p) \/ DeadLetterFails(p) \/ PollFails(p)
    \/ StartupFails
    \/ Restart

OtherWriters ==
    \/ \E id \in Campaigns : DeactivateCampaign(id)
    \/ \E id \in Campaigns, flag \in BOOLEAN : SoftDelete(id, flag)
    \/ \E u \in Users, id \in Campaigns : CreateRewardClaim(u, id)
    \/ DeactivateExpiredCampaigns

Next ==
    \/ \E e \in Event : Emit(e)
    \/ EnsureTables
    \/ \E p \in Pollers : PollStep(p)
    \/ Trouble
    \/ OtherWriters

(* The timer keeps firing and calls that are not rejected are answered.    *)
Spec ==
    /\ Init /\ [][Next]_vars
    /\ WF_vars(EnsureTables)
    /\ \A p \in Pollers : WF_vars(PollStep(p))

-----------------------------------------------------------------------------
(* Properties.                                                             *)

(* Every table holds what its columns allow.                               *)
IndexerTypeOK ==
    /\ chain \in Seq(Event)
    /\ cursor \in 0 .. Len(chain)
    /\ DOMAIN campaignRows \subseteq Campaigns
    /\ \A id \in DOMAIN campaignRows : campaignRows[id] \in CampaignRow
    /\ DOMAIN rewardRows \subseteq Users \X Campaigns
    /\ \A k \in DOMAIN rewardRows : rewardRows[k] \in 0 .. Len(chain)
    /\ recorded \cup deadLetters \cup dropped \subseteq DOMAIN chain
    /\ startup \in Startups
    /\ \A p \in Pollers :
         /\ polls[p].pc \in Stages
         /\ polls[p].at \in 0 .. Len(chain) + 1
         /\ polls[p].last \in 0 .. Len(chain)
         /\ polls[p].attempt \in 0 .. MAX_EVENT_RETRIES

Handled(i) == i \in recorded \cup deadLetters \cup dropped

(* No gap: whatever the restarts, the failures and the overlapping polls,  *)
(* every event up to the saved cursor went through processEventWithRetry.  *)
CursorCoversHandled == \A i \in 1 .. cursor : Handled(i)

(* A claim recorded in transactions has its row in rewards, under its own  *)
(* transaction hash; no other row bears that hash; and the campaign exists.*)
RowsOfClaims ==
    /\ \A i \in recorded : chain[i].kind = "RWD_CLM" =>
         /\ <<chain[i].user, chain[i].campaign>> \in DOMAIN rewardRows
         /\ rewardRows[<<chain[i].user, chain[i].campaign>>] = i
    /\ \A k \in DOMAIN rewardRows :
         /\ k[2] \in DOMAIN campaignRows
         /\ rewardRows[k] # 0 => chain[rewardRows[k]] =
               [kind |-> "RWD_CLM", user |-> k[1], campaign |-> k[2]]

(* An event that is dead-lettered without any fault is a claim whose row   *)
(* the REST claim inserted first: nothing else makes the database refuse.  *)
RefusedOnlyByRestClaim ==
    faults = 0 => \A i \in deadLetters :
        /\ chain[i].kind = "RWD_CLM"
        /\ <<chain[i].user, chain[i].campaign>> \in DOMAIN rewardRows
        /\ rewardRows[<<chain[i].user, chain[i].campaign>>] = 0

(* Claims on chain, reward rows, transactions and dead letters agree,      *)
(* however polls, REST claims, faults and restarts interleave.             *)
ClaimsAreConsistent == RowsOfClaims /\ RefusedOnlyByRestClaim

(* A campaign whose deactivation lies behind the cursor is inactive in the *)
(* table, unless that event was given up.  It holds as long as polls do    *)
(* not overlap; the comment of poll() takes it for granted: "a crash       *)
(* mid-batch may re-deliver some events, which is safe because service     *)
(* upserts are idempotent".                                                *)
MirrorsDeactivation ==
    \A i \in 1 .. cursor :
        (chain[i].kind = "CAM_DEACT" /\ i \notin deadLetters \cup dropped)
            => ~campaignRows[chain[i].campaign].active

(* Every event of the chain is handled in the end: no event, however bad,  *)
(* blocks those behind it, and no failed poll stops the timer.  The one    *)
(* exception is a process whose startIndexer was rejected and which nobody *)
(* restarts: nothing in it tries again.                                    *)
EventsAreHandled ==
    \/ <>[](startup = "failed")
    \/ \A i \in 1 .. MaxEvents : i <= Len(chain) ~> Handled(i)

-----------------------------------------------------------------------------
(* A statement of a comment.                                               *)

(* The comment of deactivateExpiredCampaigns: it deactivates "campaigns    *)
(* whose expiration timestamp is in the past".  An indexed row is inactive *)
(* only after its campaign was deactivated or has expired.                 *)
ExpiredOnly ==
    \A id \in DOMAIN campaignRows :
        ~campaignRows[id].active =>
            \/ Emitted("CAM_DEACT", id)
            \/ id \in patched
            \/ OnChainExpiry < Today
=============================================================================
