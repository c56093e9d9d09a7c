----------------------------- MODULE CampaignApi -----------------------------
(***************************************************************************)
(* The REST handlers over the campaigns and rewards tables                 *)
(* (backend/src/routes, backend/src/services), the Redis caches they keep, *)
(* merchant sign-in, and the shutdown of the process                       *)
(* (backend/src/index.ts).                                                 *)
(*                                                                         *)
(* Every request has a slot of Requests; the code between two awaits is    *)
(* one action and a rejected await takes the handler's catch path.         *)
(* Requests turned away before their first await (validation, limiters,    *)
(* requireAuth) change nothing and are left out.  Postgres runs at READ    *)
(* COMMITTED: a row written by an open transaction is locked until the     *)
(* transaction ends, and others see it as it was before.                   *)
(***************************************************************************)
EXTENDS MerchantAuth, FiniteSetsExt, Functions

CONSTANTS
    MaxRequests,    \* bound on the requests
    Workloads,      \* bounds: how many requests of each operation, ticks,
                    \* faults and restarts happen together
    Filters,        \* filters that GET /campaigns is asked for
    SeedRows,       \* campaigns the indexer stored before time 0
    Orders,         \* bodies of PATCH /campaigns/reorder
    Users,          \* addresses that claim
    LIST_TTL,       \* a minute
    CACHE_TTL       \* five minutes

Campaign ==
    [owner : Merchants, active : BOOLEAN, deleted : BOOLEAN, order : Nat]

(* The filters, as far as they tell campaigns apart.                       *)
CampaignFilters == [status : {"any", "active", "inactive"},
                    owner : Merchants \cup {"any"}]

Everything == [status |-> "any", owner |-> "any"]

(* The indexer's ids count up from 0 or 1; those of POST are times in      *)
(* milliseconds.                                                           *)
ASSUME ApiConstants ==
    /\ MaxRequests \in Nat
    /\ Filters \subseteq CampaignFilters
    /\ DOMAIN SeedRows \subseteq 0..999
    /\ \A id \in DOMAIN SeedRows : SeedRows[id] \in Campaign
    /\ Orders \subseteq Seq(Nat)
    /\ LIST_TTL \in Nat \ {0} /\ CACHE_TTL \in Nat \ {0}
    /\ \A w \in Workloads : w \in [DOMAIN w -> Nat]

VARIABLES
    workload,       \* the workload in use
    req,            \* each request: operation, next step, answer, locals
    campaigns,      \* table campaigns, by id
    audit,          \* table audit_logs: ids with a campaign.create entry
    users,          \* table users
    rewards,        \* table rewards: <<user, campaign>> pairs
    transactions,   \* table transactions: the indexer's entries for a user
    cache,          \* Redis: cached lists and analytics report, by key
    server,         \* "up", "closing" (server.close was called), "down"
    faults,
    \* History variables, read by the properties only.
    writtenAt,      \* times of the table writes, in order
    purging,        \* position of the last write that invalidates the lists
    purgeLost       \* an invalidation failed or was cut off

Requests == 1..MaxRequests

tables == <<campaigns, audit, users, rewards, transactions>>
written == <<writtenAt, purging>>
apiVars == <<workload, req, tables, cache, server, faults, written, purgeLost>>
vars == <<authVars, apiVars>>

(* How often op may happen.                                                *)
Share(op) == IF op \in DOMAIN workload THEN workload[op] ELSE 0

(* A slot without a request.  locks are the rows its transaction holds,    *)
(* moved counts the display orders it wrote and has not committed, parts   *)
(* holds what its queries read.  before is history: what the table it      *)
(* reads had when it arrived.                                              *)
NoRequest ==
    [op |-> "none", pc |-> "new", status |-> 0, who |-> "any", id |-> 0,
     filter |-> Everything, list |-> <<>>, read |-> 0, hit |-> FALSE,
     order |-> <<>>, moved |-> 0, locks |-> {}, keys |-> {},
     parts |-> <<>>, before |-> {}]

(* Where the secret comes from matters after a restart only.               *)
ApiInit ==
    /\ AuthInit
    /\ workload \in Workloads
    /\ Share("restart") = 0 => secretInEnv
    /\ req = [r \in Requests |-> NoRequest]
    /\ campaigns = SeedRows
    /\ audit = DOMAIN SeedRows
    /\ users = {} /\ rewards = {} /\ transactions = {}
    /\ cache = <<>>
    /\ server = "up"
    /\ faults = 0
    /\ writtenAt = <<>> /\ purging = 0 /\ purgeLost = FALSE

-----------------------------------------------------------------------------
(* Steps of a handler.                                                     *)

(* Request r arrives and its handler runs up to its first await.           *)
Arrive(r, op, state) ==
    /\ Cardinality({q \in Requests : req[q].op = op}) < Share(op)
    /\ server = "up"
    /\ req[r].pc = "new"
    /\ \A q \in 1..(r - 1) : req[q].pc # "new"
    /\ req' = [req EXCEPT ![r] = [state EXCEPT !.op = op]]
    /\ UNCHANGED <<authVars, workload, tables, cache, server, faults, written,
                   purgeLost>>

At(r, op, pc) == req[r].op = op /\ req[r].pc = pc

Goto(r, pc) == req' = [req EXCEPT ![r].pc = pc]

Answer(r, status) ==
    req' = [req EXCEPT ![r].pc = "done", ![r].status = status,
                       ![r].locks = {}]

Quiet == UNCHANGED <<authVars, workload, server, faults, purgeLost>>

OnlyRequest == Quiet /\ UNCHANGED <<tables, cache, written>>

Locked(id) == \E q \in Requests : id \in req[q].locks

(* A committed statement that writes campaigns.                            *)
LogWrite == writtenAt' = Append(writtenAt, clock)

WriteCampaigns(rows) == campaigns' = rows /\ LogWrite

(* f with the value v at x.                                                *)
Set(f, x, v) == [y \in DOMAIN f \cup {x} |-> IF y = x THEN v ELSE f[y]]

-----------------------------------------------------------------------------
(* GET /campaigns and GET /analytics/campaigns: Redis first, then the      *)
(* queries, then Redis again.                                              *)

Reads(r, pc) == req[r].op \in {"list", "report"} /\ req[r].pc = pc

(* Faulty: the status is left out of the key too.                          *)
CacheKeyOfNothing(f) == "any"

(* The key has the filters but the owner.                                  *)
CacheKey(f) == f.status

Key(r) == IF req[r].op = "report" THEN "report" ELSE CacheKey(req[r].filter)

Matching(f) ==
    {id \in DOMAIN campaigns :
        LET c == campaigns[id] IN
        /\ ~c.deleted
        /\ f.status # "any" => c.active = (f.status = "active")
        /\ f.owner # "any" => c.owner = f.owner}

ListCampaigns(r, f) ==
    Arrive(r, "list", [NoRequest EXCEPT !.pc = "get", !.filter = f])

GetCampaignAnalytics(r) ==
    Arrive(r, "report", [NoRequest EXCEPT !.pc = "get"])

CacheHit(r) ==
    /\ Reads(r, "get")
    /\ Key(r) \in DOMAIN cache
    /\ req' = [req EXCEPT ![r].pc = "done", ![r].status = 200,
                          ![r].list = cache[Key(r)].list, ![r].hit = TRUE]
    /\ OnlyRequest

CacheMiss(r) ==
    /\ Reads(r, "get")
    /\ Key(r) \notin DOMAIN cache
    /\ Goto(r, "select")
    /\ OnlyRequest

(* The query that fills the answer.                                        *)
Select(r) ==
    /\ Reads(r, "select")
    /\ req' = [req EXCEPT
                 ![r].pc = "count",
                 ![r].list = IF req[r].op = "report" THEN rewards
                             ELSE Restrict(campaigns, Matching(req[r].filter)),
                 ![r].read = Len(writtenAt)]
    /\ OnlyRequest

(* The other queries; their counts tell no two answers apart.              *)
Count(r) ==
    /\ Reads(r, "count")
    /\ Goto(r, "setex")
    /\ OnlyRequest

(* late and overtaken are history: the answer was already behind a write   *)
(* that invalidates, or any write, when it was stored.                     *)
Entry(r, ttl) ==
    [list |-> req[r].list, expires |-> clock + ttl, read |-> req[r].read,
     late |-> req[r].read < purging,
     overtaken |-> req[r].read < Len(writtenAt)]

(* Faulty: the entry does not expire.                                      *)
SetexForGood(r) ==
    /\ Reads(r, "setex")
    /\ cache' = Set(cache, Key(r), Entry(r, MaxTime + 1))
    /\ Answer(r, 200)
    /\ Quiet /\ UNCHANGED <<tables, written>>

Setex(r) ==
    /\ Reads(r, "setex")
    /\ cache' = Set(cache, Key(r),
                    Entry(r, IF req[r].op = "report" THEN CACHE_TTL
                             ELSE LIST_TTL))
    /\ Answer(r, 200)
    /\ Quiet /\ UNCHANGED <<tables, written>>

ListStep(r) ==
    CacheHit(r) \/ CacheMiss(r) \/ Select(r) \/ Count(r) \/ Setex(r)

-----------------------------------------------------------------------------
(* PATCH /campaigns/:id and POST /campaigns, behind requireAuth.           *)

DeactivateRequest(r, id, t) ==
    /\ Accepted(t)
    /\ Arrive(r, "patch", [NoRequest EXCEPT !.pc = "find", !.id = id,
                                            !.who = t.sub])

(* Faulty: the owner is not compared.                                      *)
FindCampaignOfAnyone(r) ==
    /\ At(r, "patch", "find")
    /\ IF req[r].id \notin Matching(Everything) THEN Answer(r, 404)
       ELSE Goto(r, "update")
    /\ OnlyRequest

(* The SELECT of deactivateCampaign.                                       *)
FindCampaign(r) ==
    /\ At(r, "patch", "find")
    /\ IF req[r].id \notin Matching(Everything) THEN Answer(r, 404)
       ELSE IF campaigns[req[r].id].owner # req[r].who THEN Answer(r, 403)
       ELSE Goto(r, "update")
    /\ OnlyRequest

(* Its UPDATE, which does not look at deleted_at again.                    *)
UpdateCampaign(r) ==
    /\ At(r, "patch", "update")
    /\ ~Locked(req[r].id)
    /\ WriteCampaigns([campaigns EXCEPT ![req[r].id].active = FALSE])
    /\ purging' = Len(writtenAt')
    /\ Goto(r, "keys")
    /\ Quiet /\ UNCHANGED <<audit, users, rewards, transactions, cache>>

(* POST takes the time for an id.  The indexer's ids are far below it.     *)
DateNow == 1000 + clock

CreateRequest(r, t) ==
    /\ Accepted(t)
    /\ Arrive(r, "post", [NoRequest EXCEPT !.pc = "insert", !.who = t.sub,
                                           !.id = DateNow])

(* The row POST asks for; on a conflict only the flag is overwritten.      *)
Upserted(id, who) ==
    Set(campaigns, id,
        IF id \in DOMAIN campaigns THEN [campaigns[id] EXCEPT !.active = TRUE]
        ELSE [owner |-> who, active |-> TRUE, deleted |-> FALSE, order |-> 0])

(* Faulty: no transaction around the two statements.                       *)
InsertCampaignAlone(r) ==
    /\ At(r, "post", "insert")
    /\ WriteCampaigns(Upserted(req[r].id, req[r].who))
    /\ Goto(r, "audit")
    /\ Quiet /\ UNCHANGED <<audit, users, rewards, transactions, cache,
                            purging>>

(* BEGIN and the INSERT of upsertCampaign.                                 *)
InsertCampaign(r) ==
    /\ At(r, "post", "insert")
    /\ ~Locked(req[r].id)
    /\ req' = [req EXCEPT ![r].pc = "audit", ![r].locks = {req[r].id}]
    /\ OnlyRequest

(* writeAuditLog and the COMMIT.                                           *)
CommitCampaign(r) ==
    /\ At(r, "post", "audit")
    /\ WriteCampaigns(Upserted(req[r].id, req[r].who))
    /\ audit' = audit \cup {req[r].id}
    /\ purging' = Len(writtenAt')
    /\ req' = [req EXCEPT ![r].pc = "keys", ![r].locks = {}]
    /\ Quiet /\ UNCHANGED <<users, rewards, transactions, cache>>

Success(r) == IF req[r].op = "post" THEN 201 ELSE 200

(* Faulty: looks for the keys of another prefix.                           *)
ReadKeysOfOthers(r) ==
    /\ req[r].pc = "keys"
    /\ Answer(r, Success(r))
    /\ OnlyRequest

(* Faulty: answers only if there was something to delete.                  *)
ReadKeysUnanswered(r) ==
    LET lists == DOMAIN cache \ {"report"} IN
    /\ req[r].pc = "keys"
    /\ lists # {}
    /\ req' = [req EXCEPT ![r].pc = "del", ![r].keys = lists]
    /\ OnlyRequest

(* KEYS campaigns:list:* ...                                               *)
ReadKeys(r) ==
    /\ req[r].pc = "keys"
    /\ LET lists == DOMAIN cache \ {"report"} IN
       IF lists = {} THEN Answer(r, Success(r))
       ELSE req' = [req EXCEPT ![r].pc = "del", ![r].keys = lists]
    /\ OnlyRequest

(* ... and DEL, another await later.                                       *)
DeleteKeys(r) ==
    /\ req[r].pc = "del"
    /\ cache' = Restrict(cache, DOMAIN cache \ req[r].keys)
    /\ Answer(r, Success(r))
    /\ Quiet /\ UNCHANGED <<tables, written>>

MerchantStep(r) ==
    \/ FindCampaign(r) \/ UpdateCampaign(r)
    \/ InsertCampaign(r) \/ CommitCampaign(r)
    \/ ReadKeys(r) \/ DeleteKeys(r)

-----------------------------------------------------------------------------
(* DELETE /campaigns/:id, POST /campaigns/:id/restore and PATCH /reorder:  *)
(* no requireAuth and no invalidation.                                     *)

DeleteRequest(r, id) ==
    Arrive(r, "delete", [NoRequest EXCEPT !.pc = "mark", !.id = id])

RestoreRequest(r, id) ==
    Arrive(r, "restore", [NoRequest EXCEPT !.pc = "mark", !.id = id])

(* softDeleteCampaign and restoreCampaign.  The routes name no actor, so   *)
(* nothing is audited.                                                     *)
MarkDeleted(r) ==
    LET id == req[r].id
        flag == req[r].op = "delete"
    IN  /\ req[r].pc = "mark"
        /\ ~Locked(id)
        /\ IF id \in DOMAIN campaigns /\ campaigns[id].deleted # flag
           THEN /\ WriteCampaigns([campaigns EXCEPT ![id].deleted = flag])
                /\ Answer(r, 200)
           ELSE /\ Answer(r, 404)
                /\ UNCHANGED <<campaigns, writtenAt>>
        /\ Quiet /\ UNCHANGED <<audit, users, rewards, transactions, cache,
                            purging>>

ReorderRequest(r, order) ==
    Arrive(r, "reorder", [NoRequest EXCEPT !.pc = "move", !.order = order])

(* The row the next UPDATE of r writes, and the requests it waits for.     *)
Moving(r) == At(r, "reorder", "move") /\ req[r].moved < Len(req[r].order)

NextRow(r) == req[r].order[req[r].moved + 1]

Waits(r, q) ==
    /\ q # r
    /\ Moving(r)
    /\ NextRow(r) \in DOMAIN campaigns \cap req[q].locks

(* The display order a body gives a row: the last one, if it lists it      *)
(* several times.                                                          *)
Place(order, id) ==
    Max({i \in DOMAIN order : order[i] = id}) - 1

(* Faulty: each UPDATE commits on its own.                                 *)
MoveCampaignAlone(r) ==
    /\ Moving(r)
    /\ WriteCampaigns([campaigns EXCEPT ![NextRow(r)].order = req[r].moved])
    /\ req' = [req EXCEPT ![r].moved = @ + 1]
    /\ Quiet /\ UNCHANGED <<audit, users, rewards, transactions, cache,
                            purging>>

(* One UPDATE of reorderCampaigns.  Of a row that is not there it writes   *)
(* nothing.                                                                *)
MoveCampaign(r) ==
    /\ Moving(r)
    /\ \A q \in Requests : ~Waits(r, q)
    /\ req' = [req EXCEPT ![r].moved = @ + 1,
                          ![r].locks = @ \cup ({NextRow(r)}
                                               \cap DOMAIN campaigns)]
    /\ OnlyRequest

CommitOrder(r) ==
    /\ At(r, "reorder", "move")
    /\ ~Moving(r)
    /\ WriteCampaigns([id \in DOMAIN campaigns |->
                         IF id \in req[r].locks
                         THEN [campaigns[id] EXCEPT !.order =
                                 Place(req[r].order, id)]
                         ELSE campaigns[id]])
    /\ Answer(r, 200)
    /\ Quiet /\ UNCHANGED <<audit, users, rewards, transactions, cache,
                            purging>>

(* Postgres ends one transaction of a cycle of waits; the handler rolls    *)
(* back and answers 500.                                                   *)
DeadlockDetected(r) ==
    /\ Moving(r)
    /\ \E S \in SUBSET Requests :
         /\ r \in S
         /\ \A p \in S : \E q \in S : Waits(p, q)
    /\ Answer(r, 500)
    /\ OnlyRequest

TableStep(r) ==
    \/ MarkDeleted(r)
    \/ MoveCampaign(r) \/ CommitOrder(r) \/ DeadlockDetected(r)

-----------------------------------------------------------------------------
(* POST /user/:address/rewards/claim.                                      *)

ClaimRequest(r, u, id) ==
    Arrive(r, "claim", [NoRequest EXCEPT !.pc = "user", !.who = u, !.id = id])

(* Faulty: the user is taken for known.                                    *)
SkipUser(r) == At(r, "claim", "user") /\ Goto(r, "reward") /\ OnlyRequest

InsertUser(r) ==
    /\ At(r, "claim", "user")
    /\ users' = users \cup {req[r].who}
    /\ LogWrite
    /\ Goto(r, "reward")
    /\ Quiet /\ UNCHANGED <<campaigns, audit, rewards, transactions, cache,
                            purging>>

(* Faulty: ON CONFLICT DO NOTHING in place of DuplicateClaimError.         *)
InsertRewardQuietly(r) ==
    /\ At(r, "claim", "reward")
    /\ IF req[r].id \notin DOMAIN campaigns
       THEN Answer(r, 500) /\ UNCHANGED <<rewards, writtenAt>>
       ELSE /\ rewards' = rewards \cup {<<req[r].who, req[r].id>>}
            /\ LogWrite
            /\ Answer(r, 201)
    /\ Quiet /\ UNCHANGED <<campaigns, audit, users, transactions, cache,
                            purging>>

(* A key violation of the INSERT is a 409, a missing campaign a 500.       *)
InsertReward(r) ==
    LET pair == <<req[r].who, req[r].id>> IN
    /\ At(r, "claim", "reward")
    /\ IF pair \in rewards \/ req[r].id \notin DOMAIN campaigns
       THEN /\ Answer(r, IF pair \in rewards THEN 409 ELSE 500)
            /\ UNCHANGED <<rewards, writtenAt>>
       ELSE /\ rewards' = rewards \cup {pair}
            /\ LogWrite
            /\ Answer(r, 201)
    /\ Quiet /\ UNCHANGED <<campaigns, audit, users, transactions, cache,
                            purging>>

ClaimStep(r) == InsertUser(r) \/ InsertReward(r)

-----------------------------------------------------------------------------
(* The reads without a cache: GET /user/:address/rewards and               *)
(* /user/:address/transactions, /analytics and /admin/audit-logs, each     *)
(* several queries on their own snapshots.  A page holds all the rows and  *)
(* a period all the claims.                                                *)

UncachedReads == {"rewards", "transactions", "analytics", "audit-logs"}

(* The queries of a handler.                                               *)
Queries(op) ==
    CASE op = "rewards" -> <<"rows", "rows again", "count">>
      [] op = "transactions" -> <<"rows", "count">>
      [] op = "analytics" -> <<"totals", "perCampaign", "overTime">>
      [] op = "audit-logs" -> <<"count", "rows">>

(* Promise.all: no order among them.                                       *)
Parallel == {"transactions", "analytics"}

(* Faulty: a reward is shown as long as its campaign is.                   *)
TableOfLive(op, who) ==
    CASE op = "rewards" -> {p \in rewards : /\ p[1] = who
                                            /\ p[2] \in Matching(Everything)}
      [] op = "transactions" -> transactions
      [] op = "analytics" -> rewards
      [] op = "audit-logs" -> audit

(* What a query would find now.                                            *)
Table(op, who) ==
    CASE op = "rewards" -> {p \in rewards : p[1] = who}
      [] op = "transactions" -> transactions
      [] op = "analytics" -> rewards
      [] op = "audit-logs" -> audit

ReadRequest(r, op, u) ==
    Arrive(r, op, [NoRequest EXCEPT !.pc = "query", !.who = u,
                                    !.before = Table(op, u)])

(* The queries r may have under way next.                                  *)
NextQueries(r) ==
    LET op == req[r].op
        left == {i \in DOMAIN Queries(op) :
                   Queries(op)[i] \notin DOMAIN req[r].parts}
    IN  {i \in left : op \in Parallel \/ \A j \in left : i <= j}

(* Query i of r found rows, which may allow an answer.  The first answer   *)
(* of GET rewards, after its first query, is the one that is sent.         *)
Found(r, i, rows, status) ==
    LET parts == Set(req[r].parts, Queries(req[r].op)[i], rows)
        last == Cardinality(DOMAIN parts) = Len(Queries(req[r].op))
        sends == last \/ req[r].op = "rewards"
    IN  req' = [req EXCEPT
                  ![r].parts = parts,
                  ![r].status = IF @ = 0 /\ sends THEN status ELSE @,
                  ![r].pc = IF last THEN "done" ELSE "query"]

Query(r) ==
    /\ req[r].pc = "query"
    /\ \E i \in NextQueries(r) :
         Found(r, i, Table(req[r].op, req[r].who), 200)
    /\ OnlyRequest

(* A query rejects.  GET rewards answers 500 and goes on, or has answered. *)
QueryFails(r) ==
    /\ req[r].pc = "query"
    /\ IF req[r].op = "rewards" /\ req[r].status = 0
       THEN Found(r, 1, {}, 500)
       ELSE Answer(r, IF req[r].status = 0 THEN 500 ELSE req[r].status)

(* The indexer records a transaction of a user.                            *)
RecordTransaction ==
    /\ Cardinality(transactions) < Share("record")
    /\ transactions' = transactions \cup {Cardinality(transactions) + 1}
    /\ UNCHANGED <<authVars, workload, req, campaigns, audit, users, rewards,
                   cache, server, faults, written, purgeLost>>

-----------------------------------------------------------------------------
(* Failures and the process.                                               *)

Fault == faults < Share("fault") /\ faults' = faults + 1

(* A Redis call rejects.  The campaign routes log it and go on, the        *)
(* analytics route answers 503.                                            *)
RedisFails(r) ==
    /\ Fault
    /\ req[r].pc \in {"get", "setex", "keys", "del"}
    /\ IF req[r].op = "report" THEN Answer(r, 503)
       ELSE IF req[r].pc = "get" THEN Goto(r, "select")
       ELSE Answer(r, Success(r))
    /\ purgeLost' = (purgeLost \/ req[r].pc \in {"keys", "del"})
    /\ UNCHANGED <<authVars, workload, tables, cache, server, written>>

(* Faulty: the error is not thrown again after the rollback.               *)
DatabaseFailsQuietly(r) ==
    /\ Fault
    /\ req[r].pc \in {"find", "update", "insert", "audit"}
    /\ Answer(r, Success(r))
    /\ UNCHANGED <<authVars, workload, tables, cache, server, written,
                   purgeLost>>

(* A statement rejects: an open transaction is rolled back.                *)
DatabaseFails(r) ==
    /\ Fault
    /\ \/ /\ req[r].pc \in {"select", "count", "find", "update", "insert",
                            "audit", "mark", "move", "user", "reward"}
          /\ Answer(r, IF req[r].op = "report" THEN 503 ELSE 500)
       \/ QueryFails(r)
    /\ UNCHANGED <<authVars, workload, tables, cache, server, written,
                   purgeLost>>

(* Time passes; Redis drops what expired.                                  *)
ApiTick ==
    /\ clock < Share("tick")
    /\ Tick
    /\ cache' = Restrict(cache, {k \in DOMAIN cache :
                                   clock' < cache[k].expires})
    /\ UNCHANGED <<workload, req, tables, server, faults, written, purgeLost>>

ApiSignIn ==
    /\ Share("sign-in") > 0
    /\ server = "up"
    /\ SignIn
    /\ UNCHANGED apiVars

(* SIGTERM: gracefulShutdown calls server.close ...                        *)
Shutdown ==
    /\ Share("shutdown") > 0
    /\ server = "up"
    /\ server' = "closing"
    /\ UNCHANGED <<authVars, workload, req, tables, cache, faults, written,
                   purgeLost>>

(* ... which waits for the requests to be answered, without the ten        *)
(* seconds' limit the next step announces; then the pool ends.             *)
ServerClosed ==
    /\ server = "closing"
    /\ \A r \in Requests : req[r].pc \in {"new", "done"}
    /\ server' = "down"
    /\ UNCHANGED <<authVars, workload, req, tables, cache, faults, written,
                   purgeLost>>

(* The process dies and another starts: its requests and transactions are  *)
(* gone, the tables and Redis stay.  Status 0 is a broken connection.      *)
ApiRestart ==
    /\ life < Share("restart")
    /\ Restart
    /\ req' = [r \in Requests |->
                 IF req[r].pc = "new" THEN req[r]
                 ELSE [req[r] EXCEPT !.pc = "done", !.locks = {}]]
    /\ purgeLost' = (purgeLost \/ \E r \in Requests :
                                    req[r].pc \in {"keys", "del"})
    /\ server' = "up"
    /\ UNCHANGED <<workload, tables, cache, faults, written>>

-----------------------------------------------------------------------------

Request(r) ==
    \/ \E f \in Filters : ListCampaigns(r, f)
    \/ GetCampaignAnalytics(r)
    \/ \E id \in DOMAIN SeedRows, t \in tokens : DeactivateRequest(r, id, t)
    \/ \E t \in tokens : CreateRequest(r, t)
    \/ \E id \in DOMAIN SeedRows :
         DeleteRequest(r, id) \/ RestoreRequest(r, id)
    \/ \E order \in Orders : ReorderRequest(r, order)
    \/ \E u \in Users, id \in DOMAIN SeedRows : ClaimRequest(r, u, id)
    \/ \E op \in UncachedReads, u \in Users : ReadRequest(r, op, u)

Step(r) ==
    \/ ListStep(r) \/ MerchantStep(r) \/ TableStep(r) \/ ClaimStep(r)
    \/ Query(r)

ApiNext ==
    \/ \E r \in Requests :
         Request(r) \/ Step(r) \/ RedisFails(r) \/ DatabaseFails(r)
    \/ RecordTransaction
    \/ ApiTick \/ ApiSignIn \/ Shutdown \/ ServerClosed \/ ApiRestart

(* The event loop runs every continuation, and every await settles.        *)
ApiSpec ==
    /\ ApiInit
    /\ [][ApiNext]_vars
    /\ \A r \in Requests : WF_vars(Step(r))
    /\ WF_vars(ServerClosed)

-----------------------------------------------------------------------------
(* Properties.                                                             *)

Answered(r, op) == req[r].op = op /\ req[r].pc = "done"

(* The tables keep their shape, and rows refer to rows.                    *)
ApiTypeOK ==
    /\ AuthTypeOK
    /\ \A id \in DOMAIN campaigns : campaigns[id] \in Campaign
    /\ \A pair \in rewards : pair[1] \in users /\ pair[2] \in DOMAIN campaigns
    /\ DOMAIN cache \subseteq {"any", "active", "inactive", "report"}
    /\ server \in {"up", "closing", "down"}
    /\ purging <= Len(writtenAt)

(* PATCH deactivates a campaign for its owner only: a request past the     *)
(* check, or answered 200, comes from the owner in the row, whatever       *)
(* other requests did between its SELECT and its UPDATE.                   *)
DeactivatedByOwner ==
    \A r \in Requests :
      req[r].op = "patch" /\ (req[r].pc \in {"update", "keys", "del"}
                              \/ req[r].status = 200)
        => campaigns[req[r].id].owner = req[r].who

(* A list answers the status it was asked for and never shows a deleted    *)
(* campaign as one; it answers the owner it was asked for too unless it    *)
(* came from the cache, whose key leaves the owner out.                    *)
AnswersMatchFilter ==
    \A r \in Requests :
      Answered(r, "list") /\ req[r].status = 200 =>
        \A id \in DOMAIN req[r].list :
          LET c == req[r].list[id]
              f == req[r].filter
          IN  /\ ~c.deleted
              /\ f.status # "any" => c.active = (f.status = "active")
              /\ f.owner # "any" /\ ~req[r].hit => c.owner = f.owner

(* Once the PATCH and POST requests under way are answered, a cached list  *)
(* from before the last of their writes was stored after that write, by a  *)
(* request that had read before it: the invalidation misses nothing else,  *)
(* unless it failed.                                                       *)
StaleOnlyByRace ==
    \/ purgeLost
    \/ \E r \in Requests : req[r].pc \in {"keys", "del"}
    \/ \A k \in DOMAIN cache \ {"report"} :
         cache[k].read < purging => cache[k].late

(* A cached answer that was current when stored hides a later write, one   *)
(* of the handlers that never invalidate included, for less than its time  *)
(* to live.                                                                *)
BoundedStaleness ==
    \A k \in DOMAIN cache :
      LET e == cache[k]
          ttl == IF k = "report" THEN CACHE_TTL ELSE LIST_TTL
      IN  e.read < Len(writtenAt) /\ ~e.overtaken
            => clock < writtenAt[e.read + 1] + ttl

(* What the caches may get wrong, and nothing else.                        *)
CachesAreHonest == AnswersMatchFilter /\ StaleOnlyByRace /\ BoundedStaleness

(* The display orders in the table are those of one request, whatever the  *)
(* interleaving of the UPDATEs of several, their deadlocks and failures.   *)
OrderIsOneRequest ==
    LET changed == {r \in Requests : Answered(r, "reorder")
                                     /\ req[r].status = 200} IN
    IF changed = {}
    THEN \A id \in DOMAIN SeedRows : campaigns[id].order = SeedRows[id].order
    ELSE \E r \in changed :
           \A id \in DOMAIN SeedRows \cap Range(req[r].order) :
             campaigns[id].order = Place(req[r].order, id)

(* A campaign is in the table exactly if its creation is in the audit log. *)
AuditedCreates == DOMAIN campaigns = audit

(* A campaign that POST /campaigns answered 201 for is in the table, as    *)
(* its creator's, unless another POST took the same millisecond.           *)
CreatesAreKept ==
    \A r \in Requests :
      Answered(r, "post") /\ req[r].status = 201 =>
        /\ req[r].id \in DOMAIN campaigns
        /\ \/ campaigns[req[r].id].owner = req[r].who
           \/ \E q \in Requests \ {r} :
                /\ req[q].op = "post" /\ req[q].id = req[r].id
                /\ campaigns[req[r].id].owner = req[q].who

(* Of the claims of one user on one campaign at most one is answered 201,  *)
(* and only a stored reward makes a claim a duplicate.                     *)
OneClaimGranted ==
    /\ \A r, q \in Requests :
         /\ Answered(r, "claim") /\ Answered(q, "claim")
         /\ req[r].status = 201 /\ req[q].status = 201
         /\ req[r].who = req[q].who /\ req[r].id = req[q].id
         => r = q
    /\ \A r \in Requests :
         Answered(r, "claim") /\ req[r].status \in {201, 409} =>
           <<req[r].who, req[r].id>> \in rewards

(* What an answer to a write says is so, in the tables and to the others.  *)
AnswersAreTrue ==
    /\ DeactivatedByOwner /\ OrderIsOneRequest
    /\ CreatesAreKept /\ OneClaimGranted

(* An uncached read misses nothing that was there when it was sent and     *)
(* invents nothing, in every one of its queries, whatever is written,      *)
(* deleted or restored meanwhile: a claim answered 201 is in the user's    *)
(* next list though its campaign was deleted, and counts and rows of one   *)
(* answer differ by what was written while it ran and no more.             *)
ReadsAreFresh ==
    \A r \in Requests :
      req[r].op \in UncachedReads /\ req[r].status = 200 =>
        \A q \in DOMAIN req[r].parts :
          /\ req[r].before \subseteq req[r].parts[q]
          /\ req[r].parts[q] \subseteq Table(req[r].op, req[r].who)

(* Every request is answered, row locks, deadlocks and failures            *)
(* notwithstanding, or its connection is broken.                           *)
RequestsAnswered ==
    \A r \in Requests : req[r].op # "none" ~> req[r].pc = "done"
=============================================================================
