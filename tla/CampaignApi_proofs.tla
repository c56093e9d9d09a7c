------------------------- MODULE CampaignApi_proofs -------------------------
(***************************************************************************)
(* Proofs about the REST handlers, for any number of requests in any       *)
(* interleaving, with failures, deadlocks, shutdowns and restarts: the     *)
(* audit log has exactly the campaigns in the table, sign-ins keep their   *)
(* promise, the tables keep their shape, what an answer to a write says is *)
(* so, the caches hide no more than their invalidation and time to live    *)
(* allow, and reads without a cache are current.                           *)
(*                                                                         *)
(* The first part says what each kind of step does to the requests, field  *)
(* by field, and to the tables; the theorems combine these lemmas.         *)
(***************************************************************************)
EXTENDS CampaignApi, MerchantAuth_proofs, FiniteSetTheorems,
        WellFoundedInduction

-----------------------------------------------------------------------------
(* What the steps do to the two tables.                                    *)

(* A request that arrives writes no table.                                 *)
LEMMA RequestWrites ==
    ASSUME NEW r \in Requests, Request(r)
    PROVE  UNCHANGED <<campaigns, audit>>
<1>1. ASSUME NEW op, NEW state, Arrive(r, op, state)
      PROVE  UNCHANGED <<campaigns, audit>>
  BY <1>1 DEF Arrive, tables
<1>2. ASSUME \E f \in Filters : ListCampaigns(r, f)
      PROVE  UNCHANGED <<campaigns, audit>>
  BY <1>1, <1>2 DEF ListCampaigns
<1>3. ASSUME GetCampaignAnalytics(r)
      PROVE  UNCHANGED <<campaigns, audit>>
  BY <1>1, <1>3 DEF GetCampaignAnalytics
<1>4. ASSUME \E id \in DOMAIN SeedRows, t \in tokens :
               DeactivateRequest(r, id, t)
      PROVE  UNCHANGED <<campaigns, audit>>
  BY <1>1, <1>4 DEF DeactivateRequest
<1>5. ASSUME \E t \in tokens : CreateRequest(r, t)
      PROVE  UNCHANGED <<campaigns, audit>>
  BY <1>1, <1>5 DEF CreateRequest
<1>6. ASSUME \E id \in DOMAIN SeedRows :
               DeleteRequest(r, id) \/ RestoreRequest(r, id)
      PROVE  UNCHANGED <<campaigns, audit>>
  BY <1>1, <1>6 DEF DeleteRequest, RestoreRequest
<1>7. ASSUME \E order \in Orders : ReorderRequest(r, order)
      PROVE  UNCHANGED <<campaigns, audit>>
  BY <1>1, <1>7 DEF ReorderRequest
<1>8. ASSUME \E u \in Users, id \in DOMAIN SeedRows : ClaimRequest(r, u, id)
      PROVE  UNCHANGED <<campaigns, audit>>
  BY <1>1, <1>8 DEF ClaimRequest
<1>9. ASSUME \E op \in UncachedReads, u \in Users : ReadRequest(r, op, u)
      PROVE  UNCHANGED <<campaigns, audit>>
  BY <1>1, <1>9 DEF ReadRequest
<1> QED
  BY <1>2, <1>3, <1>4, <1>5, <1>6, <1>7, <1>8, <1>9 DEF Request

(* Of the handlers' steps four write campaigns, and only the COMMIT of     *)
(* upsertCampaign adds a row or an entry of the log: it adds both.         *)
LEMMA StepWrites ==
    ASSUME NEW r \in Requests, Step(r)
    PROVE  \/ UNCHANGED audit /\ DOMAIN campaigns' = DOMAIN campaigns
           \/ /\ audit' = audit \cup {req[r].id}
              /\ DOMAIN campaigns' = DOMAIN campaigns \cup {req[r].id}
<1>1. ASSUME ListStep(r) PROVE UNCHANGED <<campaigns, audit>>
  BY <1>1 DEF ListStep, CacheHit, CacheMiss, Select, Count, Setex,
              OnlyRequest, tables
<1>2. ASSUME ClaimStep(r) PROVE UNCHANGED <<campaigns, audit>>
  BY <1>2 DEF ClaimStep, InsertUser, InsertReward
<1>3. ASSUME Query(r) PROVE UNCHANGED <<campaigns, audit>>
  BY <1>3 DEF Query, OnlyRequest, tables
<1>4. ASSUME FindCampaign(r) \/ InsertCampaign(r) \/ ReadKeys(r)
             \/ DeleteKeys(r)
      PROVE  UNCHANGED <<campaigns, audit>>
  BY <1>4 DEF FindCampaign, InsertCampaign, ReadKeys, DeleteKeys,
              OnlyRequest, tables
<1>5. ASSUME UpdateCampaign(r)
      PROVE  UNCHANGED audit /\ DOMAIN campaigns' = DOMAIN campaigns
  BY <1>5 DEF UpdateCampaign, WriteCampaigns
<1>6. ASSUME CommitCampaign(r)
      PROVE  /\ audit' = audit \cup {req[r].id}
             /\ DOMAIN campaigns' = DOMAIN campaigns \cup {req[r].id}
  BY <1>6 DEF CommitCampaign, WriteCampaigns, Upserted, Set
<1>7. ASSUME MarkDeleted(r)
      PROVE  UNCHANGED audit /\ DOMAIN campaigns' = DOMAIN campaigns
  BY <1>7 DEF MarkDeleted, WriteCampaigns
<1>8. ASSUME MoveCampaign(r) \/ DeadlockDetected(r)
      PROVE  UNCHANGED <<campaigns, audit>>
  BY <1>8 DEF MoveCampaign, DeadlockDetected, OnlyRequest, tables
<1>9. ASSUME CommitOrder(r)
      PROVE  UNCHANGED audit /\ DOMAIN campaigns' = DOMAIN campaigns
  BY <1>9 DEF CommitOrder, WriteCampaigns
<1> QED
  BY <1>1, <1>2, <1>3, <1>4, <1>5, <1>6, <1>7, <1>8, <1>9
     DEF Step, MerchantStep, TableStep

(* Failures, time, sign-ins, shutdown and restart write no table.          *)
LEMMA OthersWrite ==
    ASSUME \/ \E r \in Requests : RedisFails(r) \/ DatabaseFails(r)
           \/ RecordTransaction
           \/ ApiTick \/ ApiSignIn \/ Shutdown \/ ServerClosed \/ ApiRestart
    PROVE  UNCHANGED <<campaigns, audit>>
<1>1. ASSUME NEW r \in Requests, RedisFails(r) \/ DatabaseFails(r)
      PROVE  UNCHANGED <<campaigns, audit>>
  BY <1>1 DEF RedisFails, DatabaseFails, tables
<1>2. ASSUME RecordTransaction PROVE UNCHANGED <<campaigns, audit>>
  BY <1>2 DEF RecordTransaction
<1>3. ASSUME ApiTick \/ ApiSignIn \/ Shutdown \/ ServerClosed \/ ApiRestart
      PROVE  UNCHANGED <<campaigns, audit>>
  BY <1>3 DEF ApiTick, ApiSignIn, Shutdown, ServerClosed, ApiRestart,
              apiVars, tables
<1> QED
  BY <1>1, <1>2, <1>3

-----------------------------------------------------------------------------
(* A campaign is in the table exactly if its creation is in the log,       *)
(* whatever fails, is cut off or runs at the same time.                    *)
THEOREM CreatesAudited == ApiSpec => []AuditedCreates
<1>1. ApiInit => AuditedCreates
  BY DEF ApiInit, AuditedCreates
<1>2. AuditedCreates /\ [ApiNext]_vars => AuditedCreates'
  <2> SUFFICES ASSUME AuditedCreates, [ApiNext]_vars PROVE AuditedCreates'
    OBVIOUS
  <2>1. ASSUME NEW r \in Requests, Request(r) PROVE AuditedCreates'
    BY <2>1, RequestWrites DEF AuditedCreates
  <2>2. ASSUME NEW r \in Requests, Step(r) PROVE AuditedCreates'
    BY <2>2, StepWrites DEF AuditedCreates
  <2>3. ASSUME \/ \E r \in Requests : RedisFails(r) \/ DatabaseFails(r)
               \/ RecordTransaction
               \/ ApiTick \/ ApiSignIn \/ Shutdown \/ ServerClosed
               \/ ApiRestart
        PROVE  AuditedCreates'
    BY <2>3, OthersWrite DEF AuditedCreates
  <2>4. CASE UNCHANGED vars
    BY <2>4 DEF vars, apiVars, tables, AuditedCreates
  <2> QED
    BY <2>1, <2>2, <2>3, <2>4 DEF ApiNext
<1> QED
  BY <1>1, <1>2, PTL DEF ApiSpec

-----------------------------------------------------------------------------
(* Sign-in under the requests.                                             *)

(* Requests, however they fail, and the shutdown leave sign-in alone; time *)
(* and restarts are its own steps.                                         *)
LEMMA SignInUnderneath == [ApiNext]_vars => [AuthNext]_authVars
<1> SUFFICES ASSUME [ApiNext]_vars PROVE [AuthNext]_authVars
  OBVIOUS
<1>1. ASSUME NEW r \in Requests, Request(r) PROVE UNCHANGED authVars
  <2>1. ASSUME NEW op, NEW state, Arrive(r, op, state)
        PROVE  UNCHANGED authVars
    BY <2>1 DEF Arrive
  <2> QED
    BY <1>1, <2>1 DEF Request, ListCampaigns, GetCampaignAnalytics,
       DeactivateRequest, CreateRequest, DeleteRequest, RestoreRequest,
       ReorderRequest, ClaimRequest, ReadRequest
<1>2. ASSUME NEW r \in Requests, Step(r) PROVE UNCHANGED authVars
  <2>1. ASSUME ListStep(r) PROVE UNCHANGED authVars
    BY <2>1 DEF ListStep, CacheHit, CacheMiss, Select, Count, Setex,
                OnlyRequest, Quiet
  <2>2. ASSUME MerchantStep(r) PROVE UNCHANGED authVars
    BY <2>2 DEF MerchantStep, FindCampaign, UpdateCampaign, InsertCampaign,
                CommitCampaign, ReadKeys, DeleteKeys, WriteCampaigns,
                OnlyRequest, Quiet
  <2>3. ASSUME TableStep(r) PROVE UNCHANGED authVars
    BY <2>3 DEF TableStep, MarkDeleted, MoveCampaign, DeadlockDetected,
                CommitOrder, WriteCampaigns, OnlyRequest, Quiet
  <2>4. ASSUME ClaimStep(r) PROVE UNCHANGED authVars
    BY <2>4 DEF ClaimStep, InsertUser, InsertReward, OnlyRequest, Quiet
  <2>5. ASSUME Query(r) PROVE UNCHANGED authVars
    BY <2>5 DEF Query, OnlyRequest, Quiet
  <2> QED
    BY <1>2, <2>1, <2>2, <2>3, <2>4, <2>5 DEF Step
<1>3. ASSUME NEW r \in Requests, RedisFails(r) \/ DatabaseFails(r)
      PROVE  UNCHANGED authVars
  BY <1>3 DEF RedisFails, DatabaseFails
<1>4. ASSUME RecordTransaction \/ Shutdown \/ ServerClosed
      PROVE  UNCHANGED authVars
  BY <1>4 DEF RecordTransaction, Shutdown, ServerClosed
<1>5. ASSUME ApiTick \/ ApiSignIn \/ ApiRestart PROVE AuthNext
  BY <1>5 DEF ApiTick, ApiSignIn, ApiRestart, AuthNext
<1>6. CASE UNCHANGED vars
  BY <1>6 DEF vars
<1> QED
  BY <1>1, <1>2, <1>3, <1>4, <1>5, <1>6 DEF ApiNext

(* Whatever requests, failures and restarts happen in between, a token     *)
(* answers a challenge made to its own key by the process that signed it,  *)
(* in time, and no challenge yields two.                                   *)
THEOREM TokensEarnedAmongRequests == ApiSpec => []TokensAreEarned
<1>1. ApiInit => AuthInv
  BY AuthInitial DEF ApiInit
<1>2. AuthInv /\ [ApiNext]_vars => AuthInv'
  BY AuthStep, SignInUnderneath
<1>3. AuthInv => TokensAreEarned
  BY DEF AuthInv
<1> QED
  BY <1>1, <1>2, <1>3, PTL DEF ApiSpec

-----------------------------------------------------------------------------
(* The requests.                                                           *)

(* Where the handler of each operation may be.                             *)
Whereabouts(s) ==
    \/ s.op = "none" /\ s.pc = "new"
    \/ /\ s.op \in {"list", "report"}
       /\ s.pc \in {"get", "select", "count", "setex", "done"}
    \/ s.op = "patch" /\ s.pc \in {"find", "update", "keys", "del", "done"}
    \/ s.op = "post" /\ s.pc \in {"insert", "audit", "keys", "del", "done"}
    \/ s.op \in {"delete", "restore"} /\ s.pc \in {"mark", "done"}
    \/ s.op = "reorder" /\ s.pc \in {"move", "done"}
    \/ s.op = "claim" /\ s.pc \in {"user", "reward", "done"}
    \/ s.op \in UncachedReads /\ s.pc \in {"query", "done"}

(* A slot: its handler, what it was asked for, and no status before it has *)
(* answered, which GET rewards alone does before it is done.               *)
RequestOK(s) ==
    /\ DOMAIN s = DOMAIN NoRequest
    /\ Whereabouts(s)
    /\ s.pc # "done" /\ s.op # "rewards" => s.status = 0
    /\ s.filter \in CampaignFilters
    /\ s.op \in {"patch", "post"} => s.who \in Merchants
    /\ s.op = "patch" => s.id \in DOMAIN SeedRows
    /\ s.op = "post" => s.id \in Nat /\ s.id >= 1000
    /\ s.order \in Seq(Nat) /\ s.moved \in Nat
    /\ s.read \in Nat

RequestsOK ==
    /\ req = [r \in Requests |-> req[r]]
    /\ \A r \in Requests : RequestOK(req[r])

-----------------------------------------------------------------------------
(* What the steps do to the requests, field by field.                      *)

Slots == req = [r \in Requests |-> req[r]]

(* No slot but that of r changes.                                          *)
OnlySlot(r) == Slots' /\ \A q \in Requests : q # r => req'[q] = req[q]

(* What a request was sent with, which its handler never changes.          *)
Kept(s, t) ==
    /\ DOMAIN t = DOMAIN s
    /\ t.op = s.op /\ t.who = s.who /\ t.id = s.id
    /\ t.filter = s.filter /\ t.order = s.order /\ t.before = s.before

(* What its handler found out, the answer of a read apart.                 *)
KeptLocals(s, t) ==
    /\ Kept(s, t)
    /\ t.moved = s.moved /\ t.keys = s.keys /\ t.parts = s.parts

(* And that answer.                                                        *)
KeptAll(s, t) ==
    KeptLocals(s, t) /\ t.list = s.list /\ t.read = s.read /\ t.hit = s.hit

(* The next await.                                                         *)
LEMMA GotoDoes ==
    ASSUME Slots, NEW r \in Requests, DOMAIN req[r] = DOMAIN NoRequest,
           NEW pc, Goto(r, pc)
    PROVE  /\ OnlySlot(r)
           /\ KeptAll(req[r], req'[r])
           /\ req'[r].pc = pc
           /\ req'[r].status = req[r].status
           /\ req'[r].locks = req[r].locks
<1>1. OnlySlot(r)
  BY DEF Slots, OnlySlot, Goto
<1>2. req'[r] = [req[r] EXCEPT !.pc = pc]
  BY DEF Slots, Goto
<1> DEFINE s == req[r]
           t == req'[r]
<1>3. /\ KeptAll(s, t)
      /\ t.pc = pc /\ t.status = s.status /\ t.locks = s.locks
  BY <1>2 DEF KeptAll, KeptLocals, Kept, NoRequest
<1> QED
  BY <1>1, <1>3

(* An answer.                                                              *)
LEMMA AnswerDoes ==
    ASSUME Slots, NEW r \in Requests, DOMAIN req[r] = DOMAIN NoRequest,
           NEW status, Answer(r, status)
    PROVE  /\ OnlySlot(r)
           /\ KeptAll(req[r], req'[r])
           /\ req'[r].pc = "done"
           /\ req'[r].status = status
           /\ req'[r].locks = {}
<1>1. OnlySlot(r)
  BY DEF Slots, OnlySlot, Answer
<1>2. req'[r] = [req[r] EXCEPT !.pc = "done", !.status = status,
                               !.locks = {}]
  BY DEF Slots, Answer
<1> DEFINE s == req[r]
           t == req'[r]
<1>3. /\ KeptAll(s, t)
      /\ t.pc = "done" /\ t.status = status /\ t.locks = {}
  BY <1>2 DEF KeptAll, KeptLocals, Kept, NoRequest
<1> QED
  BY <1>1, <1>3

(* An answer from the cache.                                               *)
LEMMA CacheHitDoes ==
    ASSUME Slots, NEW r \in Requests, DOMAIN req[r] = DOMAIN NoRequest,
           CacheHit(r)
    PROVE  /\ OnlySlot(r)
           /\ KeptLocals(req[r], req'[r])
           /\ req'[r].pc = "done" /\ req'[r].status = 200
           /\ req'[r].list = cache[Key(r)].list /\ req'[r].hit = TRUE
           /\ req'[r].read = req[r].read
           /\ req'[r].locks = req[r].locks
<1> DEFINE s == req[r]
           t == req'[r]
           c == cache[Key(r)].list
           hit == [s EXCEPT !.pc = "done", !.status = 200, !.list = c,
                            !.hit = TRUE]
<1>1. OnlySlot(r) /\ t = hit
  <2>1. req' = [req EXCEPT ![r] = hit]
    BY DEF CacheHit
  <2> HIDE DEF hit
  <2> QED
    BY <2>1 DEF Slots, OnlySlot
<1> HIDE DEF c
<1>2. t = [s EXCEPT !.pc = "done", !.status = 200, !.list = c, !.hit = TRUE]
  BY <1>1
<1>3. /\ KeptLocals(s, t)
      /\ t.pc = "done" /\ t.status = 200 /\ t.list = c /\ t.hit = TRUE
      /\ t.read = s.read /\ t.locks = s.locks
  BY <1>2 DEF KeptLocals, Kept, NoRequest
<1> QED
  BY <1>1, <1>3 DEF c

(* The query of a cached answer.                                           *)
LEMMA SelectDoes ==
    ASSUME Slots, NEW r \in Requests, DOMAIN req[r] = DOMAIN NoRequest,
           Select(r)
    PROVE  /\ OnlySlot(r)
           /\ KeptLocals(req[r], req'[r])
           /\ req'[r].pc = "count" /\ req'[r].status = req[r].status
           /\ req[r].op = "list" =>
                req'[r].list = Restrict(campaigns, Matching(req[r].filter))
           /\ req'[r].hit = req[r].hit
           /\ req'[r].read = Len(writtenAt)
           /\ req'[r].locks = req[r].locks
<1>1. OnlySlot(r)
  BY DEF Slots, OnlySlot, Select
<1> DEFINE s == req[r]
           t == req'[r]
           l == IF s.op = "report" THEN rewards
                ELSE Restrict(campaigns, Matching(s.filter))
           n == Len(writtenAt)
<1>2. t = [s EXCEPT !.pc = "count", !.list = l, !.read = n]
  BY DEF Slots, Select
<1>3. s.op = "list" => l = Restrict(campaigns, Matching(s.filter))
  OBVIOUS
<1> HIDE DEF l, n
<1>4. /\ KeptLocals(s, t)
      /\ t.pc = "count" /\ t.status = s.status /\ t.list = l /\ t.hit = s.hit
      /\ t.read = n /\ t.locks = s.locks
  BY <1>2 DEF KeptLocals, Kept, NoRequest
<1> QED
  BY <1>1, <1>3, <1>4 DEF n

(* BEGIN and the INSERT of POST, and its COMMIT.                           *)
LEMMA CreationDoes ==
    ASSUME Slots, NEW r \in Requests, DOMAIN req[r] = DOMAIN NoRequest
    PROVE  /\ InsertCampaign(r) =>
                /\ OnlySlot(r)
                /\ KeptAll(req[r], req'[r])
                /\ req'[r].pc = "audit" /\ req'[r].status = req[r].status
                /\ req'[r].locks = {req[r].id}
           /\ CommitCampaign(r) =>
                /\ OnlySlot(r)
                /\ KeptAll(req[r], req'[r])
                /\ req'[r].pc = "keys" /\ req'[r].status = req[r].status
                /\ req'[r].locks = {}
<1> DEFINE s == req[r]
           t == req'[r]
<1>1. ASSUME NEW pc, NEW locks,
             req' = [req EXCEPT ![r].pc = pc, ![r].locks = locks]
      PROVE  /\ OnlySlot(r)
             /\ KeptAll(s, t)
             /\ t.pc = pc /\ t.status = s.status /\ t.locks = locks
  <2>1. OnlySlot(r)
    BY <1>1 DEF Slots, OnlySlot
  <2>2. t = [s EXCEPT !.pc = pc, !.locks = locks]
    BY <1>1 DEF Slots
  <2>3. /\ KeptAll(s, t)
        /\ t.pc = pc /\ t.status = s.status /\ t.locks = locks
    BY <2>2 DEF KeptAll, KeptLocals, Kept, NoRequest
  <2> QED
    BY <2>1, <2>3
<1>2. InsertCampaign(r) =>
        req' = [req EXCEPT ![r].pc = "audit", ![r].locks = {req[r].id}]
  BY DEF InsertCampaign
<1>3. CommitCampaign(r) =>
        req' = [req EXCEPT ![r].pc = "keys", ![r].locks = {}]
  BY DEF CommitCampaign
<1> QED
  BY <1>1, <1>2, <1>3

(* KEYS.                                                                   *)
LEMMA ReadKeysDoes ==
    ASSUME Slots, NEW r \in Requests, DOMAIN req[r] = DOMAIN NoRequest,
           ReadKeys(r)
    PROVE  /\ OnlySlot(r)
           /\ Kept(req[r], req'[r])
           /\ req'[r].read = req[r].read /\ req'[r].moved = req[r].moved
           /\ \/ /\ DOMAIN cache \ {"report"} = {}
                 /\ req'[r].pc = "done" /\ req'[r].status = Success(r)
                 /\ req'[r].locks = {}
              \/ /\ req'[r].pc = "del" /\ req'[r].status = req[r].status
                 /\ req'[r].locks = req[r].locks
                 /\ req'[r].keys = DOMAIN cache \ {"report"}
<1> DEFINE s == req[r]
           t == req'[r]
           lists == DOMAIN cache \ {"report"}
<1>1. CASE lists = {}
  <2>1. Answer(r, Success(r))
    BY <1>1 DEF ReadKeys
  <2> QED
    BY <1>1, <2>1, AnswerDoes DEF KeptAll, KeptLocals
<1>2. CASE lists # {}
  <2>1. req' = [req EXCEPT ![r].pc = "del", ![r].keys = lists]
    BY <1>2 DEF ReadKeys
  <2> HIDE DEF lists
  <2>2. OnlySlot(r)
    BY <2>1 DEF Slots, OnlySlot
  <2>3. t = [s EXCEPT !.pc = "del", !.keys = lists]
    BY <2>1 DEF Slots
  <2>4. /\ Kept(s, t)
        /\ t.read = s.read /\ t.moved = s.moved
        /\ t.pc = "del" /\ t.status = s.status /\ t.locks = s.locks
        /\ t.keys = lists
    BY <2>3 DEF Kept, NoRequest
  <2> QED
    BY <2>2, <2>4 DEF lists
<1> QED
  BY <1>1, <1>2

(* An UPDATE of a reorder.                                                 *)
LEMMA MoveDoes ==
    ASSUME Slots, NEW r \in Requests, DOMAIN req[r] = DOMAIN NoRequest,
           MoveCampaign(r)
    PROVE  /\ OnlySlot(r)
           /\ Kept(req[r], req'[r])
           /\ req'[r].pc = req[r].pc /\ req'[r].status = req[r].status
           /\ req'[r].read = req[r].read
           /\ req'[r].moved = req[r].moved + 1
           /\ req'[r].locks =
                req[r].locks \cup ({NextRow(r)} \cap DOMAIN campaigns)
<1> DEFINE s == req[r]
           t == req'[r]
           m == s.moved + 1
           l == s.locks \cup ({NextRow(r)} \cap DOMAIN campaigns)
<1>1. OnlySlot(r)
  BY DEF Slots, OnlySlot, MoveCampaign
<1>2. t = [s EXCEPT !.moved = m, !.locks = l]
  BY DEF Slots, MoveCampaign
<1> HIDE DEF m, l
<1>3. /\ Kept(s, t)
      /\ t.pc = s.pc /\ t.status = s.status /\ t.read = s.read
      /\ t.moved = m /\ t.locks = l
  BY <1>2 DEF Kept, NoRequest
<1> QED
  BY <1>1, <1>3 DEF m, l

(* What a query found.                                                     *)
LEMMA FoundDoes ==
    ASSUME Slots, NEW r \in Requests, DOMAIN req[r] = DOMAIN NoRequest,
           NEW i, NEW rows, NEW status, Found(r, i, rows, status)
    PROVE  /\ OnlySlot(r)
           /\ Kept(req[r], req'[r])
           /\ req'[r].read = req[r].read /\ req'[r].moved = req[r].moved
           /\ req'[r].locks = req[r].locks /\ req'[r].keys = req[r].keys
           /\ req'[r].parts =
                Set(req[r].parts, Queries(req[r].op)[i], rows)
           /\ req'[r].pc \in {"done", "query"}
           /\ req'[r].status \in {req[r].status, status}
           /\ req[r].status # 0 => req'[r].status = req[r].status
           /\ req[r].status = 0 /\ req[r].op = "rewards"
                => req'[r].status = status
           /\ req'[r].pc # "done" /\ req[r].op # "rewards"
                => req'[r].status = req[r].status
<1> DEFINE s == req[r]
           t == req'[r]
           p == Set(s.parts, Queries(s.op)[i], rows)
           last == Cardinality(DOMAIN p) = Len(Queries(s.op))
           st == IF s.status = 0 /\ (last \/ s.op = "rewards") THEN status
                 ELSE s.status
           pc == IF last THEN "done" ELSE "query"
<1>1. req' = [req EXCEPT ![r].parts = p, ![r].status = st, ![r].pc = pc]
  BY DEF Found
<1>2. /\ pc \in {"done", "query"}
      /\ st \in {s.status, status}
      /\ s.status # 0 => st = s.status
      /\ s.status = 0 /\ s.op = "rewards" => st = status
      /\ pc # "done" /\ s.op # "rewards" => st = s.status
  OBVIOUS
<1> HIDE DEF p, last, st, pc
<1>3. OnlySlot(r)
  BY <1>1 DEF Slots, OnlySlot
<1>4. t = [s EXCEPT !.parts = p, !.status = st, !.pc = pc]
  BY <1>1 DEF Slots
<1>5. /\ Kept(s, t)
      /\ t.read = s.read /\ t.moved = s.moved
      /\ t.locks = s.locks /\ t.keys = s.keys
      /\ t.parts = p /\ t.status = st /\ t.pc = pc
  BY <1>4 DEF Kept, NoRequest
<1> QED
  BY <1>2, <1>3, <1>5 DEF p

(* A failure of Redis is logged or answered.                               *)
LEMMA RedisFailsDoes ==
    ASSUME RequestsOK, NEW r \in Requests, RedisFails(r)
    PROVE  /\ OnlySlot(r)
           /\ KeptAll(req[r], req'[r])
           /\ \/ /\ req[r].op = "list" /\ req[r].pc = "get"
                 /\ req'[r].pc = "select"
                 /\ req'[r].status = req[r].status
              \/ /\ req[r].op = "list" /\ req[r].pc = "setex"
                 /\ req'[r].pc = "done" /\ req'[r].status = 200
              \/ /\ req[r].op = "report"
                 /\ req'[r].pc = "done" /\ req'[r].status = 503
              \/ /\ req[r].op \in {"patch", "post"}
                 /\ req[r].pc \in {"keys", "del"}
                 /\ req'[r].pc = "done" /\ req'[r].status = Success(r)
           /\ purgeLost' = (purgeLost \/ req[r].pc \in {"keys", "del"})
           /\ UNCHANGED <<tables, cache, server, written, authVars>>
<1>1. /\ Slots /\ RequestOK(req[r])
      /\ DOMAIN req[r] = DOMAIN NoRequest
  BY DEF RequestsOK, RequestOK, Slots
<1>2. /\ req[r].pc \in {"get", "setex", "keys", "del"}
      /\ req[r].op \in {"list", "report", "patch", "post"}
      /\ req[r].op = "list" => req[r].pc \in {"get", "setex"}
      /\ req[r].op \in {"patch", "post"} => req[r].pc \in {"keys", "del"}
  BY <1>1 DEF RedisFails, RequestOK, Whereabouts, UncachedReads
<1>3. CASE req[r].op = "report"
  <2>1. Answer(r, 503)
    BY <1>3 DEF RedisFails
  <2> QED
    BY <1>1, <1>3, <2>1, AnswerDoes DEF RedisFails
<1>4. CASE req[r].op # "report" /\ req[r].pc = "get"
  <2>1. Goto(r, "select")
    BY <1>4 DEF RedisFails
  <2> QED
    BY <1>1, <1>2, <1>4, <2>1, GotoDoes DEF RedisFails
<1>5. CASE req[r].op # "report" /\ req[r].pc # "get"
  <2>1. Answer(r, Success(r))
    BY <1>5 DEF RedisFails
  <2>2. req[r].op = "list" => Success(r) = 200
    BY DEF Success
  <2> QED
    BY <1>1, <1>2, <1>5, <2>1, <2>2, AnswerDoes DEF RedisFails
<1> QED
  BY <1>3, <1>4, <1>5

(* A failure of the database ends a handler, GET rewards excepted: its     *)
(* first query leaves the answer 500 and the handler goes on.              *)
LEMMA DatabaseFailsDoes ==
    ASSUME RequestsOK, NEW r \in Requests, DatabaseFails(r)
    PROVE  /\ OnlySlot(r)
           /\ Kept(req[r], req'[r])
           /\ \/ /\ KeptAll(req[r], req'[r])
                 /\ req'[r].pc = "done"
                 /\ req'[r].status \in {500, 503, req[r].status}
                 /\ \/ req'[r].status \in {500, 503}
                    \/ req[r].op = "rewards"
                 /\ req[r].status = 0 => req'[r].status \in {500, 503}
                 /\ req'[r].locks = {}
              \/ /\ req[r].op = "rewards" /\ req[r].status = 0
                 /\ Found(r, 1, {}, 500)
           /\ req[r].pc \notin {"new", "done", "keys", "del"}
           /\ UNCHANGED <<tables, cache, server, written, authVars,
                          purgeLost>>
<1>1. /\ Slots /\ RequestOK(req[r])
      /\ DOMAIN req[r] = DOMAIN NoRequest
  BY DEF RequestsOK, RequestOK, Slots
<1>2. UNCHANGED <<tables, cache, server, written, authVars, purgeLost>>
  BY DEF DatabaseFails
<1>3. CASE QueryFails(r)
  <2>1. req[r].pc = "query" /\ req[r].op \in UncachedReads
    BY <1>1, <1>3 DEF QueryFails, RequestOK, Whereabouts
  <2>2. CASE req[r].op = "rewards" /\ req[r].status = 0
    <3>1. Found(r, 1, {}, 500)
      BY <1>3, <2>2 DEF QueryFails
    <3> QED
      BY <1>1, <1>2, <2>1, <2>2, <3>1, FoundDoes
  <2>3. CASE ~(req[r].op = "rewards" /\ req[r].status = 0)
    <3>1. Answer(r, IF req[r].status = 0 THEN 500 ELSE req[r].status)
      BY <1>3, <2>3 DEF QueryFails
    <3>2. req[r].op # "rewards" => req[r].status = 0
      BY <1>1, <2>1 DEF RequestOK
    <3> QED
      BY <1>1, <1>2, <2>1, <2>3, <3>1, <3>2, AnswerDoes
         DEF KeptAll, KeptLocals
  <2> QED
    BY <2>2, <2>3
<1>4. CASE ~QueryFails(r)
  <2>1. /\ req[r].pc \in {"select", "count", "find", "update", "insert",
                          "audit", "mark", "move", "user", "reward"}
        /\ Answer(r, IF req[r].op = "report" THEN 503 ELSE 500)
    BY <1>4 DEF DatabaseFails
  <2> QED
    BY <1>1, <1>2, <2>1, AnswerDoes DEF KeptAll, KeptLocals
<1> QED
  BY <1>3, <1>4

(* Of the steps of all handlers those of the operation apply.              *)
LEMMA HandlerOf ==
    ASSUME RequestsOK, NEW r \in Requests, Step(r)
    PROVE  \/ req[r].op \in {"list", "report"} /\ ListStep(r)
           \/ /\ req[r].op = "patch"
              /\ FindCampaign(r) \/ UpdateCampaign(r)
           \/ /\ req[r].op = "post"
              /\ InsertCampaign(r) \/ CommitCampaign(r)
           \/ /\ req[r].op \in {"patch", "post"}
              /\ ReadKeys(r) \/ DeleteKeys(r)
           \/ req[r].op \in {"delete", "restore"} /\ MarkDeleted(r)
           \/ /\ req[r].op = "reorder"
              /\ MoveCampaign(r) \/ CommitOrder(r) \/ DeadlockDetected(r)
           \/ req[r].op = "claim" /\ ClaimStep(r)
           \/ req[r].op \in UncachedReads /\ Query(r)
<1>1. RequestOK(req[r])
  BY DEF RequestsOK
<1>2. ASSUME ListStep(r) PROVE req[r].op \in {"list", "report"}
  BY <1>2 DEF ListStep, CacheHit, CacheMiss, Select, Count, Setex, Reads
<1>3. ASSUME FindCampaign(r) \/ UpdateCampaign(r) PROVE req[r].op = "patch"
  BY <1>3 DEF FindCampaign, UpdateCampaign, At
<1>4. ASSUME InsertCampaign(r) \/ CommitCampaign(r)
      PROVE  req[r].op = "post"
  BY <1>4 DEF InsertCampaign, CommitCampaign, At
<1>5. ASSUME ReadKeys(r) \/ DeleteKeys(r)
      PROVE  req[r].op \in {"patch", "post"}
  BY <1>1, <1>5 DEF ReadKeys, DeleteKeys, RequestOK, Whereabouts
<1>6. ASSUME MarkDeleted(r) PROVE req[r].op \in {"delete", "restore"}
  BY <1>1, <1>6 DEF MarkDeleted, RequestOK, Whereabouts
<1>7. ASSUME MoveCampaign(r) \/ CommitOrder(r) \/ DeadlockDetected(r)
      PROVE  req[r].op = "reorder"
  BY <1>7 DEF MoveCampaign, CommitOrder, DeadlockDetected, Moving, At
<1>8. ASSUME ClaimStep(r) PROVE req[r].op = "claim"
  BY <1>8 DEF ClaimStep, InsertUser, InsertReward, At
<1>9. ASSUME Query(r) PROVE req[r].op \in UncachedReads
  BY <1>1, <1>9 DEF Query, RequestOK, Whereabouts
<1> QED
  BY <1>2, <1>3, <1>4, <1>5, <1>6, <1>7, <1>8, <1>9
     DEF Step, MerchantStep, TableStep

(* A request begins at its first await with nothing found out.             *)
Begins(r) ==
    /\ OnlySlot(r)
    /\ req[r].op = "none"
    /\ RequestOK(req'[r])
    /\ req'[r].op # "none"
    /\ req'[r].pc \in {"get", "find", "insert", "mark", "move", "user",
                       "query"}
    /\ req'[r].status = 0 /\ req'[r].locks = {} /\ req'[r].parts = <<>>
    /\ req'[r].read = 0 /\ req'[r].moved = 0
    /\ req'[r].op \in UncachedReads =>
         req'[r].before = Table(req'[r].op, req'[r].who)

(* A request that arrives takes a free slot and writes nothing else.       *)
LEMMA RequestBegins ==
    ASSUME RequestsOK, tokens \subseteq Token, clock \in Nat,
           NEW r \in Requests, Request(r)
    PROVE  /\ Begins(r)
           /\ UNCHANGED <<tables, cache, server, written, purgeLost,
                          authVars>>
<1>1. Slots /\ RequestOK(req[r])
  BY DEF RequestsOK, Slots
<1> DEFINE t == req'[r]
<1>2. ASSUME NEW op, NEW state,
             DOMAIN state = DOMAIN NoRequest, Arrive(r, op, state)
      PROVE  /\ OnlySlot(r)
             /\ req[r].op = "none"
             /\ UNCHANGED <<tables, cache, server, written, purgeLost,
                            authVars>>
             /\ DOMAIN t = DOMAIN NoRequest
             /\ t.op = op
             /\ t.pc = state.pc /\ t.status = state.status
             /\ t.who = state.who /\ t.id = state.id
             /\ t.filter = state.filter /\ t.order = state.order
             /\ t.before = state.before /\ t.locks = state.locks
             /\ t.parts = state.parts /\ t.read = state.read
             /\ t.moved = state.moved
  <2>1. OnlySlot(r) /\ t = [state EXCEPT !.op = op]
    BY <1>1, <1>2 DEF Arrive, Slots, OnlySlot
  <2>2. req[r].op = "none"
    BY <1>1, <1>2 DEF Arrive, RequestOK, Whereabouts
  <2> QED
    BY <1>2, <2>1, <2>2 DEF Arrive, NoRequest
<1>3. Everything \in CampaignFilters /\ <<>> \in Seq(Nat) /\ 0 \in Nat
  BY DEF Everything, CampaignFilters
<1> DEFINE Blank(s) ==
             /\ s.status = 0 /\ s.locks = {} /\ s.parts = <<>>
             /\ s.read = 0 /\ s.moved = 0
<1>4. ASSUME NEW f \in Filters, ListCampaigns(r, f) PROVE Begins(r)
  <2> DEFINE state == [NoRequest EXCEPT !.pc = "get", !.filter = f]
  <2>1. /\ DOMAIN state = DOMAIN NoRequest
        /\ state.pc = "get" /\ state.filter = f /\ state.order = <<>>
        /\ Blank(state)
    BY DEF NoRequest
  <2> HIDE DEF state
  <2>2. Arrive(r, "list", state)
    BY <1>4 DEF ListCampaigns, state
  <2>3. /\ OnlySlot(r) /\ req[r].op = "none" /\ Blank(t)
        /\ DOMAIN t = DOMAIN NoRequest
        /\ t.pc = state.pc /\ t.who = state.who /\ t.id = state.id
        /\ t.filter = state.filter /\ t.order = state.order
    BY <1>2, <2>1, <2>2
  <2>4. RequestOK(t)
    BY <1>2, <1>3, <2>1, <2>2, <2>3, ApiConstants
       DEF RequestOK, Whereabouts, UncachedReads
  <2> QED
    BY <1>2, <2>1, <2>2, <2>3, <2>4 DEF Begins, UncachedReads
<1>5. ASSUME GetCampaignAnalytics(r) PROVE Begins(r)
  <2> DEFINE state == [NoRequest EXCEPT !.pc = "get"]
  <2>1. /\ DOMAIN state = DOMAIN NoRequest
        /\ state.pc = "get" /\ state.filter = Everything
        /\ state.order = <<>> /\ Blank(state)
    BY DEF NoRequest
  <2> HIDE DEF state
  <2>2. Arrive(r, "report", state)
    BY <1>5 DEF GetCampaignAnalytics, state
  <2>3. /\ OnlySlot(r) /\ req[r].op = "none" /\ Blank(t)
        /\ DOMAIN t = DOMAIN NoRequest
        /\ t.pc = state.pc /\ t.who = state.who /\ t.id = state.id
        /\ t.filter = state.filter /\ t.order = state.order
    BY <1>2, <2>1, <2>2
  <2>4. RequestOK(t)
    BY <1>2, <1>3, <2>1, <2>2, <2>3
       DEF RequestOK, Whereabouts, UncachedReads
  <2> QED
    BY <1>2, <2>1, <2>2, <2>3, <2>4 DEF Begins, UncachedReads
<1>6. ASSUME NEW id \in DOMAIN SeedRows, NEW w \in tokens,
             DeactivateRequest(r, id, w)
      PROVE  Begins(r)
  <2> DEFINE who == w.sub
             state == [NoRequest EXCEPT !.pc = "find", !.id = id,
                                        !.who = who]
  <2>1. who \in Merchants
    BY DEF Token
  <2> HIDE DEF who
  <2>2. /\ DOMAIN state = DOMAIN NoRequest
        /\ state.pc = "find" /\ state.id = id /\ state.who = who
        /\ state.filter = Everything /\ state.order = <<>> /\ Blank(state)
    BY DEF NoRequest
  <2> HIDE DEF state
  <2>3. Arrive(r, "patch", state)
    BY <1>6 DEF DeactivateRequest, state, who
  <2>4. /\ OnlySlot(r) /\ req[r].op = "none" /\ Blank(t)
        /\ DOMAIN t = DOMAIN NoRequest
        /\ t.pc = state.pc /\ t.who = state.who /\ t.id = state.id
        /\ t.filter = state.filter /\ t.order = state.order
    BY <1>2, <2>1, <2>2, <2>3
  <2>5. RequestOK(t)
    BY <1>2, <1>3, <2>1, <2>2, <2>3, <2>4
       DEF RequestOK, Whereabouts, UncachedReads
  <2> QED
    BY <1>2, <2>1, <2>2, <2>3, <2>4, <2>5 DEF Begins, UncachedReads
<1>7. ASSUME NEW w \in tokens, CreateRequest(r, w) PROVE Begins(r)
  <2> DEFINE who == w.sub
             state == [NoRequest EXCEPT !.pc = "insert", !.who = who,
                                        !.id = DateNow]
  <2>1. who \in Merchants
    BY DEF Token
  <2>2. DateNow \in Nat /\ DateNow >= 1000
    BY DEF DateNow
  <2> HIDE DEF who
  <2>3. /\ DOMAIN state = DOMAIN NoRequest
        /\ state.pc = "insert" /\ state.id = DateNow /\ state.who = who
        /\ state.filter = Everything /\ state.order = <<>> /\ Blank(state)
    BY DEF NoRequest
  <2> HIDE DEF state
  <2>4. Arrive(r, "post", state)
    BY <1>7 DEF CreateRequest, state, who
  <2>5. /\ OnlySlot(r) /\ req[r].op = "none" /\ Blank(t)
        /\ DOMAIN t = DOMAIN NoRequest
        /\ t.pc = state.pc /\ t.who = state.who /\ t.id = state.id
        /\ t.filter = state.filter /\ t.order = state.order
    BY <1>2, <2>1, <2>2, <2>3, <2>4
  <2>6. RequestOK(t)
    BY <1>2, <1>3, <2>1, <2>2, <2>3, <2>4, <2>5
       DEF RequestOK, Whereabouts, UncachedReads
  <2> QED
    BY <1>2, <2>1, <2>2, <2>3, <2>4, <2>5, <2>6 DEF Begins, UncachedReads
<1>8. ASSUME NEW id \in DOMAIN SeedRows,
             DeleteRequest(r, id) \/ RestoreRequest(r, id)
      PROVE  Begins(r)
  <2> DEFINE state == [NoRequest EXCEPT !.pc = "mark", !.id = id]
  <2>1. /\ DOMAIN state = DOMAIN NoRequest
        /\ state.pc = "mark" /\ state.filter = Everything
        /\ state.order = <<>> /\ Blank(state)
    BY DEF NoRequest
  <2> HIDE DEF state
  <2>2. Arrive(r, "delete", state) \/ Arrive(r, "restore", state)
    BY <1>8 DEF DeleteRequest, RestoreRequest, state
  <2>3. /\ OnlySlot(r) /\ req[r].op = "none" /\ Blank(t)
        /\ DOMAIN t = DOMAIN NoRequest
        /\ t.pc = state.pc /\ t.who = state.who /\ t.id = state.id
        /\ t.filter = state.filter /\ t.order = state.order
    BY <1>2, <2>1, <2>2
  <2>4. RequestOK(t)
    BY <1>2, <1>3, <2>1, <2>2, <2>3
       DEF RequestOK, Whereabouts, UncachedReads
  <2> QED
    BY <1>2, <2>1, <2>2, <2>3, <2>4 DEF Begins, UncachedReads
<1>9. ASSUME NEW order \in Orders, ReorderRequest(r, order)
      PROVE  Begins(r)
  <2> DEFINE state == [NoRequest EXCEPT !.pc = "move", !.order = order]
  <2>1. /\ DOMAIN state = DOMAIN NoRequest
        /\ state.pc = "move" /\ state.filter = Everything
        /\ state.order = order /\ Blank(state)
    BY DEF NoRequest
  <2>2. order \in Seq(Nat)
    BY ApiConstants
  <2> HIDE DEF state
  <2>3. Arrive(r, "reorder", state)
    BY <1>9 DEF ReorderRequest, state
  <2>4. /\ OnlySlot(r) /\ req[r].op = "none" /\ Blank(t)
        /\ DOMAIN t = DOMAIN NoRequest
        /\ t.pc = state.pc /\ t.who = state.who /\ t.id = state.id
        /\ t.filter = state.filter /\ t.order = state.order
    BY <1>2, <2>1, <2>2, <2>3
  <2>5. RequestOK(t)
    BY <1>2, <1>3, <2>1, <2>2, <2>3, <2>4
       DEF RequestOK, Whereabouts, UncachedReads
  <2> QED
    BY <1>2, <2>1, <2>2, <2>3, <2>4, <2>5 DEF Begins, UncachedReads
<1>10. ASSUME NEW u \in Users, NEW id \in DOMAIN SeedRows,
              ClaimRequest(r, u, id)
       PROVE  Begins(r)
  <2> DEFINE state == [NoRequest EXCEPT !.pc = "user", !.who = u, !.id = id]
  <2>1. /\ DOMAIN state = DOMAIN NoRequest
        /\ state.pc = "user" /\ state.filter = Everything
        /\ state.order = <<>> /\ Blank(state)
    BY DEF NoRequest
  <2> HIDE DEF state
  <2>2. Arrive(r, "claim", state)
    BY <1>10 DEF ClaimRequest, state
  <2>3. /\ OnlySlot(r) /\ req[r].op = "none" /\ Blank(t)
        /\ DOMAIN t = DOMAIN NoRequest
        /\ t.pc = state.pc /\ t.who = state.who /\ t.id = state.id
        /\ t.filter = state.filter /\ t.order = state.order
    BY <1>2, <2>1, <2>2
  <2>4. RequestOK(t)
    BY <1>2, <1>3, <2>1, <2>2, <2>3
       DEF RequestOK, Whereabouts, UncachedReads
  <2> QED
    BY <1>2, <2>1, <2>2, <2>3, <2>4 DEF Begins, UncachedReads
<1>11. ASSUME NEW op \in UncachedReads, NEW u \in Users,
              ReadRequest(r, op, u)
       PROVE  Begins(r)
  <2> DEFINE table == Table(op, u)
             state == [NoRequest EXCEPT !.pc = "query", !.who = u,
                                        !.before = table]
  <2> HIDE DEF table
  <2>1. /\ DOMAIN state = DOMAIN NoRequest
        /\ state.pc = "query" /\ state.filter = Everything
        /\ state.order = <<>> /\ Blank(state)
        /\ state.who = u /\ state.before = table
    BY DEF NoRequest
  <2> HIDE DEF state
  <2>2. Arrive(r, op, state)
    BY <1>11 DEF ReadRequest, state, table
  <2>4. /\ OnlySlot(r) /\ req[r].op = "none"
        /\ DOMAIN t = DOMAIN NoRequest /\ t.op = op
        /\ t.pc = "query" /\ t.filter = Everything /\ t.order = <<>>
        /\ Blank(t) /\ t.who = u /\ t.before = table
    BY <1>2, <2>1, <2>2
  <2>5. RequestOK(t)
    BY <1>3, <2>4 DEF RequestOK, Whereabouts, UncachedReads
  <2> QED
    BY <2>4, <2>5 DEF Begins, UncachedReads, table
<1>12. Begins(r)
  BY <1>4, <1>5, <1>6, <1>7, <1>8, <1>9, <1>10, <1>11 DEF Request
<1>13. UNCHANGED <<tables, cache, server, written, purgeLost, authVars>>
  BY DEF Request, ListCampaigns, GetCampaignAnalytics, DeactivateRequest,
     CreateRequest, DeleteRequest, RestoreRequest, ReorderRequest,
     ClaimRequest, ReadRequest, Arrive
<1> QED
  BY <1>12, <1>13

(* A restart ends every request without an answer of its own.              *)
LEMMA RestartDoes ==
    ASSUME RequestsOK, ApiRestart
    PROVE  /\ Slots'
           /\ \A r \in Requests :
                /\ KeptAll(req[r], req'[r])
                /\ req'[r].status = req[r].status
                /\ \/ req'[r] = req[r] /\ req[r].pc = "new"
                   \/ /\ req[r].pc # "new"
                      /\ req'[r].pc = "done" /\ req'[r].locks = {}
           /\ UNCHANGED <<tables, cache, written, clock, tokens>>
           /\ purgeLost' = (purgeLost \/ \E r \in Requests :
                                           req[r].pc \in {"keys", "del"})
<1>1. ASSUME NEW r \in Requests
      PROVE  /\ KeptAll(req[r], req'[r])
             /\ req'[r].status = req[r].status
             /\ \/ req'[r] = req[r] /\ req[r].pc = "new"
                \/ /\ req[r].pc # "new"
                   /\ req'[r].pc = "done" /\ req'[r].locks = {}
  <2>1. DOMAIN req[r] = DOMAIN NoRequest
    BY DEF RequestsOK, RequestOK
  <2>2. CASE req[r].pc = "new"
    <3>1. req'[r] = req[r]
      BY <2>2 DEF ApiRestart
    <3> QED
      BY <2>2, <3>1 DEF KeptAll, KeptLocals, Kept
  <2>3. CASE req[r].pc # "new"
    <3> DEFINE s == req[r]
               t == req'[r]
    <3>1. t = [s EXCEPT !.pc = "done", !.locks = {}]
      BY <2>3 DEF ApiRestart
    <3>2. KeptAll(s, t) /\ t.status = s.status /\ t.pc = "done"
          /\ t.locks = {}
      BY <2>1, <3>1 DEF KeptAll, KeptLocals, Kept, NoRequest
    <3> QED
      BY <2>3, <3>2
  <2> QED
    BY <2>2, <2>3
<1>2. Slots'
  BY DEF ApiRestart, Slots
<1>3. /\ UNCHANGED <<tables, cache, written, clock, tokens>>
      /\ purgeLost' = (purgeLost \/ \E r \in Requests :
                                      req[r].pc \in {"keys", "del"})
  BY DEF ApiRestart, Restart
<1> QED
  BY <1>1, <1>2, <1>3

(* A step of a handler or a failure in it.                                 *)
Moves(r) == Step(r) \/ RedisFails(r) \/ DatabaseFails(r)

(* What a request was sent with stays, and its handler stays on its way.   *)
LEMMA RequestMoves ==
    ASSUME RequestsOK, Len(writtenAt) \in Nat,
           NEW r \in Requests, Moves(r)
    PROVE  /\ OnlySlot(r)
           /\ Kept(req[r], req'[r])
           /\ RequestOK(req'[r])
           /\ req[r].pc \notin {"new", "done"}
           /\ req'[r].read \in {req[r].read, Len(writtenAt)}
<1> DEFINE s == req[r]
           t == req'[r]
           Good == /\ OnlySlot(r) /\ Kept(s, t) /\ RequestOK(t)
                   /\ s.pc \notin {"new", "done"}
                   /\ t.read \in {s.read, Len(writtenAt)}
<1>1. Slots /\ RequestOK(s) /\ DOMAIN s = DOMAIN NoRequest
  BY DEF RequestsOK, RequestOK, Slots
<1>2. ASSUME OnlySlot(r), Kept(s, t), s.pc \notin {"new", "done"},
             t.moved \in Nat, t.read \in {s.read, Len(writtenAt)},
             Whereabouts(t),
             t.pc # "done" /\ t.op # "rewards" => t.status = 0
      PROVE  Good
  BY <1>1, <1>2 DEF RequestOK, Kept
<1> HIDE DEF Good
<1>3. ASSUME ListStep(r) PROVE Good
  <2>1. CASE CacheHit(r)
    BY <1>1, <1>2, <2>1, CacheHitDoes
       DEF CacheHit, Reads, KeptLocals, Kept, RequestOK, Whereabouts
  <2>2. CASE CacheMiss(r) \/ Count(r)
    <3>1. \/ s.pc = "get" /\ Goto(r, "select")
          \/ s.pc = "count" /\ Goto(r, "setex")
      BY <2>2 DEF CacheMiss, Count, Reads
    <3>2. s.op \in {"list", "report"}
      BY <2>2 DEF CacheMiss, Count, Reads
    <3> QED
      BY <1>1, <1>2, <3>1, <3>2, GotoDoes
         DEF KeptAll, KeptLocals, Kept, RequestOK, Whereabouts
  <2>3. CASE Select(r)
    BY <1>1, <1>2, <2>3, SelectDoes
       DEF Select, Reads, KeptLocals, Kept, RequestOK, Whereabouts
  <2>4. CASE Setex(r)
    <3>1. Answer(r, 200) /\ s.op \in {"list", "report"} /\ s.pc = "setex"
      BY <2>4 DEF Setex, Reads
    <3> QED
      BY <1>1, <1>2, <3>1, AnswerDoes
         DEF KeptAll, KeptLocals, Kept, RequestOK, Whereabouts
  <2> QED
    BY <1>3, <2>1, <2>2, <2>3, <2>4 DEF ListStep
<1>4. ASSUME NEW status, Answer(r, status), s.pc \notin {"new", "done"}
      PROVE  Good
  BY <1>1, <1>2, <1>4, AnswerDoes
     DEF KeptAll, KeptLocals, Kept, RequestOK, Whereabouts
<1>5. ASSUME FindCampaign(r) \/ UpdateCampaign(r) PROVE Good
  <2>1. \/ s.pc = "find" /\ (Answer(r, 404) \/ Answer(r, 403))
        \/ s.op = "patch" /\ s.pc = "find" /\ Goto(r, "update")
        \/ s.op = "patch" /\ s.pc = "update" /\ Goto(r, "keys")
    BY <1>5 DEF FindCampaign, UpdateCampaign, At
  <2> QED
    BY <1>1, <1>2, <1>4, <2>1, GotoDoes
       DEF KeptAll, KeptLocals, Kept, RequestOK, Whereabouts
<1>6. ASSUME InsertCampaign(r) \/ CommitCampaign(r) PROVE Good
  <2>1. s.op = "post" /\ s.pc \in {"insert", "audit"}
    BY <1>6 DEF InsertCampaign, CommitCampaign, At
  <2> QED
    BY <1>1, <1>2, <1>6, <2>1, CreationDoes
       DEF KeptAll, KeptLocals, Kept, RequestOK, Whereabouts
<1>7. ASSUME ReadKeys(r) PROVE Good
  <2>1. s.pc = "keys"
    BY <1>7 DEF ReadKeys
  <2> QED
    BY <1>1, <1>2, <1>7, <2>1, ReadKeysDoes
       DEF Kept, RequestOK, Whereabouts, UncachedReads
<1>8. ASSUME DeleteKeys(r) \/ MarkDeleted(r) PROVE Good
  <2>1. \/ s.pc = "del" /\ Answer(r, Success(r))
        \/ s.pc = "mark" /\ (Answer(r, 200) \/ Answer(r, 404))
    BY <1>8 DEF DeleteKeys, MarkDeleted
  <2> QED
    BY <1>4, <2>1
<1>9. ASSUME MoveCampaign(r) PROVE Good
  <2>1. s.op = "reorder" /\ s.pc = "move"
    BY <1>9 DEF MoveCampaign, Moving, At
  <2> QED
    BY <1>1, <1>2, <1>9, <2>1, MoveDoes
       DEF Kept, RequestOK, Whereabouts, UncachedReads
<1>10. ASSUME CommitOrder(r) \/ DeadlockDetected(r) PROVE Good
  <2>1. s.pc = "move" /\ (Answer(r, 200) \/ Answer(r, 500))
    BY <1>10 DEF CommitOrder, DeadlockDetected, Moving, At
  <2> QED
    BY <1>4, <2>1
<1>11. ASSUME ClaimStep(r) PROVE Good
  <2>1. \/ s.op = "claim" /\ s.pc = "user" /\ Goto(r, "reward")
        \/ s.pc = "reward" /\ \E status : Answer(r, status)
    BY <1>11 DEF ClaimStep, InsertUser, InsertReward, At
  <2> QED
    BY <1>1, <1>2, <1>4, <2>1, GotoDoes
       DEF KeptAll, KeptLocals, Kept, RequestOK, Whereabouts
<1>12. ASSUME NEW i, NEW rows, NEW status, Found(r, i, rows, status),
              s.pc = "query"
       PROVE  Good
  <2>1. s.op \in UncachedReads
    BY <1>1, <1>12 DEF RequestOK, Whereabouts
  <2> QED
    BY <1>1, <1>2, <1>12, <2>1, FoundDoes
       DEF Kept, RequestOK, Whereabouts, UncachedReads
<1>13. ASSUME Query(r) PROVE Good
  BY <1>12, <1>13 DEF Query
<1>14. ASSUME RedisFails(r) PROVE Good
  <2>1. s.pc \in {"get", "setex", "keys", "del"}
    BY <1>14 DEF RedisFails
  <2> QED
    BY <1>1, <1>2, <1>14, <2>1, RedisFailsDoes
       DEF KeptAll, KeptLocals, Kept, RequestOK, Whereabouts, UncachedReads
<1>15. ASSUME DatabaseFails(r) PROVE Good
  <2>1. CASE Found(r, 1, {}, 500) /\ s.op = "rewards"
    <3>1. s.pc = "query"
      BY <1>1, <1>15, <2>1, DatabaseFailsDoes
         DEF RequestOK, Whereabouts, UncachedReads
    <3> QED
      BY <1>12, <2>1, <3>1
  <2>2. CASE ~(Found(r, 1, {}, 500) /\ s.op = "rewards")
    BY <1>1, <1>2, <1>15, <2>2, DatabaseFailsDoes
       DEF KeptAll, KeptLocals, Kept, RequestOK, Whereabouts, UncachedReads
  <2> QED
    BY <2>1, <2>2
<1>16. Good
  BY <1>3, <1>5, <1>6, <1>7, <1>8, <1>9, <1>10, <1>11, <1>13, <1>14, <1>15
     DEF Moves, Step, MerchantStep, TableStep
<1> QED
  BY <1>16 DEF Good

(* The slots of any step: none changes, one begins or moves, or the        *)
(* process starts again.                                                   *)
LEMMA SlotsStep ==
    ASSUME [ApiNext]_vars
    PROVE  \/ UNCHANGED req
           \/ \E r \in Requests : Request(r)
           \/ \E r \in Requests : Moves(r)
           \/ ApiRestart
<1>1. ASSUME RecordTransaction \/ ApiTick \/ ApiSignIn \/ Shutdown
             \/ ServerClosed
      PROVE  UNCHANGED req
  BY <1>1 DEF RecordTransaction, ApiTick, ApiSignIn, Shutdown, ServerClosed,
              apiVars
<1> QED
  BY <1>1 DEF ApiNext, Moves, vars, apiVars

(* Every slot stays with its handler.                                      *)
LEMMA RequestsStep ==
    ASSUME RequestsOK, Len(writtenAt) \in Nat, tokens \subseteq Token,
           clock \in Nat, [ApiNext]_vars
    PROVE  RequestsOK'
<1>1. ASSUME NEW r \in Requests, OnlySlot(r), RequestOK(req'[r])
      PROVE  RequestsOK'
  <2>1. \A q \in Requests : q # r => req'[q] = req[q]
    BY <1>1 DEF OnlySlot
  <2>2. ASSUME NEW q \in Requests PROVE RequestOK(req'[q])
    <3>1. CASE q = r
      BY <1>1, <3>1
    <3>2. CASE q # r
      <4>1. RequestOK(req[q])
        BY DEF RequestsOK
      <4> QED
        BY <2>1, <3>2, <4>1
    <3> QED
      BY <3>1, <3>2
  <2> QED
    BY <1>1, <2>2 DEF RequestsOK, OnlySlot, Slots
<1>2. CASE UNCHANGED req
  BY <1>2 DEF RequestsOK, RequestOK, Whereabouts
<1>3. CASE \E r \in Requests : Request(r)
  BY <1>1, <1>3, RequestBegins DEF Begins
<1>4. CASE \E r \in Requests : Moves(r)
  BY <1>1, <1>4, RequestMoves
<1>5. CASE ApiRestart
  <2>1. ASSUME NEW r \in Requests PROVE RequestOK(req'[r])
    <3> DEFINE s == req[r]
               t == req'[r]
    <3>1. RequestOK(s)
      BY DEF RequestsOK
    <3>2. /\ KeptAll(s, t) /\ t.status = s.status
          /\ \/ t = s
             \/ s.pc # "new" /\ t.pc = "done"
      BY <1>5, RestartDoes
    <3>3. CASE t = s
      BY <3>1, <3>3
    <3>4. CASE s.pc # "new" /\ t.pc = "done"
      BY <3>1, <3>2, <3>4
         DEF KeptAll, KeptLocals, Kept, RequestOK, Whereabouts
    <3> QED
      BY <3>2, <3>3, <3>4
  <2> QED
    BY <1>5, <2>1, RestartDoes DEF RequestsOK, Slots
<1> QED
  BY <1>2, <1>3, <1>4, <1>5, SlotsStep

-----------------------------------------------------------------------------
(* The greatest of finitely many numbers: of the sets of what is greater   *)
(* than one of them the least is empty.                                    *)
LEMMA MaxOfFinite ==
    ASSUME NEW S \in SUBSET Nat, S # {}, IsFiniteSet(S)
    PROVE  Max(S) \in S /\ \A x \in S : Max(S) >= x
<1> DEFINE Above(x) == {y \in S : y > x}
           Tops == {Above(x) : x \in S}
           R == StrictSubsetOrdering(S)
<1>1. IsWellFoundedOn(R, SUBSET S)
  BY FS_StrictSubsetOrderingWellFounded, FS_FiniteSubsetsOfFinite
<1>2. PICK T \in Tops : \A U \in Tops : <<U, T>> \notin R
  <2>1. Tops \subseteq SUBSET S /\ Tops # {}
    OBVIOUS
  <2> HIDE DEF R, Tops
  <2> QED
    BY <1>1, <2>1, WFMin
<1>3. PICK x \in S : T = Above(x)
  BY <1>2
<1>4. ASSUME NEW y \in S PROVE x >= y
  <2>1. SUFFICES ASSUME y > x PROVE FALSE
    OBVIOUS
  <2>2. Above(y) \subseteq Above(x) /\ y \in Above(x) /\ y \notin Above(y)
    <3>1. x \in Nat /\ y \in Nat /\ \A z \in S : z \in Nat
      OBVIOUS
    <3>2. \A z \in S : z > y => z > x
      BY <2>1, <3>1
    <3>3. ~(y > y)
      BY <3>1
    <3>4. \A z : z \in Above(y) => z \in Above(x)
      BY <3>2
    <3>5. y \in Above(x)
      BY <2>1
    <3>6. y \notin Above(y)
      BY <3>3
    <3> HIDE DEF Above
    <3> QED
      BY <3>4, <3>5, <3>6
  <2>3. <<Above(y), Above(x)>> \in R
    BY <2>2 DEF StrictSubsetOrdering
  <2> QED
    BY <1>2, <1>3, <2>3
<1> QED
  BY <1>4 DEF Max

(* The display order of a row a body lists.                                *)
LEMMA PlaceIsNatural ==
    ASSUME NEW order \in Seq(Nat), NEW id \in Range(order)
    PROVE  Place(order, id) \in Nat
<1> DEFINE S == {i \in DOMAIN order : order[i] = id}
<1>1. DOMAIN order = 1..Len(order) /\ Len(order) \in Nat
  OBVIOUS
<1>2. S \subseteq 1..Len(order) /\ S # {}
  BY <1>1 DEF Range
<1>3. IsFiniteSet(S) /\ S \in SUBSET Nat
  <2>1. IsFiniteSet(1..Len(order))
    BY <1>1, FS_Interval
  <2> QED
    BY <1>1, <1>2, <2>1, FS_Subset
<1>4. Max(S) \in S
  <2> HIDE DEF S
  <2> QED
    BY <1>2, <1>3, MaxOfFinite
<1>5. Max(S) \in 1..Len(order)
  BY <1>2, <1>4
<1> QED
  BY <1>1, <1>5 DEF Place

-----------------------------------------------------------------------------
(* What the steps do to the tables.                                        *)

(* A row keeps its other columns.                                          *)
LEMMA RowChanged ==
    ASSUME NEW c \in Campaign
    PROVE  /\ \A b \in BOOLEAN :
                /\ [c EXCEPT !.active = b] \in Campaign
                /\ [c EXCEPT !.active = b].owner = c.owner
                /\ [c EXCEPT !.active = b].order = c.order
                /\ [c EXCEPT !.deleted = b] \in Campaign
                /\ [c EXCEPT !.deleted = b].owner = c.owner
                /\ [c EXCEPT !.deleted = b].order = c.order
           /\ \A n : /\ [c EXCEPT !.order = n].owner = c.owner
                     /\ [c EXCEPT !.order = n].order = n
                     /\ n \in Nat => [c EXCEPT !.order = n] \in Campaign
  BY DEF Campaign

(* The tables have their rows, those that were there at first among them,  *)
(* and a reorder has locked rows it was sent only.                         *)
RowsOK ==
    /\ \A id \in DOMAIN campaigns : campaigns[id] \in Campaign
    /\ DOMAIN SeedRows \subseteq DOMAIN campaigns
    /\ \A r \in Requests :
         req[r].op = "reorder" => req[r].locks \subseteq Range(req[r].order)

(* Rows stay, as their owner's, and keep their order but in a reorder.     *)
RowsStay ==
    /\ DOMAIN campaigns \subseteq DOMAIN campaigns'
    /\ \A id \in DOMAIN campaigns' : campaigns'[id] \in Campaign
    /\ \A id \in DOMAIN campaigns :
         campaigns'[id].owner = campaigns[id].owner

OrdersStay ==
    \A id \in DOMAIN campaigns : campaigns'[id].order = campaigns[id].order

(* The UPDATE of deactivateCampaign adds no row and changes no owner.      *)
LEMMA UpdateWrites ==
    ASSUME RequestsOK, RowsOK, NEW r \in Requests, UpdateCampaign(r)
    PROVE  /\ RowsStay /\ OrdersStay
           /\ DOMAIN campaigns' = DOMAIN campaigns
           /\ UNCHANGED <<audit, users, rewards, transactions, cache,
                          server, authVars, purgeLost>>
           /\ writtenAt' = Append(writtenAt, clock)
           /\ purging' = Len(writtenAt')
<1>1. campaigns' = [campaigns EXCEPT ![req[r].id].active = FALSE]
  BY DEF UpdateCampaign, WriteCampaigns
<1>2. /\ DOMAIN campaigns' = DOMAIN campaigns
      /\ \A id \in DOMAIN campaigns :
           campaigns'[id] \in
             {campaigns[id], [campaigns[id] EXCEPT !.active = FALSE]}
  BY <1>1
<1>3. RowsStay /\ OrdersStay
  BY <1>2, RowChanged DEF RowsStay, OrdersStay, RowsOK
<1> QED
  BY <1>2, <1>3 DEF UpdateCampaign, WriteCampaigns, LogWrite, Quiet

(* The COMMIT of POST adds the row asked for; one that is there stays its  *)
(* owner's.                                                                *)
LEMMA CommitWrites ==
    ASSUME RequestsOK, RowsOK, NEW r \in Requests, CommitCampaign(r)
    PROVE  /\ RowsStay /\ OrdersStay
           /\ DOMAIN campaigns' = DOMAIN campaigns \cup {req[r].id}
           /\ req[r].id \notin DOMAIN campaigns =>
                campaigns'[req[r].id].owner = req[r].who
           /\ audit' = audit \cup {req[r].id}
           /\ UNCHANGED <<users, rewards, transactions, cache,
                          server, authVars, purgeLost>>
           /\ writtenAt' = Append(writtenAt, clock)
           /\ purging' = Len(writtenAt')
<1> DEFINE i == req[r].id
           who == req[r].who
<1>1. campaigns' = Upserted(i, who)
  BY DEF CommitCampaign, WriteCampaigns
<1>2. /\ DOMAIN campaigns' = DOMAIN campaigns \cup {i}
      /\ \A id \in DOMAIN campaigns :
           campaigns'[id] \in
             {campaigns[id], [campaigns[id] EXCEPT !.active = TRUE]}
      /\ i \notin DOMAIN campaigns =>
           campaigns'[i] = [owner |-> who, active |-> TRUE,
                            deleted |-> FALSE, order |-> 0]
  BY <1>1 DEF Upserted, Set
<1>3. who \in Merchants
  BY DEF RequestsOK, RequestOK, CommitCampaign, At
<1> HIDE DEF who
<1>4. i \notin DOMAIN campaigns =>
        campaigns'[i] \in Campaign /\ campaigns'[i].owner = who
  <2> DEFINE row == [owner |-> who, active |-> TRUE, deleted |-> FALSE,
                     order |-> 0]
  <2>1. row \in Campaign /\ row.owner = who
    BY <1>3 DEF Campaign
  <2> HIDE DEF row, i
  <2>2. i \notin DOMAIN campaigns => campaigns'[i] = row
    BY <1>2 DEF row
  <2> QED
    BY <2>1, <2>2
<1>5. \A id \in DOMAIN campaigns :
        /\ campaigns'[id] \in Campaign
        /\ campaigns'[id].owner = campaigns[id].owner
        /\ campaigns'[id].order = campaigns[id].order
  <2> SUFFICES ASSUME NEW id \in DOMAIN campaigns
               PROVE  /\ campaigns'[id] \in Campaign
                      /\ campaigns'[id].owner = campaigns[id].owner
                      /\ campaigns'[id].order = campaigns[id].order
    OBVIOUS
  <2>1. campaigns[id] \in Campaign
    BY DEF RowsOK
  <2> QED
    BY <1>2, <2>1, RowChanged
<1>6. RowsStay /\ OrdersStay
  BY <1>2, <1>4, <1>5 DEF RowsStay, OrdersStay
<1> QED
  BY <1>2, <1>4, <1>6
     DEF CommitCampaign, WriteCampaigns, LogWrite, Quiet, who

(* A deletion or restoration changes that flag alone, in the row or in     *)
(* none.                                                                   *)
LEMMA MarkWrites ==
    ASSUME RequestsOK, RowsOK, NEW r \in Requests, MarkDeleted(r)
    PROVE  /\ RowsStay /\ OrdersStay
           /\ DOMAIN campaigns' = DOMAIN campaigns
           /\ UNCHANGED <<audit, users, rewards, transactions, cache,
                          server, authVars, purgeLost, purging>>
           /\ writtenAt' \in {writtenAt, Append(writtenAt, clock)}
<1> DEFINE flag == req[r].op = "delete"
<1>1. \/ campaigns' = [campaigns EXCEPT ![req[r].id].deleted = flag]
      \/ campaigns' = campaigns
  BY DEF MarkDeleted, WriteCampaigns
<1>2. flag \in BOOLEAN
  OBVIOUS
<1> HIDE DEF flag
<1>3. /\ DOMAIN campaigns' = DOMAIN campaigns
      /\ \A id \in DOMAIN campaigns :
           campaigns'[id] \in
             {campaigns[id], [campaigns[id] EXCEPT !.deleted = flag]}
  BY <1>1
<1>4. \A id \in DOMAIN campaigns :
        /\ campaigns'[id] \in Campaign
        /\ campaigns'[id].owner = campaigns[id].owner
        /\ campaigns'[id].order = campaigns[id].order
  <2> SUFFICES ASSUME NEW id \in DOMAIN campaigns
               PROVE  /\ campaigns'[id] \in Campaign
                      /\ campaigns'[id].owner = campaigns[id].owner
                      /\ campaigns'[id].order = campaigns[id].order
    OBVIOUS
  <2> DEFINE c == campaigns[id]
             d == [c EXCEPT !.deleted = flag]
  <2>1. c \in Campaign
    BY DEF RowsOK
  <2>2. d \in Campaign /\ d.owner = c.owner /\ d.order = c.order
    BY <1>2, <2>1, RowChanged
  <2>3. campaigns'[id] \in {c, d}
    BY <1>3
  <2> HIDE DEF d
  <2> QED
    BY <2>1, <2>2, <2>3
<1>5. RowsStay /\ OrdersStay
  BY <1>3, <1>4 DEF RowsStay, OrdersStay
<1> QED
  BY <1>3, <1>5 DEF MarkDeleted, WriteCampaigns, LogWrite, Quiet

(* The COMMIT of a reorder gives the rows it holds their places in the     *)
(* body.                                                                   *)
LEMMA OrderWrites ==
    ASSUME RequestsOK, RowsOK, NEW r \in Requests, CommitOrder(r)
    PROVE  /\ RowsStay
           /\ DOMAIN campaigns' = DOMAIN campaigns
           /\ \A id \in DOMAIN campaigns \cap req[r].locks :
                campaigns'[id].order = Place(req[r].order, id)
           /\ UNCHANGED <<audit, users, rewards, transactions, cache,
                          server, authVars, purgeLost, purging>>
           /\ writtenAt' = Append(writtenAt, clock)
<1>1. req[r].op = "reorder" /\ req[r].order \in Seq(Nat)
  BY DEF CommitOrder, At, RequestsOK, RequestOK
<1>2. /\ DOMAIN campaigns' = DOMAIN campaigns
      /\ \A id \in DOMAIN campaigns :
           campaigns'[id] =
             IF id \in req[r].locks
             THEN [campaigns[id] EXCEPT !.order = Place(req[r].order, id)]
             ELSE campaigns[id]
  BY DEF CommitOrder, WriteCampaigns
<1>3. \A id \in req[r].locks : Place(req[r].order, id) \in Nat
  BY <1>1, PlaceIsNatural DEF RowsOK
<1>4. \A id \in DOMAIN campaigns : campaigns[id] \in Campaign
  BY DEF RowsOK
<1>5. ASSUME NEW id \in DOMAIN campaigns
      PROVE  /\ campaigns'[id] \in Campaign
             /\ campaigns'[id].owner = campaigns[id].owner
             /\ id \in req[r].locks =>
                  campaigns'[id].order = Place(req[r].order, id)
  <2> DEFINE c == campaigns[id]
             n == Place(req[r].order, id)
  <2>1. c \in Campaign
    BY <1>4
  <2>2. CASE id \in req[r].locks
    <3>1. campaigns'[id] = [c EXCEPT !.order = n] /\ n \in Nat
      BY <1>2, <1>3, <2>2
    <3> HIDE DEF c, n
    <3>2. /\ campaigns'[id] \in Campaign /\ campaigns'[id].owner = c.owner
          /\ campaigns'[id].order = n
      BY <2>1, <3>1, RowChanged
    <3> QED
      BY <3>2 DEF c, n
  <2>3. CASE id \notin req[r].locks
    BY <1>2, <2>1, <2>3
  <2> QED
    BY <2>2, <2>3
<1>6. RowsStay
  BY <1>2, <1>5 DEF RowsStay
<1> QED
  BY <1>2, <1>5, <1>6 DEF CommitOrder, WriteCampaigns, LogWrite, Quiet

(* The claims' INSERTs.                                                    *)
LEMMA ClaimWrites ==
    ASSUME NEW r \in Requests, InsertUser(r) \/ InsertReward(r)
    PROVE  /\ UNCHANGED <<campaigns, audit, transactions, cache, server,
                          authVars, purgeLost, purging>>
           /\ users \subseteq users'
           /\ rewards \subseteq rewards'
           /\ InsertUser(r) => users' = users \cup {req[r].who}
           /\ rewards' # rewards =>
                /\ InsertReward(r)
                /\ rewards' = rewards \cup {<<req[r].who, req[r].id>>}
                /\ req[r].id \in DOMAIN campaigns
           /\ writtenAt' \in {writtenAt, Append(writtenAt, clock)}
<1>1. CASE InsertUser(r)
  BY <1>1 DEF InsertUser, LogWrite, Quiet
<1>2. CASE ~InsertUser(r)
  BY <1>2 DEF InsertReward, LogWrite, Quiet
<1> QED
  BY <1>1, <1>2

Writers(r) ==
    \/ UpdateCampaign(r) \/ CommitCampaign(r) \/ MarkDeleted(r)
    \/ CommitOrder(r) \/ InsertUser(r) \/ InsertReward(r)

(* The steps of the handlers that write a table are these.                 *)
LEMMA OtherStepsWriteNothing ==
    ASSUME NEW r \in Requests, Moves(r), ~Writers(r)
    PROVE  /\ UNCHANGED <<tables, written, server, authVars>>
           /\ ~Setex(r) /\ ~DeleteKeys(r) => UNCHANGED cache
           /\ ~RedisFails(r) => UNCHANGED purgeLost
<1> DEFINE Done == /\ UNCHANGED <<tables, written, server, authVars>>
                   /\ ~Setex(r) /\ ~DeleteKeys(r) => UNCHANGED cache
                   /\ ~RedisFails(r) => UNCHANGED purgeLost
<1>1. ASSUME ListStep(r) PROVE Done
  BY <1>1 DEF ListStep, CacheHit, CacheMiss, Select, Count, Setex,
              OnlyRequest, Quiet
<1>2. ASSUME FindCampaign(r) \/ InsertCampaign(r) \/ ReadKeys(r)
      PROVE  Done
  BY <1>2 DEF FindCampaign, InsertCampaign, ReadKeys, OnlyRequest, Quiet
<1>3. ASSUME DeleteKeys(r) PROVE Done
  BY <1>3 DEF DeleteKeys, Quiet
<1>4. ASSUME MoveCampaign(r) \/ DeadlockDetected(r) PROVE Done
  BY <1>4 DEF MoveCampaign, DeadlockDetected, OnlyRequest, Quiet
<1>5. ASSUME Query(r) PROVE Done
  BY <1>5 DEF Query, OnlyRequest, Quiet
<1>6. ASSUME RedisFails(r) PROVE Done
  BY <1>6 DEF RedisFails
<1>7. ASSUME DatabaseFails(r) PROVE Done
  BY <1>7 DEF DatabaseFails
<1> HIDE DEF Done
<1>8. Done
  BY <1>1, <1>2, <1>3, <1>4, <1>5, <1>6, <1>7
     DEF Moves, Writers, Step, MerchantStep, TableStep, ClaimStep
<1> QED
  BY <1>8 DEF Done

(* Apart from the handlers only the indexer writes a table.                *)
LEMMA TablesStep ==
    ASSUME RequestsOK, AuthTypeOK, [ApiNext]_vars
    PROVE  \/ UNCHANGED <<tables, written>>
           \/ \E r \in Requests : Writers(r)
           \/ /\ RecordTransaction
              /\ UNCHANGED <<campaigns, audit, users, rewards, written, req>>
              /\ transactions \subseteq transactions'
<1>1. ASSUME NEW r \in Requests, Request(r)
      PROVE  UNCHANGED <<tables, written>>
  BY <1>1, RequestBegins DEF AuthTypeOK
<1>2. ASSUME NEW r \in Requests, Moves(r)
      PROVE  UNCHANGED <<tables, written>> \/ Writers(r)
  BY <1>2, OtherStepsWriteNothing
<1>3. ASSUME ApiTick \/ ApiSignIn \/ Shutdown \/ ServerClosed \/ ApiRestart
      PROVE  UNCHANGED <<tables, written>>
  BY <1>3 DEF ApiTick, ApiSignIn, Shutdown, ServerClosed, ApiRestart,
              apiVars, tables, written
<1>4. ASSUME RecordTransaction
      PROVE  /\ UNCHANGED <<campaigns, audit, users, rewards, written, req>>
             /\ transactions \subseteq transactions'
  BY <1>4 DEF RecordTransaction
<1>5. CASE UNCHANGED vars
  BY <1>5 DEF vars, apiVars, tables, written
<1> QED
  BY <1>1, <1>2, <1>3, <1>4, <1>5 DEF ApiNext, Moves

(* Rows are never deleted, nor do they change hands.                       *)
LEMMA TablesGrow ==
    ASSUME RequestsOK, RowsOK, AuthTypeOK, [ApiNext]_vars
    PROVE  /\ RowsStay
           /\ audit \subseteq audit' /\ users \subseteq users'
           /\ rewards \subseteq rewards'
           /\ transactions \subseteq transactions'
           /\ writtenAt' \in {writtenAt, Append(writtenAt, clock)}
           /\ purging' \in {purging, Len(writtenAt')}
           /\ purging' # purging => writtenAt' = Append(writtenAt, clock)
<1>1. UNCHANGED campaigns => RowsStay
  BY DEF RowsStay, RowsOK
<1>2. CASE UNCHANGED <<tables, written>>
  BY <1>1, <1>2 DEF tables, written
<1>3. ASSUME NEW r \in Requests, Writers(r)
      PROVE  /\ RowsStay
             /\ audit \subseteq audit' /\ users \subseteq users'
             /\ rewards \subseteq rewards'
             /\ transactions \subseteq transactions'
             /\ writtenAt' \in {writtenAt, Append(writtenAt, clock)}
             /\ purging' \in {purging, Len(writtenAt')}
             /\ purging' # purging => writtenAt' = Append(writtenAt, clock)
  <2>1. CASE UpdateCampaign(r)
    BY <2>1, UpdateWrites
  <2>2. CASE CommitCampaign(r)
    BY <2>2, CommitWrites
  <2>3. CASE MarkDeleted(r)
    BY <2>3, MarkWrites
  <2>4. CASE CommitOrder(r)
    BY <2>4, OrderWrites
  <2>5. CASE InsertUser(r) \/ InsertReward(r)
    BY <1>1, <2>5, ClaimWrites
  <2> QED
    BY <1>3, <2>1, <2>2, <2>3, <2>4, <2>5 DEF Writers
<1>4. CASE /\ UNCHANGED <<campaigns, audit, users, rewards, written>>
           /\ transactions \subseteq transactions'
  BY <1>1, <1>4 DEF written
<1> QED
  BY <1>2, <1>3, <1>4, TablesStep

-----------------------------------------------------------------------------
(* What the handlers of each operation do to their requests.               *)

(* PATCH goes on to its UPDATE for the owner of the row only.              *)
LEMMA PatchMoves ==
    ASSUME RequestsOK, NEW r \in Requests, Moves(r), req[r].op = "patch"
    PROVE  /\ req'[r].pc # "done" => req'[r].status = 0
           /\ \/ /\ req[r].pc = "find" /\ req'[r].pc = "update"
                 /\ req[r].id \in DOMAIN campaigns
                 /\ campaigns[req[r].id].owner = req[r].who
              \/ req'[r].pc = "done" /\ req'[r].status \in {403, 404, 500, 503}
              \/ req[r].pc \in {"update", "keys", "del"}
<1> DEFINE s == req[r]
           t == req'[r]
<1>1. Slots /\ RequestOK(s) /\ DOMAIN s = DOMAIN NoRequest
  BY DEF RequestsOK, RequestOK, Slots
<1>2. s.pc # "done" => s.status = 0
  BY <1>1 DEF RequestOK
<1>3. CASE FindCampaign(r)
  <2>1. \/ Answer(r, 404) \/ Answer(r, 403)
        \/ /\ Goto(r, "update")
           /\ s.id \in Matching(Everything) /\ campaigns[s.id].owner = s.who
    BY <1>3 DEF FindCampaign
  <2>2. Matching(Everything) \subseteq DOMAIN campaigns
    BY DEF Matching
  <2> QED
    BY <1>1, <1>2, <1>3, <2>1, <2>2, GotoDoes, AnswerDoes
       DEF FindCampaign, At
<1>4. CASE UpdateCampaign(r)
  BY <1>1, <1>2, <1>4, GotoDoes DEF UpdateCampaign, At
<1>5. CASE ReadKeys(r)
  BY <1>1, <1>2, <1>5, ReadKeysDoes DEF ReadKeys
<1>6. CASE DeleteKeys(r)
  BY <1>1, <1>2, <1>6, AnswerDoes DEF DeleteKeys
<1>7. CASE RedisFails(r)
  BY <1>1, <1>2, <1>7, RedisFailsDoes
<1>8. CASE DatabaseFails(r)
  BY <1>1, <1>2, <1>8, DatabaseFailsDoes
<1> QED
  BY <1>3, <1>4, <1>5, <1>6, <1>7, <1>8, HandlerOf
     DEF Moves, UncachedReads

(* POST has its status 201 after its COMMIT only.                          *)
LEMMA PostMoves ==
    ASSUME RequestsOK, NEW r \in Requests, Moves(r), req[r].op = "post"
    PROVE  \/ CommitCampaign(r) /\ req'[r].status = 0
           \/ /\ req'[r].pc \in {"audit", "done"}
              /\ req'[r].status \in {0, 500, 503}
           \/ req[r].pc \in {"keys", "del"}
<1> DEFINE s == req[r]
           t == req'[r]
<1>1. Slots /\ RequestOK(s) /\ DOMAIN s = DOMAIN NoRequest
  BY DEF RequestsOK, RequestOK, Slots
<1>2. s.pc # "done" => s.status = 0
  BY <1>1 DEF RequestOK
<1>3. CASE InsertCampaign(r)
  BY <1>1, <1>2, <1>3, CreationDoes DEF InsertCampaign, At
<1>4. CASE CommitCampaign(r)
  BY <1>1, <1>2, <1>4, CreationDoes DEF CommitCampaign, At
<1>5. CASE ReadKeys(r) \/ DeleteKeys(r)
  BY <1>5 DEF ReadKeys, DeleteKeys
<1>6. CASE RedisFails(r)
  BY <1>1, <1>6, RedisFailsDoes
<1>7. CASE DatabaseFails(r)
  BY <1>1, <1>2, <1>7, DatabaseFailsDoes
<1> QED
  BY <1>3, <1>4, <1>5, <1>6, <1>7, HandlerOf DEF Moves, UncachedReads

(* A reorder answers 200 by its COMMIT and gives up its locks then.        *)
LEMMA ReorderMoves ==
    ASSUME RequestsOK, NEW r \in Requests, Moves(r), req[r].op = "reorder"
    PROVE  \/ MoveCampaign(r)
           \/ CommitOrder(r) /\ req'[r].pc = "done" /\ req'[r].locks = {}
                             /\ req'[r].status = 200
           \/ /\ req'[r].pc = "done" /\ req'[r].locks = {}
              /\ req'[r].status \in {500, 503} /\ ~CommitOrder(r)
<1> DEFINE s == req[r]
           t == req'[r]
<1>1. Slots /\ RequestOK(s) /\ DOMAIN s = DOMAIN NoRequest
  BY DEF RequestsOK, RequestOK, Slots
<1>2. CASE CommitOrder(r)
  <2>1. Answer(r, 200)
    BY <1>2 DEF CommitOrder
  <2> QED
    BY <1>1, <1>2, <2>1, AnswerDoes
<1>3. CASE DeadlockDetected(r)
  <2>1. Answer(r, 500) /\ ~CommitOrder(r)
    BY <1>3 DEF DeadlockDetected, CommitOrder
  <2> QED
    BY <1>1, <2>1, AnswerDoes
<1>4. CASE RedisFails(r)
  BY <1>4, RedisFailsDoes
<1>5. CASE DatabaseFails(r) /\ ~CommitOrder(r)
  BY <1>1, <1>5, DatabaseFailsDoes
<1> QED
  BY <1>2, <1>3, <1>4, <1>5, HandlerOf DEF Moves, UncachedReads

(* A claim is answered 201 if it stored the reward and 409 if that was     *)
(* there.                                                                  *)
LEMMA ClaimMoves ==
    ASSUME RequestsOK, NEW r \in Requests, Moves(r), req[r].op = "claim"
    PROVE  \/ /\ InsertUser(r)
              /\ req'[r].pc = "reward" /\ req'[r].status = 0
           \/ /\ req'[r].pc = "done"
              /\ \/ req'[r].status \in {500, 503}
                 \/ /\ req'[r].status = 409
                    /\ <<req[r].who, req[r].id>> \in rewards
                 \/ /\ req'[r].status = 201
                    /\ <<req[r].who, req[r].id>> \notin rewards
                    /\ <<req[r].who, req[r].id>> \in rewards'
<1> DEFINE s == req[r]
           t == req'[r]
           pair == <<s.who, s.id>>
<1>1. Slots /\ RequestOK(s) /\ DOMAIN s = DOMAIN NoRequest
  BY DEF RequestsOK, RequestOK, Slots
<1>2. s.pc # "done" => s.status = 0
  BY <1>1 DEF RequestOK
<1>3. CASE InsertUser(r)
  <2>1. Goto(r, "reward") /\ s.pc = "user"
    BY <1>3 DEF InsertUser, At
  <2> QED
    BY <1>1, <1>2, <1>3, <2>1, GotoDoes
<1>4. CASE InsertReward(r)
  <2>1. \/ Answer(r, 409) /\ pair \in rewards
        \/ Answer(r, 500)
        \/ Answer(r, 201) /\ pair \notin rewards /\ pair \in rewards'
    <3>1. CASE pair \in rewards
      BY <1>4, <3>1 DEF InsertReward
    <3>2. CASE pair \notin rewards /\ s.id \notin DOMAIN campaigns
      BY <1>4, <3>2 DEF InsertReward
    <3>3. CASE pair \notin rewards /\ s.id \in DOMAIN campaigns
      BY <1>4, <3>3 DEF InsertReward
    <3> QED
      BY <3>1, <3>2, <3>3
  <2> HIDE DEF pair
  <2>2. /\ t.pc = "done"
        /\ \/ t.status = 409 /\ pair \in rewards
           \/ t.status = 500
           \/ t.status = 201 /\ pair \notin rewards /\ pair \in rewards'
    BY <1>1, <2>1, AnswerDoes
  <2> QED
    BY <2>2 DEF pair
<1>5. CASE RedisFails(r)
  BY <1>5, RedisFailsDoes
<1>6. CASE DatabaseFails(r)
  BY <1>1, <1>2, <1>6, DatabaseFailsDoes
<1> QED
  BY <1>3, <1>4, <1>5, <1>6, HandlerOf DEF Moves, UncachedReads, ClaimStep

(* A read goes on with one more query, or fails.                           *)
LEMMA ReadMoves ==
    ASSUME RequestsOK, NEW r \in Requests, Moves(r),
           req[r].op \in UncachedReads
    PROVE  \/ /\ KeptAll(req[r], req'[r])
              /\ req'[r].status \in {0, 200} => req'[r].status = req[r].status
           \/ \E i : Found(r, i, Table(req[r].op, req[r].who), 200)
           \/ /\ req[r].op = "rewards" /\ req[r].status = 0
              /\ Found(r, 1, {}, 500)
<1>1. CASE Query(r)
  BY <1>1 DEF Query
<1>2. CASE RedisFails(r)
  BY <1>2, RedisFailsDoes DEF UncachedReads
<1>3. CASE DatabaseFails(r)
  BY <1>3, DatabaseFailsDoes
<1> QED
  BY <1>1, <1>2, <1>3, HandlerOf DEF Moves, UncachedReads

(* A list comes from the cache or from the SELECT.                         *)
LEMMA ListMoves ==
    ASSUME RequestsOK, NEW r \in Requests, Moves(r), req[r].op = "list"
    PROVE  \/ CacheHit(r) \/ Select(r)
           \/ /\ req[r].pc = "get" /\ req'[r].pc = "select"
              /\ req'[r].status = 0
           \/ /\ req[r].pc \in {"count", "setex"}
              /\ KeptAll(req[r], req'[r])
           \/ req'[r].pc = "done" /\ req'[r].status \in {500, 503}
<1> DEFINE s == req[r]
           t == req'[r]
<1>1. Slots /\ RequestOK(s) /\ DOMAIN s = DOMAIN NoRequest
  BY DEF RequestsOK, RequestOK, Slots
<1>2. s.pc # "done" => s.status = 0
  BY <1>1 DEF RequestOK
<1>3. CASE CacheMiss(r)
  BY <1>1, <1>2, <1>3, GotoDoes DEF CacheMiss, Reads
<1>4. CASE Count(r)
  BY <1>1, <1>4, GotoDoes DEF Count, Reads
<1>5. CASE Setex(r)
  BY <1>1, <1>5, AnswerDoes DEF Setex, Reads
<1>6. CASE RedisFails(r)
  BY <1>1, <1>2, <1>6, RedisFailsDoes
<1>7. CASE DatabaseFails(r)
  BY <1>1, <1>2, <1>7, DatabaseFailsDoes
<1> QED
  BY <1>3, <1>4, <1>5, <1>6, <1>7, HandlerOf
     DEF Moves, UncachedReads, ListStep

-----------------------------------------------------------------------------
(* Type correctness.                                                       *)

(* Rewards are of users and campaigns that there are.                      *)
RewardsRefer ==
    /\ \A pair \in rewards : pair[1] \in users /\ pair[2] \in DOMAIN campaigns
    /\ \A r \in Requests : At(r, "claim", "reward") => req[r].who \in users

(* Reads and invalidations are of writes there have been.                  *)
WritesOK ==
    /\ writtenAt \in Seq(Nat)
    /\ purging \in Nat /\ purging <= Len(writtenAt)
    /\ \A r \in Requests : req[r].read <= Len(writtenAt)

StoresOK ==
    /\ DOMAIN cache \subseteq {"any", "active", "inactive", "report"}
    /\ server \in {"up", "closing", "down"}

ApiInv ==
    AuthInv /\ RequestsOK /\ RowsOK /\ RewardsRefer /\ WritesOK /\ StoresOK

(* The tables start with the indexer's rows, the slots and caches empty.   *)
LEMMA ApiInitial == ApiInit => ApiInv
<1> SUFFICES ASSUME ApiInit PROVE ApiInv
  OBVIOUS
<1>1. AuthInv
  BY AuthInitial DEF ApiInit
<1>2. \A r \in Requests : req[r] = NoRequest
  BY DEF ApiInit
<1>3. RequestOK(NoRequest)
  <2>1. Everything \in CampaignFilters /\ <<>> \in Seq(Nat)
    BY DEF Everything, CampaignFilters
  <2> QED
    BY <2>1 DEF RequestOK, Whereabouts, NoRequest
<1>4. RequestsOK
  BY <1>2, <1>3 DEF RequestsOK, ApiInit
<1>5. RowsOK
  BY <1>2, ApiConstants DEF RowsOK, ApiInit, NoRequest
<1>6. RewardsRefer
  BY <1>2 DEF RewardsRefer, ApiInit, At, NoRequest
<1>7. WritesOK
  <2>1. \A r \in Requests : req[r].read = 0
    BY <1>2 DEF NoRequest
  <2> QED
    BY <2>1 DEF WritesOK, ApiInit
<1>8. StoresOK
  BY DEF StoresOK, ApiInit
<1> QED
  BY <1>1, <1>4, <1>5, <1>6, <1>7, <1>8 DEF ApiInv

(* Rows stay rows, and a reorder holds rows of its own body only.          *)
LEMMA RowsStep == ApiInv /\ [ApiNext]_vars => RowsOK'
<1> SUFFICES ASSUME ApiInv, [ApiNext]_vars PROVE RowsOK'
  OBVIOUS
<1> USE DEF ApiInv
<1>1. RowsStay /\ AuthTypeOK
  BY TablesGrow DEF AuthInv
<1>2. /\ \A id \in DOMAIN campaigns' : campaigns'[id] \in Campaign
      /\ DOMAIN SeedRows \subseteq DOMAIN campaigns'
  BY <1>1 DEF RowsStay, RowsOK
<1> DEFINE Within(q) == req'[q].op = "reorder" =>
                          req'[q].locks \subseteq Range(req'[q].order)
<1>3. \A q \in Requests : req'[q] = req[q] => Within(q)
  BY DEF RowsOK
<1>4. ASSUME NEW r \in Requests, OnlySlot(r), Within(r)
      PROVE  \A q \in Requests : Within(q)
  BY <1>3, <1>4 DEF OnlySlot
<1>5. ASSUME NEW r \in Requests, Request(r) PROVE Within(r) /\ OnlySlot(r)
  BY <1>1, <1>5, RequestBegins DEF AuthTypeOK, Begins
<1>6. ASSUME NEW r \in Requests, Moves(r) PROVE Within(r) /\ OnlySlot(r)
  <2>1. OnlySlot(r) /\ Kept(req[r], req'[r])
    BY <1>6, RequestMoves DEF WritesOK
  <2>2. ASSUME req[r].op = "reorder", MoveCampaign(r) PROVE Within(r)
    <3> DEFINE n == req[r].moved + 1
               order == req[r].order
    <3>1. order \in Seq(Nat) /\ req[r].moved \in Nat
      BY DEF RequestsOK, RequestOK
    <3>2. n \in 1..Len(order)
      BY <2>2, <3>1 DEF MoveCampaign, Moving
    <3>3. NextRow(r) \in Range(order)
      BY <3>1, <3>2 DEF NextRow, Range
    <3>4. req'[r].locks \subseteq req[r].locks \cup {NextRow(r)}
      BY <2>2, MoveDoes DEF RequestsOK, RequestOK, Slots
    <3> QED
      BY <2>1, <2>2, <3>3, <3>4 DEF RowsOK, Kept
  <2>3. ASSUME req[r].op = "reorder", ~MoveCampaign(r) PROVE Within(r)
    BY <1>6, <2>3, ReorderMoves
  <2>4. ASSUME req[r].op # "reorder" PROVE Within(r)
    BY <2>1, <2>4 DEF Kept
  <2> QED
    BY <2>1, <2>2, <2>3, <2>4
<1>7. ASSUME ApiRestart PROVE \A q \in Requests : Within(q)
  BY <1>3, <1>7, RestartDoes
<1>8. \A q \in Requests : Within(q)
  BY <1>3, <1>4, <1>5, <1>6, <1>7, SlotsStep
<1> QED
  BY <1>2, <1>8 DEF RowsOK

(* No reward loses its user or its campaign.                               *)
LEMMA RewardsStep == ApiInv /\ [ApiNext]_vars => RewardsRefer'
<1> SUFFICES ASSUME ApiInv, [ApiNext]_vars PROVE RewardsRefer'
  OBVIOUS
<1> USE DEF ApiInv
<1>1. RowsStay /\ users \subseteq users' /\ AuthTypeOK
  BY TablesGrow DEF AuthInv
<1>2. ASSUME UNCHANGED rewards
      PROVE  \A pair \in rewards' : /\ pair[1] \in users'
                                    /\ pair[2] \in DOMAIN campaigns'
  BY <1>1, <1>2 DEF RewardsRefer, RowsStay
<1>3. ASSUME NEW r \in Requests, InsertUser(r) \/ InsertReward(r),
             rewards' # rewards
      PROVE  \A pair \in rewards' : /\ pair[1] \in users'
                                    /\ pair[2] \in DOMAIN campaigns'
  <2>1. /\ rewards' = rewards \cup {<<req[r].who, req[r].id>>}
        /\ req[r].id \in DOMAIN campaigns
        /\ InsertReward(r)
    BY <1>3, ClaimWrites
  <2>2. req[r].who \in users
    BY <2>1 DEF InsertReward, RewardsRefer
  <2> QED
    BY <1>1, <2>1, <2>2 DEF RewardsRefer, RowsStay
<1>4. ASSUME NEW r \in Requests, Writers(r)
      PROVE  UNCHANGED rewards \/ InsertUser(r) \/ InsertReward(r)
  BY <1>4, UpdateWrites, CommitWrites, MarkWrites, OrderWrites DEF Writers
<1>5. \A pair \in rewards' : /\ pair[1] \in users'
                             /\ pair[2] \in DOMAIN campaigns'
  BY <1>1, <1>2, <1>3, <1>4, TablesStep DEF tables
<1> DEFINE Known(q) == req'[q].op = "claim" /\ req'[q].pc = "reward" =>
                         req'[q].who \in users'
<1>6. \A q \in Requests : req'[q] = req[q] => Known(q)
  BY <1>1 DEF RewardsRefer, At
<1>7. ASSUME NEW r \in Requests, OnlySlot(r), Known(r)
      PROVE  \A q \in Requests : Known(q)
  BY <1>6, <1>7 DEF OnlySlot
<1>8. ASSUME NEW r \in Requests, Request(r) PROVE Known(r) /\ OnlySlot(r)
  BY <1>1, <1>8, RequestBegins DEF AuthTypeOK, Begins
<1>9. ASSUME NEW r \in Requests, Moves(r) PROVE Known(r) /\ OnlySlot(r)
  <2>1. OnlySlot(r) /\ Kept(req[r], req'[r])
    BY <1>9, RequestMoves DEF WritesOK
  <2>2. CASE req[r].op = "claim"
    <3>1. \/ req'[r].pc = "done"
          \/ InsertUser(r)
      BY <1>9, <2>2, ClaimMoves
    <3> QED
      BY <2>1, <3>1, ClaimWrites DEF Kept
  <2>3. CASE req[r].op # "claim"
    BY <2>1, <2>3 DEF Kept
  <2> QED
    BY <2>1, <2>2, <2>3
<1>10. ASSUME ApiRestart PROVE \A q \in Requests : Known(q)
  BY <1>6, <1>10, RestartDoes
<1>11. \A q \in Requests : Known(q)
  BY <1>6, <1>7, <1>8, <1>9, <1>10, SlotsStep
<1> QED
  BY <1>5, <1>11 DEF RewardsRefer, At

(* Writes are only ever added, at the time they happen.                    *)
LEMMA WrittenGrows ==
    ASSUME ApiInv, [ApiNext]_vars
    PROVE  /\ writtenAt' \in Seq(Nat) /\ clock \in Nat
           /\ Len(writtenAt) \in Nat
           /\ Len(writtenAt') \in {Len(writtenAt), Len(writtenAt) + 1}
           /\ \A i \in 1..Len(writtenAt) : writtenAt'[i] = writtenAt[i]
           /\ Len(writtenAt') # Len(writtenAt) =>
                writtenAt'[Len(writtenAt) + 1] = clock
<1>1. writtenAt \in Seq(Nat) /\ clock \in Nat
  BY DEF ApiInv, WritesOK, AuthInv, AuthTypeOK
<1>2. writtenAt' \in {writtenAt, Append(writtenAt, clock)}
  BY TablesGrow DEF ApiInv, AuthInv
<1>3. CASE writtenAt' = writtenAt
  BY <1>1, <1>3
<1>4. CASE writtenAt' = Append(writtenAt, clock)
  <2> DEFINE w == writtenAt
             w2 == writtenAt'
             c == clock
  <2> HIDE DEF w, w2, c
  <2>1. w \in Seq(Nat) /\ c \in Nat /\ w2 = Append(w, c)
    BY <1>1, <1>4 DEF w, w2, c
  <2>2. /\ w2 \in Seq(Nat) /\ Len(w) \in Nat /\ Len(w2) = Len(w) + 1
        /\ \A i \in 1..Len(w) : w2[i] = w[i]
        /\ w2[Len(w) + 1] = c
    BY <2>1
  <2> QED
    BY <2>1, <2>2 DEF w, w2, c
<1> QED
  BY <1>2, <1>3, <1>4

(* No read and no invalidation is of a write to come.                      *)
LEMMA WritesStep == ApiInv /\ [ApiNext]_vars => WritesOK'
<1> SUFFICES ASSUME ApiInv, [ApiNext]_vars PROVE WritesOK'
  OBVIOUS
<1> USE DEF ApiInv
<1>1. /\ AuthTypeOK
      /\ purging' \in {purging, Len(writtenAt')}
  BY TablesGrow DEF AuthInv
<1>2. /\ writtenAt' \in Seq(Nat) /\ Len(writtenAt') \in Nat
      /\ Len(writtenAt) <= Len(writtenAt') /\ Len(writtenAt) \in Nat
  BY WrittenGrows
<1>3. purging' \in Nat /\ purging' <= Len(writtenAt')
  BY <1>1, <1>2 DEF WritesOK
<1> DEFINE Past(q) == req'[q].read <= Len(writtenAt')
<1>4. \A q \in Requests : req'[q].read = req[q].read => Past(q)
  BY <1>2 DEF WritesOK, RequestsOK, RequestOK
<1>5. ASSUME NEW r \in Requests, OnlySlot(r), Past(r)
      PROVE  \A q \in Requests : Past(q)
  BY <1>4, <1>5 DEF OnlySlot
<1>6. ASSUME NEW r \in Requests, Request(r) PROVE Past(r) /\ OnlySlot(r)
  BY <1>1, <1>2, <1>6, RequestBegins DEF AuthTypeOK, Begins
<1>7. ASSUME NEW r \in Requests, Moves(r) PROVE Past(r) /\ OnlySlot(r)
  <2>1. OnlySlot(r) /\ req'[r].read \in {req[r].read, Len(writtenAt)}
    BY <1>2, <1>7, RequestMoves
  <2> QED
    BY <1>2, <1>4, <2>1
<1>8. ASSUME ApiRestart PROVE \A q \in Requests : Past(q)
  BY <1>4, <1>8, RestartDoes DEF KeptAll
<1>9. \A q \in Requests : Past(q)
  BY <1>4, <1>5, <1>6, <1>7, <1>8, SlotsStep
<1> QED
  BY <1>2, <1>3, <1>9 DEF WritesOK

(* The process is stopped and started by its own steps only.               *)
LEMMA ServerStep ==
    ASSUME ApiInv, [ApiNext]_vars
    PROVE  server' \in {server, "up", "closing", "down"}
<1>1. RequestsOK /\ RowsOK /\ AuthTypeOK
  BY DEF ApiInv, AuthInv
<1>2. ASSUME NEW r \in Requests, Request(r) PROVE UNCHANGED server
  BY <1>1, <1>2, RequestBegins DEF AuthTypeOK
<1>3. ASSUME NEW r \in Requests, Moves(r) PROVE UNCHANGED server
  <2>1. CASE Writers(r)
    BY <1>1, <2>1, UpdateWrites, CommitWrites, MarkWrites, OrderWrites,
       ClaimWrites DEF Writers
  <2> QED
    BY <1>3, <2>1, OtherStepsWriteNothing
<1>4. ASSUME \/ RecordTransaction \/ ApiTick \/ ApiSignIn \/ Shutdown
             \/ ServerClosed \/ ApiRestart \/ UNCHANGED vars
      PROVE  server' \in {server, "up", "closing", "down"}
  BY <1>4 DEF RecordTransaction, ApiTick, ApiSignIn, Shutdown, ServerClosed,
              ApiRestart, vars, apiVars
<1> QED
  BY <1>2, <1>3, <1>4 DEF ApiNext, Moves

(* An entry of the cache is there already or is stored now, by a list or   *)
(* report that is about to answer; it goes with DEL or time.               *)
LEMMA CacheStep ==
    ASSUME ApiInv, [ApiNext]_vars
    PROVE  \/ UNCHANGED cache
           \/ \E r \in Requests : Setex(r)
           \/ /\ \E r \in Requests : DeleteKeys(r)
              /\ DOMAIN cache' \subseteq DOMAIN cache
              /\ \A k \in DOMAIN cache' : cache'[k] = cache[k]
           \/ /\ ApiTick
              /\ DOMAIN cache' \subseteq DOMAIN cache
              /\ \A k \in DOMAIN cache' :
                   cache'[k] = cache[k] /\ clock' < cache[k].expires
<1>1. RequestsOK /\ RowsOK /\ AuthTypeOK
  BY DEF ApiInv, AuthInv
<1>2. ASSUME NEW r \in Requests, Request(r) PROVE UNCHANGED cache
  BY <1>1, <1>2, RequestBegins DEF AuthTypeOK
<1>3. ASSUME NEW r \in Requests, DeleteKeys(r)
      PROVE  /\ DOMAIN cache' \subseteq DOMAIN cache
             /\ \A k \in DOMAIN cache' : cache'[k] = cache[k]
  BY <1>3 DEF DeleteKeys, Restrict
<1>4. ASSUME NEW r \in Requests, Moves(r)
      PROVE  UNCHANGED cache \/ Setex(r) \/ DeleteKeys(r)
  <2>1. CASE Writers(r)
    BY <1>1, <2>1, UpdateWrites, CommitWrites, MarkWrites, OrderWrites,
       ClaimWrites DEF Writers
  <2> QED
    BY <1>4, <2>1, OtherStepsWriteNothing
<1>5. ASSUME ApiTick
      PROVE  /\ DOMAIN cache' \subseteq DOMAIN cache
             /\ \A k \in DOMAIN cache' :
                  cache'[k] = cache[k] /\ clock' < cache[k].expires
  BY <1>5 DEF ApiTick, Restrict
<1>6. ASSUME \/ RecordTransaction \/ ApiSignIn \/ Shutdown
             \/ ServerClosed \/ ApiRestart \/ UNCHANGED vars
      PROVE  UNCHANGED cache
  BY <1>6 DEF RecordTransaction, ApiSignIn, Shutdown, ServerClosed,
              ApiRestart, vars, apiVars
<1> QED
  BY <1>2, <1>3, <1>4, <1>5, <1>6 DEF ApiNext, Moves

(* What SETEX stores, and under which key.                                 *)
LEMMA SetexStores ==
    ASSUME ApiInv, NEW r \in Requests, Setex(r)
    PROVE  /\ req[r].op = "list" => Key(r) = req[r].filter.status
           /\ req[r].op # "list" => Key(r) = "report"
           /\ Key(r) \in {"any", "active", "inactive", "report"}
           /\ req[r].op = "list" => Key(r) # "report"
           /\ DOMAIN cache' = DOMAIN cache \cup {Key(r)}
           /\ \A k \in DOMAIN cache' : k # Key(r) => cache'[k] = cache[k]
           /\ cache'[Key(r)].list = req[r].list
           /\ cache'[Key(r)].read = req[r].read
           /\ cache'[Key(r)].late <=> req[r].read < purging
           /\ cache'[Key(r)].overtaken <=> req[r].read < Len(writtenAt)
           /\ cache'[Key(r)].expires =
                clock + IF Key(r) = "report" THEN CACHE_TTL ELSE LIST_TTL
           /\ UNCHANGED <<tables, written, clock>>
<1>1. /\ req[r].op \in {"list", "report"}
      /\ req[r].filter \in CampaignFilters
  BY DEF Setex, Reads, ApiInv, RequestsOK, RequestOK
<1>2. req[r].filter.status \in {"any", "active", "inactive"}
  BY <1>1 DEF CampaignFilters
<1>3. Key(r) = IF req[r].op = "report" THEN "report"
               ELSE req[r].filter.status
  BY DEF Key, CacheKey
<1>4. req[r].op = "report" <=> Key(r) = "report"
  BY <1>1, <1>2, <1>3
<1> DEFINE k0 == Key(r)
           ttl == IF k0 = "report" THEN CACHE_TTL ELSE LIST_TTL
           e == Entry(r, ttl)
<1>5. cache' = Set(cache, k0, e)
  BY <1>4 DEF Setex
<1>6. /\ e.list = req[r].list /\ e.read = req[r].read
      /\ e.late <=> req[r].read < purging
      /\ e.overtaken <=> req[r].read < Len(writtenAt)
      /\ e.expires = clock + ttl
  BY DEF Entry
<1> HIDE DEF k0, e
<1>7. /\ DOMAIN cache' = DOMAIN cache \cup {k0}
      /\ \A k \in DOMAIN cache' : k # k0 => cache'[k] = cache[k]
      /\ cache'[k0] = e
  BY <1>5 DEF Set
<1>8. UNCHANGED <<tables, written, clock>>
  BY DEF Setex, Quiet, authVars
<1> QED
  BY <1>1, <1>2, <1>3, <1>4, <1>6, <1>7, <1>8 DEF k0

(* Lists and reports are stored under their own keys.                      *)
LEMMA StoresStep == ApiInv /\ [ApiNext]_vars => StoresOK'
<1> SUFFICES ASSUME ApiInv, [ApiNext]_vars PROVE StoresOK'
  OBVIOUS
<1>1. server' \in {"up", "closing", "down"}
  BY ServerStep DEF ApiInv, StoresOK
<1>2. DOMAIN cache' \subseteq {"any", "active", "inactive", "report"}
  BY CacheStep, SetexStores DEF ApiInv, StoresOK
<1> QED
  BY <1>1, <1>2 DEF StoresOK

(* The types are inductive.                                                *)
LEMMA ApiStep == ApiInv /\ [ApiNext]_vars => ApiInv'
<1> SUFFICES ASSUME ApiInv, [ApiNext]_vars PROVE ApiInv'
  OBVIOUS
<1>1. AuthInv'
  BY AuthStep, SignInUnderneath DEF ApiInv
<1>2. RequestsOK'
  <2>1. /\ RequestsOK /\ Len(writtenAt) \in Nat
        /\ tokens \subseteq Token /\ clock \in Nat
    BY DEF ApiInv, WritesOK, AuthInv, AuthTypeOK
  <2> QED
    BY <2>1, RequestsStep
<1> QED
  BY <1>1, <1>2, RowsStep, RewardsStep, WritesStep, StoresStep DEF ApiInv

(* The tables keep their shape and rows refer to rows, for any bounds,     *)
(* requests, failures and restarts.                                        *)
THEOREM ApiTypeCorrect == ApiSpec => []ApiTypeOK
<1>1. ApiInv => ApiTypeOK
  BY DEF ApiInv, ApiTypeOK, AuthInv, RowsOK, RewardsRefer, WritesOK, StoresOK
<1> QED
  BY <1>1, ApiInitial, ApiStep, PTL DEF ApiSpec

-----------------------------------------------------------------------------
(* Answers to writes.                                                      *)

(* At first nothing is being deactivated.                                  *)
LEMMA OwnersInitial == ApiInit => DeactivatedByOwner
  BY DEF ApiInit, DeactivatedByOwner, NoRequest

(* No other request takes the row from its owner between SELECT and        *)
(* UPDATE.                                                                 *)
LEMMA OwnersStep ==
    ASSUME ApiInv, DeactivatedByOwner, [ApiNext]_vars
    PROVE  DeactivatedByOwner'
<1> DEFINE Past(s) == s.op = "patch" /\ (s.pc \in {"update", "keys", "del"}
                                         \/ s.status = 200)
           Owned(q) == Past(req'[q]) =>
                         campaigns'[req'[q].id].owner = req'[q].who
<1>1. /\ RowsStay /\ AuthTypeOK /\ RequestsOK /\ Len(writtenAt) \in Nat
      /\ DOMAIN SeedRows \subseteq DOMAIN campaigns
  BY TablesGrow DEF ApiInv, AuthInv, RowsOK, WritesOK
<1>2. ASSUME NEW q \in Requests, Kept(req[q], req'[q]), Past(req[q])
      PROVE  Owned(q)
  <2>1. req[q].id \in DOMAIN campaigns
    BY <1>1, <1>2 DEF RequestsOK, RequestOK
  <2>2. campaigns[req[q].id].owner = req[q].who
    BY <1>2 DEF DeactivatedByOwner
  <2> QED
    BY <1>1, <1>2, <2>1, <2>2 DEF RowsStay, Kept
<1>3. \A q \in Requests : req'[q] = req[q] => Owned(q)
  BY <1>2 DEF Kept
<1>4. ASSUME NEW r \in Requests, OnlySlot(r), Owned(r)
      PROVE  \A q \in Requests : Owned(q)
  BY <1>3, <1>4 DEF OnlySlot
<1>5. ASSUME NEW r \in Requests, Request(r) PROVE Owned(r) /\ OnlySlot(r)
  BY <1>1, <1>5, RequestBegins DEF AuthTypeOK, Begins
<1>6. ASSUME NEW r \in Requests, Moves(r) PROVE Owned(r) /\ OnlySlot(r)
  <2>1. OnlySlot(r) /\ Kept(req[r], req'[r])
    BY <1>1, <1>6, RequestMoves
  <2>2. CASE req[r].op = "patch"
    <3>1. CASE Past(req[r])
      BY <1>2, <2>1, <3>1
    <3>2. CASE ~Past(req[r])
      <4>1. \/ /\ req[r].id \in DOMAIN campaigns
               /\ campaigns[req[r].id].owner = req[r].who
            \/ ~Past(req'[r])
        BY <1>1, <1>6, <2>2, <3>2, PatchMoves
      <4> QED
        BY <1>1, <2>1, <4>1 DEF RowsStay, Kept
    <3> QED
      BY <2>1, <3>1, <3>2
  <2>3. CASE req[r].op # "patch"
    BY <2>1, <2>3 DEF Kept
  <2> QED
    BY <2>1, <2>2, <2>3
<1>7. ASSUME ApiRestart PROVE \A q \in Requests : Owned(q)
  <2>1. ASSUME NEW q \in Requests PROVE Owned(q)
    <3>1. /\ Kept(req[q], req'[q]) /\ req'[q].status = req[q].status
          /\ req'[q].pc \in {req[q].pc, "done"}
      BY <1>1, <1>7, RestartDoes DEF KeptAll, KeptLocals
    <3>2. Past(req'[q]) => Past(req[q])
      BY <3>1 DEF Kept
    <3> QED
      BY <1>2, <3>1, <3>2
  <2> QED
    BY <2>1
<1>8. \A q \in Requests : Owned(q)
  BY <1>3, <1>4, <1>5, <1>6, <1>7, SlotsStep
<1> QED
  BY <1>8 DEF DeactivatedByOwner

(* A claim answered 201, and one answered 409, has its reward in the       *)
(* table; the table is what makes the next one a duplicate.                *)
ClaimsStored ==
    /\ OneClaimGranted
    /\ \A r \in Requests :
         req[r].op = "claim" /\ req[r].status \in {201, 409}
           => <<req[r].who, req[r].id>> \in rewards

(* At first nothing is claimed.                                            *)
LEMMA ClaimsInitial == ApiInit => ClaimsStored
  BY DEF ApiInit, ClaimsStored, OneClaimGranted, Answered, NoRequest

(* A stored reward stays, so that the next claim on it is a duplicate.     *)
LEMMA ClaimsStep ==
    ASSUME ApiInv, ClaimsStored, [ApiNext]_vars
    PROVE  ClaimsStored'
<1> DEFINE Granted(s) == s.op = "claim" /\ s.status = 201
           Decided(s) == s.op = "claim" /\ s.status \in {201, 409}
           Stored(q) == Decided(req'[q]) =>
                          <<req'[q].who, req'[q].id>> \in rewards'
           (* Two grants of one pair after the step.                       *)
           Same(q, p) == /\ Granted(req'[q]) /\ Granted(req'[p])
                         /\ req'[q].who = req'[p].who
                         /\ req'[q].id = req'[p].id
<1>1. /\ AuthTypeOK /\ RequestsOK /\ Len(writtenAt) \in Nat
      /\ rewards \subseteq rewards'
  BY TablesGrow DEF ApiInv, AuthInv, WritesOK
<1>2. \A q \in Requests : Granted(req[q]) => Answered(q, "claim")
  BY <1>1 DEF RequestsOK, RequestOK, Answered
<1>3. /\ \A q \in Requests :
           Decided(req[q]) => <<req[q].who, req[q].id>> \in rewards
      /\ \A q, p \in Requests :
           /\ Granted(req[q]) /\ Granted(req[p])
           /\ req[q].who = req[p].who /\ req[q].id = req[p].id
           => q = p
  <2>1. \A q \in Requests :
          Decided(req[q]) => <<req[q].who, req[q].id>> \in rewards
    BY DEF ClaimsStored
  <2>2. ASSUME NEW q \in Requests, NEW p \in Requests,
               Granted(req[q]), Granted(req[p]),
               req[q].who = req[p].who, req[q].id = req[p].id
        PROVE  q = p
    <3>1. Answered(q, "claim") /\ Answered(p, "claim")
      BY <1>2, <2>2
    <3> QED
      BY <2>2, <3>1 DEF ClaimsStored, OneClaimGranted
  <2> QED
    BY <2>1, <2>2
<1> DEFINE Still(q) == Kept(req[q], req'[q])
                       /\ (Decided(req'[q]) => req'[q].status = req[q].status)
<1>4. \A q \in Requests : Still(q) => Stored(q)
  BY <1>1, <1>3 DEF Kept
<1>5. ASSUME NEW q \in Requests, NEW p \in Requests,
             Still(q), Still(p), Same(q, p)
      PROVE  q = p
  <2>1. Granted(req[q]) /\ req'[q].who = req[q].who /\ req'[q].id = req[q].id
    BY <1>5 DEF Kept
  <2>2. Granted(req[p]) /\ req'[p].who = req[p].who /\ req'[p].id = req[p].id
    BY <1>5 DEF Kept
  <2>3. req[q].who = req[p].who /\ req[q].id = req[p].id
    BY <1>5, <2>1, <2>2
  <2> HIDE DEF Granted, Decided
  <2> QED
    BY <1>3, <2>1, <2>2, <2>3
<1>6. \A q \in Requests : req'[q] = req[q] => Still(q)
  BY DEF Kept
<1>7. ASSUME \A q \in Requests : Still(q)
      PROVE  /\ \A q \in Requests : Stored(q)
             /\ \A q, p \in Requests : Same(q, p) => q = p
  <2> HIDE DEF Still, Same, Stored
  <2> QED
    BY <1>4, <1>5, <1>7
<1>8. ASSUME NEW r \in Requests, OnlySlot(r), ~Still(r),
             Stored(r),
             Granted(req'[r]) => <<req'[r].who, req'[r].id>> \notin rewards
      PROVE  /\ \A q \in Requests : Stored(q)
             /\ \A q, p \in Requests : Same(q, p) => q = p
  <2>1. \A q \in Requests : q # r => req'[q] = req[q]
    BY <1>8 DEF OnlySlot
  <2>2. \A q \in Requests : q # r => Still(q)
    BY <1>6, <2>1
  <2>3. \A q \in Requests : q # r => ~Same(q, r) /\ ~Same(r, q)
    BY <1>3, <1>8, <2>1
  <2> QED
    BY <1>4, <1>5, <1>8, <2>2, <2>3
<1>9. ASSUME NEW r \in Requests, Request(r)
      PROVE  /\ \A q \in Requests : Stored(q)
             /\ \A q, p \in Requests : Same(q, p) => q = p
  <2>1. OnlySlot(r) /\ ~Decided(req'[r])
    BY <1>1, <1>9, RequestBegins DEF AuthTypeOK, Begins
  <2>2. CASE Still(r)
    <3>1. \A q \in Requests : Still(q)
      BY <1>6, <2>1, <2>2 DEF OnlySlot
    <3> QED
      BY <1>7, <3>1
  <2>3. CASE ~Still(r)
    BY <1>8, <2>1, <2>3
  <2> QED
    BY <2>2, <2>3
<1>10. ASSUME NEW r \in Requests, Moves(r)
       PROVE  /\ \A q \in Requests : Stored(q)
              /\ \A q, p \in Requests : Same(q, p) => q = p
  <2>1. OnlySlot(r) /\ Kept(req[r], req'[r])
    BY <1>1, <1>10, RequestMoves
  <2>2. CASE Still(r)
    <3>1. \A q \in Requests : Still(q)
      BY <1>6, <2>1, <2>2 DEF OnlySlot
    <3> QED
      BY <1>7, <3>1
  <2>3. CASE ~Still(r)
    <3>1. req[r].op = "claim" /\ Decided(req'[r])
      BY <2>1, <2>3 DEF Kept
    <3>2. \/ /\ req'[r].status = 409
             /\ <<req[r].who, req[r].id>> \in rewards
          \/ /\ req'[r].status = 201
             /\ <<req[r].who, req[r].id>> \notin rewards
             /\ <<req[r].who, req[r].id>> \in rewards'
      BY <1>1, <1>10, <3>1, ClaimMoves
    <3>3. req'[r].who = req[r].who /\ req'[r].id = req[r].id
      BY <2>1 DEF Kept
    <3>4. Stored(r)
      BY <1>1, <3>2, <3>3
    <3>5. Granted(req'[r]) => <<req'[r].who, req'[r].id>> \notin rewards
      BY <3>2, <3>3
    <3> QED
      BY <1>8, <2>1, <2>3, <3>4, <3>5
  <2> QED
    BY <2>2, <2>3
<1>11. ASSUME ApiRestart PROVE \A q \in Requests : Still(q)
  BY <1>1, <1>11, RestartDoes DEF KeptAll, KeptLocals
<1>12. /\ \A q \in Requests : Stored(q)
       /\ \A q, p \in Requests : Same(q, p) => q = p
  <2>1. CASE UNCHANGED req
    <3>1. \A q \in Requests : Still(q)
      BY <1>6, <2>1
    <3> QED
      BY <1>7, <3>1
  <2>2. CASE ApiRestart
    <3> HIDE DEF Still, Same, Stored
    <3> QED
      BY <1>7, <1>11, <2>2
  <2> HIDE DEF Still, Same, Stored
  <2> QED
    BY <1>9, <1>10, <2>1, <2>2, SlotsStep
<1> QED
  BY <1>12 DEF ClaimsStored, OneClaimGranted, Answered

(* A reorder under way holds the rows its UPDATEs have written.            *)
RowsHeld ==
    \A r \in Requests :
      At(r, "reorder", "move") =>
        /\ req[r].moved <= Len(req[r].order)
        /\ \A i \in 1..req[r].moved :
             req[r].order[i] \in DOMAIN SeedRows
               => req[r].order[i] \in req[r].locks

(* At first nothing is reordered.                                          *)
LEMMA OrdersInitial == ApiInit => RowsHeld /\ OrderIsOneRequest
  BY DEF ApiInit, RowsHeld, OrderIsOneRequest, At, Answered, NoRequest

(* An UPDATE locks the row it writes and only the end of the handler frees *)
(* it.                                                                     *)
LEMMA HeldStep ==
    ASSUME ApiInv, RowsHeld, [ApiNext]_vars
    PROVE  RowsHeld'
<1> DEFINE Held(s) ==
             s.op = "reorder" /\ s.pc = "move" =>
               /\ s.moved <= Len(s.order)
               /\ \A i \in 1..s.moved :
                    s.order[i] \in DOMAIN SeedRows => s.order[i] \in s.locks
<1>1. /\ AuthTypeOK /\ RequestsOK /\ Len(writtenAt) \in Nat
      /\ DOMAIN SeedRows \subseteq DOMAIN campaigns
  BY DEF ApiInv, AuthInv, RowsOK, WritesOK
<1>2. \A q \in Requests : Held(req[q])
  BY DEF RowsHeld, At
<1>3. ASSUME NEW r \in Requests, OnlySlot(r), Held(req'[r])
      PROVE  \A q \in Requests : Held(req'[q])
  <2> HIDE DEF Held
  <2> QED
    BY <1>2, <1>3 DEF OnlySlot
<1>4. ASSUME NEW r \in Requests, Request(r)
      PROVE  Held(req'[r]) /\ OnlySlot(r)
  <2>1. Begins(r)
    BY <1>1, <1>4, RequestBegins DEF AuthTypeOK
  <2>2. req'[r].order \in Seq(Nat) /\ req'[r].moved = 0
    BY <2>1 DEF Begins, RequestOK
  <2> QED
    BY <2>1, <2>2 DEF Begins
<1>5. ASSUME NEW r \in Requests, Moves(r)
      PROVE  Held(req'[r]) /\ OnlySlot(r)
  <2>1. OnlySlot(r) /\ Kept(req[r], req'[r])
    BY <1>1, <1>5, RequestMoves
  <2>2. ASSUME req[r].op = "reorder", MoveCampaign(r) PROVE Held(req'[r])
    <3> DEFINE s == req[r]
               t == req'[r]
               n == s.moved + 1
    <3>1. s.order \in Seq(Nat) /\ s.moved \in Nat
      BY <1>1 DEF RequestsOK, RequestOK
    <3>2. s.pc = "move" /\ s.moved < Len(s.order)
      BY <2>2 DEF MoveCampaign, Moving, At
    <3>3. /\ t.moved = n /\ t.order = s.order
          /\ t.locks = s.locks \cup ({s.order[n]} \cap DOMAIN campaigns)
      BY <1>1, <2>1, <2>2, MoveDoes
         DEF RequestsOK, RequestOK, Slots, Kept, NextRow
    <3>4. Held(s)
      BY <1>2
    <3>5. ASSUME NEW i \in 1..n, s.order[i] \in DOMAIN SeedRows
          PROVE  s.order[i] \in t.locks
      <4>1. CASE i = n
        BY <1>1, <3>3, <3>5, <4>1
      <4>2. CASE i # n
        <5>1. i \in 1..s.moved
          BY <3>1, <4>2
        <5>2. s.order[i] \in s.locks
          BY <2>2, <3>2, <3>4, <3>5, <5>1
        <5> QED
          BY <3>3, <5>2
      <4> QED
        BY <4>1, <4>2
    <3>6. t.moved <= Len(t.order)
      BY <3>1, <3>2, <3>3
    <3>7. \A i \in 1..t.moved :
            t.order[i] \in DOMAIN SeedRows => t.order[i] \in t.locks
      BY <3>3, <3>5
    <3> QED
      BY <3>6, <3>7
  <2>3. ASSUME req[r].op = "reorder", ~MoveCampaign(r) PROVE Held(req'[r])
    BY <1>1, <1>5, <2>3, ReorderMoves
  <2>4. ASSUME req[r].op # "reorder" PROVE Held(req'[r])
    BY <2>1, <2>4 DEF Kept
  <2> QED
    BY <2>1, <2>2, <2>3, <2>4
<1>6. ASSUME ApiRestart PROVE \A q \in Requests : Held(req'[q])
  <2>1. \A q \in Requests : req'[q] = req[q] \/ req'[q].pc = "done"
    BY <1>1, <1>6, RestartDoes
  <2> QED
    BY <1>2, <2>1
<1> HIDE DEF Held
<1>7. \A q \in Requests : Held(req'[q])
  BY <1>2, <1>3, <1>4, <1>5, <1>6, SlotsStep
<1> QED
  BY <1>7 DEF Held, RowsHeld, At

(* Only the COMMIT of a reorder changes display orders.                    *)
LEMMA OrdersWritten ==
    ASSUME ApiInv, [ApiNext]_vars, \A r \in Requests : ~CommitOrder(r)
    PROVE  OrdersStay
<1>1. ASSUME NEW r \in Requests, Writers(r) PROVE OrdersStay
  BY <1>1, UpdateWrites, CommitWrites, MarkWrites, ClaimWrites
     DEF Writers, ApiInv, OrdersStay
<1>2. UNCHANGED campaigns => OrdersStay
  BY DEF OrdersStay
<1> QED
  BY <1>1, <1>2, TablesStep DEF ApiInv, AuthInv, tables

(* A COMMIT writes all the rows of its body and no other step a display    *)
(* order.                                                                  *)
LEMMA OrderStep ==
    ASSUME ApiInv, RowsHeld, OrderIsOneRequest, [ApiNext]_vars
    PROVE  OrderIsOneRequest'
<1> DEFINE Reordered(s) ==
             s.op = "reorder" /\ s.pc = "done" /\ s.status = 200
           changed == {q \in Requests : Reordered(req[q])}
<1>1. /\ AuthTypeOK /\ RequestsOK /\ RowsOK /\ Len(writtenAt) \in Nat
      /\ DOMAIN SeedRows \subseteq DOMAIN campaigns
  BY DEF ApiInv, AuthInv, RowsOK, WritesOK
<1>2. CASE \E r \in Requests : CommitOrder(r)
  <2> PICK r \in Requests : CommitOrder(r)
    BY <1>2
  <2> DEFINE order == req[r].order
  <2>1. /\ req[r].op = "reorder" /\ req[r].pc = "move"
        /\ req[r].moved = Len(order)
    BY <1>1 DEF CommitOrder, At, Moving, RowsHeld, RequestsOK, RequestOK
  <2>2. Reordered(req'[r]) /\ req'[r].order = order
    <3>1. Answer(r, 200)
      BY DEF CommitOrder
    <3> QED
      BY <1>1, <2>1, <3>1, AnswerDoes
         DEF RequestsOK, RequestOK, Slots, KeptAll, KeptLocals, Kept
  <2>3. ASSUME NEW id \in DOMAIN SeedRows \cap Range(order)
        PROVE  campaigns'[id].order = Place(order, id)
    <3>1. order \in Seq(Nat)
      BY <1>1 DEF RequestsOK, RequestOK
    <3>2. PICK i \in 1..Len(order) : order[i] = id
      BY <2>3, <3>1 DEF Range
    <3>3. id \in req[r].locks
      BY <2>1, <3>2 DEF RowsHeld, At
    <3> QED
      BY <1>1, <2>3, <3>3, OrderWrites
  <2> HIDE DEF Reordered
  <2>4. \E q \in Requests :
          /\ Reordered(req'[q])
          /\ \A id \in DOMAIN SeedRows \cap Range(req'[q].order) :
               campaigns'[id].order = Place(req'[q].order, id)
    BY <2>2, <2>3
  <2> QED
    BY <2>4 DEF OrderIsOneRequest, Answered, Reordered
<1>3. CASE \A r \in Requests : ~CommitOrder(r)
  <2> DEFINE Still(q) == /\ Reordered(req'[q]) <=> Reordered(req[q])
                         /\ Reordered(req[q]) => req'[q].order = req[q].order
  <2>1. OrdersStay
    BY <1>3, OrdersWritten
  <2>2. \A q \in Requests : req'[q] = req[q] => Still(q)
    OBVIOUS
  <2>3. ASSUME NEW r \in Requests, OnlySlot(r), Still(r)
        PROVE  \A q \in Requests : Still(q)
    <3> HIDE DEF Still
    <3> QED
      BY <2>2, <2>3 DEF OnlySlot
  <2>4. ASSUME NEW r \in Requests, Request(r) PROVE Still(r) /\ OnlySlot(r)
    BY <1>1, <2>4, RequestBegins DEF AuthTypeOK, Begins
  <2>5. ASSUME NEW r \in Requests, Moves(r) PROVE Still(r) /\ OnlySlot(r)
    <3>1. /\ OnlySlot(r) /\ Kept(req[r], req'[r]) /\ req[r].pc # "done"
      BY <1>1, <2>5, RequestMoves
    <3>2. CASE req[r].op = "reorder"
      <4>1. CASE MoveCampaign(r)
        BY <1>1, <3>1, <4>1, MoveDoes DEF RequestsOK, RequestOK, Slots
      <4>2. CASE ~MoveCampaign(r)
        BY <1>1, <1>3, <2>5, <3>1, <3>2, <4>2, ReorderMoves
      <4> QED
        BY <3>1, <4>1, <4>2
    <3>3. CASE req[r].op # "reorder"
      BY <3>1, <3>3 DEF Kept
    <3> QED
      BY <3>1, <3>2, <3>3
  <2>6. ASSUME ApiRestart PROVE \A q \in Requests : Still(q)
    <3>1. ASSUME NEW q \in Requests PROVE Still(q)
      <4>1. /\ Kept(req[q], req'[q]) /\ req'[q].status = req[q].status
            /\ req'[q].pc \in {req[q].pc, "done"}
        BY <1>1, <2>6, RestartDoes DEF KeptAll, KeptLocals
      <4>2. req[q].op = "reorder" /\ req[q].status = 200 => req[q].pc = "done"
        BY <1>1 DEF RequestsOK, RequestOK
      <4> QED
        BY <4>1, <4>2 DEF Kept
    <3> QED
      BY <3>1
  <2>7. \A q \in Requests : Still(q)
    <3> HIDE DEF Still
    <3> QED
      BY <2>2, <2>3, <2>4, <2>5, <2>6, SlotsStep
  <2>8. CASE changed = {}
    <3>1. \A q \in Requests : ~Reordered(req'[q])
      BY <2>7, <2>8
    <3>2. \A id \in DOMAIN SeedRows : campaigns[id].order = SeedRows[id].order
      BY <2>8 DEF OrderIsOneRequest, Answered
    <3>3. \A id \in DOMAIN SeedRows :
            campaigns'[id].order = SeedRows[id].order
      BY <1>1, <2>1, <3>2 DEF OrdersStay
    <3> QED
      BY <3>1, <3>3 DEF OrderIsOneRequest, Answered
  <2>9. CASE changed # {}
    <3>1. PICK r \in Requests :
            /\ Reordered(req[r])
            /\ \A id \in DOMAIN SeedRows \cap Range(req[r].order) :
                 campaigns[id].order = Place(req[r].order, id)
      BY <2>9 DEF OrderIsOneRequest, Answered
    <3>2. Reordered(req'[r]) /\ req'[r].order = req[r].order
      BY <2>7, <3>1
    <3>3. \A id \in DOMAIN SeedRows \cap Range(req'[r].order) :
            campaigns'[id].order = Place(req'[r].order, id)
      BY <1>1, <2>1, <3>1, <3>2 DEF OrdersStay
    <3> QED
      BY <3>2, <3>3 DEF OrderIsOneRequest, Answered
  <2> QED
    BY <2>8, <2>9
<1> QED
  BY <1>2, <1>3

(* A row that was not there at first is of a POST, of whose sender it is;  *)
(* and a POST that has committed has its row.                              *)
RowsHaveOrigins ==
    /\ \A id \in DOMAIN campaigns \ DOMAIN SeedRows :
         \E q \in Requests : /\ req[q].op = "post" /\ req[q].id = id
                             /\ req[q].who = campaigns[id].owner
    /\ \A r \in Requests :
         req[r].op = "post" /\ (req[r].pc \in {"keys", "del"}
                                \/ req[r].status = 201)
           => req[r].id \in DOMAIN campaigns

(* At first the rows are the indexer's.                                    *)
LEMMA OriginsInitial == ApiInit => RowsHaveOrigins
  BY DEF ApiInit, RowsHaveOrigins, NoRequest

(* A new row is its creator's, and stays.                                  *)
LEMMA OriginsStep ==
    ASSUME ApiInv, RowsHaveOrigins, [ApiNext]_vars
    PROVE  RowsHaveOrigins'
<1> DEFINE Past(s) == s.op = "post" /\ (s.pc \in {"keys", "del"}
                                        \/ s.status = 201)
           There(q) == Past(req'[q]) => req'[q].id \in DOMAIN campaigns'
           (* Row id is of request q.                                      *)
           Of(q, id) == /\ req'[q].op = "post" /\ req'[q].id = id
                        /\ req'[q].who = campaigns'[id].owner
<1>1. /\ RowsStay /\ AuthTypeOK /\ RequestsOK /\ RowsOK
      /\ Len(writtenAt) \in Nat
  BY TablesGrow DEF ApiInv, AuthInv, WritesOK
<1>2. ASSUME NEW q \in Requests, Kept(req[q], req'[q]), Past(req[q])
      PROVE  There(q)
  BY <1>1, <1>2 DEF RowsHaveOrigins, RowsStay, Kept
<1>3. \A q \in Requests : req'[q] = req[q] => There(q)
  BY <1>2 DEF Kept
<1>4. ASSUME NEW r \in Requests, OnlySlot(r), There(r)
      PROVE  \A q \in Requests : There(q)
  <2> HIDE DEF There
  <2> QED
    BY <1>3, <1>4 DEF OnlySlot
<1>5. ASSUME NEW r \in Requests, Request(r) PROVE There(r) /\ OnlySlot(r)
  BY <1>1, <1>5, RequestBegins DEF AuthTypeOK, Begins
<1>6. ASSUME NEW r \in Requests, Moves(r) PROVE There(r) /\ OnlySlot(r)
  <2>1. OnlySlot(r) /\ Kept(req[r], req'[r])
    BY <1>1, <1>6, RequestMoves
  <2>2. CASE req[r].op = "post"
    <3>1. CASE Past(req[r])
      BY <1>2, <2>1, <3>1
    <3>2. CASE CommitCampaign(r)
      BY <1>1, <2>1, <3>2, CommitWrites DEF Kept
    <3>3. CASE ~Past(req[r]) /\ ~CommitCampaign(r)
      <4>1. ~Past(req'[r])
        BY <1>1, <1>6, <2>2, <3>3, PostMoves
      <4> QED
        BY <2>1, <4>1
    <3> QED
      BY <2>1, <3>1, <3>2, <3>3
  <2>3. CASE req[r].op # "post"
    BY <2>1, <2>3 DEF Kept
  <2> QED
    BY <2>1, <2>2, <2>3
<1>7. ASSUME ApiRestart PROVE \A q \in Requests : There(q)
  <2>1. ASSUME NEW q \in Requests PROVE There(q)
    <3>1. /\ Kept(req[q], req'[q]) /\ req'[q].status = req[q].status
          /\ req'[q].pc \in {req[q].pc, "done"}
      BY <1>1, <1>7, RestartDoes DEF KeptAll, KeptLocals
    <3>2. Past(req'[q]) => Past(req[q])
      BY <3>1 DEF Kept
    <3> QED
      BY <1>2, <3>1, <3>2
  <2> QED
    BY <2>1
<1>8. \A q \in Requests : There(q)
  <2> HIDE DEF There
  <2> QED
    BY <1>3, <1>4, <1>5, <1>6, <1>7, SlotsStep
<1>9. \A q \in Requests : req[q].op = "post" => Kept(req[q], req'[q])
  <2>1. \A q \in Requests : req'[q] = req[q] => Kept(req[q], req'[q])
    BY DEF Kept
  <2>2. ASSUME NEW r \in Requests, Request(r)
        PROVE  OnlySlot(r) /\ req[r].op # "post"
    BY <1>1, <2>2, RequestBegins DEF AuthTypeOK, Begins
  <2>3. ASSUME NEW r \in Requests, Moves(r)
        PROVE  OnlySlot(r) /\ Kept(req[r], req'[r])
    BY <1>1, <2>3, RequestMoves
  <2>4. ASSUME ApiRestart PROVE \A q \in Requests : Kept(req[q], req'[q])
    BY <1>1, <2>4, RestartDoes DEF KeptAll, KeptLocals
  <2> QED
    BY <2>1, <2>2, <2>3, <2>4, SlotsStep DEF OnlySlot
<1>10. ASSUME NEW id \in DOMAIN campaigns \ DOMAIN SeedRows
       PROVE  \E q \in Requests : Of(q, id)
  <2>1. PICK q \in Requests : /\ req[q].op = "post" /\ req[q].id = id
                              /\ req[q].who = campaigns[id].owner
    BY DEF RowsHaveOrigins
  <2> QED
    BY <1>1, <1>9, <2>1 DEF RowsStay, Kept
<1>11. ASSUME NEW id \in DOMAIN campaigns', id \notin DOMAIN campaigns
       PROVE  \E q \in Requests : Of(q, id)
  <2>1. PICK r \in Requests : CommitCampaign(r)
    <3>1. ASSUME NEW r \in Requests, Writers(r), ~CommitCampaign(r)
          PROVE  DOMAIN campaigns' = DOMAIN campaigns
      BY <1>1, <3>1, UpdateWrites, MarkWrites, OrderWrites, ClaimWrites
         DEF Writers
    <3> QED
      BY <1>1, <1>11, <3>1, TablesStep DEF tables
  <2>2. id = req[r].id
    BY <1>1, <1>11, <2>1, CommitWrites
  <2>3. campaigns'[id].owner = req[r].who
    BY <1>1, <1>11, <2>1, <2>2, CommitWrites
  <2>4. req[r].op = "post"
    BY <2>1 DEF CommitCampaign, At
  <2> QED
    BY <1>9, <2>2, <2>3, <2>4 DEF Kept
<1>12. \A id \in DOMAIN campaigns' \ DOMAIN SeedRows :
         \E q \in Requests : Of(q, id)
  BY <1>10, <1>11
<1> QED
  BY <1>8, <1>12 DEF RowsHaveOrigins

(* The indexer's ids are not those of POST: the row of a POST answered 201 *)
(* is of one.                                                              *)
LEMMA OriginsSuffice == ApiInv /\ RowsHaveOrigins => CreatesAreKept
<1> SUFFICES ASSUME ApiInv, RowsHaveOrigins,
                    NEW r \in Requests, Answered(r, "post"),
                    req[r].status = 201
             PROVE  /\ req[r].id \in DOMAIN campaigns
                    /\ \/ campaigns[req[r].id].owner = req[r].who
                       \/ \E q \in Requests \ {r} :
                            /\ req[q].op = "post" /\ req[q].id = req[r].id
                            /\ campaigns[req[r].id].owner = req[q].who
  BY DEF CreatesAreKept
<1>1. req[r].op = "post" /\ req[r].id \in DOMAIN campaigns
  BY DEF RowsHaveOrigins, Answered
<1>2. req[r].id \in Nat /\ req[r].id >= 1000
  BY <1>1 DEF ApiInv, RequestsOK, RequestOK
<1>3. req[r].id \notin DOMAIN SeedRows
  <2> DEFINE id == req[r].id
  <2>1. DOMAIN SeedRows \subseteq 0..999
    BY ApiConstants
  <2> HIDE DEF id
  <2>2. id \in Nat /\ id >= 1000
    BY <1>2 DEF id
  <2>3. id \notin 0..999
    BY <2>2
  <2>4. id \notin DOMAIN SeedRows
    BY <2>1, <2>3
  <2> QED
    BY <2>4 DEF id
<1>4. PICK q \in Requests : /\ req[q].op = "post" /\ req[q].id = req[r].id
                            /\ req[q].who = campaigns[req[r].id].owner
  BY <1>1, <1>3 DEF RowsHaveOrigins
<1> QED
  BY <1>1, <1>4

AnswersInv ==
    /\ ApiInv
    /\ DeactivatedByOwner /\ ClaimsStored
    /\ RowsHeld /\ OrderIsOneRequest /\ RowsHaveOrigins

(* What an answer to a write says is so: a deactivation was the owner's, a *)
(* display order is that of one request, a created campaign is there and   *)
(* its creator's, and of the claims on a reward one is granted; for any    *)
(* requests in any interleaving, with deadlocks, failures and restarts.    *)
THEOREM AnswersToWritesAreTrue == ApiSpec => []AnswersAreTrue
<1>1. ApiInit => AnswersInv
  BY ApiInitial, OwnersInitial, ClaimsInitial, OrdersInitial, OriginsInitial
     DEF AnswersInv
<1>2. AnswersInv /\ [ApiNext]_vars => AnswersInv'
  BY ApiStep, OwnersStep, ClaimsStep, HeldStep, OrderStep, OriginsStep
     DEF AnswersInv
<1>3. AnswersInv => AnswersAreTrue
  BY OriginsSuffice DEF AnswersInv, AnswersAreTrue, ClaimsStored
<1> QED
  BY <1>1, <1>2, <1>3, PTL DEF ApiSpec

-----------------------------------------------------------------------------
(* The caches.                                                             *)

(* Campaign c may be in a list of one status.                              *)
Fits(c, status) ==
    ~c.deleted /\ (status # "any" => c.active = (status = "active"))

(* Lists fit their filter, cached ones the part of it that is in the key.  *)
ListsFit ==
    /\ \A r \in Requests :
         req[r].op = "list" /\ (req[r].pc \in {"count", "setex"}
                                \/ req[r].status = 200)
           => \A id \in DOMAIN req[r].list :
                LET c == req[r].list[id]
                    f == req[r].filter
                IN  /\ Fits(c, f.status)
                    /\ f.owner # "any" /\ ~req[r].hit => c.owner = f.owner
    /\ \A k \in DOMAIN cache \ {"report"} :
         \A id \in DOMAIN cache[k].list : Fits(cache[k].list[id], k)

(* At first there are no lists.                                            *)
LEMMA ListsInitial == ApiInit => ListsFit
  BY DEF ApiInit, ListsFit, NoRequest

(* What is listed, stored or served from the cache fits its filter.        *)
LEMMA ListsStep ==
    ASSUME ApiInv, ListsFit, [ApiNext]_vars
    PROVE  ListsFit'
<1> DEFINE Filled(s) == s.op = "list" /\ (s.pc \in {"count", "setex"}
                                          \/ s.status = 200)
           Right(s) == \A id \in DOMAIN s.list :
                         /\ Fits(s.list[id], s.filter.status)
                         /\ s.filter.owner # "any" /\ ~s.hit
                              => s.list[id].owner = s.filter.owner
           Fitting(q) == Filled(req'[q]) => Right(req'[q])
<1>1. /\ AuthTypeOK /\ RequestsOK /\ Len(writtenAt) \in Nat
  BY DEF ApiInv, AuthInv, WritesOK
<1>2. \A q \in Requests : Filled(req[q]) => Right(req[q])
  BY DEF ListsFit
<1>3. \A k \in DOMAIN cache \ {"report"} :
        \A id \in DOMAIN cache[k].list : Fits(cache[k].list[id], k)
  BY DEF ListsFit
<1> HIDE DEF Right
<1>4. ASSUME NEW q \in Requests, KeptAll(req[q], req'[q]), Filled(req[q])
      PROVE  Fitting(q)
  BY <1>2, <1>4 DEF Right, KeptAll, KeptLocals, Kept
<1>5. \A q \in Requests : req'[q] = req[q] => Fitting(q)
  BY <1>2
<1>6. ASSUME NEW r \in Requests, OnlySlot(r), Fitting(r)
      PROVE  \A q \in Requests : Fitting(q)
  <2> HIDE DEF Fitting
  <2> QED
    BY <1>5, <1>6 DEF OnlySlot
<1>7. ASSUME NEW r \in Requests, Request(r) PROVE Fitting(r) /\ OnlySlot(r)
  <2>1. Begins(r)
    BY <1>1, <1>7, RequestBegins DEF AuthTypeOK
  <2> QED
    BY <2>1 DEF Begins
<1>8. ASSUME NEW r \in Requests, Moves(r) PROVE Fitting(r) /\ OnlySlot(r)
  <2>1. OnlySlot(r) /\ Kept(req[r], req'[r])
    BY <1>1, <1>8, RequestMoves
  <2>2. CASE req[r].op = "list" /\ Filled(req[r])
    <3>1. KeptAll(req[r], req'[r])
      <4>1. req[r].pc \in {"count", "setex"}
        <5>1. req[r].pc # "done"
          BY <1>1, <1>8, RequestMoves
        <5> QED
          BY <1>1, <2>2, <5>1 DEF RequestsOK, RequestOK
      <4>2. CASE Step(r)
        <5>1. Count(r) \/ Setex(r)
          BY <1>1, <2>2, <4>1, <4>2, HandlerOf
             DEF ListStep, CacheHit, CacheMiss, Select, Reads, UncachedReads
        <5>2. Goto(r, "setex") \/ Answer(r, 200)
          BY <5>1 DEF Count, Setex
        <5> QED
          BY <1>1, <5>2, GotoDoes, AnswerDoes
             DEF RequestsOK, RequestOK, Slots
      <4>3. CASE RedisFails(r)
        BY <1>1, <4>3, RedisFailsDoes
      <4>4. CASE DatabaseFails(r)
        BY <1>1, <2>2, <4>4, DatabaseFailsDoes
      <4> QED
        BY <1>8, <4>2, <4>3, <4>4 DEF Moves
    <3> QED
      BY <1>4, <2>1, <2>2, <3>1
  <2>3. CASE req[r].op = "list" /\ ~Filled(req[r])
    <3>1. CASE CacheHit(r)
      <4>1. /\ Key(r) \in DOMAIN cache
            /\ Key(r) = req[r].filter.status /\ Key(r) # "report"
        <5>1. req[r].filter \in CampaignFilters
          BY <1>1 DEF RequestsOK, RequestOK
        <5>2. req[r].filter.status # "report"
          BY <5>1 DEF CampaignFilters
        <5> QED
          BY <2>3, <3>1, <5>2 DEF CacheHit, Key, CacheKey
      <4>2. /\ req'[r].list = cache[Key(r)].list /\ req'[r].hit = TRUE
            /\ req'[r].filter = req[r].filter
        <5>1. Slots /\ DOMAIN req[r] = DOMAIN NoRequest
          BY <1>1 DEF RequestsOK, RequestOK, Slots
        <5> QED
          BY <2>1, <3>1, <5>1, CacheHitDoes DEF Kept
      <4>3. Right(req'[r])
        BY <1>3, <4>1, <4>2 DEF Right
      <4> QED
        BY <2>1, <4>3
    <3>2. CASE Select(r)
      <4> DEFINE f == req[r].filter
                 found == Restrict(campaigns, Matching(f))
      <4>1. req'[r].list = found /\ req'[r].filter = f
        BY <1>1, <2>1, <2>3, <3>2, SelectDoes
           DEF RequestsOK, RequestOK, Slots, Kept
      <4>2. \A id \in DOMAIN found :
              /\ Fits(found[id], f.status)
              /\ f.owner # "any" => found[id].owner = f.owner
        BY DEF Restrict, Matching, Fits
      <4> HIDE DEF found
      <4>3. Right(req'[r])
        BY <4>1, <4>2 DEF Right
      <4> QED
        BY <2>1, <4>3
    <3>3. CASE ~CacheHit(r) /\ ~Select(r)
      <4>1. ~Filled(req'[r])
        <5>1. \/ req'[r].pc = "select" /\ req'[r].status = 0
              \/ req[r].pc \in {"count", "setex"}
              \/ req'[r].pc = "done" /\ req'[r].status \in {500, 503}
          <6>1. RequestsOK /\ Moves(r) /\ req[r].op = "list"
            BY <1>1, <1>8, <2>3
          <6>2. ~CacheHit(r) /\ ~Select(r)
            BY <3>3
          <6> HIDE DEF Filled
          <6> QED
            BY <6>1, <6>2, ListMoves
        <5> QED
          BY <2>3, <5>1
      <4> QED
        BY <2>1, <4>1
    <3> QED
      BY <3>1, <3>2, <3>3
  <2>4. CASE req[r].op # "list"
    BY <2>1, <2>4 DEF Kept
  <2> QED
    BY <2>2, <2>3, <2>4
<1>9. ASSUME ApiRestart PROVE \A q \in Requests : Fitting(q)
  <2>1. ASSUME NEW q \in Requests PROVE Fitting(q)
    <3>1. /\ KeptAll(req[q], req'[q]) /\ req'[q].status = req[q].status
          /\ req'[q].pc \in {req[q].pc, "done"}
      BY <1>1, <1>9, RestartDoes
    <3>2. Filled(req'[q]) => Filled(req[q])
      BY <3>1 DEF KeptAll, KeptLocals, Kept
    <3> QED
      BY <1>4, <3>1, <3>2
  <2> QED
    BY <2>1
<1>10. \A q \in Requests : Fitting(q)
  <2> HIDE DEF Fitting
  <2> QED
    BY <1>5, <1>6, <1>7, <1>8, <1>9, SlotsStep
<1>11. ASSUME NEW k \in DOMAIN cache' \ {"report"},
              NEW id \in DOMAIN cache'[k].list
       PROVE  Fits(cache'[k].list[id], k)
  <2>1. CASE k \in DOMAIN cache /\ cache'[k] = cache[k]
    BY <1>3, <1>11, <2>1
  <2>2. ASSUME NEW r \in Requests, Setex(r), k = Key(r)
        PROVE  Fits(cache'[k].list[id], k)
    <3>1. /\ req[r].op = "list" /\ k = req[r].filter.status
          /\ cache'[k].list = req[r].list
      BY <1>11, <2>2, SetexStores
    <3>2. req[r].pc = "setex"
      BY <2>2 DEF Setex, Reads
    <3> QED
      BY <1>2, <1>11, <3>1, <3>2 DEF Right
  <2>3. ASSUME NEW r \in Requests, Setex(r), k # Key(r)
        PROVE  k \in DOMAIN cache /\ cache'[k] = cache[k]
    BY <1>11, <2>3, SetexStores
  <2>4. ASSUME \A r \in Requests : ~Setex(r)
        PROVE  k \in DOMAIN cache /\ cache'[k] = cache[k]
    BY <1>11, <2>4, CacheStep
  <2> QED
    BY <2>1, <2>2, <2>3, <2>4
<1> QED
  BY <1>10, <1>11 DEF ListsFit, Right

(* The cached lists behind the last write that invalidates, those apart    *)
(* that were when they were stored.                                        *)
Stale ==
    {k \in DOMAIN cache \ {"report"} :
       cache[k].read < purging /\ ~cache[k].late}

(* Somebody is about to delete them, as long as there are any.             *)
Purged ==
    \/ purgeLost
    \/ \E r \in Requests : req[r].pc = "keys"
    \/ \E r \in Requests : req[r].pc = "del" /\ Stale \subseteq req[r].keys
    \/ Stale = {}

(* The request that invalidates goes on to KEYS and DEL, or fails.         *)
LEMMA PurgeMoves ==
    ASSUME RequestsOK, NEW r \in Requests, Moves(r)
    PROVE  /\ req[r].pc = "keys" => ReadKeys(r) \/ RedisFails(r)
           /\ req[r].pc = "del" => DeleteKeys(r) \/ RedisFails(r)
<1>1. ASSUME Step(r), req[r].pc \in {"keys", "del"}
      PROVE  ReadKeys(r) \/ DeleteKeys(r)
  BY <1>1 DEF Step, ListStep, CacheHit, CacheMiss, Select, Count, Setex,
     Reads, MerchantStep, FindCampaign, UpdateCampaign, InsertCampaign,
     CommitCampaign, TableStep, MarkDeleted, MoveCampaign, CommitOrder,
     DeadlockDetected, Moving, ClaimStep, InsertUser, InsertReward, Query, At
<1>2. ~DatabaseFails(r) \/ req[r].pc \notin {"keys", "del"}
  BY DatabaseFailsDoes
<1> QED
  BY <1>1, <1>2 DEF Moves, ReadKeys, DeleteKeys

(* Who writes what invalidates goes on to look for the keys.               *)
LEMMA PurgingStep ==
    ASSUME ApiInv, [ApiNext]_vars, purging' # purging
    PROVE  \E r \in Requests : req'[r].pc = "keys"
<1>1. RequestsOK /\ RowsOK /\ AuthTypeOK
  BY DEF ApiInv, AuthInv
<1>2. PICK r \in Requests : UpdateCampaign(r) \/ CommitCampaign(r)
  <2>1. ASSUME NEW r \in Requests, Writers(r), ~UpdateCampaign(r),
               ~CommitCampaign(r)
        PROVE  UNCHANGED purging
    BY <1>1, <2>1, MarkWrites, OrderWrites, ClaimWrites DEF Writers
  <2> QED
    BY <1>1, <2>1, TablesStep DEF written
<1>3. req'[r].pc = "keys"
  <2>1. Slots /\ DOMAIN req[r] = DOMAIN NoRequest
    BY <1>1 DEF RequestsOK, RequestOK, Slots
  <2>2. UpdateCampaign(r) => Goto(r, "keys")
    BY DEF UpdateCampaign
  <2> QED
    BY <1>2, <2>1, <2>2, GotoDoes, CreationDoes
<1> QED
  BY <1>3

(* What is stored is not stale before the next write that invalidates.     *)
LEMMA StaleStep ==
    ASSUME ApiInv, [ApiNext]_vars, purging' = purging
    PROVE  Stale' \subseteq Stale
<1> SUFFICES ASSUME NEW k \in DOMAIN cache' \ {"report"},
                    cache'[k].read < purging, ~cache'[k].late
             PROVE  k \in DOMAIN cache /\ cache'[k] = cache[k]
  BY DEF Stale
<1>1. ASSUME NEW r \in Requests, Setex(r)
      PROVE  k \in DOMAIN cache /\ cache'[k] = cache[k]
  <2>1. k # Key(r)
    BY <1>1, SetexStores
  <2> QED
    BY <1>1, <2>1, SetexStores
<1> QED
  BY <1>1, CacheStep

(* A lost invalidation stays lost.                                         *)
LEMMA PurgeLostStep ==
    ASSUME ApiInv, [ApiNext]_vars
    PROVE  purgeLost => purgeLost'
<1>1. RequestsOK /\ RowsOK /\ AuthTypeOK
  BY DEF ApiInv, AuthInv
<1>2. ASSUME NEW r \in Requests, Request(r) PROVE UNCHANGED purgeLost
  BY <1>1, <1>2, RequestBegins DEF AuthTypeOK
<1>3. ASSUME NEW r \in Requests, Moves(r) PROVE purgeLost => purgeLost'
  <2>1. CASE Writers(r)
    BY <1>1, <2>1, UpdateWrites, CommitWrites, MarkWrites, OrderWrites,
       ClaimWrites DEF Writers
  <2>2. CASE RedisFails(r)
    BY <2>2 DEF RedisFails
  <2>3. CASE ~Writers(r) /\ ~RedisFails(r)
    BY <1>3, <2>3, OtherStepsWriteNothing
  <2> QED
    BY <2>1, <2>2, <2>3
<1>4. ASSUME ApiRestart PROVE purgeLost => purgeLost'
  BY <1>4 DEF ApiRestart
<1>5. ASSUME \/ RecordTransaction \/ ApiTick \/ ApiSignIn \/ Shutdown
             \/ ServerClosed \/ UNCHANGED vars
      PROVE  UNCHANGED purgeLost
  BY <1>5 DEF RecordTransaction, ApiTick, ApiSignIn, Shutdown,
              ServerClosed, vars, apiVars
<1> QED
  BY <1>2, <1>3, <1>4, <1>5 DEF ApiNext, Moves

(* KEYS and DEL take the stale lists away, unless they fail or are cut     *)
(* off.                                                                    *)
LEMMA PurgedStep ==
    ASSUME ApiInv, Purged, [ApiNext]_vars
    PROVE  Purged'
<1>1. /\ AuthTypeOK /\ RequestsOK /\ Len(writtenAt) \in Nat
  BY DEF ApiInv, AuthInv, WritesOK
<1>2. CASE purging' # purging
  BY <1>2, PurgingStep DEF Purged
<1>3. CASE purging' = purging
  <2>1. Stale' \subseteq Stale
    BY <1>3, StaleStep
  <2>2. CASE purgeLost
    BY <2>2, PurgeLostStep DEF Purged
  <2>3. CASE Stale = {}
    BY <2>1, <2>3 DEF Purged
  <2>4. ASSUME NEW r \in Requests, req[r].pc \in {"keys", "del"},
               req'[r] # req[r], ~ApiRestart
        PROVE  Moves(r)
    <3>1. ASSUME NEW q \in Requests, Request(q)
          PROVE  q # r /\ OnlySlot(q)
      <4>1. OnlySlot(q) /\ req[q].op = "none"
        BY <1>1, <3>1, RequestBegins DEF AuthTypeOK, Begins
      <4>2. req[q].pc = "new"
        <5>1. Whereabouts(req[q])
          BY <1>1, <3>1 DEF RequestsOK, RequestOK
        <5> QED
          BY <4>1, <5>1 DEF Whereabouts, UncachedReads
      <4>3. ASSUME q = r PROVE FALSE
        <5>1. req[q].pc \in {"keys", "del"}
          BY <2>4, <4>3
        <5> QED
          BY <4>2, <5>1
      <4> QED
        BY <4>1, <4>3
    <3>2. ASSUME NEW q \in Requests, Moves(q) PROVE OnlySlot(q)
      BY <1>1, <3>2, RequestMoves
    <3> QED
      BY <2>4, <3>1, <3>2, SlotsStep DEF OnlySlot
  <2>5. ASSUME ApiRestart, NEW r \in Requests, req[r].pc \in {"keys", "del"}
        PROVE  Purged'
    <3>1. purgeLost'
      BY <1>1, <2>5, RestartDoes
    <3> QED
      BY <3>1 DEF Purged
  <2>6. ASSUME NEW r \in Requests, req[r].pc \in {"keys", "del"},
               RedisFails(r)
        PROVE  Purged'
    <3>1. purgeLost'
      BY <2>6 DEF RedisFails
    <3> QED
      BY <3>1 DEF Purged
  <2>7. ASSUME NEW r \in Requests, req[r].pc = "keys" PROVE Purged'
    <3>1. CASE req'[r] = req[r]
      BY <2>7, <3>1 DEF Purged
    <3>2. CASE ReadKeys(r)
      <4>1. \/ DOMAIN cache \ {"report"} = {}
            \/ /\ req'[r].pc = "del"
               /\ req'[r].keys = DOMAIN cache \ {"report"}
        BY <1>1, <3>2, ReadKeysDoes DEF RequestsOK, RequestOK, Slots
      <4>2. Stale \subseteq DOMAIN cache \ {"report"}
        BY DEF Stale
      <4>3. \/ Stale' = {}
            \/ req'[r].pc = "del" /\ Stale' \subseteq req'[r].keys
        BY <2>1, <4>1, <4>2
      <4> QED
        BY <4>3 DEF Purged
    <3> QED
      BY <1>1, <2>4, <2>5, <2>6, <2>7, <3>1, <3>2, PurgeMoves
  <2>8. ASSUME NEW r \in Requests, req[r].pc = "del",
               Stale \subseteq req[r].keys
        PROVE  Purged'
    <3>1. CASE req'[r] = req[r]
      <4>1. req'[r].pc = "del" /\ Stale' \subseteq req'[r].keys
        BY <2>1, <2>8, <3>1
      <4> QED
        BY <4>1 DEF Purged
    <3>2. CASE DeleteKeys(r)
      <4>1. DOMAIN cache' \cap req[r].keys = {}
        BY <3>2 DEF DeleteKeys, Restrict
      <4>2. Stale' \subseteq DOMAIN cache'
        BY DEF Stale
      <4>3. Stale' = {}
        BY <2>1, <2>8, <4>1, <4>2
      <4> QED
        BY <4>3 DEF Purged
    <3> QED
      BY <1>1, <2>4, <2>5, <2>6, <2>8, <3>1, <3>2, PurgeMoves
  <2> QED
    BY <2>2, <2>3, <2>7, <2>8 DEF Purged
<1> QED
  BY <1>2, <1>3

TimeToLive(k) == IF k = "report" THEN CACHE_TTL ELSE LIST_TTL

(* An entry has not expired; it expires a time to live after it was        *)
(* stored, which no write it does not know of preceded unless overtaken.   *)
EntriesExpire ==
    \A k \in DOMAIN cache :
      /\ cache[k].read \in Nat /\ cache[k].read <= Len(writtenAt)
      /\ cache[k].expires \in Nat
      /\ clock < cache[k].expires
      /\ cache[k].expires <= clock + TimeToLive(k)
      /\ cache[k].read < Len(writtenAt) /\ ~cache[k].overtaken
           => cache[k].expires
                <= writtenAt[cache[k].read + 1] + TimeToLive(k)

(* At first the caches are empty.                                          *)
LEMMA EntriesInitial == ApiInit => EntriesExpire
  BY DEF ApiInit, EntriesExpire

(* When time passes Redis drops what expires.                              *)
LEMMA ClockStep ==
    ASSUME ApiInv, [ApiNext]_vars
    PROVE  /\ clock' \in Nat /\ clock \in Nat /\ clock <= clock'
           /\ \/ clock' = clock
              \/ \A k \in DOMAIN cache' :
                   /\ k \in DOMAIN cache /\ cache'[k] = cache[k]
                   /\ clock' < cache[k].expires
<1>1. RequestsOK /\ RowsOK /\ AuthTypeOK /\ clock \in Nat
  BY DEF ApiInv, AuthInv, AuthTypeOK
<1>2. ASSUME NEW r \in Requests, Request(r) PROVE UNCHANGED clock
  BY <1>1, <1>2, RequestBegins DEF AuthTypeOK, authVars
<1>3. ASSUME NEW r \in Requests, Moves(r) PROVE UNCHANGED clock
  <2>1. CASE Writers(r)
    BY <1>1, <2>1, UpdateWrites, CommitWrites, MarkWrites, OrderWrites,
       ClaimWrites DEF Writers, authVars
  <2> QED
    BY <1>3, <2>1, OtherStepsWriteNothing DEF authVars
<1>4. ASSUME ApiTick
      PROVE  /\ clock' = clock + 1
             /\ \A k \in DOMAIN cache' :
                  /\ k \in DOMAIN cache /\ cache'[k] = cache[k]
                  /\ clock' < cache[k].expires
  BY <1>4 DEF ApiTick, Tick, Restrict
<1>5. ASSUME ApiSignIn \/ ApiRestart PROVE UNCHANGED clock
  BY <1>5 DEF ApiSignIn, SignIn, ChallengeHandler, VerifyHandler, ApiRestart,
              Restart
<1>6. ASSUME \/ RecordTransaction \/ Shutdown \/ ServerClosed
             \/ UNCHANGED vars
      PROVE  UNCHANGED clock
  BY <1>6 DEF RecordTransaction, Shutdown, ServerClosed, vars, authVars
<1> QED
  BY <1>1, <1>2, <1>3, <1>4, <1>5, <1>6 DEF ApiNext, Moves

(* Storing, expiring and writing keep every entry within its time to live. *)
LEMMA EntriesStep ==
    ASSUME ApiInv, EntriesExpire, [ApiNext]_vars
    PROVE  EntriesExpire'
<1> DEFINE w == writtenAt
           w2 == writtenAt'
           c == clock
           c2 == clock'
           Live(e, ttl) ==
             /\ e.read \in Nat /\ e.read <= Len(w2)
             /\ e.expires \in Nat
             /\ c2 < e.expires /\ e.expires <= c2 + ttl
             /\ e.read < Len(w2) /\ ~e.overtaken
                  => e.expires <= w2[e.read + 1] + ttl
<1>1. /\ w2 \in Seq(Nat) /\ Len(w) \in Nat
      /\ Len(w2) \in {Len(w), Len(w) + 1}
      /\ \A i \in 1..Len(w) : w2[i] = w[i]
      /\ Len(w2) # Len(w) => w2[Len(w) + 1] = c
  BY WrittenGrows
<1>2. /\ c2 \in Nat /\ c \in Nat /\ c <= c2
      /\ \/ c2 = c
         \/ \A k \in DOMAIN cache' : /\ k \in DOMAIN cache
                                     /\ cache'[k] = cache[k]
                                     /\ c2 < cache[k].expires
  BY ClockStep
<1>3. LIST_TTL \in Nat /\ CACHE_TTL \in Nat /\ LIST_TTL > 0 /\ CACHE_TTL > 0
  BY ApiConstants
<1>4. \A k : TimeToLive(k) \in Nat /\ TimeToLive(k) > 0
  BY <1>3 DEF TimeToLive
<1>5. ASSUME NEW k \in DOMAIN cache', k \in DOMAIN cache,
             cache'[k] = cache[k]
      PROVE  Live(cache'[k], TimeToLive(k))
  <2> DEFINE e == cache[k]
             ttl == TimeToLive(k)
  <2>1. /\ e.read \in Nat /\ e.read <= Len(w)
        /\ e.expires \in Nat
        /\ c < e.expires /\ e.expires <= c + ttl
        /\ e.read < Len(w) /\ ~e.overtaken
             => e.expires <= w[e.read + 1] + ttl
    BY <1>5 DEF EntriesExpire
  <2>2. c2 < e.expires
    BY <1>2, <1>5, <2>1
  <2>3. ttl \in Nat /\ cache'[k] = e
    BY <1>4, <1>5
  <2> HIDE DEF e, ttl, w, w2, c, c2
  <2>4. e.read <= Len(w2) /\ e.expires <= c2 + ttl
    BY <1>1, <1>2, <2>1, <2>3
  <2>5. ASSUME e.read < Len(w2), ~e.overtaken
        PROVE  e.expires <= w2[e.read + 1] + ttl
    <3>1. CASE e.read < Len(w)
      <4>1. w2[e.read + 1] = w[e.read + 1]
        BY <1>1, <2>1, <3>1
      <4> QED
        BY <2>1, <2>5, <3>1, <4>1
    <3>2. CASE ~(e.read < Len(w))
      <4>1. e.read = Len(w) /\ Len(w2) # Len(w)
        BY <1>1, <2>1, <2>5, <3>2
      <4> QED
        BY <1>1, <2>1, <4>1
    <3> QED
      BY <3>1, <3>2
  <2>6. Live(e, ttl)
    BY <2>1, <2>2, <2>4, <2>5
  <2> HIDE DEF Live
  <2> QED
    BY <2>3, <2>6 DEF ttl
<1>6. ASSUME NEW r \in Requests, Setex(r)
      PROVE  Live(cache'[Key(r)], TimeToLive(Key(r)))
  <2> DEFINE e == cache'[Key(r)]
             ttl == TimeToLive(Key(r))
  <2>1. /\ e.read = req[r].read
        /\ e.overtaken <=> req[r].read < Len(w)
        /\ e.expires = c + ttl
        /\ w2 = w /\ c2 = c
    BY <1>6, SetexStores DEF TimeToLive, written
  <2>2. req[r].read \in Nat /\ req[r].read <= Len(w)
    BY DEF ApiInv, RequestsOK, RequestOK, WritesOK
  <2>3. ttl \in Nat /\ ttl > 0
    BY <1>4
  <2> HIDE DEF e, ttl, w, w2, c, c2
  <2>4. Live(e, ttl)
    BY <1>2, <2>1, <2>2, <2>3
  <2> HIDE DEF Live
  <2> QED
    BY <2>4 DEF e, ttl
<1>7. ASSUME NEW k \in DOMAIN cache' PROVE Live(cache'[k], TimeToLive(k))
  <2> HIDE DEF Live
  <2>1. ASSUME NEW r \in Requests, Setex(r)
        PROVE  Live(cache'[k], TimeToLive(k))
    BY <1>5, <1>6, <1>7, <2>1, SetexStores
  <2>2. ASSUME \A r \in Requests : ~Setex(r)
        PROVE  Live(cache'[k], TimeToLive(k))
    BY <1>5, <1>7, <2>2, CacheStep
  <2> QED
    BY <2>1, <2>2
<1> QED
  BY <1>7 DEF EntriesExpire, TimeToLive

CachesInv == ApiInv /\ ListsFit /\ Purged /\ EntriesExpire

(* The cached lists and the report show what may be in them, and nothing   *)
(* else is wrong with them than what a race or a failed invalidation       *)
(* leaves, until it expires.                                               *)
THEOREM CachesHonest == ApiSpec => []CachesAreHonest
<1>1. ApiInit => CachesInv
  <2>1. ApiInit => Purged
    BY DEF ApiInit, Purged, Stale
  <2> QED
    BY <2>1, ApiInitial, ListsInitial, EntriesInitial DEF CachesInv
<1>2. CachesInv /\ [ApiNext]_vars => CachesInv'
  BY ApiStep, ListsStep, PurgedStep, EntriesStep DEF CachesInv
<1>3. CachesInv => CachesAreHonest
  <2> SUFFICES ASSUME CachesInv PROVE CachesAreHonest
    OBVIOUS
  <2>1. AnswersMatchFilter
    BY DEF CachesInv, ListsFit, Fits, AnswersMatchFilter, Answered
  <2>2. StaleOnlyByRace
    BY DEF CachesInv, Purged, Stale, StaleOnlyByRace
  <2>3. BoundedStaleness
    <3> SUFFICES ASSUME NEW k \in DOMAIN cache,
                        cache[k].read < Len(writtenAt), ~cache[k].overtaken
                 PROVE  clock < writtenAt[cache[k].read + 1] + TimeToLive(k)
      BY DEF BoundedStaleness, TimeToLive
    <3> DEFINE i == cache[k].read + 1
               x == cache[k].expires
               d == writtenAt[i] + TimeToLive(k)
    <3>1. clock < x /\ x <= d /\ x \in Nat /\ clock \in Nat
      BY DEF CachesInv, EntriesExpire, ApiInv, AuthInv, AuthTypeOK
    <3>2. d \in Nat
      <4>1. writtenAt \in Seq(Nat) /\ i \in 1..Len(writtenAt)
        BY DEF CachesInv, EntriesExpire, ApiInv, WritesOK
      <4>2. writtenAt[i] \in Nat /\ TimeToLive(k) \in Nat
        BY <4>1, ApiConstants DEF TimeToLive
      <4> QED
        BY <4>2
    <3> HIDE DEF x, d
    <3>3. clock < d
      BY <3>1, <3>2
    <3> QED
      BY <3>3 DEF d
  <2> QED
    BY <2>1, <2>2, <2>3 DEF CachesAreHonest
<1> QED
  BY <1>1, <1>2, <1>3, PTL DEF ApiSpec

-----------------------------------------------------------------------------
(* The reads without a cache.                                              *)

(* A query found what was there when its request was sent and nothing that *)
(* is not there now, unless the request was answered 500.                  *)
PartFound(s, rows) ==
    /\ rows \subseteq Table(s.op, s.who)
    /\ s.status \in {0, 200} => s.before \subseteq rows

PartsOK(s) ==
    s.op \in UncachedReads =>
      /\ s.before \subseteq Table(s.op, s.who)
      /\ \A q \in DOMAIN s.parts : PartFound(s, s.parts[q])

PartsFound == \A r \in Requests : PartsOK(req[r])

(* At first nothing is read.                                               *)
LEMMA PartsInitial == ApiInit => PartsFound
  BY DEF ApiInit, PartsFound, PartsOK, NoRequest, UncachedReads

(* What the queries read loses no row.                                     *)
LEMMA TableGrows ==
    ASSUME ApiInv, [ApiNext]_vars, NEW op \in UncachedReads, NEW who
    PROVE  Table(op, who) \subseteq Table(op, who)'
<1>1. /\ audit \subseteq audit' /\ rewards \subseteq rewards'
      /\ transactions \subseteq transactions'
  BY TablesGrow DEF ApiInv, AuthInv
<1> QED
  BY <1>1 DEF Table, UncachedReads

(* Nor does a step take from a request what its queries found.             *)
LEMMA PartsStep == ApiInv /\ PartsFound /\ [ApiNext]_vars => PartsFound'
<1> SUFFICES ASSUME ApiInv, PartsFound, [ApiNext]_vars, NEW r \in Requests
             PROVE  PartsOK(req[r])'
  BY DEF PartsFound
<1> DEFINE s == req[r]
           t == req'[r]
           Grows(op, who) == Table(op, who) \subseteq Table(op, who)'
<1>1. /\ AuthTypeOK /\ RequestsOK /\ Len(writtenAt) \in Nat
      /\ Slots /\ RequestOK(s) /\ DOMAIN s = DOMAIN NoRequest
      /\ tokens \subseteq Token /\ clock \in Nat
  BY DEF ApiInv, AuthInv, WritesOK, RequestsOK, RequestOK, Slots, AuthTypeOK
<1>2. PartsOK(s)
  BY DEF PartsFound
<1>3. ASSUME NEW op \in UncachedReads, NEW who PROVE Grows(op, who)
  BY TableGrows
<1> HIDE DEF Grows
<1>4. ASSUME Kept(s, t), t.parts = s.parts,
             t.status \in {0, 200} => t.status = s.status
      PROVE  PartsOK(req[r])'
  <2> SUFFICES ASSUME s.op \in UncachedReads
               PROVE  PartsOK(req[r])'
    BY <1>4 DEF PartsOK, Kept
  <2>1. Grows(s.op, s.who)
    BY <1>3
  <2> QED
    BY <1>2, <1>4, <2>1 DEF PartsOK, PartFound, Kept, Grows
<1>5. ASSUME s.op \in UncachedReads, NEW i, NEW rows, NEW status,
             Found(r, i, rows, status),
             rows \subseteq Table(s.op, s.who),
             \/ rows = Table(s.op, s.who) /\ status = 200
             \/ s.op = "rewards" /\ s.status = 0 /\ status = 500
      PROVE  PartsOK(req[r])'
  <2>1. Grows(s.op, s.who)
    BY <1>3, <1>5
  <2> DEFINE n == Queries(s.op)[i]
  <2>2. /\ Kept(s, t)
        /\ t.parts = Set(s.parts, n, rows)
        /\ t.status \in {s.status, status}
        /\ s.status # 0 => t.status = s.status
        /\ s.status = 0 /\ s.op = "rewards" => t.status = status
    BY <1>1, <1>5, FoundDoes
  <2> HIDE DEF n
  <2>3. t.status \in {0, 200} => s.status \in {0, 200}
    BY <1>5, <2>2
  <2>4. ASSUME NEW q \in DOMAIN t.parts
        PROVE  PartFound(s, t.parts[q]) \/ t.parts[q] = rows
    <3>1. \/ t.parts[q] = rows
          \/ q \in DOMAIN s.parts /\ t.parts[q] = s.parts[q]
      BY <2>2, <2>4 DEF Set
    <3> QED
      BY <1>2, <1>5, <3>1 DEF PartsOK
  <2>5. s.before \subseteq Table(s.op, s.who)
    BY <1>2, <1>5 DEF PartsOK
  <2>6. t.status \in {0, 200} => s.before \subseteq rows
    BY <1>5, <2>2, <2>5
  <2>7. ASSUME NEW q \in DOMAIN t.parts
        PROVE  /\ t.parts[q] \subseteq Table(s.op, s.who)'
               /\ t.status \in {0, 200} => s.before \subseteq t.parts[q]
    BY <1>5, <2>1, <2>3, <2>4, <2>6, <2>7 DEF PartFound, Grows
  <2> QED
    BY <2>1, <2>2, <2>5, <2>7 DEF PartsOK, PartFound, Kept, Grows
<1>6. ASSUME NEW q \in Requests, Moves(q) PROVE PartsOK(req[r])'
  <2>1. CASE q = r /\ s.op \in UncachedReads
    <3>1. CASE /\ KeptAll(s, t)
               /\ t.status \in {0, 200} => t.status = s.status
      BY <1>4, <3>1 DEF KeptAll, KeptLocals
    <3>2. CASE \E i : Found(r, i, Table(s.op, s.who), 200)
      BY <1>5, <2>1, <3>2
    <3>3. CASE s.op = "rewards" /\ s.status = 0 /\ Found(r, 1, {}, 500)
      BY <1>5, <2>1, <3>3
    <3> QED
      BY <1>1, <1>6, <2>1, <3>1, <3>2, <3>3, ReadMoves
  <2>2. CASE q = r /\ s.op \notin UncachedReads
    BY <1>1, <1>6, <2>2, RequestMoves DEF PartsOK, Kept
  <2>3. CASE q # r
    BY <1>1, <1>4, <1>6, <2>3, RequestMoves DEF OnlySlot, Kept
  <2> QED
    BY <2>1, <2>2, <2>3
<1>7. ASSUME NEW q \in Requests, Request(q) PROVE PartsOK(req[r])'
  <2>1. Begins(q) /\ UNCHANGED tables
    BY <1>1, <1>7, RequestBegins
  <2>2. CASE q = r
    <3>1. /\ t.parts = <<>>
          /\ t.op \in UncachedReads => t.before = Table(t.op, t.who)
      BY <2>1, <2>2 DEF Begins
    <3>2. ASSUME NEW op \in UncachedReads, NEW who,
                 t.op = op, t.who = who
          PROVE  PartsOK(req[r])'
      <4>1. Grows(op, who)
        BY <1>3
      <4> QED
        BY <3>1, <3>2, <4>1 DEF PartsOK, Grows
    <3>3. t.op \notin UncachedReads => PartsOK(req[r])'
      BY DEF PartsOK
    <3> QED
      BY <3>2, <3>3
  <2>3. CASE q # r
    BY <1>1, <1>4, <2>1, <2>3 DEF Begins, OnlySlot, Kept
  <2> QED
    BY <2>2, <2>3
<1>8. CASE ApiRestart
  BY <1>1, <1>4, <1>8, RestartDoes DEF KeptAll, KeptLocals
<1>9. CASE UNCHANGED req
  BY <1>4, <1>9 DEF Kept
<1> QED
  BY <1>6, <1>7, <1>8, <1>9, SlotsStep

(* A read without a cache misses nothing that was there when it was sent   *)
(* and invents nothing, whatever the other requests wrote meanwhile.       *)
THEOREM ReadsFresh == ApiSpec => []ReadsAreFresh
<1>1. ApiInit => ApiInv /\ PartsFound
  BY ApiInitial, PartsInitial
<1>2. ApiInv /\ PartsFound /\ [ApiNext]_vars => (ApiInv /\ PartsFound)'
  BY ApiStep, PartsStep
<1>3. PartsFound => ReadsAreFresh
  BY DEF PartsFound, PartsOK, PartFound, ReadsAreFresh
<1> QED
  BY <1>1, <1>2, <1>3, PTL DEF ApiSpec
=============================================================================
