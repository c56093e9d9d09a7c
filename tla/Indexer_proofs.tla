--------------------------- MODULE Indexer_proofs ---------------------------
(***************************************************************************)
(* Proofs that the tables and the polls are well typed, that the saved     *)
(* cursor leaves no gap and that claims, rows and dead letters agree, for  *)
(* any chain, any number of overlapping polls, rejected calls and          *)
(* restarts; and that polls which do not overlap keep what was deactivated *)
(* inactive.                                                               *)
(***************************************************************************)
EXTENDS Indexer, TLAPS

(* A poll in flight.                                                       *)
Poll == [pc : Stages, at : Nat, last : Nat, attempt : Nat]

(* The events that were recorded, dead-lettered or given up.               *)
Settled == recorded \cup deadLetters \cup dropped

(* All of the first n.                                                     *)
UpTo(n, S) == \A i \in 1 .. n : i \in S

(* What makes CursorCoversHandled inductive: a poll in flight knows every  *)
(* event before its own to be settled, and one that is about to save its   *)
(* checkpoint every event it received, whatever the others do.             *)
Covers(q, S) ==
    /\ q.pc \in {"asked", "write", "record", "bury"} => UpTo(q.at - 1, S)
    /\ q.pc \in {"write", "record", "bury"} => q.at <= q.last
    /\ q.pc = "commit" => UpTo(q.last, S)

CoverInv ==
    /\ cursor \in Nat /\ Len(chain) \in Nat
    /\ polls \in [Pollers -> Poll]
    /\ UpTo(cursor, Settled)
    /\ \A p \in Pollers : Covers(polls[p], Settled)

(* Settled events stay settled, and with them what the polls know.         *)
LEMMA CoversMore ==
    ASSUME NEW S, NEW T, S \subseteq T, NEW q, Covers(q, S)
    PROVE  Covers(q, T)
  BY DEF Covers, UpTo

(* One poll moves on and events may be settled.                            *)
LEMMA OnePoll ==
    ASSUME CoverInv, NEW p \in Pollers, NEW q \in Poll,
           polls' = [polls EXCEPT ![p] = q],
           Settled \subseteq Settled', Covers(q, Settled'),
           cursor' \in Nat, UpTo(cursor', Settled'), chain' = chain
    PROVE  CoverInv'
<1>1. polls' \in [Pollers -> Poll]
  BY DEF CoverInv
<1>2. ASSUME NEW r \in Pollers PROVE Covers(polls'[r], Settled')
  <2>1. CASE r = p
    BY <2>1 DEF CoverInv
  <2>2. CASE r # p
    <3>1. polls'[r] = polls[r] /\ Covers(polls[r], Settled)
      BY <2>2 DEF CoverInv
    <3> QED
      BY <3>1, CoversMore
  <2> QED
    BY <2>1, <2>2
<1>3. Len(chain') \in Nat
  BY DEF CoverInv
<1> QED
  BY <1>1, <1>2, <1>3 DEF CoverInv

(* A poll that is done with an event knows it settled and goes on.         *)
LEMMA NextEventCovers ==
    ASSUME CoverInv, NEW p \in Pollers, polls[p].pc \in {"record", "bury"},
           NextEvent(p), UNCHANGED <<chain, cursor>>,
           Settled' = Settled \cup {polls[p].at}
    PROVE  CoverInv'
<1> DEFINE q == polls[p]
           n == IF q.at < q.last
                THEN [q EXCEPT !.pc = "write", !.at = q.at + 1, !.attempt = 1]
                ELSE [q EXCEPT !.pc = "commit"]
<1>1. q \in Poll /\ Covers(q, Settled) /\ UpTo(cursor, Settled)
      /\ cursor \in Nat
  BY DEF CoverInv
<1>2. n \in Poll
  <2>1. q.at + 1 \in Nat
    BY <1>1 DEF Poll
  <2>2. CASE q.at < q.last
    <3>1. n = [q EXCEPT !.pc = "write", !.at = q.at + 1, !.attempt = 1]
      BY <2>2
    <3> HIDE DEF n
    <3> QED
      BY <1>1, <2>1, <3>1 DEF Poll, Stages
  <2>3. CASE ~(q.at < q.last)
    <3>1. n = [q EXCEPT !.pc = "commit"]
      BY <2>3
    <3> HIDE DEF n
    <3> QED
      BY <1>1, <3>1 DEF Poll, Stages
  <2> QED
    BY <2>2, <2>3
<1>3. polls' = [polls EXCEPT ![p] = n]
  BY <1>1 DEF NextEvent, CoverInv, Poll
<1>4. UpTo(q.at - 1, Settled) /\ q.at <= q.last /\ q.at \in Nat /\ q.last \in Nat
  BY <1>1 DEF Covers, Poll
<1>5. UpTo(q.at, Settled')
  BY <1>4 DEF UpTo
<1>6. Covers(n, Settled')
  <2>1. CASE q.at < q.last
    <3>1. n.pc = "write" /\ n.at = q.at + 1 /\ n.last = q.last
      BY <1>1, <2>1 DEF Poll
    <3> QED
      BY <1>4, <1>5, <2>1, <3>1 DEF Covers, UpTo
  <2>2. CASE ~(q.at < q.last)
    <3>1. n.pc = "commit" /\ n.last = q.last
      BY <1>1, <2>2 DEF Poll
    <3>2. q.at = q.last
      BY <1>4, <2>2
    <3> QED
      BY <1>5, <3>1, <3>2 DEF Covers
  <2> QED
    BY <2>1, <2>2
<1>7. UpTo(cursor', Settled') /\ cursor' \in Nat /\ Settled \subseteq Settled'
  BY <1>1 DEF UpTo
<1> QED
  BY <1>2, <1>3, <1>6, <1>7, OnePoll

(* A poll moves to a stage that promises no more than its last one.        *)
LEMMA GotoCovers ==
    ASSUME CoverInv, NEW p \in Pollers, NEW pc \in Stages, NEW k \in Nat,
           \/ polls[p].pc \in {"write", "record"}
              /\ pc \in {"write", "record", "bury"}
           \/ pc = "backoff",
           polls' = [polls EXCEPT ![p].pc = pc, ![p].attempt = k],
           UNCHANGED <<chain, cursor, Settled>>
    PROVE  CoverInv'
<1> DEFINE q == polls[p]
           n == [q EXCEPT !.pc = pc, !.attempt = k]
<1>1. q \in Poll /\ Covers(q, Settled) /\ UpTo(cursor, Settled)
      /\ cursor \in Nat
  BY DEF CoverInv
<1>2. n \in Poll /\ n.pc = pc /\ n.at = q.at /\ n.last = q.last
  BY <1>1 DEF Poll
<1>3. polls' = [polls EXCEPT ![p] = n]
  BY <1>1 DEF CoverInv, Poll
<1>4. Covers(n, Settled)
  BY <1>1, <1>2 DEF Covers
<1> QED
  BY <1>1, <1>2, <1>3, <1>4, OnePoll

(* An event is tried again, or on its way to the dead letters.             *)
LEMMA RetryCovers ==
    ASSUME CoverInv, NEW p \in Pollers, polls[p].pc \in {"write", "record"},
           Retry(p), UNCHANGED <<chain, cursor, Settled>>
    PROVE  CoverInv'
<1> DEFINE q == polls[p]
<1>1. q \in Poll /\ q.attempt \in Nat
  BY DEF CoverInv, Poll
<1>2. CASE q.attempt < MAX_EVENT_RETRIES
  <2>1. polls' = [polls EXCEPT ![p].pc = "write",
                               ![p].attempt = q.attempt + 1]
    BY <1>2 DEF Retry
  <2>2. q.attempt + 1 \in Nat /\ "write" \in Stages
    BY <1>1 DEF Stages
  <2> QED
    BY <2>1, <2>2, GotoCovers
<1>3. CASE ~(q.attempt < MAX_EVENT_RETRIES)
  <2>1. polls' = [polls EXCEPT ![p].pc = "bury", ![p].attempt = q.attempt]
    BY <1>1, <1>3 DEF Retry, CoverInv, Poll
  <2> QED
    BY <1>1, <2>1, GotoCovers DEF Stages
<1> QED
  BY <1>2, <1>3

(* A poll ends, or all of them do.                                         *)
LEMMA IdleCovers == IdlePoll \in Poll /\ \A S : Covers(IdlePoll, S)
  BY DEF IdlePoll, Poll, Stages, Covers, UpTo

-----------------------------------------------------------------------------
(* The start of a process writes no row and moves no poll.                 *)
LEMMA StartupWritesNothing ==
    ASSUME EnsureTables \/ StartupFails
    PROVE  UNCHANGED <<chain, cursor, tables, polls, history>>
  BY DEF EnsureTables, StartupFails, Fault

(* An empty chain is covered.                                              *)
LEMMA CoverInitial == Init => CoverInv
<1> SUFFICES ASSUME Init PROVE CoverInv
  OBVIOUS
<1>1. cursor = 0 /\ Len(chain) = 0 /\ polls = [p \in Pollers |-> IdlePoll]
  BY DEF Init
<1> QED
  BY <1>1, IdleCovers DEF CoverInv, UpTo

(* The steps of a poll.                                                    *)
LEMMA PollCovers ==
    ASSUME CoverInv, NEW p \in Pollers, PollStep(p)
    PROVE  CoverInv'
<1> DEFINE q == polls[p]
<1>1. /\ q \in Poll /\ Covers(q, Settled) /\ UpTo(cursor, Settled)
      /\ cursor \in Nat /\ Len(chain) \in Nat
  BY DEF CoverInv
<1>2. ASSUME StartPoll(p) PROVE CoverInv'
  <2> DEFINE n == [IdlePoll EXCEPT !.pc = "asked", !.at = cursor + 1]
  <2>1. polls' = [polls EXCEPT ![p] = n] /\ Settled' = Settled
        /\ UNCHANGED <<chain, cursor>>
    BY <1>2 DEF StartPoll, tables, history, Settled
  <2>2. cursor + 1 \in Nat /\ IdlePoll \in Poll /\ "asked" \in Stages
    BY <1>1, IdleCovers DEF Stages
  <2>4. n \in Poll /\ n.pc = "asked" /\ n.at = cursor + 1
    BY <2>2 DEF Poll
  <2>5. UpTo(n.at - 1, Settled)
    BY <1>1, <2>4
  <2>6. Covers(n, Settled)
    BY <2>4, <2>5 DEF Covers
  <2> QED
    BY <1>1, <2>1, <2>4, <2>6, OnePoll
<1>3. ASSUME Receive(p) PROVE CoverInv'
  <2>1. UNCHANGED <<chain, cursor, Settled>>
    BY <1>3 DEF Receive, tables, history, Settled
  <2>2. CASE Done(p)
    <3>1. polls' = [polls EXCEPT ![p] = IdlePoll]
      BY <2>2 DEF Done
    <3>2. UpTo(cursor', Settled') /\ cursor' \in Nat
          /\ Settled \subseteq Settled'
      BY <1>1, <2>1
    <3> QED
      BY <2>1, <3>1, <3>2, IdleCovers, OnePoll
  <2>3. CASE ~Done(p)
    <3>1. PICK m \in Nat :
             /\ m >= q.at
             /\ polls' = [polls EXCEPT ![p].pc = "write", ![p].last = m,
                                       ![p].attempt = 1]
      <4> DEFINE m == IF Len(chain) < q.at + LIMIT THEN Len(chain)
                      ELSE q.at + LIMIT - 1
      <4>1. q.at \in Nat /\ LIMIT \in Nat \ {0}
        BY <1>1, IndexerConstants DEF Poll
      <4>2. m \in Nat
        BY <1>1, <4>1
      <4>3. m >= q.at
            /\ polls' = [polls EXCEPT ![p].pc = "write", ![p].last = m,
                                      ![p].attempt = 1]
        BY <1>1, <1>3, <2>3, <4>1, <4>2 DEF Receive
      <4> QED
        BY <4>2, <4>3
    <3> DEFINE n == [q EXCEPT !.pc = "write", !.last = m, !.attempt = 1]
    <3>2. n \in Poll /\ n.pc = "write" /\ n.at = q.at /\ n.last = m
      BY <1>1 DEF Poll, Stages
    <3>3. polls' = [polls EXCEPT ![p] = n]
      BY <3>1 DEF CoverInv, Poll
    <3>4. UpTo(q.at - 1, Settled)
      BY <1>1, <1>3 DEF Receive, Covers
    <3>5. Covers(n, Settled)
      BY <3>1, <3>2, <3>4 DEF Covers
    <3> QED
      BY <1>1, <2>1, <3>2, <3>3, <3>5, OnePoll
  <2> QED
    BY <2>2, <2>3
<1>4. ASSUME WriteEvent(p) PROVE CoverInv'
  <2>1. /\ UNCHANGED <<chain, cursor, Settled>>
        /\ polls' = [polls EXCEPT ![p].pc = "record"]
        /\ q.pc = "write"
    BY <1>4 DEF WriteEvent, Goto, history, Settled
  <2>2. polls' = [polls EXCEPT ![p].pc = "record", ![p].attempt = q.attempt]
        /\ q.attempt \in Nat
    BY <1>1, <2>1 DEF CoverInv, Poll
  <2> QED
    BY <2>1, <2>2, GotoCovers DEF Stages
<1>5. ASSUME WriteRefused(p) PROVE CoverInv'
  BY <1>5, RetryCovers DEF WriteRefused, tables, history, Settled
<1>6. ASSUME RecordTransaction(p) PROVE CoverInv'
  BY <1>6, NextEventCovers DEF RecordTransaction, history, Settled
<1>7. ASSUME DeadLetterEvent(p) PROVE CoverInv'
  BY <1>7, NextEventCovers DEF DeadLetterEvent, history, Settled
<1>8. ASSUME SaveCheckpoint(p) PROVE CoverInv'
  <2>1. UpTo(q.last, Settled) /\ q.last \in Nat
    BY <1>1, <1>8 DEF SaveCheckpoint, Covers, Poll
  <2>2. /\ Settled' = Settled /\ chain' = chain /\ cursor' = q.last
        /\ polls' = [polls EXCEPT ![p] = IdlePoll]
    BY <1>8 DEF SaveCheckpoint, Done, tables, history, Settled
  <2> QED
    BY <2>1, <2>2, IdleCovers, OnePoll
<1>9. ASSUME BackoffEnds(p) PROVE CoverInv'
  <2>1. /\ Settled' = Settled /\ UNCHANGED <<chain, cursor>>
        /\ polls' = [polls EXCEPT ![p] = IdlePoll]
    BY <1>9 DEF BackoffEnds, Done, tables, history, Settled
  <2> QED
    BY <1>1, <2>1, IdleCovers, OnePoll
<1> QED
  BY <1>2, <1>3, <1>4, <1>5, <1>6, <1>7, <1>8, <1>9 DEF PollStep

(* Rejected calls and the other writers.                                   *)
LEMMA CoverStep == CoverInv /\ [Next]_vars => CoverInv'
<1> SUFFICES ASSUME CoverInv, [Next]_vars PROVE CoverInv'
  OBVIOUS
<1>1. ASSUME NEW p \in Pollers, PollStep(p) PROVE CoverInv'
  BY <1>1, PollCovers
<1>2. ASSUME NEW e \in Event, Emit(e) PROVE CoverInv'
  <2>1. UNCHANGED <<cursor, polls, Settled>>
    BY <1>2 DEF Emit, tables, history, Settled
  <2>2. Len(chain') \in Nat
    BY <1>2 DEF Emit, CoverInv
  <2> QED
    BY <2>1, <2>2 DEF CoverInv
<1>3. ASSUME NEW p \in Pollers, DatabaseFails(p) PROVE CoverInv'
  BY <1>3, RetryCovers DEF DatabaseFails, Fault, tables, history, Settled
<1>4. ASSUME NEW p \in Pollers, DeadLetterFails(p) PROVE CoverInv'
  BY <1>4, NextEventCovers DEF DeadLetterFails, Fault, tables, Settled
<1>5. ASSUME NEW p \in Pollers, PollFails(p) PROVE CoverInv'
  <2>1. /\ UNCHANGED <<chain, cursor, Settled>>
        /\ polls' = [polls EXCEPT ![p].pc = "backoff"]
    BY <1>5 DEF PollFails, Fault, Goto, tables, history, Settled
  <2>2. /\ polls' = [polls EXCEPT ![p].pc = "backoff",
                                  ![p].attempt = polls[p].attempt]
        /\ polls[p].attempt \in Nat
    BY <2>1 DEF CoverInv, Poll
  <2> QED
    BY <2>1, <2>2, GotoCovers DEF Stages
<1>6. ASSUME Restart PROVE CoverInv'
  <2>1. /\ UNCHANGED <<chain, cursor, Settled>>
        /\ polls' = [p \in Pollers |-> IdlePoll]
    BY <1>6 DEF Restart, tables, history, Settled
  <2> QED
    BY <2>1, IdleCovers DEF CoverInv
<1>7. ASSUME OtherWriters PROVE CoverInv'
  <2>1. UNCHANGED <<chain, cursor, polls, Settled>>
    BY <1>7 DEF OtherWriters, DeactivateCampaign, SoftDelete,
                CreateRewardClaim, DeactivateExpiredCampaigns, others, Settled
  <2> QED
    BY <2>1 DEF CoverInv
<1>8. CASE UNCHANGED vars
  BY <1>8 DEF vars, tables, history, Settled, CoverInv
<1>9. ASSUME EnsureTables \/ StartupFails PROVE CoverInv'
  <2>1. UNCHANGED <<chain, cursor, polls, Settled>>
    BY <1>9, StartupWritesNothing DEF tables, history, Settled
  <2> QED
    BY <2>1 DEF CoverInv
<1> QED
  BY <1>1, <1>2, <1>3, <1>4, <1>5, <1>6, <1>7, <1>8, <1>9 DEF Next, Trouble

-----------------------------------------------------------------------------
(* Every event up to the saved cursor is in transactions, in the dead      *)
(* letters or was given up with its dead letter, whatever the polls that   *)
(* overlapped, failed or were cut off.                                     *)
THEOREM CursorCovers == Spec => []CursorCoversHandled
<1>1. CoverInv => CursorCoversHandled
  BY DEF CoverInv, UpTo, Settled, CursorCoversHandled, Handled
<1> QED
  BY CoverInitial, CoverStep, <1>1, PTL DEF Spec

-----------------------------------------------------------------------------
(* Type correctness.                                                       *)

(* A poll in flight works on events of the chain, the last of them last.   *)
PollOK(q, n) ==
    /\ q \in Poll
    /\ q.at <= n + 1 /\ q.last <= n /\ q.attempt <= MAX_EVENT_RETRIES
    /\ q.pc \in {"asked", "write", "record", "bury"} => 1 <= q.at
    /\ q.pc \in {"write", "record", "bury"} => q.at <= q.last

(* The rows of both tables are what their columns allow.                   *)
RowsOK ==
    /\ DOMAIN campaignRows \subseteq Campaigns
    /\ \A id \in DOMAIN campaignRows : campaignRows[id] \in CampaignRow
    /\ DOMAIN rewardRows \subseteq Users \X Campaigns
    /\ \A k \in DOMAIN rewardRows : rewardRows[k] \in 0 .. Len(chain)

(* What makes IndexerTypeOK inductive.                                     *)
TypeInv ==
    /\ chain \in Seq(Event)
    /\ cursor \in 0 .. Len(chain)
    /\ RowsOK
    /\ Settled \subseteq 1 .. Len(chain)
    /\ polls \in [Pollers -> Poll]
    /\ \A p \in Pollers : PollOK(polls[p], Len(chain))

(* An idle poll is fine over any chain.                                    *)
LEMMA IdleOK == ASSUME NEW n \in Nat PROVE PollOK(IdlePoll, n)
<1>1. IdlePoll.pc = "idle" /\ IdlePoll.at = 0 /\ IdlePoll.last = 0
      /\ IdlePoll.attempt = 0 /\ IdlePoll \in Poll
  BY IdleCovers DEF IdlePoll
<1> QED
  BY <1>1, IndexerConstants DEF PollOK

(* One poll moves on; the chain stays.                                     *)
LEMMA OnePollTyped ==
    ASSUME TypeInv, NEW p \in Pollers, NEW q, PollOK(q, Len(chain)),
           polls' = [polls EXCEPT ![p] = q], chain' = chain,
           cursor' \in 0 .. Len(chain), RowsOK', Settled' \subseteq 1 .. Len(chain)
    PROVE  TypeInv'
<1>1. polls' \in [Pollers -> Poll]
  BY DEF TypeInv, PollOK
<1>2. ASSUME NEW r \in Pollers PROVE PollOK(polls'[r], Len(chain))
  BY DEF TypeInv
<1> QED
  BY <1>1, <1>2 DEF TypeInv

(* A poll that keeps its events moves between stages.                      *)
LEMMA StageTyped ==
    ASSUME TypeInv, NEW p \in Pollers, NEW pc \in Stages \ {"asked"},
           NEW k \in Nat, k <= MAX_EVENT_RETRIES,
           pc \in {"write", "record", "bury"}
             => polls[p].pc \in {"write", "record", "bury"},
           polls' = [polls EXCEPT ![p].pc = pc, ![p].attempt = k],
           chain' = chain, cursor' = cursor, RowsOK',
           Settled' \subseteq 1 .. Len(chain)
    PROVE  TypeInv'
<1> DEFINE q == polls[p]
           n == [q EXCEPT !.pc = pc, !.attempt = k]
<1>1. q \in Poll /\ PollOK(q, Len(chain))
  BY DEF TypeInv
<1>2. n \in Poll /\ n.pc = pc /\ n.at = q.at /\ n.last = q.last
      /\ n.attempt = k
  BY <1>1 DEF Poll
<1>3. polls' = [polls EXCEPT ![p] = n]
  BY <1>1 DEF TypeInv, Poll
<1> HIDE DEF n
<1>4. PollOK(n, Len(chain))
  BY <1>1, <1>2 DEF PollOK
<1>5. cursor' \in 0 .. Len(chain)
  BY DEF TypeInv
<1> QED
  BY <1>3, <1>4, <1>5, OnePollTyped

(* An event that is tried again, or given up.                              *)
LEMMA RetryTyped ==
    ASSUME TypeInv, NEW p \in Pollers, polls[p].pc \in {"write", "record"},
           Retry(p), UNCHANGED <<chain, cursor, tables, history>>
    PROVE  TypeInv'
<1> DEFINE q == polls[p]
<1>1. q \in Poll /\ q.attempt \in Nat /\ q.attempt <= MAX_EVENT_RETRIES
  BY DEF TypeInv, Poll, PollOK
<1>2. RowsOK' /\ Settled' \subseteq 1 .. Len(chain)
  BY DEF TypeInv, RowsOK, Settled, tables, history
<1>3. CASE q.attempt < MAX_EVENT_RETRIES
  <2>1. polls' = [polls EXCEPT ![p].pc = "write",
                               ![p].attempt = q.attempt + 1]
    BY <1>3 DEF Retry
  <2>2. q.attempt + 1 \in Nat /\ "write" \in Stages \ {"asked"}
        /\ q.attempt + 1 <= MAX_EVENT_RETRIES
    BY <1>1, <1>3, IndexerConstants DEF Stages
  <2> QED
    BY <1>2, <2>1, <2>2, StageTyped
<1>4. CASE ~(q.attempt < MAX_EVENT_RETRIES)
  <2>1. polls' = [polls EXCEPT ![p].pc = "bury", ![p].attempt = q.attempt]
    BY <1>1, <1>4 DEF Retry, TypeInv, Poll
  <2> QED
    BY <1>1, <1>2, <2>1, StageTyped DEF Stages
<1> QED
  BY <1>3, <1>4

(* The next event of the poll, or its checkpoint.                          *)
LEMMA NextEventTyped ==
    ASSUME TypeInv, NEW p \in Pollers, polls[p].pc \in {"record", "bury"},
           NextEvent(p), UNCHANGED <<chain, cursor, campaignRows, rewardRows>>,
           Settled' = Settled \cup {polls[p].at}
    PROVE  TypeInv'
<1> DEFINE q == polls[p]
           w == [q EXCEPT !.pc = "write", !.at = q.at + 1, !.attempt = 1]
           d == [q EXCEPT !.pc = "commit"]
<1>1. /\ q \in Poll /\ PollOK(q, Len(chain)) /\ Len(chain) \in Nat
      /\ q.at \in Nat /\ q.last \in Nat /\ q.attempt \in Nat
      /\ q.at + 1 \in Nat
  BY DEF TypeInv, Poll
<1>2. RowsOK' /\ Settled' \subseteq 1 .. Len(chain)
      /\ cursor' \in 0 .. Len(chain)
  <2>1. q.at \in 1 .. Len(chain)
    BY <1>1 DEF PollOK
  <2> QED
    BY <2>1 DEF TypeInv, RowsOK
<1>3. CASE q.at < q.last
  <2>1. polls' = [polls EXCEPT ![p] = w]
    BY <1>1, <1>3 DEF NextEvent, TypeInv, Poll
  <2>2. w \in Poll /\ w.pc = "write" /\ w.at = q.at + 1 /\ w.last = q.last
        /\ w.attempt = 1
    BY <1>1 DEF Poll, Stages
  <2> HIDE DEF w
  <2>3. PollOK(w, Len(chain))
    BY <1>1, <1>3, <2>2, IndexerConstants DEF PollOK
  <2> QED
    BY <1>2, <2>1, <2>3, OnePollTyped
<1>4. CASE ~(q.at < q.last)
  <2>1. polls' = [polls EXCEPT ![p] = d]
    BY <1>1, <1>4 DEF NextEvent, TypeInv, Poll
  <2>2. d \in Poll /\ d.pc = "commit" /\ d.at = q.at /\ d.last = q.last
        /\ d.attempt = q.attempt
    BY <1>1 DEF Poll, Stages
  <2> HIDE DEF d
  <2>3. PollOK(d, Len(chain))
    BY <1>1, <2>2 DEF PollOK
  <2> QED
    BY <1>2, <2>1, <2>3, OnePollTyped
<1> QED
  BY <1>3, <1>4

(* An element of the chain is an event with its fields.                    *)
LEMMA EventFields ==
    ASSUME chain \in Seq(Event), NEW i \in 1 .. Len(chain)
    PROVE  /\ chain[i] \in Event
           /\ chain[i].kind \in {"CAM_CRT", "CAM_DEACT", "RWD_CLM"}
                => chain[i].campaign \in Campaigns
           /\ chain[i].kind = "RWD_CLM" => chain[i].user \in Users
<1>1. chain[i] \in Event
  OBVIOUS
<1> QED
  BY <1>1 DEF Event

(* What the first write of an event may do to the tables.                  *)
LEMMA WriteTyped ==
    ASSUME TypeInv, NEW p \in Pollers, WriteEvent(p)
    PROVE  RowsOK' /\ UNCHANGED <<chain, cursor, recorded, deadLetters, history>>
<1> DEFINE i == polls[p].at
           e == chain[i]
<1>1. PollOK(polls[p], Len(chain)) /\ polls[p].pc = "write"
      /\ polls[p] \in Poll /\ Len(chain) \in Nat
  BY DEF WriteEvent, TypeInv
<1>2. i \in 1 .. Len(chain) /\ i \in 0 .. Len(chain)
  BY <1>1 DEF PollOK, Poll
<1>3. /\ e.kind \in {"CAM_CRT", "CAM_DEACT", "RWD_CLM"}
            => e.campaign \in Campaigns
      /\ e.kind = "RWD_CLM" => e.user \in Users
  BY <1>2, EventFields DEF TypeInv
<1> HIDE DEF i, e
<1>4. ASSUME NEW id \in Campaigns, NEW flag \in BOOLEAN,
             campaignRows' = Upserted(id, flag)
      PROVE  /\ DOMAIN campaignRows' \subseteq Campaigns
             /\ \A k \in DOMAIN campaignRows' : campaignRows'[k] \in CampaignRow
  <2> DEFINE row == IF id \in DOMAIN campaignRows
                    THEN [campaignRows[id] EXCEPT !.active = flag]
                    ELSE [active |-> flag, expiration |-> 0, deleted |-> FALSE]
  <2>1. row \in CampaignRow
    <3>1. CASE id \in DOMAIN campaignRows
      <4>1. campaignRows[id] \in CampaignRow
        BY <3>1 DEF TypeInv, RowsOK
      <4> QED
        BY <3>1, <4>1 DEF CampaignRow
    <3>2. CASE id \notin DOMAIN campaignRows
      BY <3>2 DEF CampaignRow
    <3> QED
      BY <3>1, <3>2
  <2>2. campaignRows' = Put(campaignRows, id, row)
    BY <1>4 DEF Upserted
  <2> HIDE DEF row
  <2> QED
    BY <2>1, <2>2 DEF Put, TypeInv, RowsOK
<1>5. /\ DOMAIN campaignRows' \subseteq Campaigns
      /\ \A k \in DOMAIN campaignRows' : campaignRows'[k] \in CampaignRow
  <2>1. CASE e.kind = "CAM_CRT"
    BY <1>3, <1>4, <2>1 DEF WriteEvent, e, i
  <2>2. CASE e.kind = "CAM_DEACT"
    BY <1>3, <1>4, <2>2 DEF WriteEvent, e, i
  <2>3. CASE e.kind \notin {"CAM_CRT", "CAM_DEACT"}
    <3>1. campaignRows' = campaignRows
      BY <2>3 DEF WriteEvent, e, i
    <3> QED
      BY <3>1 DEF TypeInv, RowsOK
  <2> QED
    BY <2>1, <2>2, <2>3
<1>6. /\ DOMAIN rewardRows' \subseteq Users \X Campaigns
      /\ \A k \in DOMAIN rewardRows' : rewardRows'[k] \in 0 .. Len(chain)
  <2>1. CASE e.kind = "RWD_CLM" /\ ~HasReward(i)
    <3>1. rewardRows' = Put(rewardRows, <<e.user, e.campaign>>, i)
      BY <2>1 DEF WriteEvent, e, i
    <3>2. <<e.user, e.campaign>> \in Users \X Campaigns
      BY <1>3, <2>1
    <3> QED
      BY <1>2, <3>1, <3>2 DEF Put, TypeInv, RowsOK
  <2>2. CASE ~(e.kind = "RWD_CLM" /\ ~HasReward(i))
    <3>1. rewardRows' = rewardRows
      BY <2>2 DEF WriteEvent, e, i
    <3> QED
      BY <3>1 DEF TypeInv, RowsOK
  <2> QED
    BY <2>1, <2>2
<1>7. UNCHANGED <<chain, cursor, recorded, deadLetters, history>>
  BY DEF WriteEvent
<1> QED
  BY <1>5, <1>6, <1>7 DEF RowsOK

(* Every step of a poll.                                                   *)
LEMMA PollTyped ==
    ASSUME TypeInv, NEW p \in Pollers, PollStep(p)
    PROVE  TypeInv'
<1> DEFINE q == polls[p]
<1>1. /\ q \in Poll /\ PollOK(q, Len(chain)) /\ Len(chain) \in Nat
      /\ cursor \in 0 .. Len(chain)
      /\ q.at \in Nat /\ q.last \in Nat /\ q.attempt \in Nat
      /\ q.attempt <= MAX_EVENT_RETRIES
  BY DEF TypeInv, Poll, PollOK
<1>2. UNCHANGED <<tables, history>> /\ chain' = chain
        => RowsOK' /\ Settled' \subseteq 1 .. Len(chain)
  BY DEF TypeInv, RowsOK, Settled, tables, history
<1>3. ASSUME StartPoll(p) PROVE TypeInv'
  <2> DEFINE n == [IdlePoll EXCEPT !.pc = "asked", !.at = cursor + 1]
  <2>1. polls' = [polls EXCEPT ![p] = n] /\ UNCHANGED <<chain, cursor>>
    BY <1>3 DEF StartPoll
  <2>2. cursor + 1 \in Nat /\ IdlePoll \in Poll /\ "asked" \in Stages
        /\ PollOK(IdlePoll, Len(chain))
    BY <1>1, IdleCovers, IdleOK DEF Stages
  <2>3. n \in Poll /\ n.pc = "asked" /\ n.at = cursor + 1
        /\ n.last = IdlePoll.last /\ n.attempt = IdlePoll.attempt
    BY <2>2 DEF Poll
  <2> HIDE DEF n
  <2>4. PollOK(n, Len(chain))
    BY <1>1, <2>2, <2>3 DEF PollOK
  <2> QED
    BY <1>1, <1>2, <1>3, <2>1, <2>4, OnePollTyped DEF StartPoll
<1>4. ASSUME Receive(p) PROVE TypeInv'
  <2>1. UNCHANGED <<chain, cursor, tables, history>>
    BY <1>4 DEF Receive
  <2>2. CASE Done(p)
    <3>1. polls' = [polls EXCEPT ![p] = IdlePoll]
      BY <2>2 DEF Done
    <3> QED
      BY <1>1, <1>2, <2>1, <3>1, IdleOK, OnePollTyped
  <2>3. CASE ~Done(p)
    <3> DEFINE m == IF Len(chain) < q.at + LIMIT THEN Len(chain)
                    ELSE q.at + LIMIT - 1
               n == [q EXCEPT !.pc = "write", !.last = m, !.attempt = 1]
    <3>1. LIMIT \in Nat \ {0} /\ 1 <= MAX_EVENT_RETRIES
      BY IndexerConstants
    <3>2. /\ q.pc = "asked" /\ m >= q.at
          /\ polls' = [polls EXCEPT ![p].pc = "write", ![p].last = m,
                                    ![p].attempt = 1]
      BY <1>4, <1>1, <2>3, <3>1 DEF Receive
    <3>3. m \in Nat /\ m <= Len(chain)
      BY <1>1, <3>1
    <3> HIDE DEF m
    <3>4. n \in Poll /\ n.pc = "write" /\ n.at = q.at /\ n.last = m
          /\ n.attempt = 1
      BY <1>1, <3>3 DEF Poll, Stages
    <3>5. polls' = [polls EXCEPT ![p] = n]
      BY <3>2 DEF TypeInv, Poll
    <3> HIDE DEF n
    <3>6. 1 <= q.at
      BY <1>1, <3>2 DEF PollOK
    <3>7. PollOK(n, Len(chain))
      BY <1>1, <3>1, <3>2, <3>3, <3>4, <3>6 DEF PollOK
    <3> QED
      BY <1>1, <1>2, <2>1, <3>5, <3>7, OnePollTyped
  <2> QED
    BY <2>2, <2>3
<1>5. ASSUME WriteEvent(p) PROVE TypeInv'
  <2>1. polls' = [polls EXCEPT ![p].pc = "record", ![p].attempt = q.attempt]
        /\ q.pc = "write"
    BY <1>1, <1>5 DEF WriteEvent, Goto, TypeInv, Poll
  <2>2. Settled' \subseteq 1 .. Len(chain)
    BY <1>5, WriteTyped DEF Settled, TypeInv, history
  <2>3. "record" \in Stages \ {"asked"}
    BY DEF Stages
  <2> QED
    BY <1>1, <1>5, <2>1, <2>2, <2>3, WriteTyped, StageTyped
<1>6. ASSUME WriteRefused(p) PROVE TypeInv'
  BY <1>6, RetryTyped DEF WriteRefused
<1>7. ASSUME RecordTransaction(p) PROVE TypeInv'
  BY <1>7, NextEventTyped DEF RecordTransaction, history, Settled
<1>8. ASSUME DeadLetterEvent(p) PROVE TypeInv'
  BY <1>8, NextEventTyped DEF DeadLetterEvent, history, Settled
<1>9. ASSUME SaveCheckpoint(p) PROVE TypeInv'
  <2>1. /\ cursor' = q.last /\ UNCHANGED <<chain, tables, history>>
        /\ polls' = [polls EXCEPT ![p] = IdlePoll]
    BY <1>9 DEF SaveCheckpoint, Done
  <2>2. q.last \in 0 .. Len(chain)
    BY <1>1 DEF PollOK
  <2> QED
    BY <1>1, <1>2, <2>1, <2>2, IdleOK, OnePollTyped
<1>10. ASSUME BackoffEnds(p) PROVE TypeInv'
  <2>1. /\ UNCHANGED <<chain, cursor, tables, history>>
        /\ polls' = [polls EXCEPT ![p] = IdlePoll]
    BY <1>10 DEF BackoffEnds, Done
  <2> QED
    BY <1>1, <1>2, <2>1, IdleOK, OnePollTyped
<1> QED
  BY <1>3, <1>4, <1>5, <1>6, <1>7, <1>8, <1>9, <1>10 DEF PollStep

(* Every step, of polls, other writers, faults and restarts.               *)
LEMMA TypeStep == TypeInv /\ [Next]_vars => TypeInv'
<1> SUFFICES ASSUME TypeInv, [Next]_vars PROVE TypeInv'
  OBVIOUS
<1>1. UNCHANGED <<tables, history>> /\ chain' = chain
        => RowsOK' /\ Settled' \subseteq 1 .. Len(chain)
  BY DEF TypeInv, RowsOK, Settled, tables, history
<1>2. ASSUME NEW p \in Pollers, PollStep(p) PROVE TypeInv'
  BY <1>2, PollTyped
<1>3. ASSUME NEW e \in Event, Emit(e) PROVE TypeInv'
  <2>1. /\ chain' = Append(chain, e)
        /\ UNCHANGED <<cursor, tables, polls, history>>
    BY <1>3 DEF Emit
  <2>2. chain' \in Seq(Event) /\ Len(chain') = Len(chain) + 1
        /\ Len(chain) \in Nat
    BY <2>1 DEF TypeInv
  <2>3. ASSUME NEW p \in Pollers PROVE PollOK(polls'[p], Len(chain'))
    <3>1. polls'[p] = polls[p] /\ PollOK(polls[p], Len(chain))
          /\ polls[p] \in Poll
      BY <2>1 DEF TypeInv
    <3> QED
      BY <2>2, <3>1 DEF PollOK, Poll
  <2>4. RowsOK' /\ Settled' \subseteq 1 .. Len(chain')
        /\ cursor' \in 0 .. Len(chain') /\ polls' \in [Pollers -> Poll]
    BY <2>1, <2>2 DEF TypeInv, RowsOK, Settled, tables, history
  <2> QED
    BY <2>1, <2>2, <2>3, <2>4 DEF TypeInv
<1>4. ASSUME NEW p \in Pollers, DatabaseFails(p) PROVE TypeInv'
  BY <1>4, RetryTyped DEF DatabaseFails, Fault
<1>5. ASSUME NEW p \in Pollers, DeadLetterFails(p) PROVE TypeInv'
  BY <1>5, NextEventTyped DEF DeadLetterFails, Fault, tables, Settled
<1>6. ASSUME NEW p \in Pollers, PollFails(p) PROVE TypeInv'
  <2>1. /\ UNCHANGED <<chain, cursor, tables, history>>
        /\ polls' = [polls EXCEPT ![p].pc = "backoff"]
    BY <1>6 DEF PollFails, Fault, Goto
  <2>2. /\ polls' = [polls EXCEPT ![p].pc = "backoff",
                                  ![p].attempt = polls[p].attempt]
        /\ polls[p].attempt \in Nat /\ polls[p].attempt <= MAX_EVENT_RETRIES
    BY <2>1 DEF TypeInv, Poll, PollOK
  <2>3. "backoff" \in Stages \ {"asked"}
    BY DEF Stages
  <2>4. RowsOK' /\ Settled' \subseteq 1 .. Len(chain)
        /\ cursor' = cursor /\ chain' = chain
    BY <1>1, <2>1
  <2> QED
    BY <2>2, <2>3, <2>4, StageTyped
<1>7. ASSUME Restart PROVE TypeInv'
  <2>1. /\ UNCHANGED <<chain, cursor, tables, history>>
        /\ polls' = [p \in Pollers |-> IdlePoll]
    BY <1>7 DEF Restart
  <2>2. Len(chain) \in Nat /\ chain' = chain /\ cursor' = cursor
    BY <2>1 DEF TypeInv
  <2>3. IdlePoll \in Poll /\ PollOK(IdlePoll, Len(chain))
    BY <2>2, IdleOK, IdleCovers
  <2>4. polls' \in [Pollers -> Poll]
    BY <2>1, <2>3
  <2>5. ASSUME NEW p \in Pollers PROVE PollOK(polls'[p], Len(chain'))
    <3>1. polls'[p] = IdlePoll
      BY <2>1
    <3> QED
      BY <2>2, <2>3, <3>1
  <2>6. RowsOK' /\ Settled' \subseteq 1 .. Len(chain')
    BY <1>1, <2>1, <2>2
  <2>7. chain' \in Seq(Event) /\ cursor' \in 0 .. Len(chain')
    BY <2>2 DEF TypeInv
  <2> QED
    BY <2>4, <2>5, <2>6, <2>7 DEF TypeInv
<1>8. ASSUME OtherWriters PROVE TypeInv'
  <2>1. UNCHANGED <<chain, cursor, recorded, deadLetters, polls, dropped>>
    BY <1>8 DEF OtherWriters, DeactivateCampaign, SoftDelete,
                CreateRewardClaim, DeactivateExpiredCampaigns, others
  <2>2. RowsOK'
    <3>1. ASSUME NEW id \in Campaigns, DeactivateCampaign(id) PROVE RowsOK'
      <4>1. [campaignRows[id] EXCEPT !.active = FALSE] \in CampaignRow
        BY <3>1 DEF DeactivateCampaign, CampaignRow, TypeInv, RowsOK
      <4> QED
        BY <3>1, <4>1 DEF DeactivateCampaign, others, TypeInv, RowsOK
    <3>2. ASSUME NEW id \in Campaigns, NEW flag \in BOOLEAN,
                 SoftDelete(id, flag)
          PROVE  RowsOK'
      <4>1. [campaignRows[id] EXCEPT !.deleted = flag] \in CampaignRow
        BY <3>2 DEF SoftDelete, CampaignRow, TypeInv, RowsOK
      <4> QED
        BY <3>2, <4>1 DEF SoftDelete, others, TypeInv, RowsOK
    <3>3. ASSUME NEW u \in Users, NEW id \in Campaigns,
                 CreateRewardClaim(u, id)
          PROVE  RowsOK'
      <4>1. 0 \in 0 .. Len(chain)
        BY DEF TypeInv
      <4> QED
        BY <3>3, <4>1 DEF CreateRewardClaim, Put, others, TypeInv, RowsOK
    <3>4. ASSUME DeactivateExpiredCampaigns PROVE RowsOK'
      <4>1. \A id \in DOMAIN campaignRows :
              [campaignRows[id] EXCEPT !.active = FALSE] \in CampaignRow
        BY DEF CampaignRow, TypeInv, RowsOK
      <4> QED
        BY <3>4, <4>1 DEF DeactivateExpiredCampaigns, others, TypeInv, RowsOK
    <3> QED
      BY <1>8, <3>1, <3>2, <3>3, <3>4 DEF OtherWriters
  <2> QED
    BY <2>1, <2>2 DEF TypeInv, Settled
<1>9. CASE UNCHANGED vars
  BY <1>9 DEF vars, tables, history, TypeInv, RowsOK, Settled
<1>10. ASSUME EnsureTables \/ StartupFails PROVE TypeInv'
  BY <1>10, StartupWritesNothing
     DEF tables, history, TypeInv, RowsOK, Settled
<1> QED
  BY <1>2, <1>3, <1>4, <1>5, <1>6, <1>7, <1>8, <1>9, <1>10 DEF Next, Trouble

(* Everything is empty at first.                                           *)
LEMMA TypeInitial == Init => TypeInv
<1> SUFFICES ASSUME Init PROVE TypeInv
  OBVIOUS
<1>1. /\ chain = <<>> /\ cursor = 0 /\ DOMAIN campaignRows = {}
      /\ DOMAIN rewardRows = {} /\ Settled = {}
      /\ polls = [p \in Pollers |-> IdlePoll]
  BY DEF Init, Settled
<1>2. chain \in Seq(Event) /\ Len(chain) = 0
  BY <1>1
<1> QED
  BY <1>1, <1>2, IdleCovers, IdleOK DEF TypeInv, RowsOK

(* A process is always at one of the stages of its start.                  *)
StartupOK == startup \in Startups

(* Every step leaves the start where it is, or takes it to a stage.        *)
LEMMA StartupStep == StartupOK /\ [Next]_vars => StartupOK'
<1> SUFFICES ASSUME StartupOK, [Next]_vars PROVE StartupOK'
  OBVIOUS
<1>1. \/ startup' = startup
      \/ startup' \in {"setup", "first", "running", "failed"}
  BY DEF Next, vars, Emit, PollStep, StartPoll, Receive, WriteEvent,
         WriteRefused, RecordTransaction, DeadLetterEvent, SaveCheckpoint,
         BackoffEnds, Done, Trouble, DatabaseFails, DeadLetterFails,
         PollFails, Restart, EnsureTables, StartupFails, OtherWriters,
         DeactivateCampaign, SoftDelete, CreateRewardClaim,
         DeactivateExpiredCampaigns, others
<1> QED
  BY <1>1 DEF StartupOK, Startups

(* The tables, the cursor, the polls and the start are well typed in every *)
(* reachable state.                                                        *)
THEOREM IndexerTypeCorrect == Spec => []IndexerTypeOK
<1>1. TypeInv /\ StartupOK => IndexerTypeOK
  <2> SUFFICES ASSUME TypeInv, StartupOK PROVE IndexerTypeOK
    OBVIOUS
  <2>1. ASSUME NEW p \in Pollers
        PROVE  /\ polls[p].pc \in Stages
               /\ polls[p].at \in 0 .. Len(chain) + 1
               /\ polls[p].last \in 0 .. Len(chain)
               /\ polls[p].attempt \in 0 .. MAX_EVENT_RETRIES
    BY IndexerConstants DEF TypeInv, PollOK, Poll
  <2>2. DOMAIN chain = 1 .. Len(chain)
    BY DEF TypeInv
  <2> QED
    BY <2>1, <2>2 DEF TypeInv, StartupOK, RowsOK, Settled, IndexerTypeOK
<1>2. Init => StartupOK
  BY DEF Init, StartupOK, Startups
<1> QED
  BY <1>1, <1>2, TypeInitial, TypeStep, StartupStep, PTL DEF Spec

-----------------------------------------------------------------------------
(* Claims, rows and dead letters.                                          *)

IsClaim(i) == chain[i].kind = "RWD_CLM"
Pair(i) == <<chain[i].user, chain[i].campaign>>

(* A claim is on chain once, after the creation of its campaign.           *)
ClaimsOnce ==
    \A i, j \in 1 .. Len(chain) : IsClaim(i) /\ chain[i] = chain[j] => i = j

ClaimsFollow ==
    \A i \in 1 .. Len(chain) : IsClaim(i) =>
       \E j \in 1 .. i - 1 : /\ chain[j].kind = "CAM_CRT"
                             /\ chain[j].campaign = chain[i].campaign

(* A row with a transaction hash is that claim's, and rows have campaigns. *)
RowsGenuine ==
    \A k \in DOMAIN rewardRows :
      /\ k[2] \in DOMAIN campaignRows
      /\ rewardRows[k] # 0 =>
           /\ rewardRows[k] \in 1 .. Len(chain)
           /\ IsClaim(rewardRows[k]) /\ Pair(rewardRows[k]) = k

(* What the first write of event i leaves in the tables.                   *)
Written(i) ==
    /\ IsClaim(i) => Pair(i) \in DOMAIN rewardRows /\ rewardRows[Pair(i)] = i
    /\ chain[i].kind = "CAM_CRT" => chain[i].campaign \in DOMAIN campaignRows

(* The row that makes the database refuse event i.                         *)
Refused(i) ==
    IsClaim(i) /\ Pair(i) \in DOMAIN rewardRows /\ rewardRows[Pair(i)] = 0

(* What makes ClaimsAreConsistent inductive: the polls that have written   *)
(* an event, or are about to bury it, left or met its row.                 *)
WrittenInv ==
    /\ \A i \in recorded : Written(i)
    /\ \A p \in Pollers : polls[p].pc = "record" => Written(polls[p].at)

RefusedInv ==
    faults = 0 =>
      /\ dropped = {}
      /\ \A i \in deadLetters : Refused(i)
      /\ \A p \in Pollers : polls[p].pc = "bury" => Refused(polls[p].at)

IndexerInv ==
    /\ TypeInv /\ CoverInv /\ faults \in Nat
    /\ ClaimsOnce /\ ClaimsFollow
    /\ RowsGenuine /\ WrittenInv /\ RefusedInv

-----------------------------------------------------------------------------
(* The chain only grows, by events a contract may emit.                    *)
LEMMA ChainGrows ==
    ASSUME TypeInv, [Next]_vars
    PROVE  /\ Len(chain) \in Nat /\ Len(chain') \in Nat
           /\ Len(chain) <= Len(chain')
           /\ \A i \in 1 .. Len(chain) : chain'[i] = chain[i]
<1>1. chain \in Seq(Event) /\ Len(chain) \in Nat
  BY DEF TypeInv
<1>2. ASSUME NEW e \in Event, chain' = Append(chain, e)
      PROVE  /\ Len(chain') = Len(chain) + 1
             /\ \A i \in 1 .. Len(chain) : chain'[i] = chain[i]
  BY <1>1, <1>2
<1>3. chain' = chain \/ \E e \in Event : Emit(e)
  BY DEF Next, vars, PollStep, StartPoll, Receive, WriteEvent, WriteRefused,
         RecordTransaction, DeadLetterEvent, SaveCheckpoint, BackoffEnds,
         Trouble, DatabaseFails, DeadLetterFails, PollFails, Fault, Restart,
         EnsureTables, StartupFails,
         OtherWriters, DeactivateCampaign, SoftDelete, CreateRewardClaim,
         DeactivateExpiredCampaigns, others
<1>4. ASSUME chain' = chain
      PROVE  /\ Len(chain') = Len(chain)
             /\ \A i \in 1 .. Len(chain) : chain'[i] = chain[i]
  BY <1>4
<1>5. CASE chain' = chain
  BY <1>1, <1>4, <1>5
<1>6. CASE \E e \in Event : Emit(e)
  BY <1>1, <1>2, <1>6 DEF Emit
<1> QED
  BY <1>3, <1>5, <1>6

(* Rows are never removed, and the key of a reward row is never rewritten. *)
RowsStay ==
    /\ DOMAIN campaignRows \subseteq DOMAIN campaignRows'
    /\ DOMAIN rewardRows \subseteq DOMAIN rewardRows'
    /\ \A k \in DOMAIN rewardRows : rewardRows'[k] = rewardRows[k]

(* Who inserts a row, and which.                                           *)
RowAdded(k) ==
    \/ /\ rewardRows'[k] = 0
       /\ \E id \in DOMAIN campaignRows : k[2] = id
    \/ \E p \in Pollers :
         /\ WriteEvent(p)
         /\ IsClaim(polls[p].at) /\ Pair(polls[p].at) = k
         /\ rewardRows'[k] = polls[p].at
         /\ k[2] \in DOMAIN campaignRows

(* Two calls insert a row, for a key that has none.                        *)
LEMMA RowsGrow ==
    ASSUME [Next]_vars
    PROVE  /\ RowsStay
           /\ \A k \in DOMAIN rewardRows' \ DOMAIN rewardRows : RowAdded(k)
<1>1. ASSUME UNCHANGED <<campaignRows, rewardRows>>
      PROVE  RowsStay /\ DOMAIN rewardRows' = DOMAIN rewardRows
  BY <1>1 DEF RowsStay
<1>2. ASSUME NEW p \in Pollers, WriteEvent(p)
      PROVE  /\ RowsStay
             /\ \A k \in DOMAIN rewardRows' \ DOMAIN rewardRows : RowAdded(k)
  <2> DEFINE i == polls[p].at
  <2>1. DOMAIN campaignRows \subseteq DOMAIN campaignRows'
    BY <1>2 DEF WriteEvent, Upserted, Put
  <2>2. CASE IsClaim(i) /\ ~HasReward(i)
    <3>1. rewardRows' = Put(rewardRows, Pair(i), i)
      BY <1>2, <2>2 DEF WriteEvent, IsClaim, Pair
    <3>2. Pair(i) \notin DOMAIN rewardRows
          /\ chain[i].campaign \in DOMAIN campaignRows
      BY <1>2, <2>2 DEF WriteEvent, InsertRefused, IsClaim, Pair
    <3>3. Pair(i)[2] = chain[i].campaign
      BY DEF Pair
    <3> QED
      BY <1>2, <2>1, <2>2, <3>1, <3>2, <3>3 DEF Put, RowsStay, RowAdded
  <2>3. CASE ~(IsClaim(i) /\ ~HasReward(i))
    <3>1. rewardRows' = rewardRows
      BY <1>2, <2>3 DEF WriteEvent, IsClaim
    <3> QED
      BY <2>1, <3>1 DEF RowsStay
  <2> QED
    BY <2>2, <2>3
<1>3. ASSUME NEW u \in Users, NEW id \in Campaigns, CreateRewardClaim(u, id)
      PROVE  /\ RowsStay
             /\ \A k \in DOMAIN rewardRows' \ DOMAIN rewardRows : RowAdded(k)
  <2>1. /\ rewardRows' = Put(rewardRows, <<u, id>>, 0)
        /\ <<u, id>> \notin DOMAIN rewardRows /\ id \in DOMAIN campaignRows
        /\ campaignRows' = campaignRows
    BY <1>3 DEF CreateRewardClaim
  <2>2. <<u, id>>[2] = id
    OBVIOUS
  <2> QED
    BY <2>1, <2>2 DEF Put, RowsStay, RowAdded
<1>4. ASSUME OtherWriters, \A u \in Users, id \in Campaigns :
                              ~CreateRewardClaim(u, id)
      PROVE  RowsStay /\ rewardRows' = rewardRows
  BY <1>4 DEF OtherWriters, DeactivateCampaign, SoftDelete,
              DeactivateExpiredCampaigns, RowsStay
<1>5. \/ UNCHANGED <<campaignRows, rewardRows>>
      \/ \E p \in Pollers : WriteEvent(p)
      \/ OtherWriters
  BY DEF Next, vars, Emit, PollStep, StartPoll, Receive, WriteRefused,
         RecordTransaction, DeadLetterEvent, SaveCheckpoint, BackoffEnds,
         Trouble, DatabaseFails, DeadLetterFails, PollFails, Restart,
         EnsureTables, StartupFails, tables
<1> QED
  BY <1>1, <1>2, <1>3, <1>4, <1>5

(* What was written or refused stays so.                                   *)
LEMMA WrittenStays ==
    ASSUME TypeInv, [Next]_vars, NEW i \in 1 .. Len(chain)
    PROVE  (Written(i) => Written(i)') /\ (Refused(i) => Refused(i)')
<1>1. chain'[i] = chain[i]
  BY ChainGrows
<1> QED
  BY <1>1, RowsGrow DEF Written, Refused, IsClaim, Pair, RowsStay

-----------------------------------------------------------------------------
(* A poll comes to an event's second statement by its first, and to its    *)
(* burial, while nothing failed, by a refusal.                             *)
Stage(q) ==
    /\ polls'[q].pc = "record" =>
         /\ polls'[q].at = polls[q].at
         /\ polls[q].pc = "record" \/ WriteEvent(q)
    /\ polls'[q].pc = "bury" /\ faults' = 0 =>
         /\ polls'[q].at = polls[q].at
         /\ polls[q].pc = "bury" \/ WriteRefused(q)

(* Every step of the indexer leaves each poll at a stage reached that way. *)
LEMMA StageReached ==
    ASSUME TypeInv, faults \in Nat, [Next]_vars, NEW q \in Pollers
    PROVE  Stage(q)
<1>1. polls \in [Pollers -> Poll]
  BY DEF TypeInv
<1>2. ASSUME UNCHANGED polls PROVE Stage(q)
  BY <1>2 DEF Stage
<1>3. IdlePoll.pc = "idle"
  BY DEF IdlePoll
<1>4. ASSUME NEW p \in Pollers, q # p, NEW n,
             polls' = [polls EXCEPT ![p] = n]
      PROVE  Stage(q)
  BY <1>1, <1>4 DEF Stage
<1>5. ASSUME NEW n, polls' = [polls EXCEPT ![q] = n],
             n.pc \notin {"record", "bury"}
      PROVE  Stage(q)
  BY <1>1, <1>5 DEF Stage
<1>6. ASSUME NEW p \in Pollers, PollStep(p) PROVE Stage(q)
  <2>1. ASSUME StartPoll(p) PROVE Stage(q)
    <3> DEFINE n == [IdlePoll EXCEPT !.pc = "asked", !.at = cursor + 1]
    <3>1. polls' = [polls EXCEPT ![p] = n]
      BY <2>1 DEF StartPoll
    <3>2. n.pc = "asked"
      BY IdleCovers DEF Poll
    <3> HIDE DEF n
    <3> QED
      BY <1>4, <1>5, <3>1, <3>2
  <2>2. ASSUME Done(p) PROVE Stage(q)
    BY <1>3, <1>4, <1>5, <2>2 DEF Done
  <2>3. ASSUME Receive(p), ~Done(p) PROVE Stage(q)
    <3>1. PICK m : polls' = [polls EXCEPT ![p].pc = "write", ![p].last = m,
                                          ![p].attempt = 1]
      BY <2>3 DEF Receive
    <3> QED
      BY <1>1, <3>1 DEF Stage, Poll
  <2>4. ASSUME WriteEvent(p) PROVE Stage(q)
    <3>1. polls' = [polls EXCEPT ![p].pc = "record"]
      BY <2>4 DEF WriteEvent, Goto
    <3> QED
      BY <1>1, <2>4, <3>1 DEF Stage, Poll
  <2>5. ASSUME WriteRefused(p) PROVE Stage(q)
    <3>1. CASE polls[p].attempt < MAX_EVENT_RETRIES
      <4>1. polls' = [polls EXCEPT ![p].pc = "write",
                                   ![p].attempt = polls[p].attempt + 1]
        BY <2>5, <3>1 DEF WriteRefused, Retry
      <4> QED
        BY <1>1, <4>1 DEF Stage, Poll
    <3>2. CASE ~(polls[p].attempt < MAX_EVENT_RETRIES)
      <4>1. polls' = [polls EXCEPT ![p].pc = "bury"]
        BY <2>5, <3>2 DEF WriteRefused, Retry
      <4> QED
        BY <1>1, <2>5, <4>1 DEF Stage, Poll
    <3> QED
      BY <3>1, <3>2
  <2>6. ASSUME NextEvent(p) PROVE Stage(q)
    <3>1. CASE polls[p].at < polls[p].last
      <4>1. polls' = [polls EXCEPT ![p].pc = "write",
                                   ![p].at = polls[p].at + 1,
                                   ![p].attempt = 1]
        BY <2>6, <3>1 DEF NextEvent
      <4> QED
        BY <1>1, <4>1 DEF Stage, Poll
    <3>2. CASE ~(polls[p].at < polls[p].last)
      <4>1. polls' = [polls EXCEPT ![p].pc = "commit"]
        BY <2>6, <3>2 DEF NextEvent
      <4> QED
        BY <1>1, <4>1 DEF Stage, Poll
    <3> QED
      BY <3>1, <3>2
  <2> QED
    BY <1>6, <2>1, <2>2, <2>3, <2>4, <2>5, <2>6
       DEF PollStep, RecordTransaction, DeadLetterEvent, SaveCheckpoint,
           BackoffEnds
<1>7. ASSUME NEW p \in Pollers,
             DatabaseFails(p) \/ DeadLetterFails(p) \/ PollFails(p)
      PROVE  Stage(q)
  <2>1. faults' # 0
    BY <1>7 DEF DatabaseFails, DeadLetterFails, PollFails, Fault
  <2>2. polls'[q].pc = "record" =>
          polls'[q].at = polls[q].at /\ polls[q].pc = "record"
    <3>1. CASE DatabaseFails(p)
      <4>1. CASE polls[p].attempt < MAX_EVENT_RETRIES
        <5>1. polls' = [polls EXCEPT ![p].pc = "write",
                                     ![p].attempt = polls[p].attempt + 1]
          BY <3>1, <4>1 DEF DatabaseFails, Retry
        <5> QED
          BY <1>1, <5>1 DEF Poll
      <4>2. CASE ~(polls[p].attempt < MAX_EVENT_RETRIES)
        <5>1. polls' = [polls EXCEPT ![p].pc = "bury"]
          BY <3>1, <4>2 DEF DatabaseFails, Retry
        <5> QED
          BY <1>1, <5>1 DEF Poll
      <4> QED
        BY <4>1, <4>2
    <3>2. CASE DeadLetterFails(p)
      <4>1. CASE polls[p].at < polls[p].last
        <5>1. polls' = [polls EXCEPT ![p].pc = "write",
                                     ![p].at = polls[p].at + 1,
                                     ![p].attempt = 1]
          BY <3>2, <4>1 DEF DeadLetterFails, NextEvent
        <5> QED
          BY <1>1, <5>1 DEF Poll
      <4>2. CASE ~(polls[p].at < polls[p].last)
        <5>1. polls' = [polls EXCEPT ![p].pc = "commit"]
          BY <3>2, <4>2 DEF DeadLetterFails, NextEvent
        <5> QED
          BY <1>1, <5>1 DEF Poll
      <4> QED
        BY <4>1, <4>2
    <3>3. CASE PollFails(p)
      <4>1. polls' = [polls EXCEPT ![p].pc = "backoff"]
        BY <3>3 DEF PollFails, Goto
      <4> QED
        BY <1>1, <4>1 DEF Poll
    <3> QED
      BY <1>7, <3>1, <3>2, <3>3
  <2> QED
    BY <2>1, <2>2 DEF Stage
<1>8. ASSUME Restart PROVE Stage(q)
  BY <1>3, <1>8 DEF Restart, Stage
<1>9. \/ UNCHANGED polls
      \/ \E p \in Pollers : PollStep(p)
      \/ \E p \in Pollers :
           DatabaseFails(p) \/ DeadLetterFails(p) \/ PollFails(p)
      \/ Restart
  BY DEF Next, vars, Emit, Trouble, OtherWriters, DeactivateCampaign,
         SoftDelete, CreateRewardClaim, DeactivateExpiredCampaigns, others,
         EnsureTables, StartupFails
<1> QED
  BY <1>2, <1>6, <1>7, <1>8, <1>9

(* What is settled in a step is what a poll was about to settle.           *)
LEMMA SettledBy ==
    ASSUME faults \in Nat, [Next]_vars
    PROVE  /\ faults' \in Nat /\ (faults' = 0 => faults = 0)
           /\ faults' = 0 => dropped' = dropped
           /\ \A i \in recorded' \ recorded :
                \E p \in Pollers : polls[p].pc = "record" /\ polls[p].at = i
           /\ \A i \in deadLetters' \ deadLetters :
                \E p \in Pollers : polls[p].pc = "bury" /\ polls[p].at = i
<1> DEFINE Same == UNCHANGED <<recorded, deadLetters, dropped, faults>>
<1>1. ASSUME NEW p \in Pollers, PollStep(p)
      PROVE  Same \/ RecordTransaction(p) \/ DeadLetterEvent(p)
  BY <1>1 DEF PollStep, StartPoll, Receive, WriteEvent, WriteRefused,
              SaveCheckpoint, BackoffEnds, tables, history
<1>2. ASSUME NEW p \in Pollers,
             DatabaseFails(p) \/ DeadLetterFails(p) \/ PollFails(p)
      PROVE  faults' = faults + 1 /\ UNCHANGED <<recorded, deadLetters>>
  BY <1>2 DEF DatabaseFails, DeadLetterFails, PollFails, Fault, tables
<1>3. ASSUME \/ Restart \/ OtherWriters \/ UNCHANGED vars
             \/ \E e \in Event : Emit(e)
      PROVE  Same
  BY <1>3 DEF Restart, OtherWriters, vars, Emit, DeactivateCampaign,
              SoftDelete, CreateRewardClaim, DeactivateExpiredCampaigns,
              others, tables, history
<1>4. ASSUME NEW p \in Pollers, RecordTransaction(p)
      PROVE  /\ polls[p].pc = "record" /\ recorded' = recorded \cup {polls[p].at}
             /\ UNCHANGED <<deadLetters, dropped, faults>>
  BY <1>4 DEF RecordTransaction, history
<1>5. ASSUME NEW p \in Pollers, DeadLetterEvent(p)
      PROVE  /\ polls[p].pc = "bury"
             /\ deadLetters' = deadLetters \cup {polls[p].at}
             /\ UNCHANGED <<recorded, dropped, faults>>
  BY <1>5 DEF DeadLetterEvent, history
<1>6. CASE Same
  BY <1>6
<1>7. CASE \E p \in Pollers : RecordTransaction(p)
  BY <1>4, <1>7
<1>8. CASE \E p \in Pollers : DeadLetterEvent(p)
  BY <1>5, <1>8
<1>9. CASE \E p \in Pollers :
             DatabaseFails(p) \/ DeadLetterFails(p) \/ PollFails(p)
  BY <1>2, <1>9
<1>10. CASE EnsureTables \/ StartupFails
  <2>1. UNCHANGED <<recorded, deadLetters, dropped>>
    BY <1>10, StartupWritesNothing DEF tables, history
  <2>2. faults' = faults \/ faults' = faults + 1
    BY <1>10 DEF EnsureTables, StartupFails, Fault
  <2> QED
    BY <2>1, <2>2
<1> QED
  BY <1>1, <1>3, <1>6, <1>7, <1>8, <1>9, <1>10 DEF Next, Trouble

-----------------------------------------------------------------------------
(* The parts of the invariant.                                             *)

(* A poll works on events of the chain.                                    *)
LEMMA AtOnChain ==
    ASSUME TypeInv, NEW p \in Pollers,
           polls[p].pc \in {"write", "record", "bury"}
    PROVE  polls[p].at \in 1 .. Len(chain)
<1>1. PollOK(polls[p], Len(chain)) /\ Len(chain) \in Nat
  BY DEF TypeInv
<1> QED
  BY <1>1 DEF PollOK, Poll

(* A contract emits no claim twice and none before its campaign.           *)
LEMMA ChainStep ==
    ASSUME TypeInv, [Next]_vars, ClaimsOnce, ClaimsFollow
    PROVE  ClaimsOnce' /\ ClaimsFollow'
<1>1. chain \in Seq(Event) /\ Len(chain) \in Nat
  BY DEF TypeInv
<1>2. CASE chain' = chain
  BY <1>2 DEF ClaimsOnce, ClaimsFollow, IsClaim
<1>3. ASSUME NEW e \in Event, Emit(e) PROVE ClaimsOnce' /\ ClaimsFollow'
  <2> DEFINE n == Len(chain)
  <2>1. /\ Len(chain') = n + 1 /\ chain'[n + 1] = e
        /\ \A i \in 1 .. n : chain'[i] = chain[i]
    BY <1>1, <1>3 DEF Emit
  <2>2. DOMAIN chain = 1 .. n
    BY <1>1
  <2>3. e.kind = "RWD_CLM" =>
          /\ \A i \in 1 .. n : chain[i] # e
          /\ \E j \in 1 .. n : /\ chain[j].kind = "CAM_CRT"
                               /\ chain[j].campaign = e.campaign
    BY <1>3, <2>2 DEF Emit, OnChain
  <2>4. ClaimsOnce'
    <3> SUFFICES ASSUME NEW i \in 1 .. n + 1, NEW j \in 1 .. n + 1,
                        chain'[i].kind = "RWD_CLM", chain'[i] = chain'[j]
                 PROVE  i = j
      BY <2>1 DEF ClaimsOnce, IsClaim
    <3>1. CASE i = n + 1 \/ j = n + 1
      BY <2>1, <2>3, <3>1
    <3>2. CASE i # n + 1 /\ j # n + 1
      <4>1. i \in 1 .. n /\ j \in 1 .. n
        BY <1>1, <3>2
      <4> QED
        BY <2>1, <4>1 DEF ClaimsOnce, IsClaim
    <3> QED
      BY <3>1, <3>2
  <2>5. ClaimsFollow'
    <3> SUFFICES ASSUME NEW i \in 1 .. n + 1, chain'[i].kind = "RWD_CLM"
                 PROVE  \E j \in 1 .. i - 1 :
                          /\ chain'[j].kind = "CAM_CRT"
                          /\ chain'[j].campaign = chain'[i].campaign
      BY <2>1 DEF ClaimsFollow, IsClaim
    <3>1. CASE i = n + 1
      <4>1. PICK j \in 1 .. n : /\ chain[j].kind = "CAM_CRT"
                                /\ chain[j].campaign = e.campaign
        BY <2>1, <2>3, <3>1
      <4>2. j \in 1 .. i - 1
        BY <1>1, <3>1
      <4> QED
        BY <2>1, <3>1, <4>1, <4>2
    <3>2. CASE i # n + 1
      <4>1. i \in 1 .. n /\ IsClaim(i)
        BY <1>1, <2>1, <3>2 DEF IsClaim
      <4>2. PICK j \in 1 .. i - 1 : /\ chain[j].kind = "CAM_CRT"
                                    /\ chain[j].campaign = chain[i].campaign
        BY <4>1 DEF ClaimsFollow
      <4>3. j \in 1 .. n
        BY <1>1, <4>1
      <4> QED
        BY <2>1, <4>1, <4>2, <4>3
    <3> QED
      BY <3>1, <3>2
  <2> QED
    BY <2>4, <2>5
<1>4. chain' = chain \/ \E e \in Event : Emit(e)
  BY DEF Next, vars, PollStep, StartPoll, Receive, WriteEvent, WriteRefused,
         RecordTransaction, DeadLetterEvent, SaveCheckpoint, BackoffEnds,
         Trouble, DatabaseFails, DeadLetterFails, PollFails, Fault, Restart,
         EnsureTables, StartupFails,
         OtherWriters, DeactivateCampaign, SoftDelete, CreateRewardClaim,
         DeactivateExpiredCampaigns, others
<1> QED
  BY <1>2, <1>3, <1>4

(* Both ways to insert a row look for the campaign.                        *)
LEMMA GenuineStepOfRows ==
    ASSUME TypeInv, [Next]_vars, RowsGenuine
    PROVE  RowsGenuine'
<1> SUFFICES ASSUME NEW k \in DOMAIN rewardRows'
             PROVE  /\ k[2] \in DOMAIN campaignRows'
                    /\ rewardRows'[k] # 0 =>
                         /\ rewardRows'[k] \in 1 .. Len(chain')
                         /\ chain'[rewardRows'[k]].kind = "RWD_CLM"
                         /\ <<chain'[rewardRows'[k]].user,
                              chain'[rewardRows'[k]].campaign>> = k
  BY DEF RowsGenuine, IsClaim, Pair
<1>1. /\ Len(chain) \in Nat /\ Len(chain') \in Nat /\ Len(chain) <= Len(chain')
      /\ \A i \in 1 .. Len(chain) : chain'[i] = chain[i]
  BY ChainGrows
<1>2. RowsStay /\ (k \notin DOMAIN rewardRows => RowAdded(k))
  BY RowsGrow
<1>3. CASE k \in DOMAIN rewardRows
  BY <1>1, <1>2, <1>3 DEF RowsStay, RowsGenuine, IsClaim, Pair
<1>4. CASE k \notin DOMAIN rewardRows
  <2>1. CASE rewardRows'[k] = 0 /\ \E id \in DOMAIN campaignRows : k[2] = id
    BY <1>2, <2>1 DEF RowsStay
  <2>2. ASSUME NEW p \in Pollers, WriteEvent(p), IsClaim(polls[p].at),
               Pair(polls[p].at) = k, rewardRows'[k] = polls[p].at,
               k[2] \in DOMAIN campaignRows
        PROVE  /\ k[2] \in DOMAIN campaignRows'
               /\ rewardRows'[k] \in 1 .. Len(chain')
               /\ chain'[rewardRows'[k]].kind = "RWD_CLM"
               /\ <<chain'[rewardRows'[k]].user,
                    chain'[rewardRows'[k]].campaign>> = k
    <3>1. polls[p].at \in 1 .. Len(chain)
      BY <2>2, AtOnChain DEF WriteEvent
    <3> QED
      BY <1>1, <1>2, <2>2, <3>1 DEF RowsStay, IsClaim, Pair
  <2> QED
    BY <1>2, <1>4, <2>1, <2>2 DEF RowAdded
<1> QED
  BY <1>3, <1>4

(* The first write of an event leaves its row, or found it there.          *)
LEMMA WriteLeavesRow ==
    ASSUME TypeInv, [Next]_vars, RowsGenuine, NEW p \in Pollers,
           WriteEvent(p), NEW i, i = polls[p].at
    PROVE  Written(i)'
<1>1. i \in 1 .. Len(chain) /\ i # 0
  BY AtOnChain DEF WriteEvent
<1>2. chain' = chain
  BY DEF WriteEvent
<1>3. ASSUME IsClaim(i)
      PROVE  Pair(i) \in DOMAIN rewardRows' /\ rewardRows'[Pair(i)] = i
  <2>1. CASE HasReward(i)
    <3>1. PICK k \in DOMAIN rewardRows : rewardRows[k] = i
      BY <2>1 DEF HasReward
    <3>2. Pair(i) = k
      BY <1>1, <3>1 DEF RowsGenuine
    <3> QED
      BY <3>1, <3>2, RowsGrow DEF RowsStay
  <2>2. CASE ~HasReward(i)
    <3>1. rewardRows' = Put(rewardRows, Pair(i), i)
      BY <1>3, <2>2 DEF WriteEvent, IsClaim, Pair
    <3> QED
      BY <3>1 DEF Put
  <2> QED
    BY <2>1, <2>2
<1>4. ASSUME chain[i].kind = "CAM_CRT"
      PROVE  chain[i].campaign \in DOMAIN campaignRows'
  BY <1>4 DEF WriteEvent, Upserted, Put
<1> QED
  BY <1>2, <1>3, <1>4 DEF Written, IsClaim, Pair

(* While nothing failed, the database refuses a claim for the row of a     *)
(* REST claim only: its campaign was recorded before it, and no other      *)
(* event has its pair.                                                     *)
LEMMA RefusedByRestClaim ==
    ASSUME IndexerInv, faults = 0, NEW p \in Pollers, WriteRefused(p),
           NEW i, i = polls[p].at
    PROVE  Refused(i)
<1>1. /\ i \in 1 .. Len(chain) /\ IsClaim(i) /\ ~HasReward(i)
      /\ polls[p].pc = "write"
      /\ \/ Pair(i) \in DOMAIN rewardRows
         \/ chain[i].campaign \notin DOMAIN campaignRows
  BY AtOnChain DEF WriteRefused, InsertRefused, IndexerInv, IsClaim, Pair
<1>2. chain[i].campaign \in DOMAIN campaignRows
  <2>1. PICK j \in 1 .. i - 1 : /\ chain[j].kind = "CAM_CRT"
                                /\ chain[j].campaign = chain[i].campaign
    BY <1>1 DEF IndexerInv, ClaimsFollow
  <2>2. j \in Settled
    <3>1. UpTo(polls[p].at - 1, Settled)
      BY <1>1 DEF IndexerInv, CoverInv, Covers
    <3> QED
      BY <3>1 DEF UpTo
  <2>3. j \in recorded
    BY <2>1, <2>2 DEF IndexerInv, RefusedInv, Refused, IsClaim, Settled
  <2> QED
    BY <2>1, <2>3 DEF IndexerInv, WrittenInv, Written
<1>3. ASSUME rewardRows[Pair(i)] # 0 PROVE FALSE
  <2>1. PICK j \in 1 .. Len(chain) :
          j = rewardRows[Pair(i)] /\ IsClaim(j) /\ Pair(j) = Pair(i)
    BY <1>1, <1>2, <1>3 DEF IndexerInv, RowsGenuine
  <2>2. chain[i] \in Event /\ chain[j] \in Event
    BY <1>1, <2>1, EventFields DEF IndexerInv, TypeInv
  <2>3. chain[i].user = chain[j].user /\ chain[i].campaign = chain[j].campaign
    BY <2>1 DEF Pair
  <2>4. chain[i] = chain[j]
    <3> DEFINE a == chain[i]
               b == chain[j]
    <3>1. /\ a \in [kind : {"RWD_CLM"}, campaign : Campaigns, user : Users]
          /\ b \in [kind : {"RWD_CLM"}, campaign : Campaigns, user : Users]
      BY <1>1, <2>1, <2>2 DEF Event, IsClaim
    <3>2. a.user = b.user /\ a.campaign = b.campaign
      BY <2>3
    <3> HIDE DEF a, b
    <3>3. a = b
      BY <3>1, <3>2
    <3> QED
      BY <3>3 DEF a, b
  <2>5. j = i
    BY <1>1, <2>1, <2>4 DEF IndexerInv, ClaimsOnce
  <2> QED
    BY <1>1, <1>2, <2>1, <2>5 DEF HasReward
<1> QED
  BY <1>1, <1>2, <1>3 DEF Refused

(* Events that were recorded, or are about to be, were written.            *)
LEMMA WrittenStep == IndexerInv /\ [Next]_vars => WrittenInv'
<1> SUFFICES ASSUME IndexerInv, [Next]_vars PROVE WrittenInv'
  OBVIOUS
<1> USE DEF IndexerInv
<1>1. ASSUME NEW i \in recorded' PROVE Written(i)'
  <2>1. i \in 1 .. Len(chain) /\ Written(i)
    <3>1. CASE i \in recorded
      BY <3>1 DEF WrittenInv, TypeInv, Settled
    <3>2. CASE i \notin recorded
      <4>1. PICK p \in Pollers : polls[p].pc = "record" /\ polls[p].at = i
        BY <3>2, SettledBy
      <4> QED
        BY <4>1, AtOnChain DEF WrittenInv
    <3> QED
      BY <3>1, <3>2
  <2> QED
    BY <2>1, WrittenStays
<1>2. ASSUME NEW p \in Pollers, polls'[p].pc = "record",
             NEW i, i = polls[p].at
      PROVE  Written(i)' /\ polls'[p].at = i
  <2>1. polls'[p].at = i /\ (polls[p].pc = "record" \/ WriteEvent(p))
    BY <1>2, StageReached DEF Stage
  <2>2. CASE polls[p].pc = "record"
    <3>1. i \in 1 .. Len(chain) /\ Written(i)
      BY <1>2, <2>2, AtOnChain DEF WrittenInv
    <3> QED
      BY <2>1, <3>1, WrittenStays
  <2>3. CASE WriteEvent(p)
    BY <1>2, <2>1, <2>3, WriteLeavesRow
  <2> QED
    BY <2>1, <2>2, <2>3
<1> QED
  BY <1>1, <1>2 DEF WrittenInv, Written, IsClaim, Pair

(* Events that were dead-lettered, or are about to be, were refused.       *)
LEMMA RefusedStep == IndexerInv /\ [Next]_vars => RefusedInv'
<1> SUFFICES ASSUME IndexerInv, [Next]_vars, faults' = 0
             PROVE  /\ dropped' = {}
                    /\ \A i \in deadLetters' : Refused(i)'
                    /\ \A p \in Pollers : polls'[p].pc = "bury" =>
                         \E i : i = polls'[p].at /\ Refused(i)'
  BY DEF RefusedInv, Refused, IsClaim, Pair
<1> USE DEF IndexerInv
<1>1. faults = 0 /\ dropped' = dropped /\ RefusedInv /\ dropped = {}
  BY SettledBy DEF RefusedInv
<1>2. ASSUME NEW i \in deadLetters' PROVE Refused(i)'
  <2>1. i \in 1 .. Len(chain) /\ Refused(i)
    <3>1. CASE i \in deadLetters
      BY <1>1, <3>1 DEF RefusedInv, TypeInv, Settled
    <3>2. CASE i \notin deadLetters
      <4>1. PICK p \in Pollers : polls[p].pc = "bury" /\ polls[p].at = i
        BY <3>2, SettledBy
      <4> QED
        BY <1>1, <4>1, AtOnChain DEF RefusedInv
    <3> QED
      BY <3>1, <3>2
  <2> QED
    BY <2>1, WrittenStays
<1>3. ASSUME NEW p \in Pollers, polls'[p].pc = "bury",
             NEW i, i = polls[p].at
      PROVE  Refused(i)' /\ polls'[p].at = i
  <2>1. polls'[p].at = i /\ (polls[p].pc = "bury" \/ WriteRefused(p))
    BY <1>3, StageReached DEF Stage
  <2>2. i \in 1 .. Len(chain)
    BY <1>3, <2>1, AtOnChain DEF WriteRefused
  <2>3. Refused(i)
    BY <1>1, <1>3, <2>1, RefusedByRestClaim DEF RefusedInv
  <2> QED
    BY <2>1, <2>2, <2>3, WrittenStays
<1> QED
  BY <1>1, <1>2, <1>3

-----------------------------------------------------------------------------
(* Every step keeps the whole invariant.                                   *)
LEMMA IndexerStep == IndexerInv /\ [Next]_vars => IndexerInv'
<1> SUFFICES ASSUME IndexerInv, [Next]_vars PROVE IndexerInv'
  OBVIOUS
<1>1. TypeInv' /\ CoverInv' /\ faults' \in Nat
  BY TypeStep, CoverStep, SettledBy DEF IndexerInv
<1>2. ClaimsOnce' /\ ClaimsFollow' /\ RowsGenuine'
  BY ChainStep, GenuineStepOfRows DEF IndexerInv
<1> QED
  BY <1>1, <1>2, WrittenStep, RefusedStep DEF IndexerInv

(* It holds when nothing has happened.                                     *)
LEMMA IndexerInitial == Init => IndexerInv
<1> SUFFICES ASSUME Init PROVE IndexerInv
  OBVIOUS
<1>1. /\ Len(chain) = 0 /\ DOMAIN rewardRows = {}
      /\ recorded = {} /\ deadLetters = {} /\ dropped = {} /\ faults = 0
      /\ \A p \in Pollers : polls[p].pc = "idle"
  BY DEF Init, IdlePoll
<1> QED
  BY <1>1, TypeInitial, CoverInitial
     DEF IndexerInv, ClaimsOnce, ClaimsFollow, RowsGenuine, WrittenInv,
         RefusedInv

(* However polls, REST claims, faults and restarts interleave, a recorded  *)
(* claim has its row, a row with a hash is that claim's, and without a     *)
(* fault only a REST claim sends an event to the dead letters.             *)
THEOREM ClaimsConsistent == Spec => []ClaimsAreConsistent
<1>1. IndexerInv => ClaimsAreConsistent
  <2> SUFFICES ASSUME IndexerInv PROVE ClaimsAreConsistent
    OBVIOUS
  <2>1. ASSUME NEW k \in DOMAIN rewardRows, rewardRows[k] # 0
        PROVE  chain[rewardRows[k]] =
                 [kind |-> "RWD_CLM", user |-> k[1], campaign |-> k[2]]
    <3> DEFINE e == chain[rewardRows[k]]
    <3>1. rewardRows[k] \in 1 .. Len(chain) /\ e.kind = "RWD_CLM"
          /\ <<e.user, e.campaign>> = k
      BY <2>1 DEF IndexerInv, RowsGenuine, IsClaim, Pair
    <3>2. e \in [kind : {"RWD_CLM"}, campaign : Campaigns, user : Users]
      BY <3>1, EventFields DEF IndexerInv, TypeInv, Event
    <3>3. e.user = k[1] /\ e.campaign = k[2]
      BY <3>1
    <3> HIDE DEF e
    <3>4. e = [kind |-> "RWD_CLM", user |-> k[1], campaign |-> k[2]]
      BY <3>2, <3>3
    <3> QED
      BY <3>4 DEF e
  <2>2. RowsOfClaims
    BY <2>1 DEF IndexerInv, RowsOfClaims, RowsGenuine, WrittenInv, Written,
                IsClaim, Pair
  <2>3. RefusedOnlyByRestClaim
    BY DEF IndexerInv, RefusedOnlyByRestClaim, RefusedInv, Refused, IsClaim,
           Pair
  <2> QED
    BY <2>2, <2>3 DEF ClaimsAreConsistent
<1> QED
  BY <1>1, IndexerInitial, IndexerStep, PTL DEF Spec

-----------------------------------------------------------------------------
(* One poll at a time.                                                     *)

(* A campaign is deactivated after its creation, which is not repeated.    *)
CreationsOnce ==
    \A i, j \in 1 .. Len(chain) :
      chain[i].kind = "CAM_CRT" /\ chain[i] = chain[j] => i = j

DeactivationsFollow ==
    \A i \in 1 .. Len(chain) : chain[i].kind = "CAM_DEACT" =>
       \E j \in 1 .. i - 1 : /\ chain[j].kind = "CAM_CRT"
                             /\ chain[j].campaign = chain[i].campaign

Inactive(i) ==
    /\ chain[i].campaign \in DOMAIN campaignRows
    /\ ~campaignRows[chain[i].campaign].active

Mirrored(i) ==
    chain[i].kind = "CAM_DEACT" /\ i \notin deadLetters \cup dropped
      => Inactive(i)

(* What makes MirrorsDeactivation inductive: a poll starts behind the      *)
(* cursor and mirrors what it has handled, so no creation that a           *)
(* deactivation behind it follows is ever written again.                   *)
Ahead(q) ==
    /\ q.pc = "asked" => q.at = cursor + 1
    /\ q.pc \in {"write", "record", "bury"} =>
         cursor < q.at /\ \A i \in 1 .. q.at - 1 : Mirrored(i)
    /\ q.pc = "record" => Mirrored(q.at)
    /\ q.pc = "commit" => \A i \in 1 .. q.last : Mirrored(i)

MirrorInv ==
    /\ TypeInv /\ CreationsOnce /\ DeactivationsFollow
    /\ \A i \in 1 .. cursor : Mirrored(i)
    /\ \A p \in Pollers : Ahead(polls[p])

(* Two creations of one campaign are the same event.                       *)
LEMMA SameCreation ==
    ASSUME NEW a \in Event, NEW b \in Event, a.kind = "CAM_CRT",
           b.kind = "CAM_CRT", a.campaign = b.campaign
    PROVE  a = b
<1>1. /\ a \in [kind : {"CAM_CRT", "CAM_DEACT"}, campaign : Campaigns]
      /\ b \in [kind : {"CAM_CRT", "CAM_DEACT"}, campaign : Campaigns]
  BY DEF Event
<1> QED
  BY <1>1

(* The contract creates a campaign once and first.                         *)
LEMMA CreationStep ==
    ASSUME TypeInv, [Next]_vars, CreationsOnce, DeactivationsFollow
    PROVE  CreationsOnce' /\ DeactivationsFollow'
<1>1. chain \in Seq(Event) /\ Len(chain) \in Nat
  BY DEF TypeInv
<1>2. CASE chain' = chain
  BY <1>2 DEF CreationsOnce, DeactivationsFollow
<1>3. ASSUME NEW e \in Event, Emit(e)
      PROVE  CreationsOnce' /\ DeactivationsFollow'
  <2> DEFINE n == Len(chain)
  <2>1. /\ Len(chain') = n + 1 /\ chain'[n + 1] = e
        /\ \A i \in 1 .. n : chain'[i] = chain[i]
    BY <1>1, <1>3 DEF Emit
  <2>2. DOMAIN chain = 1 .. n
    BY <1>1
  <2>3. /\ e.kind = "CAM_CRT" => \A i \in 1 .. n : chain[i] # e
        /\ e.kind = "CAM_DEACT" =>
             \E j \in 1 .. n : /\ chain[j].kind = "CAM_CRT"
                               /\ chain[j].campaign = e.campaign
    BY <1>3, <2>2 DEF Emit, OnChain
  <2>4. CreationsOnce'
    <3> SUFFICES ASSUME NEW i \in 1 .. n + 1, NEW j \in 1 .. n + 1,
                        chain'[i].kind = "CAM_CRT", chain'[i] = chain'[j]
                 PROVE  i = j
      BY <2>1 DEF CreationsOnce
    <3>1. CASE i = n + 1 \/ j = n + 1
      BY <2>1, <2>3, <3>1
    <3>2. CASE i # n + 1 /\ j # n + 1
      <4>1. i \in 1 .. n /\ j \in 1 .. n
        BY <1>1, <3>2
      <4> QED
        BY <2>1, <4>1 DEF CreationsOnce
    <3> QED
      BY <3>1, <3>2
  <2>5. DeactivationsFollow'
    <3> SUFFICES ASSUME NEW i \in 1 .. n + 1, chain'[i].kind = "CAM_DEACT"
                 PROVE  \E j \in 1 .. i - 1 :
                          /\ chain'[j].kind = "CAM_CRT"
                          /\ chain'[j].campaign = chain'[i].campaign
      BY <2>1 DEF DeactivationsFollow
    <3>1. CASE i = n + 1
      <4>1. PICK j \in 1 .. n : /\ chain[j].kind = "CAM_CRT"
                                /\ chain[j].campaign = e.campaign
        BY <2>1, <2>3, <3>1
      <4>2. j \in 1 .. i - 1
        BY <1>1, <3>1
      <4> QED
        BY <2>1, <3>1, <4>1, <4>2
    <3>2. CASE i # n + 1
      <4>1. i \in 1 .. n /\ chain[i].kind = "CAM_DEACT"
        BY <1>1, <2>1, <3>2
      <4>2. PICK j \in 1 .. i - 1 : /\ chain[j].kind = "CAM_CRT"
                                    /\ chain[j].campaign = chain[i].campaign
        BY <4>1 DEF DeactivationsFollow
      <4>3. j \in 1 .. n
        BY <1>1, <4>1
      <4> QED
        BY <2>1, <4>1, <4>2, <4>3
    <3> QED
      BY <3>1, <3>2
  <2> QED
    BY <2>4, <2>5
<1>4. chain' = chain \/ \E e \in Event : Emit(e)
  BY DEF Next, vars, PollStep, StartPoll, Receive, WriteEvent, WriteRefused,
         RecordTransaction, DeadLetterEvent, SaveCheckpoint, BackoffEnds,
         Trouble, DatabaseFails, DeadLetterFails, PollFails, Fault, Restart,
         EnsureTables, StartupFails,
         OtherWriters, DeactivateCampaign, SoftDelete, CreateRewardClaim,
         DeactivateExpiredCampaigns, others
<1> QED
  BY <1>2, <1>3, <1>4

(* Only the creation of a campaign makes its row active.                   *)
LEMMA StaysInactive ==
    ASSUME [Next]_vars, NEW id \in DOMAIN campaignRows,
           ~campaignRows[id].active, \A k \in DOMAIN campaignRows :
                                       campaignRows[k] \in CampaignRow,
           \A p \in Pollers : WriteEvent(p) =>
             ~(/\ chain[polls[p].at].kind = "CAM_CRT"
               /\ chain[polls[p].at].campaign = id)
    PROVE  id \in DOMAIN campaignRows' /\ ~campaignRows'[id].active
<1>1. campaignRows[id] \in CampaignRow
  OBVIOUS
<1>2. CASE campaignRows' = campaignRows
  BY <1>2
<1>3. ASSUME NEW p \in Pollers, WriteEvent(p)
      PROVE  id \in DOMAIN campaignRows' /\ ~campaignRows'[id].active
  <2> DEFINE e == chain[polls[p].at]
  <2>1. CASE e.kind = "CAM_CRT"
    <3>1. campaignRows' = Upserted(e.campaign, TRUE) /\ e.campaign # id
      BY <1>3, <2>1 DEF WriteEvent
    <3> QED
      BY <3>1 DEF Upserted, Put
  <2>2. CASE e.kind = "CAM_DEACT"
    <3>1. campaignRows' = Upserted(e.campaign, FALSE)
      BY <1>3, <2>2 DEF WriteEvent
    <3>2. [campaignRows[id] EXCEPT !.active = FALSE].active = FALSE
      BY <1>1 DEF CampaignRow
    <3> QED
      BY <3>1, <3>2 DEF Upserted, Put
  <2>3. CASE e.kind \notin {"CAM_CRT", "CAM_DEACT"}
    BY <1>3, <2>3 DEF WriteEvent
  <2> QED
    BY <2>1, <2>2, <2>3
<1>4. ASSUME OtherWriters
      PROVE  id \in DOMAIN campaignRows' /\ ~campaignRows'[id].active
  <2>1. ASSUME NEW k \in Campaigns, DeactivateCampaign(k)
        PROVE  id \in DOMAIN campaignRows' /\ ~campaignRows'[id].active
    BY <1>1, <2>1 DEF DeactivateCampaign, CampaignRow
  <2>2. ASSUME NEW k \in Campaigns, NEW flag \in BOOLEAN, SoftDelete(k, flag)
        PROVE  id \in DOMAIN campaignRows' /\ ~campaignRows'[id].active
    <3>1. campaignRows' = [campaignRows EXCEPT ![k].deleted = flag]
      BY <2>2 DEF SoftDelete
    <3>2. [campaignRows[id] EXCEPT !.deleted = flag].active
            = campaignRows[id].active
      BY <1>1 DEF CampaignRow
    <3> QED
      BY <3>1, <3>2
  <2>3. ASSUME NEW u \in Users, NEW k \in Campaigns, CreateRewardClaim(u, k)
        PROVE  campaignRows' = campaignRows
    BY <2>3 DEF CreateRewardClaim
  <2>4. ASSUME DeactivateExpiredCampaigns
        PROVE  id \in DOMAIN campaignRows' /\ ~campaignRows'[id].active
    BY <1>1, <2>4 DEF DeactivateExpiredCampaigns, Expirable, CampaignRow
  <2> QED
    BY <1>2, <1>4, <2>1, <2>2, <2>3, <2>4 DEF OtherWriters
<1>5. \/ campaignRows' = campaignRows
      \/ \E p \in Pollers : WriteEvent(p)
      \/ OtherWriters
  BY DEF Next, vars, Emit, PollStep, StartPoll, Receive, WriteRefused,
         RecordTransaction, DeadLetterEvent, SaveCheckpoint, BackoffEnds,
         Trouble, DatabaseFails, DeadLetterFails, PollFails, Restart,
         EnsureTables, StartupFails, tables
<1> QED
  BY <1>2, <1>3, <1>4, <1>5

(* Dead letters and dropped events stay.                                   *)
LEMMA SettledGrows ==
    ASSUME [Next]_vars
    PROVE  deadLetters \subseteq deadLetters' /\ dropped \subseteq dropped'
<1>1. ASSUME NEW p \in Pollers, PollStep(p)
      PROVE  deadLetters \subseteq deadLetters' /\ dropped' = dropped
  BY <1>1 DEF PollStep, StartPoll, Receive, WriteEvent, WriteRefused,
              RecordTransaction, DeadLetterEvent, SaveCheckpoint,
              BackoffEnds, tables, history
<1>2. ASSUME NEW p \in Pollers,
             DatabaseFails(p) \/ DeadLetterFails(p) \/ PollFails(p)
      PROVE  deadLetters' = deadLetters /\ dropped \subseteq dropped'
  BY <1>2 DEF DatabaseFails, DeadLetterFails, PollFails, tables, history
<1>3. ASSUME \/ Restart \/ OtherWriters \/ UNCHANGED vars
             \/ \E e \in Event : Emit(e)
      PROVE  UNCHANGED <<deadLetters, dropped>>
  BY <1>3 DEF Restart, OtherWriters, vars, Emit, DeactivateCampaign,
              SoftDelete, CreateRewardClaim, DeactivateExpiredCampaigns,
              others, tables, history
<1>4. ASSUME EnsureTables \/ StartupFails
      PROVE  UNCHANGED <<deadLetters, dropped>>
  BY <1>4, StartupWritesNothing DEF tables, history
<1> QED
  BY <1>1, <1>2, <1>3, <1>4 DEF Next, Trouble

(* No write at or behind i undoes what i deactivated.                      *)
LEMMA MirroredStays ==
    ASSUME TypeInv, CreationsOnce, DeactivationsFollow, [Next]_vars,
           NEW i \in 1 .. Len(chain), Mirrored(i),
           \A p \in Pollers : WriteEvent(p) => polls[p].at >= i
    PROVE  Mirrored(i)'
<1>1. chain'[i] = chain[i] /\ Len(chain) \in Nat
  BY ChainGrows
<1>2. deadLetters \subseteq deadLetters' /\ dropped \subseteq dropped'
  BY SettledGrows
<1>3. ASSUME chain[i].kind = "CAM_DEACT", Inactive(i) PROVE Inactive(i)'
  <2> DEFINE id == chain[i].campaign
  <2>1. ASSUME NEW p \in Pollers, WriteEvent(p), NEW a, a = polls[p].at,
               chain[a].kind = "CAM_CRT", chain[a].campaign = id
        PROVE  FALSE
    <3>1. a \in 1 .. Len(chain) /\ a >= i
      BY <2>1, AtOnChain DEF WriteEvent
    <3>2. PICK j \in 1 .. i - 1 : /\ chain[j].kind = "CAM_CRT"
                                  /\ chain[j].campaign = id
      BY <1>3 DEF DeactivationsFollow
    <3>3. j \in 1 .. Len(chain)
      BY <1>1
    <3>4. chain[a] = chain[j]
      BY <2>1, <3>1, <3>2, <3>3, EventFields, SameCreation DEF TypeInv
    <3>5. a = j
      BY <2>1, <3>1, <3>3, <3>4 DEF CreationsOnce
    <3> QED
      BY <3>1, <3>5
  <2>2. \A p \in Pollers : WriteEvent(p) =>
             ~(/\ chain[polls[p].at].kind = "CAM_CRT"
               /\ chain[polls[p].at].campaign = id)
    BY <2>1
  <2>3. \A k \in DOMAIN campaignRows : campaignRows[k] \in CampaignRow
    BY DEF TypeInv, RowsOK
  <2>4. id \in DOMAIN campaignRows' /\ ~campaignRows'[id].active
    BY <1>3, <2>2, <2>3, StaysInactive DEF Inactive
  <2> QED
    BY <1>1, <2>4 DEF Inactive
<1> QED
  BY <1>1, <1>2, <1>3 DEF Mirrored

(* Writing a deactivation mirrors it.                                      *)
LEMMA WriteMirrors ==
    ASSUME TypeInv, NEW p \in Pollers, WriteEvent(p), NEW i, i = polls[p].at
    PROVE  Mirrored(i)'
<1>1. chain' = chain
  BY DEF WriteEvent
<1>2. ASSUME chain[i].kind = "CAM_DEACT"
      PROVE  /\ chain[i].campaign \in DOMAIN campaignRows'
             /\ ~campaignRows'[chain[i].campaign].active
  <2> DEFINE id == chain[i].campaign
  <2>1. campaignRows' = Upserted(id, FALSE)
    BY <1>2 DEF WriteEvent
  <2>2. id \in DOMAIN campaignRows =>
          [campaignRows[id] EXCEPT !.active = FALSE].active = FALSE
    BY DEF TypeInv, RowsOK, CampaignRow
  <2> HIDE DEF id
  <2> QED
    BY <2>1, <2>2 DEF Upserted, Put, id
<1> QED
  BY <1>1, <1>2 DEF Mirrored, Inactive

-----------------------------------------------------------------------------
(* What the cursor and the one poll mirror stays mirrored in every step.   *)
LEMMA MirrorsKept ==
    ASSUME \A p, q \in Pollers : p = q, MirrorInv, [Next]_vars
    PROVE  /\ \A i \in 1 .. cursor : Mirrored(i)'
           /\ \A p \in Pollers :
                /\ polls[p].pc \in {"write", "record", "bury"} =>
                     \A i \in 1 .. polls[p].at - 1 : Mirrored(i)'
                /\ polls[p].pc = "record" =>
                     \A i : i = polls[p].at => Mirrored(i)'
                /\ polls[p].pc = "commit" =>
                     \A i \in 1 .. polls[p].last : Mirrored(i)'
<1> USE DEF MirrorInv
<1>1. /\ Len(chain) \in Nat /\ cursor \in 0 .. Len(chain)
      /\ \A p \in Pollers : PollOK(polls[p], Len(chain)) /\ Ahead(polls[p])
  BY DEF TypeInv
<1>2. ASSUME NEW p \in Pollers, WriteEvent(p)
      PROVE  polls[p].pc = "write" /\ cursor < polls[p].at
             /\ polls[p].at \in Nat
  BY <1>1, <1>2 DEF WriteEvent, Ahead, PollOK, Poll
<1>3. ASSUME NEW i \in 1 .. cursor PROVE Mirrored(i)'
  <2>1. i \in 1 .. Len(chain) /\ Mirrored(i)
    BY <1>1
  <2>2. \A p \in Pollers : WriteEvent(p) => polls[p].at >= i
    BY <1>1, <1>2
  <2> QED
    BY <2>1, <2>2, MirroredStays
<1>4. ASSUME NEW p \in Pollers, NEW i \in 1 .. Len(chain), Mirrored(i),
             polls[p].pc # "write" \/ i <= polls[p].at
      PROVE  Mirrored(i)'
  <2>1. ASSUME NEW q \in Pollers, WriteEvent(q) PROVE polls[q].at >= i
    <3>1. p = q
      OBVIOUS
    <3> QED
      BY <1>2, <1>4, <2>1, <3>1
  <2> QED
    BY <1>4, <2>1, MirroredStays
<1>5. ASSUME NEW p \in Pollers, polls[p].pc \in {"write", "record", "bury"},
             NEW i \in 1 .. polls[p].at - 1
      PROVE  Mirrored(i)'
  <2>1. polls[p].at \in 1 .. Len(chain)
    BY <1>5, AtOnChain
  <2>2. i \in 1 .. Len(chain) /\ i <= polls[p].at /\ Mirrored(i)
    BY <1>1, <1>5, <2>1 DEF Ahead
  <2> QED
    BY <1>4, <2>2
<1>6. ASSUME NEW p \in Pollers, polls[p].pc = "record",
             NEW i, i = polls[p].at
      PROVE  Mirrored(i)'
  <2>1. i \in 1 .. Len(chain) /\ Mirrored(i)
    BY <1>1, <1>6, AtOnChain DEF Ahead
  <2> QED
    BY <1>4, <1>6, <2>1
<1>7. ASSUME NEW p \in Pollers, polls[p].pc = "commit",
             NEW i \in 1 .. polls[p].last
      PROVE  Mirrored(i)'
  <2>1. i \in 1 .. Len(chain) /\ Mirrored(i)
    BY <1>1, <1>7 DEF Ahead, PollOK, Poll
  <2> QED
    BY <1>4, <1>7, <2>1
<1> QED
  BY <1>3, <1>5, <1>6, <1>7

(* A poll that is done with an event mirrors it.                           *)
LEMMA NextEventAhead ==
    ASSUME \A p, q \in Pollers : p = q, MirrorInv, [Next]_vars,
           NEW p \in Pollers, polls[p].pc \in {"record", "bury"},
           NextEvent(p), cursor' = cursor, NEW a, a = polls[p].at,
           Mirrored(a)'
    PROVE  Ahead(polls[p])'
<1>1. polls[p] \in Poll /\ polls \in [Pollers -> Poll]
      /\ Ahead(polls[p]) /\ PollOK(polls[p], Len(chain))
  BY DEF MirrorInv, TypeInv
<1>2. cursor \in Nat /\ a \in Nat /\ polls[p].last \in Nat /\ cursor < a
  BY <1>1, AtOnChain DEF MirrorInv, TypeInv, Ahead, Poll
<1>3. \A i \in 1 .. a : Mirrored(i)'
  <2>1. \A i \in 1 .. a - 1 : Mirrored(i)'
    BY MirrorsKept
  <2> QED
    BY <1>2, <2>1
<1>4. CASE a < polls[p].last
  <2>1. polls' = [polls EXCEPT ![p].pc = "write", ![p].at = a + 1,
                               ![p].attempt = 1]
    BY <1>4 DEF NextEvent
  <2>2. polls'[p].pc = "write" /\ polls'[p].at = a + 1
    BY <1>1, <2>1 DEF Poll
  <2> QED
    BY <1>2, <1>3, <2>2 DEF Ahead
<1>5. CASE ~(a < polls[p].last)
  <2>1. polls' = [polls EXCEPT ![p].pc = "commit"]
    BY <1>5 DEF NextEvent
  <2>2. polls'[p].pc = "commit" /\ polls'[p].last = polls[p].last
    BY <1>1, <2>1 DEF Poll
  <2>3. \A i \in 1 .. polls[p].last : Mirrored(i)'
    BY <1>2, <1>3, <1>5
  <2> QED
    BY <2>2, <2>3 DEF Ahead
<1> QED
  BY <1>4, <1>5

(* Another attempt, or the dead letter, is at the same event.              *)
LEMMA RetryAhead ==
    ASSUME \A p, q \in Pollers : p = q, MirrorInv, [Next]_vars,
           NEW p \in Pollers, polls[p].pc \in {"write", "record"},
           Retry(p), cursor' = cursor
    PROVE  Ahead(polls[p])'
<1>1. polls[p] \in Poll /\ polls \in [Pollers -> Poll] /\ Ahead(polls[p])
  BY DEF MirrorInv, TypeInv
<1>2. polls'[p].pc \in {"write", "bury"} /\ polls'[p].at = polls[p].at
  <2>1. CASE polls[p].attempt < MAX_EVENT_RETRIES
    <3>1. polls' = [polls EXCEPT ![p].pc = "write",
                                 ![p].attempt = polls[p].attempt + 1]
      BY <2>1 DEF Retry
    <3> QED
      BY <1>1, <3>1 DEF Poll
  <2>2. CASE ~(polls[p].attempt < MAX_EVENT_RETRIES)
    <3>1. polls' = [polls EXCEPT ![p].pc = "bury"]
      BY <2>2 DEF Retry
    <3> QED
      BY <1>1, <3>1 DEF Poll
  <2> QED
    BY <2>1, <2>2
<1>3. cursor < polls[p].at /\ \A i \in 1 .. polls[p].at - 1 : Mirrored(i)'
  BY <1>1, MirrorsKept DEF Ahead
<1> QED
  BY <1>2, <1>3 DEF Ahead

(* The one poll takes a step.                                              *)
LEMMA PollAhead ==
    ASSUME \A p, q \in Pollers : p = q, MirrorInv, [Next]_vars,
           NEW p \in Pollers, PollStep(p)
    PROVE  (\A i \in 1 .. cursor' : Mirrored(i)') /\ Ahead(polls[p])'
<1>1. /\ polls[p] \in Poll /\ polls \in [Pollers -> Poll]
      /\ Ahead(polls[p]) /\ PollOK(polls[p], Len(chain))
      /\ cursor \in Nat /\ Len(chain) \in Nat
  BY DEF MirrorInv, TypeInv
<1>2. \A i \in 1 .. cursor : Mirrored(i)'
  BY MirrorsKept
<1>3. ASSUME Done(p) PROVE Ahead(polls[p])'
  <2>1. polls'[p].pc = "idle"
    BY <1>1, <1>3 DEF Done, IdlePoll
  <2> QED
    BY <2>1 DEF Ahead
<1>4. ASSUME StartPoll(p) PROVE cursor' = cursor /\ Ahead(polls[p])'
  <2>1. cursor' = cursor /\ polls' = [polls EXCEPT ![p] =
           [IdlePoll EXCEPT !.pc = "asked", !.at = cursor + 1]]
    BY <1>4 DEF StartPoll
  <2>2. polls'[p].pc = "asked" /\ polls'[p].at = cursor + 1
    BY <1>1, <2>1, IdleCovers DEF Poll
  <2> QED
    BY <2>1, <2>2 DEF Ahead
<1>5. ASSUME Receive(p) PROVE cursor' = cursor /\ Ahead(polls[p])'
  <2>1. CASE ~Done(p)
    <3>1. cursor' = cursor /\ polls[p].at = cursor + 1
      BY <1>1, <1>5 DEF Receive, Ahead
    <3>2. PICK m : polls' = [polls EXCEPT ![p].pc = "write", ![p].last = m,
                                          ![p].attempt = 1]
      BY <1>5, <2>1 DEF Receive
    <3>3. polls'[p].pc = "write" /\ polls'[p].at = cursor + 1
      BY <1>1, <3>1, <3>2 DEF Poll
    <3> QED
      BY <1>1, <1>2, <3>1, <3>3 DEF Ahead
  <2> QED
    BY <1>3, <1>5, <2>1 DEF Receive
<1>6. ASSUME WriteEvent(p) PROVE cursor' = cursor /\ Ahead(polls[p])'
  <2>1. polls' = [polls EXCEPT ![p].pc = "record"] /\ cursor' = cursor
        /\ polls[p].pc = "write"
    BY <1>6 DEF WriteEvent, Goto
  <2>2. polls'[p].pc = "record" /\ polls'[p].at = polls[p].at
    BY <1>1, <2>1 DEF Poll
  <2>3. PICK a : a = polls[p].at
    OBVIOUS
  <2>4. Mirrored(a)'
    BY <1>6, <2>3, WriteMirrors DEF MirrorInv
  <2>5. cursor < a /\ \A i \in 1 .. a - 1 : Mirrored(i)'
    BY <1>1, <2>1, <2>3, MirrorsKept DEF Ahead
  <2> QED
    BY <2>1, <2>2, <2>3, <2>4, <2>5 DEF Ahead
<1>7. ASSUME WriteRefused(p) PROVE cursor' = cursor /\ Ahead(polls[p])'
  BY <1>7, RetryAhead DEF WriteRefused
<1>8. ASSUME RecordTransaction(p) PROVE cursor' = cursor /\ Ahead(polls[p])'
  <2>1. PICK a : a = polls[p].at
    OBVIOUS
  <2>2. Mirrored(a)'
    BY <1>8, <2>1, MirrorsKept DEF RecordTransaction
  <2> QED
    BY <1>8, <2>1, <2>2, NextEventAhead DEF RecordTransaction
<1>9. ASSUME DeadLetterEvent(p) PROVE cursor' = cursor /\ Ahead(polls[p])'
  <2>1. PICK a : a = polls[p].at
    OBVIOUS
  <2>2. Mirrored(a)'
    BY <1>9, <2>1 DEF DeadLetterEvent, Mirrored
  <2> QED
    BY <1>9, <2>1, <2>2, NextEventAhead DEF DeadLetterEvent
<1>10. ASSUME SaveCheckpoint(p)
       PROVE  (\A i \in 1 .. cursor' : Mirrored(i)') /\ Ahead(polls[p])'
  <2>1. polls[p].pc = "commit" /\ cursor' = polls[p].last /\ Done(p)
    BY <1>10 DEF SaveCheckpoint
  <2> QED
    BY <1>3, <2>1, MirrorsKept
<1>11. ASSUME BackoffEnds(p) PROVE cursor' = cursor /\ Ahead(polls[p])'
  BY <1>3, <1>11 DEF BackoffEnds
<1> QED
  BY <1>2, <1>4, <1>5, <1>6, <1>7, <1>8, <1>9, <1>10, <1>11 DEF PollStep

(* Every step.                                                             *)
LEMMA MirrorStep ==
    ASSUME \A p, q \in Pollers : p = q
    PROVE  MirrorInv /\ [Next]_vars => MirrorInv'
<1> SUFFICES ASSUME MirrorInv, [Next]_vars PROVE MirrorInv'
  OBVIOUS
<1>1. TypeInv' /\ CreationsOnce' /\ DeactivationsFollow'
  BY TypeStep, CreationStep DEF MirrorInv
<1>2. /\ polls \in [Pollers -> Poll] /\ \A p \in Pollers : Ahead(polls[p])
      /\ \A i \in 1 .. cursor : Mirrored(i)'
  BY MirrorsKept DEF MirrorInv, TypeInv
<1> DEFINE Fine == /\ \A i \in 1 .. cursor' : Mirrored(i)'
                   /\ \A p \in Pollers : Ahead(polls[p])'
<1>3. ASSUME NEW p \in Pollers, PollStep(p) PROVE Fine
  BY <1>3, PollAhead
<1>4. ASSUME UNCHANGED <<cursor, polls>> PROVE Fine
  <2>1. ASSUME NEW p \in Pollers PROVE Ahead(polls[p])'
    <3>1. Ahead(polls[p])
      BY <1>2
    <3>2. PICK a : a = polls[p].at
      OBVIOUS
    <3>3. /\ polls[p].pc \in {"write", "record", "bury"} =>
               \A i \in 1 .. a - 1 : Mirrored(i)'
          /\ polls[p].pc = "record" => Mirrored(a)'
          /\ polls[p].pc = "commit" =>
               \A i \in 1 .. polls[p].last : Mirrored(i)'
      BY <3>2, MirrorsKept
    <3> QED
      BY <1>4, <3>1, <3>2, <3>3 DEF Ahead
  <2> QED
    BY <1>2, <1>4, <2>1
<1>5. ASSUME NEW p \in Pollers, DatabaseFails(p) PROVE Fine
  <2>1. cursor' = cursor /\ Ahead(polls[p])'
    BY <1>5, RetryAhead DEF DatabaseFails
  <2> QED
    BY <1>2, <2>1
<1>6. ASSUME NEW p \in Pollers, DeadLetterFails(p) PROVE Fine
  <2>1. PICK a : a = polls[p].at
    OBVIOUS
  <2>2. Mirrored(a)' /\ cursor' = cursor
    BY <1>6, <2>1 DEF DeadLetterFails, Mirrored
  <2>3. Ahead(polls[p])'
    BY <1>6, <2>1, <2>2, NextEventAhead DEF DeadLetterFails
  <2> QED
    BY <1>2, <2>2, <2>3
<1>7. ASSUME NEW p \in Pollers, PollFails(p) PROVE Fine
  <2>1. cursor' = cursor /\ polls' = [polls EXCEPT ![p].pc = "backoff"]
    BY <1>7 DEF PollFails, Goto
  <2>2. polls'[p].pc = "backoff"
    BY <1>2, <2>1 DEF Poll
  <2>3. Ahead(polls[p])'
    BY <2>2 DEF Ahead
  <2> QED
    BY <1>2, <2>1, <2>3
<1>8. ASSUME Restart PROVE Fine
  <2>1. cursor' = cursor /\ \A p \in Pollers : polls'[p].pc = "idle"
    BY <1>8 DEF Restart, IdlePoll
  <2> QED
    BY <1>2, <2>1 DEF Ahead
<1>9. \/ UNCHANGED <<cursor, polls>>
      \/ \E p \in Pollers : PollStep(p) \/ DatabaseFails(p)
                            \/ DeadLetterFails(p) \/ PollFails(p)
      \/ Restart
  BY DEF Next, vars, Emit, Trouble, OtherWriters, DeactivateCampaign,
         SoftDelete, CreateRewardClaim, DeactivateExpiredCampaigns, others,
         EnsureTables, StartupFails
<1>10. Fine
  BY <1>3, <1>4, <1>5, <1>6, <1>7, <1>8, <1>9
<1> QED
  BY <1>1, <1>10 DEF MirrorInv

(* As long as polls do not overlap, a campaign whose deactivation lies     *)
(* behind the cursor is inactive, whatever was delivered twice, retried,   *)
(* cut off by a restart or written by the REST handlers and the job.       *)
THEOREM DeactivationsMirrored ==
    ASSUME \A p, q \in Pollers : p = q
    PROVE  Spec => []MirrorsDeactivation
<1>1. Init => MirrorInv
  <2> SUFFICES ASSUME Init PROVE MirrorInv
    OBVIOUS
  <2>1. Len(chain) = 0 /\ cursor = 0
        /\ \A p \in Pollers : polls[p].pc = "idle"
    BY DEF Init, IdlePoll
  <2> QED
    BY <2>1, TypeInitial
       DEF MirrorInv, CreationsOnce, DeactivationsFollow, Ahead
<1>2. MirrorInv => MirrorsDeactivation
  BY DEF MirrorInv, MirrorsDeactivation, Mirrored, Inactive
<1>3. MirrorInv /\ [Next]_vars => MirrorInv'
  BY MirrorStep
<1> QED
  BY <1>1, <1>2, <1>3, PTL DEF Spec
=============================================================================
