---------------------------- MODULE Transactions ----------------------------
(***************************************************************************)
(* Contract calls from the pages of the frontend: the buttons and dialogs  *)
(* that start them, and invokeContract (frontend/src/lib/soroban.ts),      *)
(* which builds, signs, sends and polls a transaction.                     *)
(*                                                                         *)
(* A widget is one button with its dialog:                                 *)
(*   card    claim on a CampaignCard of the dashboard                      *)
(*   browse  the same card on /campaigns, whose onClaim does nothing       *)
(*   row     redeem in the RewardList of the dashboard                     *)
(*   form    RedeemForm                                                    *)
(*   create  CreateCampaignForm                                            *)
(* The unit of time is the wait between two polls.  The ledger moves on    *)
(* before the RPC server tells: what invokeContract reads may be old.      *)
(***************************************************************************)
EXTENDS Integers, FiniteSets

CONSTANTS
    Pages,          \* widgets on a page together, with bounds on the calls
                    \* they make, the requests that are rejected and the
                    \* changes of the wallet's key
    TIMEOUT,        \* setTimeout: a transaction is valid for thirty seconds
    ATTEMPTS,       \* twenty polls after the first
    LAG,            \* until the RPC server tells of a transaction
    Balance,        \* redemptions an account can pay for
    MaxCalls        \* the largest of the bounds on calls

AllWidgets == {"card", "browse", "row", "form", "create"}

ASSUME TransactionConstants ==
    /\ TIMEOUT \in Nat /\ ATTEMPTS \in Nat /\ TIMEOUT <= ATTEMPTS
    /\ LAG \in Nat /\ Balance \in Nat /\ MaxCalls \in Nat
    /\ DOMAIN Pages \subseteq SUBSET AllWidgets
    /\ \A p \in DOMAIN Pages :
         /\ Pages[p].calls \in 0..MaxCalls
         /\ Pages[p].lost \in Nat /\ Pages[p].keys \in Nat

VARIABLES
    widgets,        \* widgets of the page that is open
    ui,             \* each widget: status, dialog open, reset timers
    key,            \* the wallet's key: how often it has changed
    claimed,        \* whether optimisticClaimed holds the campaign: "no",
                    \* since a claim, or since the API told of reward rows
    loads,          \* calls of loadRewards that have not answered
    networkDisabled,\* useNetworkStatus: the dashboard's "unreachable"
    call,           \* calls of invokeContract
    lost            \* requests rejected so far

pageVars == <<widgets, key, claimed, loads, networkDisabled>>

txVars == <<pageVars, ui, call, lost>>

Calls == 1..MaxCalls

Method(w) ==
    CASE w \in {"card", "browse"} -> "claim_reward"
      [] w \in {"row", "form"} -> "redeem_reward"
      [] w = "create" -> "create_campaign"

(* valid and wait count down the time bounds of the transaction and the    *)
(* sleep.  chain is what became of the transaction, age how long since.    *)
(* History: unsure, an answer on the transaction's fate, or the reload     *)
(* after it, was lost; unseen, the last poll came before the RPC server    *)
(* told of it.                                                             *)
NoCall ==
    [widget |-> "none", key |-> 0, pc |-> "new", seq |-> 0, valid |-> 0,
     attempts |-> 0, wait |-> 0, chain |-> "out", age |-> 0,
     answer |-> "none", unsure |-> FALSE, unseen |-> FALSE]

Idle == [status |-> "idle", dialog |-> FALSE, timers |-> 0]

TxInit ==
    /\ widgets \in DOMAIN Pages
    /\ ui = [w \in AllWidgets |-> Idle]
    /\ key = 0 /\ claimed = "no"
    /\ loads = IF "card" \in widgets THEN 1 ELSE 0
    /\ networkDisabled = FALSE
    /\ call = [c \in Calls |-> NoCall]
    /\ lost = 0

-----------------------------------------------------------------------------
(* The accounts on the ledger, and what the RPC server tells of it.        *)

Taken == {c \in Calls : call[c].chain \in {"success", "failed"}}

Known == {c \in Taken : call[c].age = LAG}

(* Calls of a method that succeeded for the key k, of those in S.          *)
Succeeded(m, k, S) ==
    Cardinality({c \in S : /\ call[c].chain = "success" /\ call[c].key = k
                           /\ Method(call[c].widget) = m})

(* Transactions of the account that are among those in S.                  *)
Sequence(k, S) == Cardinality({c \in S : call[c].key = k})

InSequence(c, S) == call[c].seq = Sequence(call[c].key, S) + 1

Allowed(c, S) ==
    LET m == Method(call[c].widget)
        n == Succeeded(m, call[c].key, S)
    IN  /\ m = "claim_reward" => n = 0
        /\ m = "redeem_reward" => n < Balance

(* A ledger closes; it may take an account's next transaction, which fails *)
(* where the simulation succeeded if the contracts have moved on: paused,  *)
(* expired, redeemed elsewhere.                                            *)
Later(c) ==
    [call[c] EXCEPT !.valid = IF @ > 0 THEN @ - 1 ELSE 0,
                    !.wait = IF @ > 0 THEN @ - 1 ELSE 0,
                    !.age = IF c \in Taken /\ @ < LAG THEN @ + 1 ELSE @]

Tick ==
    /\ \/ call' = [c \in Calls |-> Later(c)]
       \/ \E a \in Calls, fate \in {"success", "failed"} :
            /\ call[a].chain = "pool"
            /\ InSequence(a, Taken)
            /\ call[a].valid > 0
            /\ fate = "success" => Allowed(a, Taken)
            /\ call' = [c \in Calls |->
                          IF c = a THEN [Later(c) EXCEPT !.chain = fate]
                          ELSE Later(c)]
    /\ UNCHANGED <<pageVars, ui, lost>>

-----------------------------------------------------------------------------
(* Buttons.                                                                *)

Loading(w) == ui[w].status = "loading"

(* The handler of w calls invokeContract.                                  *)
Call(w, dialog) ==
    /\ \E c \in 1..Pages[widgets].calls :
         /\ call[c].pc = "new"
         /\ \A b \in 1..(c - 1) : call[b].pc # "new"
         /\ call' = [call EXCEPT ![c].widget = w, ![c].key = key,
                                 ![c].pc = "account"]
    /\ ui' = [ui EXCEPT ![w].status = "loading", ![w].dialog = dialog]
    /\ UNCHANGED <<pageVars, lost>>

Show(w, state) ==
    /\ ui' = [ui EXCEPT ![w] = state]
    /\ UNCHANGED <<pageVars, call, lost>>

(* Faulty: shown as claimed as soon as it is clicked.                      *)
ClaimOnCardAtOnce ==
    /\ "card" \in widgets
    /\ claimed = "no" /\ ~networkDisabled
    /\ ui["card"].status \notin {"loading", "success"}
    /\ \E c \in 1..Pages[widgets].calls :
         /\ call[c].pc = "new"
         /\ call' = [call EXCEPT ![c].widget = "card", ![c].key = key,
                                 ![c].pc = "account"]
    /\ ui' = [ui EXCEPT !["card"].status = "loading"]
    /\ claimed' = "claim"
    /\ UNCHANGED <<widgets, key, loads, networkDisabled, lost>>

(* CampaignCard: handleClaimClick.                                         *)
ClaimOnCard ==
    /\ "card" \in widgets
    /\ claimed = "no" /\ ~networkDisabled
    /\ ui["card"].status \notin {"loading", "success"}
    /\ Call("card", FALSE)

(* The card of /campaigns: shown as claimed for two seconds, with no call. *)
ClaimOnBrowse ==
    /\ "browse" \in widgets
    /\ ui["browse"].status # "success"
    /\ Show("browse", [ui["browse"] EXCEPT !.status = "success",
                                           !.timers = @ + 1])

(* Buttons that open a dialog, and when they are enabled.  A created       *)
(* campaign is shown until "Create Another".                               *)
CanOpen(w) ==
    CASE w = "row" -> /\ ui[w].status \notin {"loading", "success"}
                      /\ ~networkDisabled
      [] w = "form" -> ~Loading(w)
      [] w = "create" -> ui[w].status \notin {"loading", "success"}

Open(w) ==
    /\ w \in widgets \ {"card", "browse"}
    /\ ~ui[w].dialog
    /\ CanOpen(w)
    /\ Show(w, [ui[w] EXCEPT !.dialog = TRUE])

(* Cancel is disabled while loading, but Escape closes a ConfirmDialog.    *)
Cancel(w) ==
    /\ ui[w].dialog
    /\ w = "create" => ~Loading(w)
    /\ Show(w, [ui[w] EXCEPT !.dialog = FALSE])

(* Faulty: the dialog does not know that the call is under way.            *)
ConfirmAnyTime(w) ==
    /\ ui[w].dialog
    /\ w = "row" => ~networkDisabled
    /\ Call(w, w # "row")

(* The list closes its dialog at once, the forms at the end.               *)
Confirm(w) ==
    /\ ui[w].dialog
    /\ ~Loading(w)
    /\ w = "row" => ~networkDisabled
    /\ Call(w, w # "row")

(* RedeemForm: Retry, without the dialog.                                  *)
Retry ==
    /\ "form" \in widgets
    /\ ui["form"].status = "retryable"
    /\ Call("form", ui["form"].dialog)

(* CreateCampaignForm: handleReset.                                        *)
Reset ==
    /\ ui["create"].status = "success"
    /\ Show("create", Idle)

(* The timers that reset the status of a card (2 or 3 s) or a row (3 s).   *)
TimerFires(w) ==
    /\ ui[w].timers > 0
    /\ Show(w, [ui[w] EXCEPT !.timers = @ - 1, !.status = "idle"])

(* checkHealth.  It reads fields that /health does not have, so an answer  *)
(* 200 counts as unreachable like none at all, and 503 as degraded.        *)
CheckHealth ==
    /\ networkDisabled' \in BOOLEAN
    /\ "row" \in widgets \/ "card" \in widgets
    /\ UNCHANGED <<widgets, ui, key, claimed, loads, call, lost>>

(* The wallet has another account.  The dashboard loads its rewards; what  *)
(* it shows and the calls under way stay.                                  *)
ChangeKey ==
    /\ key < Pages[widgets].keys /\ key' = key + 1
    /\ loads' = loads + 1
    /\ UNCHANGED <<widgets, ui, claimed, networkDisabled, call, lost>>

(* loadRewards answers with the rows of its key, which REST claims write   *)
(* too.  Rejected, or without `data`, it throws before it sets the claims, *)
(* and may be asked again.                                                 *)
LoadClaims ==
    /\ loads > 0 /\ loads' = loads - 1
    /\ claimed' \in {"no", "rows"}
    /\ UNCHANGED <<widgets, ui, key, networkDisabled, call, lost>>

-----------------------------------------------------------------------------
(* The end of a handler.                                                   *)

Finish(c, answer) ==
    call' = [call EXCEPT ![c].pc = "done", ![c].answer = answer]

(* SorobanErrorParser: the text of an error that the network, a contract   *)
(* or Freighter words decides whether Retry is offered; the texts of       *)
(* invokeContract itself, after sending, never offer it.                   *)
Parse(step) ==
    IF step \in {"submit", "poll"} THEN {"error"} ELSE {"error", "retryable"}

(* What w shows when its handler ends.                                     *)
After(w, status) ==
    LET s == [ui[w] EXCEPT !.status = status] IN
    CASE w \in {"card", "row"} -> [s EXCEPT !.timers = @ + 1]
      [] w = "form" -> IF status = "success" THEN Idle ELSE s
      [] w = "create" -> [s EXCEPT !.dialog = FALSE]

(* invokeContract throws at a step.                                        *)
Fail(c, step) ==
    LET w == call[c].widget IN
    \E status \in IF w = "form" THEN Parse(step) ELSE {"error"} :
      ui' = [ui EXCEPT ![w] = After(w, status)]

Throw(c, step) ==
    /\ Finish(c, "error")
    /\ Fail(c, step)
    /\ UNCHANGED <<pageVars, lost>>

(* It returns: the dashboard's handlers load its rewards again.  The card  *)
(* is claimed, whatever the key is by now.                                 *)
Return(c) ==
    LET w == call[c].widget IN
    /\ IF w \in {"card", "row"}
       THEN /\ call' = [call EXCEPT ![c].pc = "reload"]
            /\ ui' = [ui EXCEPT ![w].status =
                        IF w = "row" THEN "success" ELSE @]
       ELSE /\ Finish(c, "success")
            /\ ui' = [ui EXCEPT ![w] = After(w, "success")]
    /\ claimed' = IF w = "card" THEN "claim" ELSE claimed
    /\ UNCHANGED <<widgets, key, loads, networkDisabled, lost>>

Reload(c) ==
    LET w == call[c].widget IN
    /\ call[c].pc = "reload"
    /\ Finish(c, "success")
    /\ ui' = [ui EXCEPT ![w] = After(w, "success")]
    /\ UNCHANGED <<pageVars, lost>>

-----------------------------------------------------------------------------
(* invokeContract.                                                         *)

Goto(c, pc) ==
    /\ call' = [call EXCEPT ![c].pc = pc]
    /\ UNCHANGED <<pageVars, ui, lost>>

(* getAccount, and the transaction built on its sequence number.           *)
GetAccount(c) ==
    /\ call[c].pc = "account"
    /\ call' = [call EXCEPT
                  ![c].pc = "simulate", ![c].valid = TIMEOUT,
                  ![c].seq = Sequence(call[c].key, Known) + 1]
    /\ UNCHANGED <<pageVars, ui, lost>>

(* Refused for what is told of the account, or for the contracts' state.   *)
SimulateTransaction(c) ==
    /\ call[c].pc = "simulate"
    /\ \/ Allowed(c, Known) /\ Goto(c, "sign")
       \/ Throw(c, "simulate")

SignTransaction(c) ==
    /\ call[c].pc = "sign"
    /\ Goto(c, "send") \/ Throw(c, "sign")

(* Refused if late or out of sequence; TRY_AGAIN_LATER is polled as well.  *)
SendTransaction(c) ==
    /\ call[c].pc = "send"
    /\ IF ~InSequence(c, Taken) \/ call[c].valid = 0
       THEN Throw(c, "submit")
       ELSE /\ \E pool \in {"pool", "out"} :
                 call' = [call EXCEPT ![c].pc = "poll", ![c].chain = pool]
            /\ UNCHANGED <<pageVars, ui, lost>>

(* The last poll finds nothing.                                            *)
GiveUp(c) ==
    /\ call' = [call EXCEPT ![c].pc = "done", ![c].answer = "error",
                            ![c].unseen = c \in Taken]
    /\ Fail(c, "poll")
    /\ UNCHANGED <<pageVars, lost>>

(* One poll of at most limit after the first.                              *)
Poll(c, limit) ==
    /\ call[c].pc = "poll"
    /\ call[c].wait = 0
    /\ CASE c \in Known /\ call[c].chain = "success" -> Return(c)
         [] c \in Known /\ call[c].chain = "failed" -> Throw(c, "poll")
         [] c \notin Known /\ call[c].attempts = limit -> GiveUp(c)
         [] OTHER -> /\ call' = [call EXCEPT ![c].attempts = @ + 1,
                                             ![c].wait = 1]
                     /\ UNCHANGED <<pageVars, ui, lost>>

(* Faulty: gives up one poll early.                                        *)
GetTransactionLess(c) == Poll(c, ATTEMPTS - 1)

(* Faulty: counts before it compares.                                      *)
GetTransactionMore(c) == Poll(c, ATTEMPTS + 1)

(* Faulty: polls as long as it takes.                                      *)
GetTransactionForever(c) ==
    \/ /\ call[c].attempts < ATTEMPTS \/ c \in Known
       /\ Poll(c, ATTEMPTS)
    \/ /\ call[c].pc = "poll" /\ call[c].wait = 0
       /\ call[c].attempts = ATTEMPTS /\ c \notin Known
       /\ call' = [call EXCEPT ![c].wait = 1]
       /\ UNCHANGED <<pageVars, ui, lost>>

GetTransaction(c) == Poll(c, ATTEMPTS)

(* A request to the RPC server or the API rejects.  Once sent, the         *)
(* transaction may apply nevertheless; it may have got there, too.         *)
RequestFails(c) ==
    LET sent == call[c].pc \in {"send", "poll", "reload"}
        late == ~InSequence(c, Taken) \/ call[c].valid = 0
    IN  /\ lost < Pages[widgets].lost /\ lost' = lost + 1
        /\ call[c].pc \in {"account", "simulate", "send", "poll", "reload"}
        /\ call[c].pc = "poll" => call[c].wait = 0
        /\ \E got \in {call[c].chain} \cup
                      IF call[c].pc = "send" /\ ~late THEN {"pool"} ELSE {} :
             call' = [call EXCEPT ![c].pc = "done", ![c].answer = "error",
                                  ![c].chain = got, ![c].unsure = sent]
        /\ Fail(c, "request")
        /\ UNCHANGED pageVars

Progress(c) ==
    \/ GetAccount(c) \/ SimulateTransaction(c) \/ SignTransaction(c)
    \/ SendTransaction(c) \/ GetTransaction(c) \/ Reload(c)

TxNext ==
    \/ Tick \/ CheckHealth \/ ChangeKey \/ LoadClaims
    \/ ClaimOnCard \/ ClaimOnBrowse \/ Retry \/ Reset
    \/ \E w \in widgets : Open(w) \/ Cancel(w) \/ Confirm(w) \/ TimerFires(w)
    \/ \E c \in Calls : Progress(c) \/ RequestFails(c)

(* Promises settle, the user answers Freighter, time passes.               *)
TxFairness ==
    /\ WF_txVars(Tick)
    /\ \A c \in Calls : WF_txVars(Progress(c))

TxSpec == TxInit /\ [][TxNext]_txVars /\ TxFairness

-----------------------------------------------------------------------------
(* Properties.                                                             *)

(* A call is made of a widget on the page, for a key it had, and counts no *)
(* further than it is told to.                                             *)
TxTypeOK ==
    /\ \A c \in Calls :
         /\ call[c].pc # "new" => call[c].widget \in widgets
         /\ call[c].key \in 0..key
         /\ call[c].attempts \in 0..ATTEMPTS
         /\ call[c].valid \in 0..TIMEOUT /\ call[c].age \in 0..LAG
         /\ call[c].chain = "pool" => call[c].seq > 0
    /\ \A k \in 0..key : Sequence(k, Taken) <= MaxCalls

(* What a page reports is so: after "success" the ledger has the           *)
(* transaction, after "error" it does not have it and will not take it     *)
(* any more, unless an answer was lost or the RPC server told of it too    *)
(* late: thirty seconds of polling outlast the thirty seconds that the     *)
(* transaction is valid for, and leave nothing for a server that is late.  *)
OutcomesAreFinal ==
    \A c \in Calls :
      /\ call[c].answer = "success" => call[c].chain = "success"
      /\ call[c].answer = "error" /\ ~call[c].unsure =>
           /\ call[c].chain = "success" => call[c].unseen
           /\ ~(call[c].chain = "pool" /\ call[c].valid > 0
                /\ InSequence(c, Taken))

(* A widget has one call under way at a time; on the dashboard that ends   *)
(* with the first call that finished, whose reset timer makes the button   *)
(* of the next one look idle.                                              *)
OneCallAtATime ==
    \A b, c \in Calls :
      /\ b # c /\ call[b].widget = call[c].widget
      /\ call[b].pc \notin {"new", "done"} /\ call[c].pc \notin {"new", "done"}
      => /\ call[c].widget \in {"card", "row"}
         /\ \E a \in Calls : /\ call[a].widget = call[c].widget
                             /\ call[a].pc = "done"

(* The dashboard's "Claimed" is no promise: the ledger has a claim of this *)
(* campaign, by a key the page had, or the API told of the reward's row.   *)
ClaimedOnLedger ==
    claimed = "claim" \/ ui["card"].status = "success" =>
      \E k \in 0..key : Succeeded("claim_reward", k, Calls) > 0

(* What a page says of its calls, running and over, is so.                 *)
CallsAreTrue == OutcomesAreFinal /\ OneCallAtATime /\ ClaimedOnLedger

(* A call that was started ends: the polling is bounded.                   *)
CallsEnd == \A c \in Calls : call[c].pc = "account" ~> call[c].pc = "done"
=============================================================================
