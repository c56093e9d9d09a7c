-------------------------------- MODULE Views --------------------------------
(***************************************************************************)
(* The pages of the frontend that load something for a parameter (the      *)
(* wallet's key, a page number, a period) and load it again when the       *)
(* parameter changes.  No page cancels a request or looks at whose answer  *)
(* it gets.  The answers are in the shape the page reads.                  *)
(*                                                                         *)
(* One page is open.  An operator per page says what its effect does and   *)
(* what it puts on the screen.                                             *)
(***************************************************************************)
EXTENDS Naturals, Sequences, SequencesExt

CONSTANTS
    Owners,         \* keys the wallet may have
    nobody,         \* no key
    HistoryPages,   \* pages of transactions each owner has
    Periods,        \* DATE_RANGES of the analytics page
    MaxAsked,       \* bound on the requests
    MaxChanges      \* bound on the changes of the key

ASSUME ViewConstants ==
    /\ nobody \notin Owners /\ HistoryPages \in [Owners -> Nat]
    /\ MaxAsked \in Nat /\ MaxChanges \in Nat

VARIABLE view       \* the page that is open, see Opened

KeyPages == {"transactions", "history", "profile", "dashboard", "merchant"}
ViewPages == KeyPages \cup {"analytics", "campaigns", "campaign"}

(* key is the wallet's, sub the page number or the period, shown the       *)
(* parameter of the loaded data, asked the requests under way in order,    *)
(* running the key a transaction's handler started with.  History:         *)
(* requests and changes counted, and the fate of the last request.         *)
Opened(page, k) ==
    [page |-> page, key |-> k, sub |-> 0, loading |-> TRUE, error |-> FALSE,
     shown |-> <<nobody, 0>>, loaded |-> FALSE, asked |-> <<>>,
     running |-> nobody, requests |-> 0, changes |-> 0, last |-> "none"]

Param(v) == <<v.key, v.sub>>

Ask(v, p, by) ==
    [v EXCEPT !.asked = Append(@, [param |-> p, by |-> by]),
              !.requests = @ + 1,
              !.last = IF p = Param(v) THEN "pending" ELSE "stale"]

Load(v) == Ask(v, Param(v), "effect")

-----------------------------------------------------------------------------
(* The effects.                                                            *)

TransactionsEffect(v) ==
    IF v.key = nobody THEN [v EXCEPT !.loading = FALSE]
    ELSE Load([v EXCEPT !.loading = TRUE, !.error = FALSE])

(* Faulty: the page number is no dependency of the effect.                 *)
HistoryEffectOnce(v) ==
    IF v.key = nobody \/ (v.loaded /\ v.shown[1] = v.key) THEN v
    ELSE Load([v EXCEPT !.loading = TRUE])

HistoryEffect(v) ==
    IF v.key = nobody THEN v ELSE Load([v EXCEPT !.loading = TRUE])

ProfileEffect(v) == IF v.key = nobody THEN v ELSE Load(v)

LoadRewards(v) ==
    IF v.key = nobody THEN v ELSE Load([v EXCEPT !.error = FALSE])

LoadMerchantCampaigns(v) == IF v.key = nobody THEN v ELSE Load(v)

LoadAnalytics(v) == Load([v EXCEPT !.loading = TRUE, !.error = FALSE])

FetchCampaigns(v) == Load([v EXCEPT !.loading = TRUE, !.error = FALSE])

(* CampaignDetailClient.                                                   *)
LoadCampaign(v) == Load([v EXCEPT !.loading = TRUE])

Effect(v) ==
    CASE v.page = "transactions" -> TransactionsEffect(v)
      [] v.page = "history" -> HistoryEffect(v)
      [] v.page = "profile" -> ProfileEffect(v)
      [] v.page = "dashboard" -> LoadRewards(v)
      [] v.page = "merchant" -> LoadMerchantCampaigns(v)
      [] v.page = "analytics" -> LoadAnalytics(v)
      [] v.page = "campaigns" -> FetchCampaigns(v)
      [] v.page = "campaign" -> LoadCampaign(v)

-----------------------------------------------------------------------------
(* The screens: what is in the main part, and whether an error is told.    *)

HasRows(page, p) ==
    CASE page = "history" -> p[1] # nobody /\ p[2] < HistoryPages[p[1]]
      [] page \in KeyPages -> p[1] # nobody /\ HistoryPages[p[1]] > 0
      [] OTHER -> TRUE

Rows(v) == IF v.loaded /\ HasRows(v.page, v.shown) THEN "rows" ELSE "empty"

Told(kind, error) == [kind |-> kind, error |-> error]

TransactionsScreen(v) ==
    IF v.key = nobody THEN Told("connect", FALSE)
    ELSE IF v.loading THEN Told("loading", FALSE) ELSE Told(Rows(v), v.error)

HistoryScreen(v) ==
    Told(IF v.key = nobody THEN "connect"
         ELSE IF v.loading THEN "loading" ELSE Rows(v), FALSE)

ProfileScreen(v) ==
    Told(IF v.key = nobody THEN "connect" ELSE Rows(v), FALSE)

(* RewardList, behind the WalletGuard.                                     *)
RewardsScreen(v) ==
    IF v.key = nobody THEN Told("blank", FALSE)
    ELSE Told(IF v.error THEN "error" ELSE Rows(v), v.error)

(* Nothing ever resets loading.                                            *)
MerchantScreen(v) ==
    Told(IF v.key = nobody THEN "blank"
         ELSE IF v.loading THEN "loading" ELSE Rows(v), FALSE)

AnalyticsScreen(v) ==
    Told(IF v.loading THEN "loading"
         ELSE IF v.loaded THEN Rows(v) ELSE "blank", v.error)

CampaignsScreen(v) ==
    Told(IF v.loading THEN "loading"
         ELSE IF v.error THEN "error" ELSE Rows(v), v.error)

(* With a campaign it renders one hook more than before, so React throws.  *)
CampaignScreen(v) ==
    IF v.loading THEN Told("loading", FALSE)
    ELSE IF v.error \/ ~v.loaded THEN Told("not found", TRUE)
    ELSE Told("crash", TRUE)

Screen(v) ==
    CASE v.page = "transactions" -> TransactionsScreen(v)
      [] v.page = "history" -> HistoryScreen(v)
      [] v.page = "profile" -> ProfileScreen(v)
      [] v.page = "dashboard" -> RewardsScreen(v)
      [] v.page = "merchant" -> MerchantScreen(v)
      [] v.page = "analytics" -> AnalyticsScreen(v)
      [] v.page = "campaigns" -> CampaignsScreen(v)
      [] v.page = "campaign" -> CampaignScreen(v)

-----------------------------------------------------------------------------
(* Actions.                                                                *)

CanAsk == view.requests < MaxAsked

Visit ==
    /\ view.page = "none"
    /\ \E page \in ViewPages, k \in Owners \cup {nobody} :
         /\ page \notin KeyPages => k = nobody
         /\ view' = Effect(Opened(page, k))

(* The wallet connects, disconnects or changes its account.                *)
KeyChanges ==
    /\ view.page \in KeyPages
    /\ CanAsk /\ view.changes < MaxChanges
    /\ \E k \in (Owners \cup {nobody}) \ {view.key} :
         view' = Effect([view EXCEPT !.key = k, !.changes = @ + 1])

(* Faulty: one page further than there are.                                *)
PagerPastEnd(v) ==
    {n \in {v.sub - 1, v.sub + 1} : n \in 0..HistoryPages[v.shown[1]]}

(* Previous and Next, below the rows if there is more than one page.       *)
Pager(v) ==
    {n \in {v.sub - 1, v.sub + 1} : n \in 0..(HistoryPages[v.shown[1]] - 1)}

SetPage ==
    /\ view.page = "history" /\ CanAsk
    /\ Screen(view).kind = "rows"
    /\ \E n \in Pager(view) : view' = Effect([view EXCEPT !.sub = n])

SetDays ==
    /\ view.page = "analytics" /\ CanAsk
    /\ \E d \in Periods \ {view.sub} :
         view' = Effect([view EXCEPT !.sub = d])

(* The button of ErrorState, where the page has one.                       *)
RetryLoad ==
    /\ view.page \in {"analytics", "campaigns", "dashboard"} /\ CanAsk
    /\ Screen(view).error
    /\ view' = Effect(view)

(* A handler that loads the page's data again when its transaction ends:   *)
(* handleClaim and handleRedeem, and the onSuccess of the creation form.   *)
(* It keeps the key it began with.                                         *)
StartHandler ==
    /\ view.page \in {"dashboard", "merchant"}
    /\ view.key # nobody /\ view.running = nobody
    /\ view' = [view EXCEPT !.running = view.key]

EndHandler ==
    /\ view.running # nobody
    /\ CanAsk
    /\ view' = [Ask(view, <<view.running, 0>>, "handler")
                  EXCEPT !.running = nobody]

Newest(i) == i = Len(view.asked) /\ view.last = "pending"

Settle(v, i) ==
    [v EXCEPT !.asked = RemoveAt(@, i),
              !.loading = @ /\ v.page \in {"profile", "dashboard",
                                           "merchant"}]

Answer(i) ==
    view' = [Settle(view, i) EXCEPT
               !.shown = view.asked[i].param, !.loaded = TRUE,
               !.last = IF Newest(i) THEN "shown"
                        ELSE IF @ \in {"pending", "stale"} THEN @
                        ELSE "overwritten"]

Failed(i, v) ==
    [v EXCEPT
       !.error = @ \/ /\ view.asked[i].by = "effect"
                      /\ v.page \in {"transactions", "dashboard",
                                     "analytics", "campaigns", "campaign"},
       !.last = IF Newest(i) THEN "failed"
                ELSE IF @ = "shown" THEN "overwritten" ELSE @]

(* Faulty: nothing in the place of finally.                                *)
RejectForGood(i) ==
    view' = Failed(i, [view EXCEPT !.asked = RemoveAt(@, i)])

Reject(i) == view' = Failed(i, Settle(view, i))

ViewSettles == \E i \in DOMAIN view.asked : Answer(i) \/ Reject(i)

ViewInit == view = Opened("none", nobody)

ViewNext ==
    \/ Visit \/ KeyChanges \/ SetPage \/ SetDays \/ RetryLoad
    \/ StartHandler \/ EndHandler \/ ViewSettles

(* Requests settle.                                                        *)
ViewFairness == WF_view(ViewSettles)

ViewSpec == ViewInit /\ [][ViewNext]_view /\ ViewFairness

-----------------------------------------------------------------------------
(* Properties.                                                             *)

(* Turning the pages of one account's history never leads past its end:    *)
(* the number of pages an answer told still holds for the page asked next. *)
PageInRange ==
    view.page = "history" /\ view.changes = 0 /\ view.key # nobody =>
      view.sub = 0 \/ view.sub < HistoryPages[view.key]

(* Once the newest request was answered, nothing older came after it and   *)
(* no failure is told, the page shows what its parameter now asks for:     *)
(* every change of the parameter asked again.  (The merchant's table and a *)
(* campaign of its own page are never shown.)                              *)
SettledIsCurrent ==
    /\ view.last = "shown" /\ ~view.error
    /\ view.page \notin {"merchant", "campaign"}
    /\ view.page \in KeyPages => view.key # nobody
    => /\ view.shown = Param(view)
       /\ Screen(view) = Told(IF HasRows(view.page, Param(view))
                              THEN "rows" ELSE "empty", FALSE)

SaysLoading ==
    view.page \notin {"none", "merchant"} /\ Screen(view).kind = "loading"

(* A page other than the merchant's that says it is loading comes to say   *)
(* something else, whatever becomes of its requests.                       *)
LoadingEnds == SaysLoading ~> ~SaysLoading
=============================================================================
