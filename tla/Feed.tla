-------------------------------- MODULE Feed --------------------------------
(***************************************************************************)
(* The campaigns of the dashboard (frontend/src/app/dashboard/page.tsx),   *)
(* loaded page after page as the end of the list scrolls into view, and    *)
(* the search dialog (frontend/src/components/GlobalSearch.tsx).           *)
(*                                                                         *)
(* The API answers with the rows as frontend/src/lib/api.ts declares them, *)
(* under `campaigns`, or as this commit's backend sends them, under        *)
(* `data`: then `campaigns` is undefined in the code, and a render that    *)
(* reads its length takes the page down.                                   *)
(***************************************************************************)
EXTENDS Naturals, Sequences, SequencesExt

CONSTANTS
    PAGE_SIZE,
    Listed,         \* campaigns on the server, in its order
    MaxLoads,       \* bound on the changes of the wallet, and on failures
    Queries,        \* texts typed, other than the empty one
    Finds,          \* campaigns that each text finds
    MAX_RECENT,
    MaxKeys         \* bound on opening, typing and keys

ASSUME FeedConstants ==
    /\ PAGE_SIZE \in Nat \ {0} /\ MAX_RECENT \in Nat \ {0}
    /\ MaxLoads \in Nat /\ MaxKeys \in Nat
    /\ Listed \in Seq(Nat)
    /\ Finds \in [Queries -> Seq(Nat)]

VARIABLES
    feed,           \* the list of the dashboard
    search          \* the search dialog

feedVars == <<feed, search>>

-----------------------------------------------------------------------------
(* The list.  asked are the requests under way, list is "undefined" after  *)
(* an answer without `campaigns` and "crashed" when that was rendered.     *)
(* overlap is history: a reload began while another request was under way. *)

Unknown == Len(Listed) + 1

NoFeed ==
    [campaigns |-> <<>>, offset |-> 0, total |-> Unknown,
     loadingMore |-> FALSE, campaignError |-> FALSE, asked |-> <<>>,
     changes |-> 0, failures |-> 0, overlap |-> FALSE, list |-> "rows"]

(* A render of the undefined list: nothing more happens on the page.       *)
Crash(f) ==
    [f EXCEPT !.list = "crashed", !.asked = <<>>, !.loadingMore = FALSE,
              !.campaignError = FALSE]

(* loadCampaigns, up to its await.  Without an error the list is rendered. *)
LoadCampaigns(f, offset, replace) ==
    IF f.list = "undefined" THEN Crash(f)
    ELSE [f EXCEPT
           !.loadingMore = TRUE, !.campaignError = FALSE,
           !.asked = Append(@, [offset |-> offset, replace |-> replace]),
           !.overlap = @ \/ (replace /\ f.asked # <<>>)]

(* The key of the wallet is set or changes.                                *)
WalletChanges ==
    /\ feed.changes < MaxLoads /\ feed.list # "crashed"
    /\ feed' = LoadCampaigns([feed EXCEPT !.changes = @ + 1], 0, TRUE)
    /\ UNCHANGED search

HasMore ==
    /\ feed.list # "crashed"
    /\ feed.total # Unknown /\ feed.offset < feed.total

(* Faulty: does not ask whether a page is on its way.                      *)
SentinelSeenTwice ==
    /\ HasMore
    /\ Len(feed.asked) < 2
    /\ feed' = LoadCampaigns(feed, feed.offset, FALSE)
    /\ UNCHANGED search

(* The user scrolls to the end of the list, or has it in view when the     *)
(* observer is created anew after a change.                                *)
SentinelSeen ==
    /\ HasMore /\ ~feed.loadingMore
    /\ feed' = LoadCampaigns(feed, feed.offset, FALSE)
    /\ UNCHANGED search

RetryFeed ==
    /\ feed.campaignError
    /\ feed' = LoadCampaigns(feed, 0, TRUE)
    /\ UNCHANGED search

(* GET /campaigns: the handler turns pages by `page`, which the URL does   *)
(* not have, and does not read its `offset`: always the first page.        *)
Page ==
    SubSeq(Listed, 1,
           IF PAGE_SIZE < Len(Listed) THEN PAGE_SIZE ELSE Len(Listed))

FeedAnswer(i) ==
    LET r == feed.asked[i]
        f == [feed EXCEPT !.asked = RemoveAt(@, i), !.loadingMore = FALSE]
    IN  /\ feed' = IF feed.list = "undefined" /\ ~r.replace THEN Crash(f)
                   ELSE [f EXCEPT
                     !.list = "rows",
                     !.campaigns = IF r.replace THEN Page ELSE @ \o Page,
                     !.offset = r.offset + Len(Page),
                     !.total = Len(Listed)]
        /\ UNCHANGED search

(* An answer without `campaigns`: its length throws after setCampaigns. An *)
(* appended one throws as it is rendered.                                  *)
FeedThrows(i) ==
    LET f == [feed EXCEPT !.asked = RemoveAt(@, i), !.loadingMore = FALSE]
    IN  /\ feed' = IF feed.asked[i].replace
                   THEN [f EXCEPT !.list = "undefined", !.campaignError = TRUE]
                   ELSE Crash(f)
        /\ UNCHANGED search

(* Faulty: the flag is only reset after an answer.                         *)
FeedFailsLoading(i) ==
    /\ feed.failures < MaxLoads
    /\ feed' = [feed EXCEPT !.asked = RemoveAt(@, i), !.campaignError = TRUE,
                            !.failures = @ + 1]
    /\ UNCHANGED search

FeedFails(i) ==
    /\ feed.failures < MaxLoads
    /\ feed' = [feed EXCEPT !.asked = RemoveAt(@, i), !.campaignError = TRUE,
                            !.failures = @ + 1, !.loadingMore = FALSE]
    /\ UNCHANGED search

FeedSettles ==
    \E i \in DOMAIN feed.asked :
      FeedAnswer(i) \/ FeedThrows(i) \/ FeedFails(i)

FeedNext == WalletChanges \/ SentinelSeen \/ RetryFeed \/ FeedSettles

-----------------------------------------------------------------------------
(* The search dialog.  recents is in localStorage, recent what was read of *)
(* it when the dialog opened.  The cursor is one more than the code's.     *)

NoText == ""

(* What may be in the field.                                               *)
Texts == Queries \cup {NoText}

NoSearch ==
    [open |-> FALSE, query |-> NoText, results |-> <<>>, all |-> FALSE,
     asked |-> 0, cursor |-> 1, recent |-> <<>>, recents |-> <<>>,
     keys |-> 0, crashed |-> FALSE]

KeyPress == search.keys < MaxKeys /\ ~search.crashed

Pressed(s) ==
    /\ KeyPress
    /\ search' = [s EXCEPT !.keys = @ + 1]
    /\ UNCHANGED feed

Matches(s) ==
    IF s.query = NoText \/ ~s.all THEN <<>> ELSE Finds[s.query]

(* Faulty: the cursor stays where it is.                                   *)
FilterKeepsCursor(s) == [s EXCEPT !.results = Matches(s)]

(* The effect of [query, allCampaigns].                                    *)
Filter(s) == [s EXCEPT !.results = Matches(s), !.cursor = 1]

(* Cmd+K opens: the three effects of open.  It closes as well.             *)
Toggle ==
    Pressed(IF search.open THEN [search EXCEPT !.open = FALSE]
            ELSE Filter([search EXCEPT
                   !.open = TRUE, !.query = NoText, !.recent = search.recents,
                   !.asked = IF search.all THEN @ ELSE @ + 1]))

Type(q) ==
    /\ search.open
    /\ q # search.query
    /\ Pressed(Filter([search EXCEPT !.query = q]))

(* A recent search is shown while nothing is typed.                        *)
PickRecent ==
    /\ search.query = NoText
    /\ \E q \in Queries : q \in Range(search.recent) /\ Type(q)

(* The list of campaigns arrives, or not: asked for again when opened.     *)
GotCampaigns ==
    /\ search.asked > 0
    /\ search' = Filter([search EXCEPT !.all = TRUE, !.asked = @ - 1])
    /\ UNCHANGED feed

(* An answer without `campaigns` takes the dialog down at its next render. *)
CampaignsUndefined ==
    /\ search.asked > 0
    /\ search' = [search EXCEPT !.open = FALSE, !.asked = 0,
                                !.crashed = TRUE]
    /\ UNCHANGED feed

CampaignsLost ==
    /\ search.asked > 0
    /\ search' = [search EXCEPT !.asked = @ - 1]
    /\ UNCHANGED feed

(* With no results the cursor comes to lie before the list.                *)
ArrowDown ==
    /\ search.open
    /\ LET n == Len(search.results) IN
       Pressed([search EXCEPT !.cursor = IF @ < n THEN @ + 1 ELSE n])

ArrowUp ==
    /\ search.open
    /\ Pressed([search EXCEPT !.cursor = IF @ > 1 THEN @ - 1 ELSE 1])

MouseEnter(i) ==
    /\ search.open /\ i \in DOMAIN search.results
    /\ Pressed([search EXCEPT !.cursor = i])

SaveRecent(q, recents) ==
    LET all == <<q>> \o SelectSeq(recents, LAMBDA r : r # q)
    IN  SubSeq(all, 1, IF Len(all) < MAX_RECENT THEN Len(all) ELSE MAX_RECENT)

(* navigate, by Enter or by a click on a result.                           *)
Navigate(i) ==
    /\ search.open /\ i \in DOMAIN search.results
    /\ Pressed([search EXCEPT
         !.recents = IF search.query = NoText THEN @
                     ELSE SaveRecent(search.query, @),
         !.open = FALSE])

Enter == Navigate(search.cursor)

SearchNext ==
    \/ Toggle \/ PickRecent
    \/ GotCampaigns \/ CampaignsUndefined \/ CampaignsLost
    \/ ArrowDown \/ ArrowUp \/ Enter
    \/ \E q \in Texts : Type(q)
    \/ \E i \in 1..8 : MouseEnter(i) \/ Navigate(i)

-----------------------------------------------------------------------------

FeedInit == feed = NoFeed /\ search = NoSearch

(* Requests settle; nobody need scroll.                                    *)
FeedFairness == WF_feedVars(FeedSettles)

FeedSpec == FeedInit /\ [][FeedNext \/ SearchNext]_feedVars /\ FeedFairness

-----------------------------------------------------------------------------
(* Properties.                                                             *)

(* Scrolling loads a page once and stops at the length the server told: as *)
(* long as no reload overlapped with a request, the list has as many rows  *)
(* as were counted, and less than a page too many.  The rows are those of  *)
(* the first page, again and again: the handler takes no offset.           *)
ListLoadedOnce ==
    feed.list = "rows" =>
      /\ Range(feed.campaigns) \subseteq Range(Page)
      /\ ~feed.overlap =>
           /\ Len(feed.campaigns) = feed.offset
           /\ feed.total # Unknown => feed.offset < feed.total + PAGE_SIZE

(* A load ends, failed or not, so that the end of the list can be seen     *)
(* again and the spinner goes.                                             *)
FeedLoadingEnds == feed.loadingMore ~> ~feed.loadingMore

(* In the open dialog the results are those of the text in the field and   *)
(* Enter goes to one of them, however late the campaigns came and wherever *)
(* the cursor was: without results ArrowDown takes it before the list.     *)
ResultsAreCurrent ==
    search.open =>
      /\ search.results = Matches(search)
      /\ search.results # <<>> => search.cursor \in DOMAIN search.results

(* Neither list, loaded page by page or searched, shows what it should not.*)
ListsAreTrue == ListLoadedOnce /\ ResultsAreCurrent
=============================================================================
