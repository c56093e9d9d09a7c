------------------------------- MODULE Widgets -------------------------------
(***************************************************************************)
(* Parts of the frontend that keep state of their own:                     *)
(*                                                                         *)
(* the notifications of ToastProvider, in the application                  *)
(* (frontend/src/context/ToastContext.tsx) and in the component kit        *)
(* (src/contexts/ToastContext.tsx, src/components/Toast), with the timers  *)
(* that take them away;                                                    *)
(*                                                                         *)
(* the merchant's CampaignTable, searched, sorted, cut into pages, whose   *)
(* rows can be deactivated;                                                *)
(*                                                                         *)
(* a CampaignCard: its countdown, and the dialog of its merchant, which    *)
(* no page has and the card's tests open.                                  *)
(***************************************************************************)
EXTENDS Naturals, Sequences, FiniteSets

CONSTANTS
    MAX_TOASTS,     \* three
    ANIMATION,      \* 300 ms
    Durations,      \* how long toasts are told to stay
    MaxToasts,      \* bound on the toasts
    MaxClicks,      \* bound on their dismissals
    TABLE_PAGE,     \* twenty rows
    TableRows,      \* the lists of campaigns the table may be given
    Searches,       \* by text typed: the ids it finds
    MaxTableEvents, \* bound on what the user does to the table
    MINUTE,         \* the interval of a countdown
    Expirations,    \* of the campaign on the card
    MaxNow,         \* bound on its clock
    MaxAttempts     \* bound on its deactivations

(* A campaign of the table, and the text of a search not begun.            *)
TableRow == [id : Nat \ {0}, reward_amount : Nat, active : BOOLEAN]
Unsearched == ""

DistinctIds(rows) ==
    \A i, j \in DOMAIN rows : rows[i].id = rows[j].id => i = j

ASSUME WidgetConstants ==
    /\ MAX_TOASTS \in Nat \ {0} /\ ANIMATION \in Nat /\ Durations \subseteq Nat
    /\ MaxToasts \in Nat /\ MaxClicks \in Nat
    /\ TABLE_PAGE \in Nat \ {0} /\ MaxTableEvents \in Nat
    /\ TableRows \subseteq Seq(TableRow)
    /\ \A rows \in TableRows : DistinctIds(rows)
    /\ Unsearched \in DOMAIN Searches
    /\ MINUTE \in Nat \ {0} /\ Expirations \subseteq Nat
    /\ MaxNow \in Nat /\ MaxAttempts \in Nat

VARIABLES
    board,          \* the toasts, see NoToasts
    table,          \* the table, see NoTable
    card            \* the card, see Mounted

-----------------------------------------------------------------------------
(* Toasts.                                                                 *)

(* kit says which provider it is, toasts are the ids on the screen (in     *)
(* their order, the newest the largest), timers the auto-dismiss timers    *)
(* and closing those of the kit's animation: <<id, when>>.  issued is      *)
(* history: when each toast was shown, for how long, and whether the user  *)
(* closed it.                                                              *)
NoToasts ==
    [kit |-> FALSE, now |-> 0, toasts |-> {}, timers |-> {},
     closing |-> {}, issued |-> <<>>, clicks |-> 0]

(* Faulty: takes the oldest away.                                          *)
DismissOldest(b, id) ==
    LET oldest == {o \in b.toasts : \A i \in b.toasts : o <= i} IN
    [b EXCEPT !.toasts = @ \ oldest,
              !.timers = {t \in @ : t[1] \notin oldest}]

(* dismiss and removeToast.  A toast that unmounts clears its auto-dismiss *)
(* timer, and not the one of its animation.                                *)
Dismiss(b, id) ==
    [b EXCEPT !.toasts = @ \ {id}, !.timers = {t \in @ : t[1] # id}]

(* onDismiss is dismiss; the kit's handleClose waits for the animation.    *)
OnDismiss(b, id) ==
    IF b.kit THEN [b EXCEPT !.closing = @ \cup {<<id, b.now + ANIMATION>>}]
    ELSE Dismiss(b, id)

(* One more toast for d; the application keeps the newest MAX_TOASTS.      *)
Added(b, d) ==
    LET id == Len(b.issued) + 1
        next == b.toasts \cup {id}
        newer(i) == {j \in next : j > i}
        kept == {i \in next : b.kit \/ Cardinality(newer(i)) < MAX_TOASTS}
    IN  [b EXCEPT
           !.toasts = kept,
           !.timers = {t \in @ \cup {<<id, b.now + d>>} : t[1] \in kept},
           !.issued = Append(@, [at |-> b.now, duration |-> d,
                                 closed |-> FALSE])]

(* Faulty: every render gives the toasts another onDismiss, and their      *)
(* timers start again.                                                     *)
ShowToastRestarts ==
    \E d \in Durations :
      /\ Len(board.issued) < MaxToasts
      /\ LET b == Added(board, d) IN
         board' = [b EXCEPT !.timers =
                     {<<t[1], b.now + b.issued[t[1]].duration>> : t \in @}]

ShowToast ==
    \E d \in Durations :
      /\ Len(board.issued) < MaxToasts
      /\ board' = Added(board, d)

(* The user closes a toast, in the kit also one that is leaving.           *)
ClickDismiss ==
    \E id \in board.toasts :
      /\ board.clicks < MaxClicks
      /\ board' = [OnDismiss(board, id) EXCEPT !.issued[id].closed = TRUE,
                                               !.clicks = @ + 1]

AutoDismiss ==
    \E t \in board.timers :
      /\ t[2] <= board.now
      /\ board' = OnDismiss([board EXCEPT !.timers = @ \ {t}], t[1])

(* The animation of a toast is over; it may be gone already.               *)
OnClose ==
    \E t \in board.closing :
      /\ t[2] <= board.now
      /\ board' = Dismiss([board EXCEPT !.closing = @ \ {t}], t[1])

(* Time passes while a timer runs, and timers fire on time.                *)
TimePasses ==
    /\ board.timers \cup board.closing # {}
    /\ \A t \in board.timers \cup board.closing : t[2] > board.now
    /\ board' = [board EXCEPT !.now = @ + 1]

ToastNext ==
    ShowToast \/ ClickDismiss \/ AutoDismiss \/ OnClose \/ TimePasses

-----------------------------------------------------------------------------
(* The table.                                                              *)

(* confirm and deactivating are ids or 0, running the deactivations under  *)
(* way.  shrunk is history: the list was replaced by one without some      *)
(* campaign of it.                                                         *)
NoTable ==
    [rows |-> <<>>, search |-> Unsearched, sortKey |-> "id", desc |-> TRUE,
     page |-> 1, confirm |-> 0, deactivating |-> 0, running |-> {},
     shrunk |-> FALSE, events |-> 0]

SortKeys == {"id", "reward_amount"}

(* The rows, by their places in the list, that the search finds.           *)
Filtered(t) == {i \in DOMAIN t.rows : t.rows[i].id \in Searches[t.search]}

(* Row i comes before row j: sort is stable.                               *)
Precedes(t, i, j) ==
    LET a == t.rows[i][t.sortKey]
        b == t.rows[j][t.sortKey]
    IN  IF a = b THEN i < j ELSE t.desc = (a > b)

(* The rows that sort puts before row i.                                   *)
Rank(t, i) == Cardinality({j \in Filtered(t) : Precedes(t, j, i)})

TotalPages(t) ==
    LET n == Cardinality(Filtered(t)) IN
    IF n = 0 THEN 1 ELSE (n + TABLE_PAGE - 1) \div TABLE_PAGE

(* Faulty: the pages overlap by a row.                                     *)
PageDataOverlaps(t, page) ==
    {i \in Filtered(t) : /\ (page - 1) * TABLE_PAGE <= Rank(t, i) + 1
                         /\ Rank(t, i) < page * TABLE_PAGE}

PageData(t, page) ==
    {i \in Filtered(t) : /\ (page - 1) * TABLE_PAGE <= Rank(t, i)
                         /\ Rank(t, i) < page * TABLE_PAGE}

(* The user does something that leaves the table in state t.               *)
Does(t) ==
    /\ table.events < MaxTableEvents
    /\ table' = [t EXCEPT !.events = @ + 1]

(* Faulty: stays on its page.                                              *)
TypeSearchOnly(s) == Does([table EXCEPT !.search = s])

TypeSearch(s) == Does([table EXCEPT !.search = s, !.page = 1])

ToggleSort(key) ==
    Does([table EXCEPT !.sortKey = key, !.page = 1,
                       !.desc = (key = table.sortKey /\ ~@)])

Prev == table.page # 1 /\ Does([table EXCEPT !.page = @ - 1])

NextPage ==
    /\ table.page # TotalPages(table)
    /\ Does([table EXCEPT !.page = @ + 1])

Turn == TotalPages(table) > 1 /\ (Prev \/ NextPage)

AskDeactivate ==
    /\ table.confirm = 0
    /\ \E i \in PageData(table, table.page) :
         LET c == table.rows[i] IN
         c.active /\ Does([table EXCEPT !.confirm = c.id])

(* Escape closes the dialog even while it is busy.                         *)
CancelDeactivate ==
    table.confirm # 0 /\ Does([table EXCEPT !.confirm = 0])

(* Faulty: the dialog is busy for its own row only.                        *)
HandleDeactivateOther ==
    /\ table.confirm \notin {0, table.deactivating}
    /\ Does([table EXCEPT !.deactivating = table.confirm,
                          !.running = @ \cup {table.confirm}])

HandleDeactivate ==
    /\ table.confirm # 0 /\ table.deactivating = 0
    /\ Does([table EXCEPT !.deactivating = table.confirm,
                          !.running = @ \cup {table.confirm}])

(* onDeactivate ends, and with it whatever dialog is open; the merchant's  *)
(* page marks the row if it did not throw.                                 *)
Deactivated(id) ==
    /\ id \in table.running
    /\ \E done \in BOOLEAN :
         table' = [table EXCEPT
                     !.running = @ \ {id}, !.deactivating = 0, !.confirm = 0,
                     !.rows = [p \in DOMAIN @ |->
                                 IF done /\ @[p].id = id
                                 THEN [@[p] EXCEPT !.active = FALSE]
                                 ELSE @[p]]]

Ids(rows) == {rows[i].id : i \in DOMAIN rows}

(* A new campaign makes the page load its list again.                      *)
NewRows ==
    \E rows \in TableRows :
      Does([table EXCEPT !.rows = rows,
                         !.shrunk = @ \/ ~(Ids(table.rows)
                                             \subseteq Ids(rows))])

TableNext ==
    \/ \E s \in DOMAIN Searches : TypeSearch(s)
    \/ \E key \in SortKeys : ToggleSort(key)
    \/ Turn \/ AskDeactivate \/ CancelDeactivate \/ HandleDeactivate
    \/ \E id \in table.running : Deactivated(id)
    \/ NewRows

-----------------------------------------------------------------------------
(* The card.                                                               *)

(* calc of useCountdown.                                                   *)
Calc(e, now) == IF now < e THEN e - now ELSE 0

(* left is the countdown's state, fires when its interval fires next (0 if *)
(* it is cleared).  attempts counts deactivations.                         *)
Mounted(e) ==
    [expiration |-> e, now |-> 0, left |-> Calc(e, 0),
     fires |-> IF Calc(e, 0) = 0 THEN 0 ELSE MINUTE,
     showConfirm |-> FALSE, deactivating |-> FALSE, error |-> FALSE,
     active |-> TRUE, attempts |-> 0]

(* Faulty: a timeout in place of the interval.                             *)
CountdownOnce ==
    /\ card.fires # 0 /\ card.fires <= card.now
    /\ card' = [card EXCEPT !.left = Calc(card.expiration, card.now),
                            !.fires = 0]

Countdown ==
    LET left == Calc(card.expiration, card.now) IN
    /\ card.fires # 0 /\ card.fires <= card.now
    /\ card' = [card EXCEPT !.left = left,
                            !.fires = IF left = 0 THEN 0 ELSE @ + MINUTE]

CardTime ==
    /\ card.now < MaxNow
    /\ card.fires = 0 \/ card.fires > card.now
    /\ card' = [card EXCEPT !.now = @ + 1]

CanClaim == card.active /\ card.left > 0

DeactivateButton ==
    /\ card.active /\ ~card.deactivating /\ ~card.showConfirm
    /\ card' = [card EXCEPT !.showConfirm = TRUE]

(* Faulty: the message stays.                                              *)
CancelConfirmOnly ==
    /\ card.showConfirm /\ ~card.deactivating
    /\ card' = [card EXCEPT !.showConfirm = FALSE]

CancelConfirm ==
    /\ card.showConfirm /\ ~card.deactivating
    /\ card' = [card EXCEPT !.showConfirm = FALSE, !.error = FALSE]

HandleDeactivateConfirm ==
    /\ card.attempts < MaxAttempts
    /\ card.showConfirm /\ ~card.deactivating
    /\ card' = [card EXCEPT !.deactivating = TRUE, !.error = FALSE,
                            !.attempts = @ + 1]

(* onDeactivate ends; the page marks the campaign unless it threw.         *)
DeactivateEnds ==
    /\ card.deactivating
    /\ \E done \in BOOLEAN :
         card' = [card EXCEPT !.deactivating = FALSE, !.showConfirm = ~done,
                              !.error = ~done, !.active = @ /\ ~done]

CardNext ==
    \/ Countdown \/ CardTime
    \/ DeactivateButton \/ CancelConfirm \/ HandleDeactivateConfirm
    \/ DeactivateEnds

-----------------------------------------------------------------------------
(* Properties.                                                             *)

(* A toast leaves when its time is over, in the kit after the animation:   *)
(* newer toasts and clicks on it or on others do not keep it.              *)
ToastsExpire ==
    \A id \in board.toasts :
      LET i == board.issued[id] IN
      board.now <= i.at + i.duration + (IF board.kit THEN ANIMATION ELSE 0)

(* ... and not before, unless the user closes it or, in the application,   *)
(* MAX_TOASTS newer ones came: the late timers of toasts that were closed  *)
(* or pushed out take no other away.                                       *)
ToastsStay ==
    \A id \in DOMAIN board.issued :
      LET i == board.issued[id] IN
      /\ ~i.closed /\ board.now < i.at + i.duration
      /\ board.kit \/ Len(board.issued) - id < MAX_TOASTS
      => id \in board.toasts

(* The table is on a page it has, however it was searched and sorted,      *)
(* until its list loses campaigns under it.                                *)
TablePageInRange ==
    table.page >= 1 /\ (table.shrunk \/ table.page <= TotalPages(table))

(* Every campaign that the search finds is on exactly one page, and no     *)
(* page has more rows than its size, whatever ties the sorting has.        *)
PagesPartition ==
    /\ \A i \in Filtered(table) :
         \E n \in 1..TotalPages(table) :
           {m \in 1..TotalPages(table) : i \in PageData(table, m)} = {n}
    /\ \A n \in 1..TotalPages(table) :
         Cardinality(PageData(table, n)) <= TABLE_PAGE

(* A card offers its campaign until it expires and a minute longer at      *)
(* most: the countdown is recomputed once a minute and stops at its end.   *)
ClaimableUntilExpiry ==
    card.active =>
      /\ card.now < card.expiration => CanClaim
      /\ CanClaim => card.now < card.expiration + MINUTE

(* The message of a failed deactivation is seen in the dialog it failed    *)
(* in, and not when the dialog opens again or tries again.                 *)
ErrorIsOfThisAttempt ==
    card.error => card.showConfirm /\ ~card.deactivating /\ card.active

(* One deactivation at a time, though its dialog can be closed and that of *)
(* another row opened meanwhile.                                           *)
OneDeactivation ==
    /\ Cardinality(table.running) <= 1
    /\ (table.deactivating = 0) = (table.running = {})

(* Toasts, table and card show what their timers, clicks and answers left. *)
WidgetsAreTrue ==
    /\ ToastsExpire /\ ToastsStay
    /\ TablePageInRange /\ PagesPartition /\ OneDeactivation
    /\ ClaimableUntilExpiry /\ ErrorIsOfThisAttempt
=============================================================================
