------------------------------ MODULE Frontend ------------------------------
(***************************************************************************)
(* The frontend, one part in use at a time: the wallet in several tabs,    *)
(* contract calls from a page, a page that loads data, the list of         *)
(* campaigns, the search dialog, the toasts, the merchant's table, a       *)
(* campaign's card.  The parts share no state but the wallet's key, which  *)
(* the other parts take as it comes.                                       *)
(***************************************************************************)
EXTENDS Wallet, Transactions, Views, Feed, Widgets

VARIABLE part

frontendVars ==
    <<part, walletVars, txVars, view, feedVars, board, table, card>>

Parts == {"wallet", "calls", "view", "feed", "search", "toasts", "table",
          "card"}

FrontendInit ==
    /\ part \in Parts
    /\ WalletInit /\ (part # "wallet" => storage = null /\ account = null)
    /\ TxInit /\ (part # "calls" => widgets = {})
    /\ ViewInit
    /\ FeedInit
    /\ board \in {[NoToasts EXCEPT !.kit = k] : k \in BOOLEAN}
    /\ table \in {[NoTable EXCEPT !.rows = rows] : rows \in TableRows}
    /\ card \in {Mounted(e) : e \in Expirations}
    /\ part # "toasts" => ~board.kit
    /\ part # "card" => card.expiration = CHOOSE e \in Expirations : TRUE
    /\ part # "table" => table.rows = CHOOSE rows \in TableRows : TRUE

FrontendNext ==
    /\ UNCHANGED part
    /\ \/ /\ part = "wallet" /\ WalletNext
          /\ UNCHANGED <<txVars, view, feedVars, board, table, card>>
       \/ /\ part = "calls" /\ TxNext
          /\ UNCHANGED <<walletVars, view, feedVars, board, table, card>>
       \/ /\ part = "view" /\ ViewNext
          /\ UNCHANGED <<walletVars, txVars, feedVars, board, table, card>>
       \/ /\ part = "feed" /\ FeedNext
          /\ UNCHANGED <<walletVars, txVars, view, board, table, card>>
       \/ /\ part = "search" /\ SearchNext
          /\ UNCHANGED <<walletVars, txVars, view, board, table, card>>
       \/ /\ part = "toasts" /\ ToastNext
          /\ UNCHANGED <<walletVars, txVars, view, feedVars, table, card>>
       \/ /\ part = "table" /\ TableNext
          /\ UNCHANGED <<walletVars, txVars, view, feedVars, board, card>>
       \/ /\ part = "card" /\ CardNext
          /\ UNCHANGED <<walletVars, txVars, view, feedVars, board, table>>

FrontendSpec ==
    /\ FrontendInit /\ [][FrontendNext]_frontendVars
    /\ WalletFairness /\ TxFairness /\ ViewFairness /\ FeedFairness

(* The part in use is one of the eight and the others rest; their own type  *)
(* invariants hold.                                                        *)
FrontendTypeOK ==
    /\ WalletTypeOK /\ TxTypeOK
    /\ part # "wallet" => \A t \in Tabs : tab[t] = Closed
    /\ part # "calls" => \A c \in Calls : call[c] = NoCall
    /\ part # "view" => view.page = "none"
    /\ part # "feed" => feed = NoFeed
    /\ part # "search" => search = NoSearch
    /\ part # "toasts" => board = NoToasts
    /\ part # "table" => table.events = 0 /\ table.running = {}
    /\ part # "card" => card = Mounted(card.expiration)

(* The tabs and the pages show the key and the answer that hold now.       *)
ShownIsCurrent == TabsAgree /\ PageInRange /\ SettledIsCurrent

(* Nothing is awaited, polled or stale for ever.                           *)
FrontendSettles ==
    WalletSettles /\ CallsEnd /\ LoadingEnds /\ FeedLoadingEnds
=============================================================================
