------------------------------- MODULE Wallet -------------------------------
(***************************************************************************)
(* The wallet connection of the browser tabs                               *)
(* (frontend/src/context/WalletContext.tsx), kept in a localStorage entry  *)
(* that the tabs share, and the requests for each tab's balance.           *)
(*                                                                         *)
(* The code between two awaits is one action, the effects of the render it *)
(* causes included.  Storage events reach a tab later, in the order of the *)
(* writes.  lytBalance is left out: the sum reads `data` of an answer that *)
(* the backend sends as `{rewards}`, so it throws and the balance stays 0. *)
(***************************************************************************)
EXTENDS Naturals, Sequences

CONSTANTS
    Tabs,
    Accounts,       \* public keys
    null,           \* no key
    MaxEvents       \* bound on clicks, reloads and account changes

ASSUME WalletConstants == null \notin Accounts /\ MaxEvents \in Nat

VARIABLES
    storage,        \* localStorage[WALLET_STORAGE_KEY]
    account,        \* Freighter: the account it answers with, null if locked
    tab,            \* each tab's state, see TabState
    events,         \* what happened so far, up to MaxEvents
    \* History variable, read by the properties only.
    crossed         \* a tab acted on a key before it saw another's write

walletVars == <<storage, account, tab, events, crossed>>

Key == Accounts \cup {null}

(* restoring is the stored key that a silent restore started from, queue   *)
(* the storage events under way, asked the accounts whose rewards were     *)
(* requested.                                                              *)
TabState ==
    [mounted : BOOLEAN, publicKey : Key, restoring : Key,
     connecting : BOOLEAN, queue : Seq(Key), asked : SUBSET Accounts,
     balanceLoading : BOOLEAN, isPageVisible : BOOLEAN]

Closed ==
    [mounted |-> FALSE, publicKey |-> null, restoring |-> null,
     connecting |-> FALSE, queue |-> <<>>, asked |-> {},
     balanceLoading |-> FALSE, isPageVisible |-> TRUE]

WalletInit ==
    /\ storage \in Key
    /\ account \in Key
    /\ tab = [t \in Tabs |-> Closed]
    /\ events = 0
    /\ crossed = FALSE

-----------------------------------------------------------------------------

Event == events < MaxEvents /\ events' = events + 1

(* setPublicKey and the effect that follows a change: the balance is asked *)
(* for, or reset.                                                          *)
WithKey(s, k) ==
    IF s.publicKey = k THEN s
    ELSE [s EXCEPT !.publicKey = k, !.asked = @ \cup ({k} \ {null}),
                   !.balanceLoading = (k # null)]

(* Tab t goes to state s and writes v to localStorage; a changed value is  *)
(* an event in every other open tab.                                       *)
Write(t, s, v) ==
    /\ storage' = v
    /\ tab' = [u \in Tabs |->
                 IF u = t THEN s
                 ELSE IF tab[u].mounted /\ v # storage
                      THEN [tab[u] EXCEPT !.queue = Append(@, v)]
                      ELSE tab[u]]
    /\ crossed' = (crossed \/ tab[t].queue # <<>>)

OnlyTab(t, s) ==
    tab' = [tab EXCEPT ![t] = s] /\ UNCHANGED <<storage, crossed>>

(* A tab is opened or reloaded: nothing of its state stays.                *)
Mount(t) ==
    /\ Event
    /\ OnlyTab(t, [Closed EXCEPT !.mounted = TRUE, !.restoring = storage])
    /\ UNCHANGED account

(* The answer of getPublicKey to the silent restore.                       *)
Restored(t) ==
    LET stored == tab[t].restoring
        s == [WithKey(tab[t], account) EXCEPT !.restoring = null]
    IN  /\ stored # null
        /\ IF account = stored
           THEN /\ tab' = [tab EXCEPT ![t] = s]
                /\ crossed' = (crossed \/ storage # stored)
                /\ UNCHANGED storage
           ELSE Write(t, s, account)
        /\ UNCHANGED <<account, events>>

(* Faulty: takes no notice of a removed key.                               *)
OnStorageOfKeys(t) ==
    /\ tab[t].queue # <<>>
    /\ LET k == Head(tab[t].queue)
           s == [tab[t] EXCEPT !.queue = Tail(@)]
       IN  OnlyTab(t, IF k = null THEN s ELSE WithKey(s, k))
    /\ UNCHANGED <<account, events>>

OnStorage(t) ==
    /\ tab[t].queue # <<>>
    /\ OnlyTab(t, WithKey([tab[t] EXCEPT !.queue = Tail(@)],
                          Head(tab[t].queue)))
    /\ UNCHANGED <<account, events>>

(* The connect button is there without a key, and disabled meanwhile.      *)
Connect(t) ==
    /\ Event
    /\ tab[t].mounted /\ tab[t].publicKey = null /\ ~tab[t].connecting
    /\ OnlyTab(t, [tab[t] EXCEPT !.connecting = TRUE])
    /\ UNCHANGED account

(* connectWallet answers or throws.                                        *)
Connected(t) ==
    LET s == [tab[t] EXCEPT !.connecting = FALSE] IN
    /\ tab[t].connecting
    /\ IF account = null THEN OnlyTab(t, s)
       ELSE Write(t, WithKey(s, account), account)
    /\ UNCHANGED <<account, events>>

Disconnect(t) ==
    /\ Event
    /\ tab[t].publicKey # null
    /\ Write(t, WithKey(tab[t], null), null)
    /\ UNCHANGED account

(* The 30 s interval of a visible tab.                                     *)
RefreshBalance(t) ==
    /\ tab[t].publicKey # null /\ tab[t].isPageVisible
    /\ OnlyTab(t, [tab[t] EXCEPT !.asked = @ \cup {tab[t].publicKey},
                                 !.balanceLoading = TRUE])
    /\ UNCHANGED <<account, events>>

(* Faulty: no finally.                                                     *)
RewardsSettleBusy(t, k) ==
    /\ k \in tab[t].asked
    /\ OnlyTab(t, [tab[t] EXCEPT !.asked = @ \ {k}])
    /\ UNCHANGED <<account, events>>

(* getUserRewards answers refreshBalance, or rejects; the key may be       *)
(* another by now, and its request under way still.                        *)
RewardsSettle(t, k) ==
    /\ k \in tab[t].asked
    /\ OnlyTab(t, [tab[t] EXCEPT !.asked = @ \ {k},
                                 !.balanceLoading = FALSE])
    /\ UNCHANGED <<account, events>>

VisibilityChange(t) ==
    /\ Event
    /\ tab[t].mounted
    /\ OnlyTab(t, [tab[t] EXCEPT !.isPageVisible = ~@])
    /\ UNCHANGED account

(* The user picks another account in Freighter, or locks it.               *)
SwitchAccount ==
    /\ Event
    /\ account' \in Key \ {account}
    /\ UNCHANGED <<storage, tab, crossed>>

Answers(t) == Restored(t) \/ Connected(t) \/ OnStorage(t)

WalletNext ==
    \/ SwitchAccount
    \/ \E t \in Tabs :
         \/ Mount(t) \/ Connect(t) \/ Disconnect(t) \/ VisibilityChange(t)
         \/ Answers(t) \/ RefreshBalance(t)
         \/ \E k \in Accounts : RewardsSettle(t, k)

(* Promises settle, events arrive.                                         *)
WalletFairness ==
    \A t \in Tabs :
      /\ WF_walletVars(Answers(t))
      /\ \A k \in Accounts : WF_walletVars(RewardsSettle(t, k))

WalletSpec == WalletInit /\ [][WalletNext]_walletVars /\ WalletFairness

-----------------------------------------------------------------------------
(* Properties.                                                             *)

(* A balance is asked for by open tabs only, and loading while it is asked *)
(* for.                                                                    *)
WalletTypeOK ==
    /\ storage \in Key /\ account \in Key
    /\ tab \in [Tabs -> TabState]
    /\ \A t \in Tabs :
         /\ ~tab[t].mounted => tab[t] = Closed
         /\ tab[t].balanceLoading => tab[t].asked # {}

Quiet(t) ==
    /\ tab[t].queue = <<>> /\ tab[t].restoring = null /\ ~tab[t].connecting

(* When nothing is under way, every open tab has the key in localStorage,  *)
(* unless a restore was answered after the entry had changed, or a tab     *)
(* wrote to it with another tab's write unseen.                            *)
TabsAgree ==
    (\A t \in Tabs : Quiet(t)) /\ ~crossed =>
      \A t \in Tabs : tab[t].mounted => tab[t].publicKey = storage

(* Once the user stops, every open tab comes to have the key that is in    *)
(* localStorage, whatever events and answers were under way, and no tab    *)
(* says for ever that its balance is loading.                              *)
WalletSettles ==
    /\ \A t \in Tabs : tab[t].balanceLoading ~> ~tab[t].balanceLoading
    /\ <>[](crossed \/ \A t \in Tabs :
                         tab[t].mounted => tab[t].publicKey = storage)
=============================================================================
