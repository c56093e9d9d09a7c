-------------------------- MODULE Frontend_proofs --------------------------
(***************************************************************************)
(* Proofs about the frontend, part by part and composed: the tabs follow   *)
(* the key in localStorage, what a contract call reports is so, pages show *)
(* the answer to what they ask for now, the list loads a page at a time,   *)
(* the search shows what is typed, and toasts, table and card do what      *)
(* their timers, clicks and answers left.                                  *)
(***************************************************************************)
EXTENDS Frontend, SequenceTheorems, FiniteSetTheorems, TLAPS

-----------------------------------------------------------------------------
(* The wallet.                                                             *)

(* The last element of a sequence is the last of its tail, if it has one.  *)
LEMMA LastOfTail ==
    ASSUME NEW S, NEW q \in Seq(S), q # <<>>
    PROVE  /\ Head(q) \in S /\ Tail(q) \in Seq(S)
           /\ Tail(q) = <<>> => Head(q) = q[Len(q)]
           /\ Tail(q) # <<>> => Tail(q)[Len(Tail(q))] = q[Len(q)]
<1>1. /\ Head(q) \in S /\ Tail(q) \in Seq(S)
      /\ Len(Tail(q)) = Len(q) - 1
      /\ \A i \in 1..Len(Tail(q)) : Tail(q)[i] = q[i + 1]
  BY HeadTailProperties
<1>2. CASE Tail(q) = <<>>
  <2>1. Len(q) - 1 = 0 /\ Len(q) \in Nat
    BY <1>1, <1>2, EmptySeq, LenProperties
  <2>2. Len(q) = 1
    BY <2>1
  <2>3. Head(q) = q[1]
    BY EmptySeq
  <2> QED
    BY <1>1, <1>2, <2>2, <2>3
<1>3. CASE Tail(q) # <<>>
  <2>1. Len(Tail(q)) \in 1..Len(Tail(q))
    BY <1>1, <1>3
  <2> QED
    BY <1>1, <1>3, <2>1
<1> QED
  BY <1>1, <1>2, <1>3

(* What a tab has in common with the storage entry v: the last write it    *)
(* will hear of is v, and with none to come and no restore under way its   *)
(* key is v.                                                               *)
Follows(s, v) ==
    /\ s.queue # <<>> => s.queue[Len(s.queue)] = v
    /\ s.queue = <<>> /\ s.restoring = null => s.publicKey = v

TabsFollow ==
    ~crossed => \A t \in Tabs : tab[t].mounted => Follows(tab[t], storage)

WalletInv == WalletTypeOK /\ crossed \in BOOLEAN /\ TabsFollow

(* A balance is loading while it is asked for.                             *)
Awaits(s) == s.balanceLoading => s.asked # {}

(* A tab that is closed or open keeps its state typed under setPublicKey.  *)
LEMMA WithKeyTyped ==
    ASSUME NEW s \in TabState, NEW k \in Key, Awaits(s)
    PROVE  /\ WithKey(s, k) \in TabState /\ Awaits(WithKey(s, k))
           /\ WithKey(s, k).publicKey = k
           /\ WithKey(s, k).mounted = s.mounted
           /\ WithKey(s, k).queue = s.queue
           /\ WithKey(s, k).restoring = s.restoring
<1>1. /\ {k} \ {null} \in SUBSET Accounts
      /\ k # null => {k} \ {null} # {}
  BY DEF Key
<1>2. CASE s.publicKey = k
  BY <1>2 DEF WithKey
<1>3. CASE s.publicKey # k
  <2> DEFINE new == {k} \ {null}
             w == [s EXCEPT !.publicKey = k, !.asked = @ \cup new,
                            !.balanceLoading = (k # null)]
  <2>1. WithKey(s, k) = w
    BY <1>3 DEF WithKey
  <2>2. /\ w \in TabState /\ w.publicKey = k /\ w.mounted = s.mounted
        /\ w.queue = s.queue /\ w.restoring = s.restoring
        /\ w.asked = s.asked \cup new /\ w.balanceLoading = (k # null)
    <3> HIDE DEF new
    <3>1. (k # null) \in BOOLEAN
      OBVIOUS
    <3> QED
      BY <1>1, <3>1 DEF TabState, new
  <2> HIDE DEF w, new
  <2> QED
    BY <1>1, <2>1, <2>2 DEF Awaits, new
<1> QED
  BY <1>2, <1>3

(* Closed is the state of a tab.                                           *)
LEMMA ClosedTyped ==
    Closed \in TabState /\ Follows(Closed, null) /\ Awaits(Closed)
  BY DEF Closed, TabState, Key, Follows, Awaits

(* A tab that changes on its own keeps the invariant if it still follows   *)
(* the entry.                                                              *)
LEMMA OnlyTabKeeps ==
    ASSUME WalletInv, NEW t \in Tabs, NEW s \in TabState,
           s.mounted, Awaits(s),
           Follows(tab[t], storage) /\ tab[t].mounted => Follows(s, storage),
           ~tab[t].mounted => Follows(s, storage),
           OnlyTab(t, s), account' \in Key
    PROVE  WalletInv'
<1>1. WalletTypeOK'
  BY DEF WalletInv, WalletTypeOK, OnlyTab, Awaits
<1>2. ASSUME ~crossed, NEW u \in Tabs, tab'[u].mounted
      PROVE  Follows(tab'[u], storage)
  <2>1. CASE u = t
    BY <1>2, <2>1 DEF WalletInv, WalletTypeOK, OnlyTab, TabsFollow
  <2>2. CASE u # t
    BY <1>2, <2>2 DEF WalletInv, WalletTypeOK, OnlyTab, TabsFollow
  <2> QED
    BY <2>1, <2>2
<1>3. storage' = storage /\ crossed' = crossed
  BY DEF OnlyTab
<1> HIDE DEF Follows
<1>4. TabsFollow'
  BY <1>2, <1>3 DEF TabsFollow, Follows
<1> QED
  BY <1>1, <1>3, <1>4 DEF WalletInv

(* A write of v by a tab that takes v for its key: the other open tabs     *)
(* will hear of it last.                                                   *)
LEMMA WriteKeeps ==
    ASSUME WalletInv, NEW t \in Tabs, NEW s \in TabState, NEW v \in Key,
           s.mounted, Awaits(s), s.publicKey = v, s.queue = tab[t].queue,
           Write(t, s, v), account' \in Key
    PROVE  WalletInv'
<1>1. ASSUME NEW u \in Tabs, u # t
      PROVE  /\ tab'[u] \in TabState
             /\ tab'[u].mounted = tab[u].mounted
             /\ ~tab[u].mounted => tab'[u] = tab[u]
             /\ Awaits(tab'[u])
             /\ ~crossed /\ tab[u].mounted => Follows(tab'[u], v)
  <2>1. CASE tab[u].mounted /\ v # storage
    <3> DEFINE q == tab[u].queue
    <3>1. tab'[u] = [tab[u] EXCEPT !.queue = Append(q, v)]
      BY <1>1, <2>1 DEF Write
    <3>2. tab[u] \in TabState /\ Awaits(tab[u])
      BY DEF WalletInv, WalletTypeOK, Awaits
    <3>3. q \in Seq(Key)
      BY <3>2 DEF TabState
    <3>4. /\ Append(q, v) \in Seq(Key) /\ Append(q, v) # <<>>
          /\ Append(q, v)[Len(Append(q, v))] = v
      BY <3>3
    <3> HIDE DEF q
    <3> QED
      BY <2>1, <3>1, <3>2, <3>4 DEF TabState, Follows, Awaits
  <2>2. CASE ~(tab[u].mounted /\ v # storage)
    <3>1. tab'[u] = tab[u] /\ tab[u] \in TabState /\ Awaits(tab[u])
      BY <1>1, <2>2 DEF Write, WalletInv, WalletTypeOK, Awaits
    <3> QED
      BY <2>2, <3>1 DEF WalletInv, TabsFollow
  <2> QED
    BY <2>1, <2>2
<1>2. tab'[t] = s /\ DOMAIN tab' = Tabs /\ tab' = [u \in Tabs |-> tab'[u]]
  BY DEF Write
<1>3. storage' = v /\ crossed' = (crossed \/ tab[t].queue # <<>>)
  BY DEF Write
<1>4. WalletTypeOK'
  BY <1>1, <1>2, <1>3 DEF WalletInv, WalletTypeOK, Awaits
<1>5. ASSUME ~crossed', NEW u \in Tabs, tab'[u].mounted
      PROVE  Follows(tab'[u], v)
  <2>1. CASE u = t
    BY <1>2, <1>3, <1>5, <2>1 DEF Follows
  <2>2. CASE u # t
    BY <1>1, <1>3, <1>5, <2>2
  <2> QED
    BY <2>1, <2>2
<1>6. TabsFollow'
  BY <1>3, <1>5 DEF TabsFollow, Follows
<1> QED
  BY <1>3, <1>4, <1>6 DEF WalletInv

(* The initial states: every tab is closed.                                *)
LEMMA WalletInitTyped == WalletInit => WalletInv
<1> SUFFICES ASSUME WalletInit
             PROVE  WalletInv
  OBVIOUS
<1>1. \A t \in Tabs : /\ tab[t] = Closed /\ ~tab[t].mounted
                       /\ ~tab[t].balanceLoading
  BY DEF WalletInit, Closed
<1>2. tab \in [Tabs -> TabState]
  BY ClosedTyped DEF WalletInit
<1>3. storage \in Key /\ account \in Key /\ crossed = FALSE
  BY DEF WalletInit
<1> QED
  BY <1>1, <1>2, <1>3 DEF WalletInv, WalletTypeOK, TabsFollow

(* A silent restore is answered with the stored key or another account.    *)
LEMMA RestoredKeeps ==
    ASSUME WalletInv, NEW t \in Tabs, Restored(t)
    PROVE  WalletInv'
<1> DEFINE stored == tab[t].restoring
           s == [WithKey(tab[t], account) EXCEPT !.restoring = null]
<1>1. /\ tab[t] \in TabState /\ account \in Key /\ account' = account
      /\ Awaits(tab[t])
  BY DEF WalletInv, WalletTypeOK, Restored, Awaits
<1>2. tab[t].mounted
  BY DEF WalletInv, WalletTypeOK, Restored, Closed
<1>3. /\ WithKey(tab[t], account) \in TabState
      /\ Awaits(WithKey(tab[t], account))
      /\ WithKey(tab[t], account).publicKey = account
      /\ WithKey(tab[t], account).mounted
      /\ WithKey(tab[t], account).queue = tab[t].queue
  BY <1>1, <1>2, WithKeyTyped
<1>4. /\ s \in TabState /\ s.publicKey = account /\ s.mounted
      /\ s.queue = tab[t].queue /\ Awaits(s)
  <2>1. null \in Key
    BY DEF Key
  <2> QED
    BY <1>3, <2>1 DEF TabState, Awaits
<1>5. CASE account = stored
  <2>1. /\ tab' = [tab EXCEPT ![t] = s] /\ storage' = storage
        /\ crossed' = (crossed \/ storage # stored)
    BY <1>5 DEF Restored
  <2>2. WalletTypeOK'
    <3> HIDE DEF s
    <3> QED
      BY <1>1, <1>4, <2>1 DEF WalletInv, WalletTypeOK, Awaits
  <2>3. ASSUME ~crossed', NEW u \in Tabs, tab'[u].mounted
        PROVE  Follows(tab'[u], storage)
    <3>1. ~crossed /\ storage = stored
      BY <2>1, <2>3
    <3>2. CASE u = t
      <4>1. tab'[u] = s
        BY <2>1, <3>2 DEF WalletInv, WalletTypeOK
      <4>2. Follows(tab[t], storage)
        BY <1>2, <3>1 DEF WalletInv, TabsFollow
      <4> HIDE DEF s
      <4> QED
        BY <1>4, <1>5, <3>1, <4>1, <4>2 DEF Follows
    <3>3. CASE u # t
      BY <2>1, <2>3, <3>1, <3>3 DEF WalletInv, WalletTypeOK, TabsFollow
    <3> QED
      BY <3>2, <3>3
  <2>4. TabsFollow'
    BY <2>1, <2>3 DEF TabsFollow, Follows
  <2> QED
    BY <2>1, <2>2, <2>4 DEF WalletInv
<1>6. CASE account # stored
  <2>1. Write(t, s, account)
    BY <1>6 DEF Restored
  <2> HIDE DEF s
  <2> QED
    BY <1>1, <1>4, <2>1, WriteKeeps
<1> QED
  BY <1>5, <1>6

(* An event reaches a tab: its key is that of the event.                   *)
LEMMA OnStorageKeeps ==
    ASSUME WalletInv, NEW t \in Tabs, OnStorage(t)
    PROVE  WalletInv'
<1> DEFINE q == tab[t].queue
           r == [tab[t] EXCEPT !.queue = Tail(q)]
           s == WithKey(r, Head(q))
<1>1. tab[t] \in TabState /\ account' \in Key /\ Awaits(tab[t])
  BY DEF WalletInv, WalletTypeOK, OnStorage, Awaits
<1>2. tab[t].mounted /\ q # <<>>
  BY DEF WalletInv, WalletTypeOK, OnStorage, Closed
<1>3. q \in Seq(Key)
  BY <1>1 DEF TabState
<1>4. /\ Head(q) \in Key /\ Tail(q) \in Seq(Key)
      /\ Tail(q) = <<>> => Head(q) = q[Len(q)]
      /\ Tail(q) # <<>> => Tail(q)[Len(Tail(q))] = q[Len(q)]
  BY <1>2, <1>3, LastOfTail
<1>5. /\ r \in TabState /\ r.mounted /\ r.queue = Tail(q)
      /\ r.restoring = tab[t].restoring /\ Awaits(r)
  <2> HIDE DEF q
  <2> QED
    BY <1>1, <1>2, <1>4 DEF TabState, Awaits
<1>6. /\ s \in TabState /\ s.publicKey = Head(q) /\ s.mounted
      /\ s.queue = Tail(q) /\ Awaits(s)
  <2> HIDE DEF r
  <2> QED
    BY <1>4, <1>5, WithKeyTyped
<1>7. OnlyTab(t, s)
  BY DEF OnStorage
<1>8. Follows(tab[t], storage) => Follows(s, storage)
  <2> HIDE DEF s
  <2> QED
    BY <1>2, <1>4, <1>6 DEF Follows
<1> HIDE DEF s
<1> QED
  BY <1>1, <1>2, <1>6, <1>7, <1>8, OnlyTabKeeps

(* The connect dialog ends.                                                *)
LEMMA ConnectedKeeps ==
    ASSUME WalletInv, NEW t \in Tabs, Connected(t)
    PROVE  WalletInv'
<1> DEFINE s == [tab[t] EXCEPT !.connecting = FALSE]
<1>1. /\ tab[t] \in TabState /\ account \in Key /\ account' = account
      /\ Awaits(tab[t])
  BY DEF WalletInv, WalletTypeOK, Connected, Awaits
<1>2. tab[t].mounted
  BY DEF WalletInv, WalletTypeOK, Connected, Closed
<1>3. /\ s \in TabState /\ s.mounted /\ s.queue = tab[t].queue
      /\ s.restoring = tab[t].restoring /\ s.publicKey = tab[t].publicKey
      /\ Awaits(s)
  BY <1>1, <1>2 DEF TabState, Awaits
<1>4. IF account = null THEN OnlyTab(t, s)
      ELSE Write(t, WithKey(s, account), account)
  BY DEF Connected
<1> HIDE DEF s
<1>5. CASE account = null
  BY <1>1, <1>2, <1>3, <1>4, <1>5, OnlyTabKeeps DEF Follows
<1>6. CASE account # null
  <2>1. /\ WithKey(s, account) \in TabState /\ Awaits(WithKey(s, account))
        /\ WithKey(s, account).publicKey = account
        /\ WithKey(s, account).mounted
        /\ WithKey(s, account).queue = tab[t].queue
    BY <1>1, <1>3, WithKeyTyped
  <2> QED
    BY <1>1, <1>4, <1>6, <2>1, WriteKeeps
<1> QED
  BY <1>5, <1>6

(* The user closes the connection.                                         *)
LEMMA DisconnectKeeps ==
    ASSUME WalletInv, NEW t \in Tabs, Disconnect(t)
    PROVE  WalletInv'
<1>1. /\ tab[t] \in TabState /\ account' \in Key /\ null \in Key
      /\ Awaits(tab[t])
  BY DEF WalletInv, WalletTypeOK, Disconnect, Key, Awaits
<1>2. tab[t].mounted
  BY DEF WalletInv, WalletTypeOK, Disconnect, Closed
<1>3. /\ WithKey(tab[t], null) \in TabState /\ Awaits(WithKey(tab[t], null))
      /\ WithKey(tab[t], null).publicKey = null
      /\ WithKey(tab[t], null).mounted
      /\ WithKey(tab[t], null).queue = tab[t].queue
  BY <1>1, <1>2, WithKeyTyped
<1> QED
  BY <1>1, <1>3, WriteKeeps DEF Disconnect

(* A tab changes nothing that the storage entry is about.                  *)
LEMMA AsideKeeps ==
    ASSUME WalletInv, NEW t \in Tabs, NEW s \in TabState, s.mounted,
           tab[t].mounted, Awaits(s),
           s.queue = tab[t].queue, s.restoring = tab[t].restoring,
           s.publicKey = tab[t].publicKey,
           OnlyTab(t, s), account' \in Key
    PROVE  WalletInv'
  BY OnlyTabKeeps DEF Follows

(* The rest of a tab's actions.                                            *)
LEMMA TabKeeps ==
    ASSUME WalletInv, NEW t \in Tabs,
           \/ Mount(t) \/ Connect(t) \/ VisibilityChange(t)
           \/ RefreshBalance(t)
           \/ \E k \in Accounts : RewardsSettle(t, k)
    PROVE  WalletInv'
<1>1. /\ tab[t] \in TabState /\ account \in Key /\ storage \in Key
      /\ Awaits(tab[t])
  BY DEF WalletInv, WalletTypeOK, Awaits
<1>2. ~tab[t].mounted => tab[t] = Closed
  BY DEF WalletInv, WalletTypeOK
<1>3. CASE Mount(t)
  <2> DEFINE s == [Closed EXCEPT !.mounted = TRUE, !.restoring = storage]
  <2>1. /\ s \in TabState /\ s.mounted /\ s.queue = <<>>
        /\ s.restoring = storage /\ s.publicKey = null /\ Awaits(s)
    <3>1. /\ Closed \in TabState /\ Closed.queue = <<>>
          /\ Closed.publicKey = null /\ ~Closed.balanceLoading
      BY ClosedTyped DEF Closed
    <3> HIDE DEF Closed
    <3> QED
      BY <1>1, <3>1 DEF TabState, Awaits
  <2>2. Follows(s, storage)
    BY <2>1 DEF Follows
  <2>3. OnlyTab(t, s) /\ account' = account
    BY <1>3 DEF Mount
  <2> HIDE DEF s
  <2> QED
    BY <1>1, <2>1, <2>2, <2>3, OnlyTabKeeps
<1>4. CASE Connect(t)
  <2> DEFINE s == [tab[t] EXCEPT !.connecting = TRUE]
  <2>1. /\ OnlyTab(t, s) /\ account' = account /\ tab[t].mounted
    BY <1>4 DEF Connect
  <2>2. /\ s \in TabState /\ s.mounted /\ s.queue = tab[t].queue
        /\ s.restoring = tab[t].restoring
        /\ s.publicKey = tab[t].publicKey /\ Awaits(s)
    BY <1>1, <2>1 DEF TabState, Awaits
  <2> HIDE DEF s
  <2> QED
    BY <1>1, <2>1, <2>2, AsideKeeps
<1>5. CASE VisibilityChange(t)
  <2> DEFINE s == [tab[t] EXCEPT !.isPageVisible = ~@]
  <2>1. /\ OnlyTab(t, s) /\ account' = account /\ tab[t].mounted
    BY <1>5 DEF VisibilityChange
  <2>2. /\ s \in TabState /\ s.mounted /\ s.queue = tab[t].queue
        /\ s.restoring = tab[t].restoring
        /\ s.publicKey = tab[t].publicKey /\ Awaits(s)
    BY <1>1, <2>1 DEF TabState, Awaits
  <2> HIDE DEF s
  <2> QED
    BY <1>1, <2>1, <2>2, AsideKeeps
<1>6. CASE RefreshBalance(t)
  <2> DEFINE k == tab[t].publicKey
             s == [tab[t] EXCEPT !.asked = @ \cup {k},
                                 !.balanceLoading = TRUE]
  <2>1. /\ OnlyTab(t, s) /\ account' = account /\ k # null
    BY <1>6 DEF RefreshBalance
  <2>2. tab[t].mounted /\ k \in Accounts
    BY <1>1, <1>2, <2>1 DEF Closed, TabState, Key
  <2>3. /\ s \in TabState /\ s.mounted /\ s.queue = tab[t].queue
        /\ s.restoring = tab[t].restoring
        /\ s.publicKey = tab[t].publicKey /\ Awaits(s)
    <3> HIDE DEF k
    <3> QED
      BY <1>1, <2>2 DEF TabState, Awaits
  <2> HIDE DEF s
  <2> QED
    BY <1>1, <2>1, <2>2, <2>3, AsideKeeps
<1>7. ASSUME NEW k \in Accounts, RewardsSettle(t, k)
      PROVE  WalletInv'
  <2> DEFINE s == [tab[t] EXCEPT !.asked = @ \ {k},
                                 !.balanceLoading = FALSE]
  <2>1. OnlyTab(t, s) /\ account' = account /\ k \in tab[t].asked
    BY <1>7 DEF RewardsSettle
  <2>2. tab[t].mounted
    BY <1>2, <2>1 DEF Closed
  <2>3. /\ s \in TabState /\ s.mounted /\ s.queue = tab[t].queue
        /\ s.restoring = tab[t].restoring
        /\ s.publicKey = tab[t].publicKey /\ Awaits(s)
    BY <1>1, <1>7, <2>2 DEF TabState, Awaits
  <2> HIDE DEF s
  <2> QED
    BY <1>1, <2>1, <2>2, <2>3, AsideKeeps
<1> QED
  BY <1>3, <1>4, <1>5, <1>6, <1>7

(* Every step of the tabs keeps the invariant.                             *)
LEMMA WalletStep == WalletInv /\ [WalletNext]_walletVars => WalletInv'
<1> SUFFICES ASSUME WalletInv, [WalletNext]_walletVars
             PROVE  WalletInv'
  OBVIOUS
<1>1. CASE SwitchAccount
  BY <1>1 DEF SwitchAccount, WalletInv, WalletTypeOK, TabsFollow, Follows
<1>2. ASSUME NEW t \in Tabs, Answers(t)
      PROVE  WalletInv'
  BY <1>2, RestoredKeeps, OnStorageKeeps, ConnectedKeeps DEF Answers
<1>3. ASSUME NEW t \in Tabs,
             \/ Mount(t) \/ Connect(t) \/ VisibilityChange(t)
             \/ RefreshBalance(t)
             \/ \E k \in Accounts : RewardsSettle(t, k)
      PROVE  WalletInv'
  BY <1>3, TabKeeps
<1>4. ASSUME NEW t \in Tabs, Disconnect(t)
      PROVE  WalletInv'
  BY <1>4, DisconnectKeeps
<1>5. CASE UNCHANGED walletVars
  BY <1>5 DEF walletVars, WalletInv, WalletTypeOK, TabsFollow, Follows
<1> QED
  BY <1>1, <1>2, <1>3, <1>4, <1>5 DEF WalletNext

(* The tabs agree where nothing is under way.                              *)
LEMMA FollowersAgree == WalletInv => TabsAgree
  BY DEF WalletInv, TabsFollow, Follows, TabsAgree, Quiet

-----------------------------------------------------------------------------
(* The pages that load data.                                               *)

(* A sequence without its element i has the others, in their order.        *)
LEMMA RemovedFromSeq ==
    ASSUME NEW S, NEW s \in Seq(S), NEW i \in 1..Len(s)
    PROVE  /\ RemoveAt(s, i) \in Seq(S)
           /\ Len(RemoveAt(s, i)) = Len(s) - 1
           /\ \A j \in 1..(Len(s) - 1) :
                RemoveAt(s, i)[j] = IF j < i THEN s[j] ELSE s[j + 1]
<1> DEFINE a == SubSeq(s, 1, i - 1)
           b == SubSeq(s, i + 1, Len(s))
<1>1. Len(s) \in Nat
  OBVIOUS
<1>2. /\ a \in Seq(S) /\ Len(a) = i - 1
      /\ \A j \in 1..(i - 1) : a[j] = s[j]
  BY <1>1, SubSeqProperties
<1>3. /\ b \in Seq(S) /\ Len(b) = Len(s) - i
      /\ \A j \in 1..(Len(s) - i) : b[j] = s[i + j]
  BY <1>1
<1>4. RemoveAt(s, i) = a \o b
  BY DEF RemoveAt
<1> HIDE DEF a, b
<1>5. /\ a \o b \in Seq(S)
      /\ Len(a \o b) = Len(s) - 1
      /\ \A j \in 1..(Len(s) - 1) :
           (a \o b)[j] = IF j <= Len(a) THEN a[j] ELSE b[j - Len(a)]
  <2>1. Len(a) + Len(b) = Len(s) - 1
    BY <1>1, <1>2, <1>3
  <2>2. /\ a \o b \in Seq(S) /\ Len(a \o b) = Len(a) + Len(b)
        /\ \A j \in 1..(Len(a) + Len(b)) :
             (a \o b)[j] = IF j <= Len(a) THEN a[j] ELSE b[j - Len(a)]
    BY <1>2, <1>3, ConcatProperties
  <2> QED
    BY <2>1, <2>2
<1>6. ASSUME NEW j \in 1..(Len(s) - 1)
      PROVE  (a \o b)[j] = IF j < i THEN s[j] ELSE s[j + 1]
  <2>1. CASE j < i
    BY <1>2, <1>5, <2>1
  <2>2. CASE ~(j < i)
    <3>1. j - Len(a) \in 1..(Len(s) - i) /\ i + (j - Len(a)) = j + 1
      BY <1>1, <1>2, <2>2
    <3>2. (a \o b)[j] = b[j - Len(a)]
      BY <1>2, <1>5, <2>2
    <3> QED
      BY <1>3, <2>2, <3>1, <3>2
  <2> QED
    BY <2>1, <2>2
<1> QED
  BY <1>4, <1>5, <1>6

-----------------------------------------------------------------------------
ViewKey == Owners \cup {nobody}
SubValue == Int \cup Periods
Requests == [param : ViewKey \X SubValue, by : {"effect", "handler"}]
Fates == {"none", "pending", "stale", "shown", "overwritten", "failed"}

ViewStates ==
    [page : ViewPages \cup {"none"}, key : ViewKey, sub : SubValue,
     loading : BOOLEAN, error : BOOLEAN, shown : ViewKey \X SubValue,
     loaded : BOOLEAN, asked : Seq(Requests), running : ViewKey,
     requests : Nat, changes : Nat, last : Fates]

(* The page has a parameter to load its data for.                          *)
Keyed(v) == v.page \in KeyPages => v.key # nobody

(* Until the wallet's key changes every request and answer is for it.      *)
OneKey(v) ==
    v.page \in KeyPages /\ v.changes = 0 =>
      /\ \A i \in DOMAIN v.asked : v.asked[i].param[1] = v.key
      /\ v.loaded => v.shown[1] = v.key
      /\ v.running \in {v.key, nobody}

(* What the fate of the last request says of the requests and the screen.  *)
LastTells(v) ==
    /\ v.last = "pending" =>
         /\ v.asked # <<>>
         /\ Keyed(v) => v.asked[Len(v.asked)].param = Param(v)
    /\ v.last = "shown" =>
         /\ v.loaded /\ v.page \in ViewPages
         /\ Keyed(v) => v.shown = Param(v)
         /\ v.page \notin {"profile", "dashboard", "merchant"} => ~v.loading

(* Page numbers are numbers, and pages of a history that no change of the  *)
(* key has taken away; a handler runs on the pages that have one.          *)
PageNumbers(v) ==
    /\ v.page = "history" => v.sub \in Nat
    /\ v.page = "history" /\ v.changes = 0 /\ v.key # nobody =>
         v.sub = 0 \/ v.sub < HistoryPages[v.key]
    /\ v.running # nobody => v.page \in {"dashboard", "merchant"}
    /\ v.asked # <<>> => v.page \in ViewPages

ViewOK(v) ==
    v \in ViewStates /\ OneKey(v) /\ LastTells(v) /\ PageNumbers(v)

ViewInv == ViewOK(view)

(* An element appended to a sequence is its last.                          *)
LEMMA Appended ==
    ASSUME NEW S, NEW s \in Seq(S), NEW x \in S
    PROVE  /\ Append(s, x) \in Seq(S) /\ Append(s, x) # <<>>
           /\ Append(s, x)[Len(Append(s, x))] = x
           /\ \A i \in DOMAIN Append(s, x) :
                \/ Append(s, x)[i] = x
                \/ i \in DOMAIN s /\ Append(s, x)[i] = s[i]
<1>1. /\ Append(s, x) \in Seq(S) /\ Len(Append(s, x)) = Len(s) + 1
      /\ \A i \in 1..Len(s) : Append(s, x)[i] = s[i]
      /\ Append(s, x)[Len(s) + 1] = x
  BY AppendProperties
<1>2. Len(s) \in Nat /\ DOMAIN s = 1..Len(s)
  BY LenProperties
<1>3. DOMAIN Append(s, x) = 1..(Len(s) + 1)
  BY <1>1, LenProperties
<1>4. Append(s, x) # <<>>
  BY <1>1, <1>2, EmptySeq
<1> QED
  BY <1>1, <1>2, <1>3, <1>4

(* An effect asks for the page's parameter, if it has one, and leaves the  *)
(* rest but its flags as it is.                                            *)
LEMMA EffectAsks ==
    ASSUME NEW v \in ViewStates, v.page \in ViewPages
    PROVE  /\ Effect(v) \in ViewStates
           /\ Effect(v).page = v.page /\ Effect(v).key = v.key
           /\ Effect(v).sub = v.sub /\ Effect(v).shown = v.shown
           /\ Effect(v).loaded = v.loaded /\ Effect(v).running = v.running
           /\ Effect(v).changes = v.changes
           /\ Keyed(v) =>
                /\ Effect(v).asked = Append(v.asked, [param |-> Param(v),
                                                      by |-> "effect"])
                /\ Effect(v).last = "pending"
           /\ ~Keyed(v) =>
                /\ Effect(v).asked = v.asked /\ Effect(v).last = v.last
                /\ Effect(v).loading => v.loading
<1> DEFINE r == [param |-> Param(v), by |-> "effect"]
           Asks(e) == /\ e \in ViewStates
                      /\ e.page = v.page /\ e.key = v.key /\ e.sub = v.sub
                      /\ e.shown = v.shown /\ e.loaded = v.loaded
                      /\ e.running = v.running /\ e.changes = v.changes
                      /\ e.asked = Append(v.asked, r) /\ e.last = "pending"
           Rests(e) == /\ e \in ViewStates
                       /\ e.page = v.page /\ e.key = v.key /\ e.sub = v.sub
                       /\ e.shown = v.shown /\ e.loaded = v.loaded
                       /\ e.running = v.running /\ e.changes = v.changes
                       /\ e.asked = v.asked /\ e.last = v.last
                       /\ e.loading => v.loading
<1>1. r \in Requests
  BY DEF ViewStates, Requests, Param
<1>2. v.asked \in Seq(Requests)
  BY DEF ViewStates
<1>3. Append(v.asked, r) \in Seq(Requests)
  BY <1>1, <1>2, Appended
<1>4. ASSUME NEW w \in ViewStates, w.page = v.page, w.key = v.key,
             w.sub = v.sub, w.shown = v.shown, w.loaded = v.loaded,
             w.running = v.running, w.changes = v.changes,
             w.asked = v.asked
      PROVE  Asks(Load(w))
  <2>1. Param(w) = Param(v)
    BY <1>4 DEF Param
  <2>2. Load(w) = [w EXCEPT !.asked = Append(@, r), !.requests = @ + 1,
                            !.last = "pending"]
    BY <2>1 DEF Load, Ask
  <2>3. Append(w.asked, r) \in Seq(Requests)
    BY <1>3, <1>4
  <2> HIDE DEF r
  <2>4. w.requests + 1 \in Nat /\ "pending" \in Fates
    BY DEF ViewStates, Fates
  <2> HIDE DEF Fates
  <2>5. Load(w) \in ViewStates
    BY <2>2, <2>3, <2>4 DEF ViewStates
  <2>6. /\ Load(w).page = v.page /\ Load(w).key = v.key
        /\ Load(w).sub = v.sub /\ Load(w).shown = v.shown
        /\ Load(w).loaded = v.loaded /\ Load(w).running = v.running
        /\ Load(w).changes = v.changes
        /\ Load(w).asked = Append(v.asked, r) /\ Load(w).last = "pending"
    BY <1>4, <2>2 DEF ViewStates
  <2> QED
    BY <2>5, <2>6
<1>5. /\ Asks(Load(v))
      /\ Asks(Load([v EXCEPT !.loading = TRUE]))
      /\ Asks(Load([v EXCEPT !.error = FALSE]))
      /\ Asks(Load([v EXCEPT !.loading = TRUE, !.error = FALSE]))
  <2> HIDE DEF Asks
  <2>1. Asks(Load(v))
    BY <1>4
  <2>2. Asks(Load([v EXCEPT !.loading = TRUE]))
    BY <1>4 DEF ViewStates
  <2>3. Asks(Load([v EXCEPT !.error = FALSE]))
    BY <1>4 DEF ViewStates
  <2>4. Asks(Load([v EXCEPT !.loading = TRUE, !.error = FALSE]))
    BY <1>4 DEF ViewStates
  <2> QED
    BY <2>1, <2>2, <2>3, <2>4
<1>6. Rests(v) /\ Rests([v EXCEPT !.loading = FALSE])
  BY DEF ViewStates
<1> HIDE DEF Asks, Rests
<1>7. IF Keyed(v) THEN Asks(Effect(v)) ELSE Rests(Effect(v))
  BY <1>5, <1>6
     DEF Effect, TransactionsEffect, HistoryEffect, ProfileEffect,
         LoadRewards, LoadMerchantCampaigns, LoadAnalytics,
         FetchCampaigns, LoadCampaign, Keyed, ViewPages, KeyPages
<1> QED
  BY <1>7 DEF Asks, Rests

(* ... so it keeps the invariant, whatever the last request was for.       *)
LEMMA EffectKeeps ==
    ASSUME NEW v \in ViewStates, v.page \in ViewPages,
           OneKey(v), PageNumbers(v), ~Keyed(v) => LastTells(v)
    PROVE  ViewOK(Effect(v))
<1> DEFINE e == Effect(v)
           r == [param |-> Param(v), by |-> "effect"]
<1>1. /\ e \in ViewStates
      /\ e.page = v.page /\ e.key = v.key /\ e.sub = v.sub
      /\ e.shown = v.shown /\ e.loaded = v.loaded
      /\ e.running = v.running /\ e.changes = v.changes
      /\ Keyed(v) => e.asked = Append(v.asked, r) /\ e.last = "pending"
      /\ ~Keyed(v) => /\ e.asked = v.asked /\ e.last = v.last
                      /\ e.loading => v.loading
  BY EffectAsks
<1>2. /\ r \in Requests /\ r.param = Param(v) /\ r.param[1] = v.key
      /\ v.asked \in Seq(Requests)
  BY DEF ViewStates, Requests, Param
<1>3. /\ Append(v.asked, r) # <<>>
      /\ Append(v.asked, r)[Len(Append(v.asked, r))] = r
      /\ \A i \in DOMAIN Append(v.asked, r) :
           \/ Append(v.asked, r)[i] = r
           \/ i \in DOMAIN v.asked /\ Append(v.asked, r)[i] = v.asked[i]
  BY <1>2, Appended
<1>4. Param(e) = Param(v) /\ (Keyed(e) <=> Keyed(v))
  BY <1>1 DEF Param, Keyed
<1> HIDE DEF e, r
<1>5. OneKey(e)
  <2>1. CASE Keyed(v)
    <3> DEFINE q == Append(v.asked, r)
    <3>1. e.asked = q
      BY <1>1, <2>1
    <3>2. \A i \in DOMAIN q :
            \/ q[i] = r
            \/ i \in DOMAIN v.asked /\ q[i] = v.asked[i]
      BY <1>3
    <3> HIDE DEF q
    <3> QED
      BY <1>1, <1>2, <3>1, <3>2 DEF OneKey
  <2>2. CASE ~Keyed(v)
    BY <1>1, <2>2 DEF OneKey
  <2> QED
    BY <2>1, <2>2
<1>6. LastTells(e)
  BY <1>1, <1>2, <1>3, <1>4 DEF LastTells
<1>7. PageNumbers(e)
  BY <1>1 DEF PageNumbers
<1> QED
  BY <1>1, <1>5, <1>6, <1>7 DEF ViewOK, e

(* A page is opened.                                                       *)
LEMMA VisitKeeps == ASSUME ViewInv, Visit PROVE ViewInv'
<1>1. PICK page \in ViewPages, k \in ViewKey :
        view' = Effect(Opened(page, k))
  BY DEF Visit, ViewKey
<1> DEFINE v == Opened(page, k)
<1>2. /\ v \in ViewStates /\ v.page = page /\ v.asked = <<>>
      /\ v.loaded = FALSE /\ v.running = nobody /\ v.last = "none"
      /\ v.sub = 0
  BY DEF Opened, ViewStates, Fates, SubValue, ViewKey
<1>3. OneKey(v) /\ PageNumbers(v) /\ LastTells(v)
  <2> HIDE DEF v
  <2> QED
    BY <1>2 DEF OneKey, PageNumbers, LastTells
<1> HIDE DEF v
<1>4. ViewOK(Effect(v))
  BY <1>2, <1>3, EffectKeeps
<1> QED
  BY <1>1, <1>4 DEF ViewInv, v

(* The wallet has another key, and what was asked for the old one may      *)
(* still be answered.                                                      *)
LEMMA KeyChangesKeeps == ASSUME ViewInv, KeyChanges PROVE ViewInv'
<1>1. PICK k \in ViewKey :
        view' = Effect([view EXCEPT !.key = k, !.changes = @ + 1])
  BY DEF KeyChanges, ViewKey
<1> DEFINE v == [view EXCEPT !.key = k, !.changes = @ + 1]
<1>2. view \in ViewStates /\ view.page \in KeyPages
  BY DEF KeyChanges, ViewInv, ViewOK
<1>3. /\ v \in ViewStates /\ v.page = view.page /\ v.asked = view.asked
      /\ v.loaded = view.loaded /\ v.running = view.running
      /\ v.last = view.last /\ v.sub = view.sub /\ v.changes # 0
      /\ v.loading = view.loading
  <2>1. view.changes + 1 \in Nat \ {0}
    BY <1>2 DEF ViewStates
  <2> QED
    BY <1>2, <2>1 DEF ViewStates
<1>4. OneKey(v) /\ PageNumbers(v) /\ (~Keyed(v) => LastTells(v))
  <2> HIDE DEF v
  <2> QED
    BY <1>2, <1>3 DEF ViewInv, ViewOK, OneKey, PageNumbers, LastTells
<1> HIDE DEF v
<1>5. ViewOK(Effect(v))
  BY <1>2, <1>3, <1>4, EffectKeeps DEF ViewPages
<1> QED
  BY <1>1, <1>5 DEF ViewInv, v

(* Another page of the history: one that the shown answer says there is.   *)
LEMMA SetPageKeeps == ASSUME ViewInv, SetPage PROVE ViewInv'
<1>1. PICK n \in Pager(view) : view' = Effect([view EXCEPT !.sub = n])
  BY DEF SetPage
<1> DEFINE v == [view EXCEPT !.sub = n]
<1>2. view \in ViewStates /\ view.page = "history"
  BY DEF SetPage, ViewInv, ViewOK
<1>3. HistoryScreen(view).kind = "rows"
  BY <1>2 DEF SetPage, Screen
<1>4. view.key # nobody /\ Rows(view) = "rows"
  BY <1>3 DEF HistoryScreen, Told
<1>5. view.loaded
  BY <1>4 DEF Rows
<1>6. /\ n \in 0..(HistoryPages[view.shown[1]] - 1)
  BY DEF Pager
<1>7. /\ v \in ViewStates /\ v.page = view.page /\ v.key = view.key
      /\ v.asked = view.asked /\ v.loaded = view.loaded
      /\ v.shown = view.shown /\ v.running = view.running
      /\ v.changes = view.changes /\ v.sub = n
  BY <1>2, <1>6 DEF ViewStates, SubValue
<1>8. view.changes = 0 => view.shown[1] = view.key
  BY <1>2, <1>5 DEF ViewInv, ViewOK, OneKey, KeyPages
<1>9. OneKey(v) /\ PageNumbers(v) /\ Keyed(v)
  <2>1. view.changes = 0 => HistoryPages[view.key] \in Nat
    BY <1>2, <1>4, ViewConstants DEF ViewStates, ViewKey
  <2>2. n \in Nat /\ (view.changes = 0 => n < HistoryPages[view.key])
    BY <1>6, <1>8, <2>1
  <2> HIDE DEF v
  <2> QED
    BY <1>2, <1>4, <1>7, <2>2
       DEF ViewInv, ViewOK, OneKey, PageNumbers, Keyed
<1> HIDE DEF v
<1>10. ViewOK(Effect(v))
  BY <1>2, <1>7, <1>9, EffectKeeps DEF ViewPages, KeyPages
<1> QED
  BY <1>1, <1>10 DEF ViewInv, v

(* Another period of the analytics.                                        *)
LEMMA SetDaysKeeps == ASSUME ViewInv, SetDays PROVE ViewInv'
<1>1. PICK d \in Periods : view' = Effect([view EXCEPT !.sub = d])
  BY DEF SetDays
<1> DEFINE v == [view EXCEPT !.sub = d]
<1>2. view \in ViewStates /\ view.page = "analytics"
  BY DEF SetDays, ViewInv, ViewOK
<1>3. /\ v \in ViewStates /\ v.page = "analytics" /\ v.key = view.key
      /\ v.asked = view.asked /\ v.running = view.running
  BY <1>2 DEF ViewStates, SubValue
<1>4. OneKey(v) /\ PageNumbers(v) /\ Keyed(v)
  <2> HIDE DEF v
  <2> QED
    BY <1>2, <1>3 DEF ViewInv, ViewOK, OneKey, PageNumbers, Keyed, KeyPages
<1> HIDE DEF v
<1>5. ViewOK(Effect(v))
  BY <1>3, <1>4, EffectKeeps DEF ViewPages
<1> QED
  BY <1>1, <1>5 DEF ViewInv, v

(* The button of an error.                                                 *)
LEMMA RetryLoadKeeps == ASSUME ViewInv, RetryLoad PROVE ViewInv'
<1>1. view.page \in ViewPages /\ view' = Effect(view)
  BY DEF RetryLoad, ViewPages, KeyPages
<1> QED
  BY <1>1, EffectKeeps DEF ViewInv, ViewOK

(* A handler starts with the key of the page ...                           *)
LEMMA StartHandlerKeeps == ASSUME ViewInv, StartHandler PROVE ViewInv'
<1>1. view \in ViewStates /\ view' = [view EXCEPT !.running = view.key]
  BY DEF ViewInv, ViewOK, StartHandler
<1>2. /\ view' \in ViewStates /\ view'.page = view.page
      /\ view'.key = view.key /\ view'.sub = view.sub
      /\ view'.shown = view.shown /\ view'.loaded = view.loaded
      /\ view'.asked = view.asked /\ view'.last = view.last
      /\ view'.changes = view.changes /\ view'.loading = view.loading
      /\ view'.running = view.key
  BY <1>1 DEF ViewStates
<1>3. ViewOK(view')
  BY <1>2 DEF StartHandler, ViewInv, ViewOK, OneKey, LastTells, PageNumbers,
              Keyed, Param
<1> QED
  BY <1>3 DEF ViewInv, ViewOK, OneKey, LastTells, PageNumbers, Keyed, Param

(* ... and asks for the data of that key when it ends.                     *)
LEMMA EndHandlerKeeps == ASSUME ViewInv, EndHandler PROVE ViewInv'
<1> DEFINE p == <<view.running, 0>>
           r == [param |-> p, by |-> "handler"]
<1>1. /\ view \in ViewStates /\ view.page \in {"dashboard", "merchant"}
      /\ view.running # nobody
  BY DEF ViewInv, ViewOK, PageNumbers, EndHandler
<1>2. r \in Requests /\ view.asked \in Seq(Requests)
  BY <1>1 DEF Requests, ViewStates, SubValue
<1>3. /\ Append(view.asked, r) \in Seq(Requests)
      /\ Append(view.asked, r) # <<>>
      /\ Append(view.asked, r)[Len(Append(view.asked, r))] = r
      /\ \A i \in DOMAIN Append(view.asked, r) :
           \/ Append(view.asked, r)[i] = r
           \/ i \in DOMAIN view.asked
              /\ Append(view.asked, r)[i] = view.asked[i]
  BY <1>2, Appended
<1>4. view' = [view EXCEPT !.asked = Append(@, r), !.requests = @ + 1,
                           !.last = IF p = Param(view) THEN "pending"
                                    ELSE "stale",
                           !.running = nobody]
  BY <1>1 DEF EndHandler, Ask, ViewStates
<1>5. r.param = p /\ p[1] = view.running
  OBVIOUS
<1>10. /\ view.requests + 1 \in Nat /\ nobody \in ViewKey
       /\ (IF p = Param(view) THEN "pending" ELSE "stale") \in Fates
  BY <1>1 DEF ViewStates, Fates, ViewKey
<1> HIDE DEF r, p
<1>6. /\ view' \in ViewStates /\ view'.page = view.page
      /\ view'.key = view.key /\ view'.sub = view.sub
      /\ view'.shown = view.shown /\ view'.loaded = view.loaded
      /\ view'.asked = Append(view.asked, r)
      /\ view'.changes = view.changes /\ view'.running = nobody
      /\ view'.last = IF p = Param(view) THEN "pending" ELSE "stale"
  BY <1>1, <1>3, <1>4, <1>10 DEF ViewStates
<1>7. OneKey(view')
  BY <1>1, <1>3, <1>5, <1>6 DEF ViewInv, ViewOK, OneKey
<1>8. LastTells(view')
  BY <1>3, <1>5, <1>6 DEF LastTells, Param
<1>9. PageNumbers(view')
  BY <1>1, <1>6 DEF PageNumbers, ViewPages, KeyPages
<1> QED
  BY <1>6, <1>7, <1>8, <1>9
     DEF ViewInv, ViewOK, OneKey, LastTells, PageNumbers, Keyed, Param

(* A request settles: it is the last one, or the last one stays.           *)
LEMMA SettlesKeeps ==
    ASSUME ViewInv, NEW i \in DOMAIN view.asked, Answer(i) \/ Reject(i)
    PROVE  ViewInv'
<1> DEFINE rest == RemoveAt(view.asked, i)
<1>1. view \in ViewStates /\ view.asked \in Seq(Requests)
  BY DEF ViewInv, ViewOK, ViewStates
<1>2. i \in 1..Len(view.asked) /\ Len(view.asked) \in Nat
  BY <1>1, LenProperties
<1>3. /\ rest \in Seq(Requests) /\ Len(rest) = Len(view.asked) - 1
      /\ DOMAIN rest = 1..(Len(view.asked) - 1)
      /\ \A j \in 1..(Len(view.asked) - 1) :
           rest[j] = IF j < i THEN view.asked[j] ELSE view.asked[j + 1]
  <2>1. /\ rest \in Seq(Requests) /\ Len(rest) = Len(view.asked) - 1
        /\ \A j \in 1..(Len(view.asked) - 1) :
             rest[j] = IF j < i THEN view.asked[j] ELSE view.asked[j + 1]
    BY <1>1, <1>2, RemovedFromSeq
  <2> HIDE DEF rest
  <2> QED
    BY <2>1, LenProperties
<1> HIDE DEF rest
<1>4. \A j \in DOMAIN rest : \E k \in DOMAIN view.asked :
        rest[j] = view.asked[k]
  <2> TAKE j \in DOMAIN rest
  <2>1. j \in DOMAIN view.asked /\ j + 1 \in DOMAIN view.asked
    BY <1>1, <1>2, <1>3, LenProperties
  <2> QED
    BY <1>3, <2>1
<1>5. i # Len(view.asked) =>
        rest # <<>> /\ rest[Len(rest)] = view.asked[Len(view.asked)]
  <2> SUFFICES ASSUME i # Len(view.asked)
               PROVE  rest # <<>>
                      /\ rest[Len(rest)] = view.asked[Len(view.asked)]
    OBVIOUS
  <2>1. Len(rest) \in 1..(Len(view.asked) - 1) /\ ~(Len(rest) < i)
        /\ Len(rest) + 1 = Len(view.asked)
    BY <1>2, <1>3
  <2>2. rest # <<>>
    BY <2>1, EmptySeq
  <2> QED
    BY <1>3, <2>1, <2>2
<1>6. /\ view.asked[i] \in Requests /\ view.page \in ViewPages
      /\ view.asked # <<>>
  <2>1. view.asked # <<>>
    BY <1>2, EmptySeq
  <2> QED
    BY <1>1, <1>2, <2>1 DEF ViewInv, ViewOK, PageNumbers
<1>7. view.asked[i].param \in ViewKey \X SubValue
  BY <1>6 DEF Requests
<1>8. CASE Answer(i)
  <2>1. view' = [view EXCEPT
                   !.asked = rest,
                   !.loading = @ /\ view.page \in {"profile", "dashboard",
                                                   "merchant"},
                   !.shown = view.asked[i].param, !.loaded = TRUE,
                   !.last = IF Newest(i) THEN "shown"
                            ELSE IF @ \in {"pending", "stale"} THEN @
                            ELSE "overwritten"]
    BY <1>1, <1>8 DEF Answer, Settle, rest, ViewStates
  <2>2. /\ view' \in ViewStates /\ view'.page = view.page
        /\ view'.key = view.key /\ view'.sub = view.sub
        /\ view'.shown = view.asked[i].param /\ view'.loaded
        /\ view'.asked = rest /\ view'.running = view.running
        /\ view'.changes = view.changes
        /\ view.page \notin {"profile", "dashboard", "merchant"}
             => ~view'.loading
        /\ view'.last = IF Newest(i) THEN "shown"
                        ELSE IF view.last \in {"pending", "stale"}
                             THEN view.last ELSE "overwritten"
    BY <1>1, <1>3, <1>7, <2>1 DEF ViewStates, Fates
  <2>3. OneKey(view')
    BY <1>4, <2>2 DEF ViewInv, ViewOK, OneKey
  <2>4. LastTells(view')
    BY <1>5, <1>6, <2>2
       DEF ViewInv, ViewOK, LastTells, Keyed, Param, Newest
  <2>5. PageNumbers(view')
    BY <1>6, <2>2 DEF ViewInv, ViewOK, PageNumbers
  <2> QED
    BY <2>2, <2>3, <2>4, <2>5
       DEF ViewInv, ViewOK, OneKey, LastTells, PageNumbers, Keyed, Param
<1>9. CASE Reject(i)
  <2>1. PICK e \in BOOLEAN :
          view' = [view EXCEPT
                     !.asked = rest,
                     !.loading = @ /\ view.page \in {"profile", "dashboard",
                                                     "merchant"},
                     !.error = e,
                     !.last = IF Newest(i) THEN "failed"
                              ELSE IF @ = "shown" THEN "overwritten"
                              ELSE @]
    <3> DEFINE e == view.error \/ /\ view.asked[i].by = "effect"
                                  /\ view.page \in
                                       {"transactions", "dashboard",
                                        "analytics", "campaigns", "campaign"}
    <3>1. e \in BOOLEAN
      BY <1>1 DEF ViewStates
    <3> QED
      BY <1>1, <1>9, <3>1 DEF Reject, Failed, Settle, rest, ViewStates
  <2>2. /\ view' \in ViewStates /\ view'.page = view.page
        /\ view'.key = view.key /\ view'.sub = view.sub
        /\ view'.shown = view.shown /\ view'.loaded = view.loaded
        /\ view'.asked = rest /\ view'.running = view.running
        /\ view'.changes = view.changes
        /\ view'.last = IF Newest(i) THEN "failed"
                        ELSE IF view.last = "shown" THEN "overwritten"
                        ELSE view.last
    BY <1>1, <1>3, <2>1 DEF ViewStates, Fates
  <2>3. OneKey(view')
    BY <1>4, <2>2 DEF ViewInv, ViewOK, OneKey
  <2>4. LastTells(view')
    BY <1>5, <2>2 DEF ViewInv, ViewOK, LastTells, Keyed, Param, Newest
  <2>5. PageNumbers(view')
    BY <1>6, <2>2 DEF ViewInv, ViewOK, PageNumbers
  <2> QED
    BY <2>2, <2>3, <2>4, <2>5
       DEF ViewInv, ViewOK, OneKey, LastTells, PageNumbers, Keyed, Param
<1> QED
  BY <1>8, <1>9

(* No page is open at first.                                               *)
LEMMA ViewInitOK == ViewInit => ViewInv
  BY DEF ViewInit, Opened, ViewInv, ViewOK, ViewStates, Fates, SubValue,
         ViewKey, OneKey, LastTells, PageNumbers

(* Every step of a page keeps the invariant.                               *)
LEMMA ViewStep == ViewInv /\ [ViewNext]_view => ViewInv'
<1> SUFFICES ASSUME ViewInv, [ViewNext]_view
             PROVE  ViewInv'
  OBVIOUS
<1>1. CASE ViewNext
  BY <1>1, VisitKeeps, KeyChangesKeeps, SetPageKeeps, SetDaysKeeps,
     RetryLoadKeeps, StartHandlerKeeps, EndHandlerKeeps, SettlesKeeps
     DEF ViewNext, ViewSettles
<1>2. CASE UNCHANGED view
  BY <1>2 DEF ViewInv, ViewOK, OneKey, LastTells, PageNumbers, Keyed, Param
<1> QED
  BY <1>1, <1>2

(* What is shown of the newest request is what the page would ask for now. *)
LEMMA ShownIsAsked == ViewInv => SettledIsCurrent /\ PageInRange
<1> SUFFICES ASSUME ViewInv
             PROVE  SettledIsCurrent /\ PageInRange
  OBVIOUS
<1>1. PageInRange
  BY DEF ViewInv, ViewOK, PageNumbers, PageInRange
<1>2. SettledIsCurrent
  <2> SUFFICES ASSUME view.last = "shown", ~view.error,
                      view.page \notin {"merchant", "campaign"},
                      view.page \in KeyPages => view.key # nobody
               PROVE  /\ view.shown = Param(view)
                      /\ Screen(view) =
                           Told(IF HasRows(view.page, Param(view))
                                THEN "rows" ELSE "empty", FALSE)
    BY DEF SettledIsCurrent
  <2>1. /\ view.shown = Param(view) /\ view.loaded
        /\ view.page \in ViewPages \ {"merchant", "campaign"}
        /\ view.page \notin {"profile", "dashboard", "merchant"}
             => ~view.loading
        /\ view.error = FALSE
    BY DEF ViewInv, ViewOK, LastTells, Keyed, ViewStates
  <2>2. Rows(view) = IF HasRows(view.page, Param(view)) THEN "rows"
                     ELSE "empty"
    BY <2>1 DEF Rows
  <2>3. Screen(view) = Told(Rows(view), FALSE)
    BY <2>1 DEF Screen, TransactionsScreen, HistoryScreen, ProfileScreen,
                RewardsScreen, AnalyticsScreen, CampaignsScreen, ViewPages,
                KeyPages
  <2> QED
    BY <2>1, <2>2, <2>3
<1> QED
  BY <1>1, <1>2

-----------------------------------------------------------------------------
(* The list of campaigns and the search dialog.                            *)

(* The campaigns of the first page.                                        *)
Sent == Range(Page)

FeedRequests == [offset : Nat, replace : BOOLEAN]

FeedStates ==
    [campaigns : Seq(Sent), offset : Nat, total : {Len(Listed), Unknown},
     loadingMore : BOOLEAN, campaignError : BOOLEAN,
     asked : Seq(FeedRequests), changes : Nat, failures : Nat,
     overlap : BOOLEAN, list : {"rows", "undefined", "crashed"}]

(* Without an overlap there is one request at a time: for the first rows,  *)
(* or for more after as many as the list has, fewer than there are.        *)
OneRequest(f) ==
    /\ Len(f.asked) <= 1
    /\ f.asked # <<>> =>
         /\ f.loadingMore
         /\ IF f.asked[1].replace THEN f.asked[1].offset = 0
            ELSE f.asked[1].offset = f.offset /\ f.offset < Len(Listed)

Counted(f) ==
    /\ Len(f.campaigns) = f.offset
    /\ f.total # Unknown => f.offset < Len(Listed) + PAGE_SIZE

FeedOK(f) ==
    /\ f \in FeedStates
    /\ ~f.overlap => OneRequest(f) /\ Counted(f)

(* The only index of a sequence of at most one element.                    *)
LEMMA OnlyIndex ==
    ASSUME NEW n \in Nat, NEW i \in 1..n, n <= 1
    PROVE  n = 1 /\ i = 1 /\ n - 1 = 0
  OBVIOUS

(* What one page has, of what the server has.                              *)
LEMMA PageTyped ==
    /\ Page \in Seq(Sent) /\ Len(Page) \in Nat
    /\ Len(Listed) \in Nat /\ PAGE_SIZE \in Nat \ {0}
    /\ Len(Page) <= PAGE_SIZE /\ Len(Page) <= Len(Listed)
    /\ Len(Listed) # Unknown
<1> DEFINE n == Len(Listed)
           m == IF PAGE_SIZE < n THEN PAGE_SIZE ELSE n
<1>1. /\ Listed \in Seq(Nat) /\ n \in Nat /\ PAGE_SIZE \in Nat \ {0}
  BY FeedConstants, LenProperties
<1>2. m \in 0..n /\ m <= PAGE_SIZE
  BY <1>1
<1>3. Page = SubSeq(Listed, 1, m)
  BY DEF Page
<1> HIDE DEF n, m
<1>4. Page \in Seq(Nat) /\ Len(Page) = m
  BY <1>1, <1>2, <1>3 DEF n
<1>5. Page \in Seq(Sent)
  BY <1>4, LenProperties DEF Sent, Range
<1> QED
  BY <1>1, <1>2, <1>4, <1>5 DEF n, Unknown

(* A crashed page has no request under way, and the list it had.           *)
LEMMA CrashKeeps ==
    ASSUME NEW f \in FeedStates, f.overlap \/ Counted(f)
    PROVE  FeedOK(Crash(f))
<1> DEFINE e == Crash(f)
<1>1. <<>> \in Seq(FeedRequests) /\ Len(<<>>) = 0
  BY EmptySeq
<1>2. e = [f EXCEPT !.list = "crashed", !.asked = <<>>,
                    !.loadingMore = FALSE, !.campaignError = FALSE]
  BY DEF Crash
<1> HIDE DEF e
<1>3. /\ e \in FeedStates /\ e.asked = <<>> /\ e.overlap = f.overlap
      /\ e.campaigns = f.campaigns /\ e.offset = f.offset
      /\ e.total = f.total
  BY <1>1, <1>2 DEF FeedStates
<1>4. ~e.overlap => OneRequest(e) /\ Counted(e)
  BY <1>1, <1>3 DEF OneRequest, Counted
<1> QED
  BY <1>3, <1>4 DEF FeedOK, e

(* A request for the first page replaces the list ...                      *)
LEMMA ReloadKeeps ==
    ASSUME NEW f \in FeedStates, FeedOK(f)
    PROVE  FeedOK(LoadCampaigns(f, 0, TRUE))
<1> DEFINE r == [offset |-> 0, replace |-> TRUE]
           e == LoadCampaigns(f, 0, TRUE)
<1>1. r \in FeedRequests /\ f.asked \in Seq(FeedRequests)
  BY DEF FeedStates, FeedRequests
<1>2. /\ Append(f.asked, r) \in Seq(FeedRequests)
      /\ f.asked = <<>> => Len(Append(f.asked, r)) = 1
                           /\ Append(f.asked, r)[1] = r
  BY <1>1, AppendProperties, EmptySeq
<1>3. CASE f.list = "undefined"
  BY <1>3, CrashKeeps DEF LoadCampaigns, FeedOK
<1>4. CASE f.list # "undefined"
  <2>1. e = [f EXCEPT !.loadingMore = TRUE, !.campaignError = FALSE,
                      !.asked = Append(@, r),
                      !.overlap = @ \/ f.asked # <<>>]
    BY <1>4 DEF LoadCampaigns
  <2>2. r.replace = TRUE /\ r.offset = 0
    OBVIOUS
  <2> HIDE DEF r, e
  <2>3. /\ e \in FeedStates /\ e.campaigns = f.campaigns
        /\ e.offset = f.offset /\ e.loadingMore = TRUE
        /\ e.asked = Append(f.asked, r) /\ e.total = f.total
        /\ e.overlap = (f.overlap \/ f.asked # <<>>)
    BY <1>2, <2>1 DEF FeedStates
  <2>4. ASSUME ~e.overlap
        PROVE  OneRequest(e) /\ Counted(e)
    <3>1. f.asked = <<>> /\ ~f.overlap
      BY <2>3, <2>4 DEF FeedStates
    <3>2. Len(e.asked) = 1 /\ e.asked[1] = r
      BY <1>2, <2>3, <3>1
    <3>3. OneRequest(e)
      BY <2>2, <2>3, <3>2 DEF OneRequest
    <3>4. Counted(e)
      BY <2>3, <3>1 DEF FeedOK, Counted
    <3> QED
      BY <3>3, <3>4
  <2> QED
    BY <2>3, <2>4 DEF FeedOK, e
<1> QED
  BY <1>3, <1>4

(* ... and the sentinel asks for more, if there is more.                   *)
LEMMA SentinelKeeps ==
    ASSUME NEW f \in FeedStates, FeedOK(f), ~f.loadingMore,
           f.offset < Len(Listed)
    PROVE  FeedOK(LoadCampaigns(f, f.offset, FALSE))
<1> DEFINE r == [offset |-> f.offset, replace |-> FALSE]
           e == LoadCampaigns(f, f.offset, FALSE)
<1>1. r \in FeedRequests /\ f.asked \in Seq(FeedRequests)
  BY DEF FeedStates, FeedRequests
<1>2. /\ Append(f.asked, r) \in Seq(FeedRequests)
      /\ f.asked = <<>> => Len(Append(f.asked, r)) = 1
                           /\ Append(f.asked, r)[1] = r
  BY <1>1, AppendProperties, EmptySeq
<1>3. CASE f.list = "undefined"
  BY <1>3, CrashKeeps DEF LoadCampaigns, FeedOK
<1>4. CASE f.list # "undefined"
  <2>1. e = [f EXCEPT !.loadingMore = TRUE, !.campaignError = FALSE,
                      !.asked = Append(@, r), !.overlap = @ \/ FALSE]
    BY <1>4 DEF LoadCampaigns
  <2>2. r.replace = FALSE /\ r.offset = f.offset
    OBVIOUS
  <2> HIDE DEF r, e
  <2>3. /\ e \in FeedStates /\ e.campaigns = f.campaigns
        /\ e.offset = f.offset /\ e.loadingMore = TRUE
        /\ e.asked = Append(f.asked, r) /\ e.total = f.total
        /\ e.overlap = f.overlap
    BY <1>2, <2>1 DEF FeedStates
  <2>4. ASSUME ~e.overlap
        PROVE  OneRequest(e) /\ Counted(e)
    <3>1. OneRequest(f) /\ Counted(f)
      BY <2>3, <2>4 DEF FeedOK
    <3>2. f.asked = <<>>
      BY <3>1 DEF OneRequest
    <3>3. OneRequest(e)
      BY <1>2, <2>2, <2>3, <3>2 DEF OneRequest
    <3>4. Counted(e)
      BY <2>3, <3>1 DEF Counted
    <3> QED
      BY <3>3, <3>4
  <2> QED
    BY <2>3, <2>4 DEF FeedOK, e
<1> QED
  BY <1>3, <1>4

(* What is left of the requests when one settles.                          *)
LEMMA OneSettles ==
    ASSUME FeedOK(feed), NEW i \in DOMAIN feed.asked
    PROVE  /\ RemoveAt(feed.asked, i) \in Seq(FeedRequests)
           /\ feed.asked[i] \in FeedRequests
           /\ ~feed.overlap =>
                /\ RemoveAt(feed.asked, i) = <<>> /\ i = 1
                /\ Len(RemoveAt(feed.asked, i)) = 0
                /\ feed.asked # <<>>
<1>1. feed.asked \in Seq(FeedRequests)
  BY DEF FeedOK, FeedStates
<1>2. i \in 1..Len(feed.asked) /\ Len(feed.asked) \in Nat
  BY <1>1, LenProperties
<1>3. /\ RemoveAt(feed.asked, i) \in Seq(FeedRequests)
      /\ Len(RemoveAt(feed.asked, i)) = Len(feed.asked) - 1
  BY <1>1, <1>2, RemovedFromSeq
<1>4. ASSUME ~feed.overlap
      PROVE  /\ RemoveAt(feed.asked, i) = <<>> /\ i = 1
             /\ Len(RemoveAt(feed.asked, i)) = 0
             /\ feed.asked # <<>>
  <2>1. Len(feed.asked) <= 1
    BY <1>4 DEF FeedOK, OneRequest
  <2>2. Len(feed.asked) = 1 /\ i = 1 /\ Len(feed.asked) - 1 = 0
    BY <1>2, <2>1, OnlyIndex
  <2> QED
    BY <1>1, <1>3, <2>2, EmptySeq
<1> QED
  BY <1>1, <1>2, <1>3, <1>4

(* An answer adds a page to the list or begins it anew.                    *)
LEMMA FeedAnswerKeeps ==
    ASSUME FeedOK(feed), NEW i \in DOMAIN feed.asked, FeedAnswer(i)
    PROVE  FeedOK(feed')
<1> DEFINE r == feed.asked[i]
           rest == RemoveAt(feed.asked, i)
<1>1. /\ feed \in FeedStates /\ feed.campaigns \in Seq(Sent)
      /\ feed.offset \in Nat /\ Len(feed.campaigns) \in Nat
  <2>1. feed \in FeedStates
    BY DEF FeedOK
  <2>2. feed.campaigns \in Seq(Sent) /\ feed.offset \in Nat
    BY <2>1 DEF FeedStates
  <2> QED
    BY <2>1, <2>2, LenProperties
<1>2. /\ rest \in Seq(FeedRequests) /\ r \in FeedRequests
      /\ ~feed.overlap =>
           rest = <<>> /\ i = 1 /\ Len(rest) = 0 /\ feed.asked # <<>>
  BY OneSettles
<1>3. r.offset \in Nat
  <2> HIDE DEF r
  <2> QED
    BY <1>2 DEF FeedRequests
<1>4. /\ Page \in Seq(Sent) /\ Len(Page) \in Nat
      /\ Len(Listed) \in Nat /\ PAGE_SIZE \in Nat \ {0}
      /\ Len(Page) <= PAGE_SIZE /\ Len(Page) <= Len(Listed)
  BY PageTyped
<1> DEFINE f == [feed EXCEPT !.asked = rest, !.loadingMore = FALSE]
<1>5. /\ f \in FeedStates /\ f.asked = rest /\ f.overlap = feed.overlap
      /\ f.campaigns = feed.campaigns /\ f.offset = feed.offset
      /\ f.total = feed.total
  <2> HIDE DEF rest
  <2> QED
    BY <1>1, <1>2 DEF FeedStates
<1>6. CASE feed.list = "undefined" /\ ~r.replace
  <2>1. feed' = Crash(f)
    BY <1>6 DEF FeedAnswer
  <2> HIDE DEF f
  <2>2. f.overlap \/ Counted(f)
    BY <1>5 DEF FeedOK, Counted
  <2> QED
    BY <1>5, <2>1, <2>2, CrashKeeps
<1>7. CASE ~(feed.list = "undefined" /\ ~r.replace)
  <2> DEFINE rows == IF r.replace THEN Page ELSE feed.campaigns \o Page
  <2>1. feed' = [f EXCEPT !.list = "rows", !.campaigns = rows,
                          !.offset = r.offset + Len(Page),
                          !.total = Len(Listed)]
    BY <1>7 DEF FeedAnswer
  <2> HIDE DEF r, rest, f
  <2>2. /\ rows \in Seq(Sent)
        /\ Len(rows) = IF r.replace THEN Len(Page)
                       ELSE Len(feed.campaigns) + Len(Page)
    BY <1>1, <1>4, ConcatProperties
  <2> HIDE DEF rows
  <2>3. r.offset + Len(Page) \in Nat
    BY <1>3, <1>4
  <2>4. /\ feed' \in FeedStates /\ feed'.asked = rest
        /\ feed'.campaigns = rows /\ feed'.offset = r.offset + Len(Page)
        /\ feed'.total = Len(Listed) /\ feed'.overlap = feed.overlap
    BY <1>5, <2>1, <2>2, <2>3 DEF FeedStates
  <2>5. ASSUME ~feed'.overlap
        PROVE  OneRequest(feed') /\ Counted(feed')
    <3>1. OneRequest(feed) /\ Counted(feed)
      BY <2>4, <2>5 DEF FeedOK
    <3>2. OneRequest(feed')
      BY <1>2, <2>4, <2>5 DEF OneRequest
    <3>3. IF r.replace THEN r.offset = 0
          ELSE r.offset = feed.offset /\ feed.offset < Len(Listed)
      BY <1>2, <2>4, <2>5, <3>1 DEF OneRequest, r
    <3>4. Len(feed.campaigns) = feed.offset
      BY <3>1 DEF Counted
    <3>5. Counted(feed')
      <4>1. CASE r.replace
        BY <1>4, <2>2, <2>4, <3>3, <4>1 DEF Counted
      <4>2. CASE ~r.replace
        BY <1>1, <1>4, <2>2, <2>4, <3>3, <3>4, <4>2 DEF Counted
      <4> QED
        BY <4>1, <4>2
    <3> QED
      BY <3>2, <3>5
  <2> QED
    BY <2>4, <2>5 DEF FeedOK
<1> QED
  BY <1>6, <1>7

(* A request that settles without rows leaves the list as it is.           *)
LEMMA SettledKeeps ==
    ASSUME FeedOK(feed), NEW i \in DOMAIN feed.asked, NEW e \in FeedStates,
           e.asked = RemoveAt(feed.asked, i), e.overlap = feed.overlap,
           e.campaigns = feed.campaigns, e.offset = feed.offset,
           e.total = feed.total
    PROVE  FeedOK(e)
<1>1. ~feed.overlap => e.asked = <<>> /\ Len(e.asked) = 0
  BY OneSettles
<1>2. ~e.overlap => OneRequest(e) /\ Counted(e)
  BY <1>1 DEF FeedOK, OneRequest, Counted
<1> QED
  BY <1>2 DEF FeedOK

(* An answer without rows takes the list, or the page, away.               *)
LEMMA FeedThrowsKeeps ==
    ASSUME FeedOK(feed), NEW i \in DOMAIN feed.asked, FeedThrows(i)
    PROVE  FeedOK(feed')
<1> DEFINE rest == RemoveAt(feed.asked, i)
           f == [feed EXCEPT !.asked = rest, !.loadingMore = FALSE]
           e == [f EXCEPT !.list = "undefined", !.campaignError = TRUE]
<1>1. feed \in FeedStates /\ rest \in Seq(FeedRequests)
  BY OneSettles DEF FeedOK
<1>2. feed' = IF feed.asked[i].replace THEN e ELSE Crash(f)
  BY DEF FeedThrows
<1> HIDE DEF rest
<1>3. /\ f \in FeedStates /\ f.asked = rest /\ f.overlap = feed.overlap
      /\ f.campaigns = feed.campaigns /\ f.offset = feed.offset
      /\ f.total = feed.total
  BY <1>1 DEF FeedStates
<1> HIDE DEF f
<1>4. /\ e \in FeedStates /\ e.asked = rest /\ e.overlap = feed.overlap
      /\ e.campaigns = feed.campaigns /\ e.offset = feed.offset
      /\ e.total = feed.total
  BY <1>3 DEF FeedStates
<1> HIDE DEF e
<1>5. FeedOK(e)
  BY <1>4, SettledKeeps DEF rest
<1>6. FeedOK(Crash(f))
  <2>1. f.overlap \/ Counted(f)
    BY <1>3 DEF FeedOK, Counted
  <2> QED
    BY <1>3, <2>1, CrashKeeps
<1> QED
  BY <1>2, <1>5, <1>6

(* A failure leaves the list as it is.                                     *)
LEMMA FeedFailsKeeps ==
    ASSUME FeedOK(feed), NEW i \in DOMAIN feed.asked, FeedFails(i)
    PROVE  FeedOK(feed')
<1> DEFINE rest == RemoveAt(feed.asked, i)
<1>1. feed \in FeedStates /\ rest \in Seq(FeedRequests)
  BY OneSettles DEF FeedOK
<1>2. feed' = [feed EXCEPT !.asked = rest, !.campaignError = TRUE,
                           !.failures = @ + 1, !.loadingMore = FALSE]
  BY DEF FeedFails
<1> HIDE DEF rest
<1>3. /\ feed' \in FeedStates /\ feed'.asked = rest
      /\ feed'.campaigns = feed.campaigns /\ feed'.offset = feed.offset
      /\ feed'.total = feed.total /\ feed'.overlap = feed.overlap
  <2>1. feed.failures + 1 \in Nat
    BY <1>1 DEF FeedStates
  <2> QED
    BY <1>1, <1>2, <2>1 DEF FeedStates
<1> QED
  BY <1>3, SettledKeeps DEF rest

(* Every step of the list keeps the invariant.                             *)
LEMMA FeedStep == FeedOK(feed) /\ [FeedNext]_feed => FeedOK(feed')
<1> SUFFICES ASSUME FeedOK(feed), [FeedNext]_feed
             PROVE  FeedOK(feed')
  OBVIOUS
<1>1. feed \in FeedStates
  BY DEF FeedOK
<1>2. CASE WalletChanges
  <2> DEFINE f == [feed EXCEPT !.changes = @ + 1]
  <2>1. /\ f \in FeedStates /\ f.asked = feed.asked
        /\ f.campaigns = feed.campaigns /\ f.offset = feed.offset
        /\ f.total = feed.total /\ f.overlap = feed.overlap
        /\ f.loadingMore = feed.loadingMore
    <3>1. feed.changes + 1 \in Nat
      BY <1>1 DEF FeedStates
    <3> QED
      BY <1>1, <3>1 DEF FeedStates
  <2> HIDE DEF f
  <2>2. FeedOK(f)
    BY <2>1 DEF FeedOK, OneRequest, Counted
  <2>3. FeedOK(LoadCampaigns(f, 0, TRUE))
    BY <2>1, <2>2, ReloadKeeps
  <2> QED
    BY <1>2, <2>3 DEF WalletChanges, f
<1>3. CASE SentinelSeen
  <2>1. feed.total = Len(Listed)
    BY <1>1, <1>3 DEF SentinelSeen, HasMore, FeedStates
  <2> QED
    BY <1>1, <1>3, <2>1, SentinelKeeps DEF SentinelSeen, HasMore
<1>4. CASE RetryFeed
  BY <1>1, <1>4, ReloadKeeps DEF RetryFeed
<1>5. CASE FeedSettles
  BY <1>5, FeedAnswerKeeps, FeedThrowsKeeps, FeedFailsKeeps DEF FeedSettles
<1>6. CASE UNCHANGED feed
  BY <1>6
<1> QED
  BY <1>2, <1>3, <1>4, <1>5, <1>6 DEF FeedNext

(* The list is empty at first.                                             *)
LEMMA NoFeedOK == FeedOK(NoFeed)
<1>1. /\ <<>> \in Seq(Sent) /\ <<>> \in Seq(FeedRequests)
      /\ Len(<<>>) = 0
  BY EmptySeq
<1> QED
  BY <1>1 DEF NoFeed, FeedOK, FeedStates, OneRequest, Counted

(* The list has as many rows as were counted, all of the first page.       *)
LEMMA FeedIsCounted == FeedOK(feed) => ListLoadedOnce
<1> SUFFICES ASSUME FeedOK(feed)
             PROVE  ListLoadedOnce
  OBVIOUS
<1>1. feed \in FeedStates
  BY DEF FeedOK
<1>2. feed.campaigns \in Seq(Sent) /\ feed.total \in {Len(Listed), Unknown}
  BY <1>1 DEF FeedStates
<1>3. Range(feed.campaigns) \subseteq Range(Page)
  <2>1. \A j \in DOMAIN feed.campaigns : feed.campaigns[j] \in Sent
    BY <1>2, LenProperties
  <2> QED
    BY <2>1 DEF Range, Sent
<1>4. feed.total # Unknown => feed.total = Len(Listed)
  BY <1>2
<1>5. ~feed.overlap =>
        /\ Len(feed.campaigns) = feed.offset
        /\ feed.total # Unknown => feed.offset < feed.total + PAGE_SIZE
  BY <1>4 DEF FeedOK, Counted
<1> QED
  BY <1>3, <1>5 DEF ListLoadedOnce

-----------------------------------------------------------------------------
(* The dialog's results, text and cursor.                                  *)
SearchFields ==
    {"open", "query", "results", "all", "asked", "cursor", "recent",
     "recents", "keys", "crashed"}

SearchOK(s) ==
    /\ DOMAIN s = SearchFields
    /\ s.query \in Texts /\ s.results \in Seq(Nat)
    /\ s.cursor \in Nat
    /\ s.open => /\ s.results = Matches(s)
                 /\ s.results # <<>> => s.cursor \in 1..Len(s.results)

(* Whatever the text and the campaigns are, the effect finds the results   *)
(* again and puts the cursor on the first.                                 *)
LEMMA FilterKeeps ==
    ASSUME NEW s,
           DOMAIN s = SearchFields,
           s.query \in Texts
    PROVE  /\ SearchOK(Filter(s))
           /\ SearchOK([Filter(s) EXCEPT !.keys = @ + 1])
<1>1. Matches(s) \in Seq(Nat)
  <2>1. CASE s.query = NoText \/ ~s.all
    BY <2>1, EmptySeq DEF Matches
  <2>2. CASE ~(s.query = NoText \/ ~s.all)
    BY <2>2, FeedConstants DEF Matches, Texts
  <2> QED
    BY <2>1, <2>2
<1> DEFINE m == Matches(s)
<1>2. m # <<>> => 1 \in 1..Len(m)
  <2> HIDE DEF m
  <2> SUFFICES ASSUME m # <<>>
               PROVE  1 \in 1..Len(m)
    OBVIOUS
  <2>1. Len(m) \in Nat \ {0}
    BY <1>1, EmptySeq DEF m
  <2> QED
    BY <2>1
<1> DEFINE f == [s EXCEPT !.results = m, !.cursor = 1]
           g == [f EXCEPT !.keys = @ + 1]
<1>3. /\ f.open = s.open /\ f.query = s.query /\ f.results = m
      /\ f.all = s.all /\ f.cursor = 1
      /\ DOMAIN f = SearchFields
  <2> HIDE DEF m
  <2> QED
    BY DEF SearchFields
<1>4. /\ g.open = s.open /\ g.query = s.query /\ g.results = m
      /\ g.all = s.all /\ g.cursor = 1
      /\ DOMAIN g = SearchFields
  <2> HIDE DEF f, m
  <2> QED
    BY <1>3 DEF SearchFields
<1>5. Filter(s) = f /\ [Filter(s) EXCEPT !.keys = @ + 1] = g
  BY DEF Filter
<1> HIDE DEF f, g
<1>6. Matches(f) = m /\ Matches(g) = m
  BY <1>3, <1>4 DEF Matches
<1>7. SearchOK(f) /\ SearchOK(g)
  <2> HIDE DEF m
  <2>1. m \in Seq(Nat)
    BY <1>1 DEF m
  <2>2. SearchOK(f)
    <3>1. /\ f.results = Matches(f)
          /\ f.results # <<>> => f.cursor \in 1..Len(f.results)
      BY <1>2, <1>3, <1>6
    <3> QED
      BY <1>3, <2>1, <3>1 DEF SearchOK
  <2>3. SearchOK(g)
    <3>1. /\ g.results = Matches(g)
          /\ g.results # <<>> => g.cursor \in 1..Len(g.results)
      BY <1>2, <1>4, <1>6
    <3> QED
      BY <1>4, <2>1, <3>1 DEF SearchOK
  <2> QED
    BY <2>2, <2>3
<1> QED
  BY <1>5, <1>7

(* A key that moves the cursor keeps it on a result, if there are any.     *)
LEMMA CursorKeeps ==
    ASSUME SearchOK(search), search.open, NEW c \in Nat,
           search.results # <<>> => c \in 1..Len(search.results),
           Pressed([search EXCEPT !.cursor = c])
    PROVE  SearchOK(search')
<1> DEFINE s == [[search EXCEPT !.cursor = c] EXCEPT !.keys = @ + 1]
<1>1. search' = s
  BY DEF Pressed
<1>2. /\ s.open = search.open /\ s.query = search.query
      /\ s.results = search.results /\ s.all = search.all /\ s.cursor = c
      /\ DOMAIN s = SearchFields
  BY DEF SearchOK, SearchFields
<1> HIDE DEF s
<1>3. Matches(s) = Matches(search)
  BY <1>2 DEF Matches
<1>4. SearchOK(s)
  BY <1>2, <1>3 DEF SearchOK
<1> QED
  BY <1>1, <1>4

(* The dialog closes: nothing is promised of it until it opens again.      *)
LEMMA ClosingKeeps ==
    ASSUME SearchOK(search), NEW s, DOMAIN s = SearchFields, ~s.open,
           s.query = search.query, s.results = search.results,
           s.cursor = search.cursor, Pressed(s)
    PROVE  SearchOK(search')
<1> DEFINE r == [s EXCEPT !.keys = @ + 1]
<1>1. search' = r
  BY DEF Pressed
<1>2. /\ DOMAIN r = SearchFields /\ ~r.open /\ r.query = search.query
      /\ r.results = search.results /\ r.cursor = search.cursor
  BY DEF SearchFields
<1> HIDE DEF r
<1>3. SearchOK(r)
  BY <1>2 DEF SearchOK
<1> QED
  BY <1>1, <1>3

(* A text is typed or picked.                                              *)
LEMMA TypeKeeps ==
    ASSUME SearchOK(search), NEW q \in Texts, Type(q)
    PROVE  SearchOK(search')
<1> DEFINE s == [search EXCEPT !.query = q]
<1>1. /\ s.query = q
      /\ DOMAIN s = SearchFields
  BY DEF SearchOK, SearchFields
<1>2. search' = [Filter(s) EXCEPT !.keys = @ + 1]
  BY DEF Type, Pressed
<1> HIDE DEF s
<1> QED
  BY <1>1, <1>2, FilterKeeps

(* The dialog opens or closes.                                             *)
LEMMA ToggleKeeps == ASSUME SearchOK(search), Toggle PROVE SearchOK(search')
<1>1. CASE search.open
  <2> DEFINE s == [search EXCEPT !.open = FALSE]
  <2>1. Pressed(s)
    BY <1>1 DEF Toggle
  <2>2. /\ DOMAIN s = SearchFields /\ ~s.open /\ s.query = search.query
        /\ s.results = search.results /\ s.cursor = search.cursor
    BY DEF SearchOK, SearchFields
  <2> HIDE DEF s
  <2> QED
    BY <2>1, <2>2, ClosingKeeps
<1>2. CASE ~search.open
  <2> DEFINE n == IF search.all THEN search.asked ELSE search.asked + 1
             s == [search EXCEPT !.open = TRUE, !.query = NoText,
                                 !.recent = search.recents, !.asked = n]
  <2>1. /\ s.query = NoText
        /\ DOMAIN s = SearchFields
    BY DEF SearchOK, SearchFields
  <2>2. search' = [Filter(s) EXCEPT !.keys = @ + 1]
    BY <1>2 DEF Toggle, Pressed
  <2> HIDE DEF s
  <2> QED
    BY <2>1, <2>2, FilterKeeps DEF Texts
<1> QED
  BY <1>1, <1>2

(* The campaigns come, or not.                                             *)
LEMMA CampaignsKeep ==
    ASSUME SearchOK(search),
           GotCampaigns \/ CampaignsUndefined \/ CampaignsLost
    PROVE  SearchOK(search')
<1>1. CASE GotCampaigns
  <2> DEFINE s == [search EXCEPT !.all = TRUE, !.asked = @ - 1]
  <2>1. /\ s.query = search.query
        /\ DOMAIN s = SearchFields
    BY DEF SearchOK, SearchFields
  <2>2. search' = Filter(s)
    BY <1>1 DEF GotCampaigns
  <2>3. s.query \in Texts
    BY <2>1 DEF SearchOK
  <2> HIDE DEF s
  <2> QED
    BY <2>1, <2>2, <2>3, FilterKeeps
<1>2. CASE CampaignsLost
  <2> DEFINE s == [search EXCEPT !.asked = @ - 1]
  <2>1. /\ s.open = search.open /\ s.query = search.query
        /\ s.results = search.results /\ s.all = search.all
        /\ s.cursor = search.cursor
        /\ DOMAIN s = SearchFields
    BY DEF SearchOK, SearchFields
  <2>2. search' = s
    BY <1>2 DEF CampaignsLost
  <2> HIDE DEF s
  <2>3. Matches(s) = Matches(search)
    BY <2>1 DEF Matches
  <2>4. SearchOK(s)
    BY <2>1, <2>3 DEF SearchOK
  <2> QED
    BY <2>2, <2>4
<1>3. CASE CampaignsUndefined
  <2> DEFINE s == [search EXCEPT !.open = FALSE, !.asked = 0,
                                 !.crashed = TRUE]
  <2>1. /\ ~s.open /\ s.query = search.query
        /\ s.results = search.results /\ s.cursor = search.cursor
        /\ DOMAIN s = SearchFields
    BY DEF SearchOK, SearchFields
  <2>2. search' = s
    BY <1>3 DEF CampaignsUndefined
  <2> HIDE DEF s
  <2>3. SearchOK(s)
    BY <2>1 DEF SearchOK
  <2> QED
    BY <2>2, <2>3
<1> QED
  BY <1>1, <1>2, <1>3

(* Every step of the dialog keeps the invariant.                           *)
LEMMA SearchStep ==
    SearchOK(search) /\ [SearchNext]_search => SearchOK(search')
<1> SUFFICES ASSUME SearchOK(search), [SearchNext]_search
             PROVE  SearchOK(search')
  OBVIOUS
<1>1. /\ search.cursor \in Nat /\ search.results \in Seq(Nat)
      /\ Len(search.results) \in Nat
      /\ search.results # <<>> => Len(search.results) \in Nat \ {0}
      /\ DOMAIN search.results = 1..Len(search.results)
  <2>1. search.cursor \in Nat /\ search.results \in Seq(Nat)
    BY DEF SearchOK
  <2> QED
    BY <2>1, EmptySeq, LenProperties
<1>2. CASE \/ Toggle
           \/ GotCampaigns \/ CampaignsUndefined \/ CampaignsLost
  BY <1>2, ToggleKeeps, CampaignsKeep
<1>3. CASE PickRecent \/ \E q \in Texts : Type(q)
  BY <1>3, TypeKeeps DEF PickRecent, Texts
<1>4. CASE ArrowDown
  <2> DEFINE n == Len(search.results)
             c == IF search.cursor < n THEN search.cursor + 1 ELSE n
  <2>1. search.open /\ Pressed([search EXCEPT !.cursor = c])
    BY <1>4 DEF ArrowDown
  <2>2. c \in Nat /\ (search.results # <<>> => c \in 1..n)
    BY <1>1
  <2> QED
    BY <2>1, <2>2, CursorKeeps
<1>5. CASE ArrowUp
  <2> DEFINE c == IF search.cursor > 1 THEN search.cursor - 1 ELSE 1
  <2>1. search.open /\ Pressed([search EXCEPT !.cursor = c])
    BY <1>5 DEF ArrowUp
  <2>2. search.results # <<>> => search.cursor \in 1..Len(search.results)
    BY <2>1 DEF SearchOK
  <2>3. c \in Nat /\ (search.results # <<>> => c \in 1..Len(search.results))
    BY <1>1, <2>2
  <2> QED
    BY <2>1, <2>3, CursorKeeps
<1>6. ASSUME NEW i \in 1..8, MouseEnter(i)
      PROVE  SearchOK(search')
  BY <1>1, <1>6, CursorKeeps DEF MouseEnter
<1>7. ASSUME NEW i, Navigate(i)
      PROVE  SearchOK(search')
  <2> DEFINE recents == IF search.query = NoText THEN search.recents
                        ELSE SaveRecent(search.query, search.recents)
             s == [search EXCEPT !.recents = recents, !.open = FALSE]
  <2>1. Pressed(s)
    BY <1>7 DEF Navigate
  <2> HIDE DEF recents
  <2>2. /\ DOMAIN s = SearchFields /\ ~s.open /\ s.query = search.query
        /\ s.results = search.results /\ s.cursor = search.cursor
    BY DEF SearchOK, SearchFields
  <2> HIDE DEF s
  <2> QED
    BY <2>1, <2>2, ClosingKeeps
<1>8. CASE UNCHANGED search
  BY <1>8 DEF SearchOK, Matches
<1> QED
  BY <1>2, <1>3, <1>4, <1>5, <1>6, <1>7, <1>8 DEF SearchNext, Enter

(* The dialog is closed at first.                                          *)
LEMMA NoSearchOK == SearchOK(NoSearch)
  BY EmptySeq DEF NoSearch, SearchOK, SearchFields, Texts

(* The results are those of the text.                                      *)
LEMMA SearchIsCurrent == SearchOK(search) => ResultsAreCurrent
  BY LenProperties DEF SearchOK, ResultsAreCurrent

-----------------------------------------------------------------------------
(* The contract calls.                                                     *)

CallStates ==
    [widget : AllWidgets \cup {"none"}, key : Nat,
     pc : {"new", "account", "simulate", "sign", "send", "poll", "reload",
           "done"},
     seq : Nat, valid : 0..TIMEOUT, attempts : 0..ATTEMPTS, wait : {0, 1},
     chain : {"out", "pool", "success", "failed"}, age : 0..LAG,
     answer : {"none", "success", "error"}, unsure : BOOLEAN,
     unseen : BOOLEAN]

Statuses == {"idle", "loading", "success", "error", "retryable"}

UiStates == [status : Statuses, dialog : BOOLEAN, timers : Nat]

(* What one call of a page with the widgets W knows: its transaction is    *)
(* not out before it is sent, the polls so far leave no more time than the *)
(* transaction has, and what it answered is final, or was not yet told.    *)
CallOK(k, W) ==
    /\ k \in CallStates
    /\ k.pc = "new" => k.widget = "none"
    /\ k.pc # "new" => k.widget \in W \ {"browse"}
    /\ k.pc \in {"new", "account", "simulate", "sign", "send"} =>
         k.chain = "out" /\ k.attempts = 0 /\ k.wait = 0
    /\ k.pc = "poll" =>
         k.valid = 0 \/ k.valid + k.attempts <= TIMEOUT + k.wait
    /\ k.pc = "reload" => k.chain = "success"
    /\ k.pc # "done" => k.answer = "none"
    /\ k.answer = "success" => k.chain = "success"
    /\ k.answer = "error" /\ ~k.unsure =>
         /\ k.chain = "success" => k.unseen
         /\ k.chain = "pool" => k.valid = 0
    /\ k.chain = "pool" => k.seq > 0

Busy(w, k) == k.widget = w /\ k.pc \notin {"new", "done"}

(* A widget without a reset timer has at most one call under way, and      *)
(* shows that it has: always on the forms, until its first call is over on *)
(* the dashboard.  The cards have no dialog.                               *)
WidgetOK(w, k, u) ==
    /\ w \in {"card", "browse"} => ~u.dialog
    /\ \/ w \in {"form", "create"}
       \/ w # "browse" /\ \A c \in Calls : k[c].widget = w => k[c].pc # "done"
       => /\ u.timers = 0
          /\ \A b, c \in Calls : Busy(w, k[b]) /\ Busy(w, k[c]) => b = c
          /\ \A c \in Calls : Busy(w, k[c]) =>
               /\ \/ u.status = "loading"
                  \/ w = "row" /\ k[c].pc = "reload" /\ u.status = "success"
               /\ w = "row" => ~u.dialog

TxTyped ==
    /\ widgets \in DOMAIN Pages
    /\ ui \in [AllWidgets -> UiStates]
    /\ key \in Nat /\ loads \in Nat
    /\ claimed \in {"no", "claim", "rows"} /\ networkDisabled \in BOOLEAN
    /\ call \in [Calls -> CallStates]
    /\ lost \in Nat

CallsOK == \A c \in Calls : CallOK(call[c], widgets) /\ call[c].key \in 0..key

(* What the dashboard says of a claim of its own.                          *)
SaysClaimed == claimed = "claim" \/ ui["card"].status = "success"

Claims == SaysClaimed => \E c \in Calls : /\ call[c].chain = "success"
                                          /\ call[c].widget = "card"

WidgetsOK == \A w \in AllWidgets : WidgetOK(w, call, ui[w])

TxInv == TxTyped /\ CallsOK /\ Claims /\ WidgetsOK

(* The widgets of a page are widgets, and its calls are calls.             *)
LEMMA PageFacts ==
    ASSUME TxTyped
    PROVE  /\ widgets \subseteq AllWidgets
           /\ 1..Pages[widgets].calls \subseteq Calls
<1>1. /\ widgets \in SUBSET AllWidgets /\ Pages[widgets].calls \in 0..MaxCalls
      /\ MaxCalls \in Nat
  BY TransactionConstants DEF TxTyped
<1> QED
  BY <1>1 DEF Calls

(* The ledger has at most as many transactions of a key as there are       *)
(* calls.                                                                  *)
LEMMA SequenceBound ==
    ASSUME NEW k, NEW S \in SUBSET Calls
    PROVE  Sequence(k, S) \in Nat /\ Sequence(k, S) <= MaxCalls
<1> DEFINE T == {c \in S : call[c].key = k}
<1>1. /\ IsFiniteSet(1..MaxCalls)
      /\ Cardinality(1..MaxCalls) = MaxCalls
  BY TransactionConstants, FS_Interval
<1>2. T \subseteq 1..MaxCalls
  BY DEF Calls
<1>3. IsFiniteSet(T) /\ Cardinality(T) <= Cardinality(1..MaxCalls)
  BY <1>1, <1>2, FS_Subset
<1>4. Cardinality(T) \in Nat
  BY <1>3, FS_CardinalityType
<1> QED
  BY <1>1, <1>3, <1>4 DEF Sequence

(* The transactions in the ledger, and those told of, are of calls.        *)
LEMMA OfCalls == Taken \in SUBSET Calls /\ Known \in SUBSET Calls
  BY DEF Taken, Known

(* What a widget shows when its handler ends.                              *)
LEMMA AfterTyped ==
    ASSUME NEW w \in AllWidgets \ {"browse"},
           ui \in [AllWidgets -> UiStates], NEW status \in Statuses
    PROVE  /\ After(w, status) \in UiStates
           /\ w = "card" => /\ After(w, status).status = status
                            /\ After(w, status).dialog = ui[w].dialog
           /\ w \in {"form", "create"} /\ ui[w].timers = 0
                => After(w, status).timers = 0
<1>1. ui[w] \in UiStates
  OBVIOUS
<1>2. ui[w].timers + 1 \in Nat
  BY <1>1 DEF UiStates
<1>3. CASE w \in {"card", "row"}
  BY <1>1, <1>2, <1>3 DEF After, UiStates
<1>4. CASE w = "form"
  BY <1>1, <1>4 DEF After, UiStates, Idle, Statuses
<1>5. CASE w = "create"
  BY <1>1, <1>5 DEF After, UiStates
<1> QED
  BY <1>3, <1>4, <1>5 DEF AllWidgets

(* Whatever step throws, the widget of the call shows an error.            *)
LEMMA FailShows ==
    ASSUME NEW c \in Calls, NEW step, Fail(c, step)
    PROVE  \E status \in Statuses \ {"success"} :
             ui' = [ui EXCEPT ![call[c].widget] =
                      After(call[c].widget, status)]
  BY DEF Fail, Parse, Statuses

-----------------------------------------------------------------------------
(* One call moves on: what is known of the others, and of what the account *)
(* has claimed, stays.                                                     *)
LEMMA OneCallMoves ==
    ASSUME TxInv, NEW c \in Calls, NEW k, CallOK(k, widgets), k.key \in 0..key,
           call' = [call EXCEPT ![c] = k],
           UNCHANGED <<widgets, key, loads, networkDisabled>>,
           ui' \in [AllWidgets -> UiStates], lost' \in Nat,
           claimed' \in {"no", "claim", "rows"},
           call[c].chain = "success" =>
             k.chain = "success" /\ k.widget = call[c].widget,
           SaysClaimed' => SaysClaimed \/ (k.chain = "success"
                                           /\ k.widget = "card")
    PROVE  TxTyped' /\ CallsOK' /\ Claims'
<1>1. k \in CallStates /\ call \in [Calls -> CallStates]
  BY DEF CallOK, TxInv, TxTyped
<1>2. /\ call'[c] = k /\ call' \in [Calls -> CallStates]
      /\ \A b \in Calls : b # c => call'[b] = call[b]
  BY <1>1
<1>3. TxTyped'
  BY <1>2 DEF TxInv, TxTyped
<1>4. CallsOK'
  BY <1>2 DEF TxInv, CallsOK, CallOK
<1>5. Claims'
  <2> SUFFICES ASSUME SaysClaimed'
               PROVE  \E b \in Calls : /\ call'[b].chain = "success"
                                       /\ call'[b].widget = "card"
    BY DEF Claims
  <2>1. CASE SaysClaimed
    <3>1. PICK b \in Calls : /\ call[b].chain = "success"
                             /\ call[b].widget = "card"
      BY <2>1 DEF TxInv, Claims
    <3> QED
      BY <1>2, <3>1
  <2>2. CASE k.chain = "success" /\ k.widget = "card"
    BY <1>2, <2>2
  <2> QED
    BY <2>1, <2>2
<1> QED
  BY <1>3, <1>4, <1>5

(* A step inside invokeContract says nothing to the widgets.               *)
LEMMA GoesOn ==
    ASSUME TxInv, NEW c \in Calls, NEW k, CallOK(k, widgets),
           call' = [call EXCEPT ![c] = k],
           UNCHANGED <<pageVars, ui, lost>>, k.key = call[c].key,
           call[c].pc \notin {"new", "reload", "done"},
           k.pc \notin {"new", "done"},
           call[c].chain # "success" \/ k.chain = "success",
           k.widget = call[c].widget
    PROVE  TxInv'
<1>1. TxTyped' /\ CallsOK' /\ Claims'
  <2>1. /\ UNCHANGED <<widgets, key, loads, networkDisabled>>
        /\ claimed' = claimed /\ ui' = ui /\ lost' = lost
    BY DEF pageVars
  <2>2. SaysClaimed' = SaysClaimed /\ k.key \in 0..key
    BY <2>1 DEF SaysClaimed, TxInv, CallsOK
  <2> QED
    BY <2>1, <2>2, OneCallMoves DEF TxInv, TxTyped
<1>2. /\ call'[c] = k
      /\ \A b \in Calls : b # c => call'[b] = call[b]
  BY DEF TxInv, TxTyped
<1>3. \A b \in Calls, w \in AllWidgets : Busy(w, call'[b]) <=> Busy(w, call[b])
  BY <1>2 DEF Busy
<1>4. \A b \in Calls, w \in AllWidgets :
        /\ call'[b].widget = call[b].widget
        /\ call'[b].pc = "done" <=> call[b].pc = "done"
        /\ call[b].pc = "reload" => call'[b].pc = "reload"
  BY <1>2
<1>5. ASSUME NEW w \in AllWidgets
      PROVE  WidgetOK(w, call', ui'[w])
  <2>1. WidgetOK(w, call, ui[w]) /\ ui' = ui
    BY DEF TxInv, WidgetsOK, pageVars
  <2> HIDE DEF Busy
  <2> QED
    BY <1>3, <1>4, <2>1 DEF WidgetOK
<1> QED
  BY <1>1, <1>5 DEF TxInv, WidgetsOK

(* The handler of a call ends and tells its widget.                        *)
LEMMA Ends ==
    ASSUME TxInv, NEW c \in Calls, NEW k, CallOK(k, widgets),
           call' = [call EXCEPT ![c] = k], k.pc = "done",
           call[c].pc \notin {"new", "done"},
           k.widget = call[c].widget, k.key = call[c].key,
           NEW status \in Statuses,
           status = "success" => k.chain = "success",
           ui' = [ui EXCEPT ![call[c].widget] =
                    After(call[c].widget, status)],
           UNCHANGED <<widgets, key, loads, networkDisabled>>,
           lost' \in Nat, claimed' \in {"no", "claim", "rows"},
           call[c].chain = "success" => k.chain = "success",
           claimed' = "claim" =>
             claimed = "claim" \/ (k.chain = "success" /\ k.widget = "card")
    PROVE  TxInv'
<1> DEFINE w == call[c].widget
           u == After(w, status)
<1>1. w \in AllWidgets \ {"browse"} /\ ui \in [AllWidgets -> UiStates]
  BY PageFacts DEF TxInv, TxTyped, CallsOK, CallOK
<1>2. /\ u \in UiStates
      /\ w = "card" => u.status = status /\ u.dialog = ui[w].dialog
      /\ w \in {"form", "create"} /\ ui[w].timers = 0 => u.timers = 0
  BY <1>1, AfterTyped
<1>3. /\ ui' \in [AllWidgets -> UiStates] /\ ui'[w] = u
      /\ \A v \in AllWidgets \ {w} : ui'[v] = ui[v]
  <2> HIDE DEF u
  <2> QED
    BY <1>1, <1>2 DEF u
<1>4. TxTyped' /\ CallsOK' /\ Claims'
  <2>1. "card" \in AllWidgets /\ k.key \in 0..key
    BY DEF AllWidgets, TxInv, CallsOK
  <2> HIDE DEF u
  <2>2. SaysClaimed' => SaysClaimed \/ (k.chain = "success"
                                        /\ k.widget = "card")
    BY <1>2, <1>3, <2>1 DEF SaysClaimed
  <2> QED
    BY <1>3, <2>1, <2>2, OneCallMoves
<1>5. /\ call'[c] = k
      /\ \A b \in Calls : b # c => call'[b] = call[b]
  BY DEF TxInv, TxTyped
<1>6. ASSUME NEW v \in AllWidgets
      PROVE  WidgetOK(v, call', ui'[v])
  <2>1. WidgetOK(v, call, ui[v])
    BY DEF TxInv, WidgetsOK
  <2>2. CASE v = w /\ v \in {"form", "create"}
    <3>1. /\ ui[w].timers = 0
          /\ \A b, d \in Calls : Busy(w, call[b]) /\ Busy(w, call[d]) => b = d
      BY <2>1, <2>2 DEF WidgetOK
    <3>2. Busy(w, call[c]) /\ ~Busy(w, call'[c])
      BY <1>5 DEF Busy
    <3>3. \A b \in Calls : ~Busy(w, call'[b])
      BY <1>5, <3>1, <3>2
    <3> QED
      BY <1>2, <1>3, <2>2, <3>1, <3>3 DEF WidgetOK
  <2>3. CASE v = w /\ v \notin {"form", "create"}
    <3> HIDE DEF u
    <3> QED
      BY <1>1, <1>2, <1>3, <1>5, <2>1, <2>3 DEF WidgetOK
  <2>4. CASE v # w
    <3>1. ui'[v] = ui[v]
      BY <1>3, <2>4
    <3>2. \A b \in Calls : /\ Busy(v, call'[b]) <=> Busy(v, call[b])
                           /\ Busy(v, call'[b]) => call'[b] = call[b]
      BY <1>5, <2>4 DEF Busy
    <3>3. (\A b \in Calls : call'[b].widget = v => call'[b].pc # "done")
            => \A b \in Calls : call[b].widget = v => call[b].pc # "done"
      BY <1>5, <2>4
    <3> QED
      BY <2>1, <3>1, <3>2, <3>3 DEF WidgetOK
  <2> QED
    BY <2>2, <2>3, <2>4
<1> QED
  BY <1>4, <1>6 DEF TxInv, WidgetsOK

(* A widget that is changed without a call: it stays as busy as it was.    *)
LEMMA WidgetShows ==
    ASSUME TxInv, NEW w \in AllWidgets, NEW u \in UiStates, Show(w, u),
           WidgetOK(w, call, u),
           w = "card" => u.status \in {ui[w].status, "idle"}
    PROVE  TxInv'
<1>1. /\ ui' \in [AllWidgets -> UiStates] /\ ui'[w] = u
      /\ \A v \in AllWidgets \ {w} : ui'[v] = ui[v]
      /\ UNCHANGED <<widgets, key, loads, claimed, networkDisabled>>
      /\ UNCHANGED <<call, lost>>
  BY DEF Show, TxInv, TxTyped, pageVars
<1>2. WidgetsOK'
  <2> SUFFICES ASSUME NEW v \in AllWidgets
               PROVE  WidgetOK(v, call', ui'[v])
    BY DEF WidgetsOK
  <2>1. CASE v = w
    BY <1>1, <2>1
  <2>2. CASE v # w
    BY <1>1, <2>2 DEF TxInv, WidgetsOK
  <2> QED
    BY <2>1, <2>2
<1>3. SaysClaimed' => SaysClaimed
  BY <1>1 DEF SaysClaimed, AllWidgets
<1>4. CallsOK' /\ Claims'
  BY <1>1, <1>3 DEF TxInv, CallsOK, Claims
<1> QED
  BY <1>1, <1>2, <1>4 DEF TxInv, TxTyped

(* A widget that has no call under way, or whose status can be lost, may   *)
(* start one.                                                              *)
LEMMA CallStarts ==
    ASSUME TxInv, NEW w \in widgets \ {"browse"}, NEW dialog \in BOOLEAN,
           Call(w, dialog), w \in {"row", "card"} => ~dialog,
           \/ /\ w \notin {"form", "create"}
              /\ \E c \in Calls : call[c].widget = w /\ call[c].pc = "done"
           \/ \A c \in Calls : ~Busy(w, call[c])
    PROVE  TxInv'
<1>1. w \in AllWidgets
  BY PageFacts DEF TxInv
<1>2. PICK c \in Calls :
        /\ call[c].pc = "new"
        /\ call' = [call EXCEPT ![c].widget = w, ![c].key = key,
                                ![c].pc = "account"]
  BY PageFacts DEF Call, TxInv
<1> DEFINE k == [call[c] EXCEPT !.widget = w, !.key = key, !.pc = "account"]
           u == [ui[w] EXCEPT !.status = "loading", !.dialog = dialog]
<1>3. CallOK(call[c], widgets) /\ call[c] \in CallStates
  BY DEF TxInv, TxTyped, CallsOK
<1>4. /\ k \in CallStates /\ k.widget = w /\ k.pc = "account"
      /\ k.key \in 0..key
      /\ k.chain = call[c].chain /\ k.attempts = call[c].attempts
      /\ k.wait = call[c].wait /\ k.answer = call[c].answer
  <2>1. key \in Nat /\ key \in 0..key
    BY DEF TxInv, TxTyped
  <2> QED
    BY <1>1, <1>3, <2>1 DEF CallStates
<1>5. call' = [call EXCEPT ![c] = k]
  BY <1>2 DEF TxInv, TxTyped
<1> HIDE DEF k
<1>6. CallOK(k, widgets) /\ k.chain = "out"
  BY <1>2, <1>3, <1>4 DEF CallOK
<1>7. /\ u \in UiStates /\ u.status = "loading" /\ u.dialog = dialog
      /\ u.timers = ui[w].timers /\ ui' = [ui EXCEPT ![w] = u]
      /\ UNCHANGED <<widgets, key, loads, claimed, networkDisabled, lost>>
  <2>1. ui[w] \in UiStates /\ ui \in [AllWidgets -> UiStates]
    BY <1>1 DEF TxInv, TxTyped
  <2>2. /\ ui' = [ui EXCEPT ![w].status = "loading", ![w].dialog = dialog]
        /\ UNCHANGED <<widgets, key, loads, claimed, networkDisabled, lost>>
    BY DEF Call, pageVars
  <2>3. ui' = [ui EXCEPT ![w] = u]
    BY <1>1, <2>1, <2>2
  <2>4. /\ u \in UiStates /\ u.status = "loading" /\ u.dialog = dialog
        /\ u.timers = ui[w].timers
    BY <2>1 DEF UiStates, Statuses
  <2> QED
    BY <2>2, <2>3, <2>4
<1> HIDE DEF u
<1>8. /\ ui' \in [AllWidgets -> UiStates] /\ ui'[w] = u
      /\ \A v \in AllWidgets \ {w} : ui'[v] = ui[v]
  BY <1>1, <1>7 DEF TxInv, TxTyped
<1>9. call[c].chain = "out"
  BY <1>2, <1>3 DEF CallOK
<1>10. TxTyped' /\ CallsOK' /\ Claims'
  <2>1. SaysClaimed' => SaysClaimed
    BY <1>7, <1>8 DEF SaysClaimed, AllWidgets
  <2> QED
    BY <1>4, <1>5, <1>6, <1>7, <1>8, <1>9, <2>1, OneCallMoves
    DEF TxInv, TxTyped
<1>11. /\ call'[c] = k
       /\ \A b \in Calls : b # c => call'[b] = call[b]
  BY <1>5 DEF TxInv, TxTyped
<1>12. ASSUME NEW v \in AllWidgets
       PROVE  WidgetOK(v, call', ui'[v])
  <2>1. WidgetOK(v, call, ui[v])
    BY DEF TxInv, WidgetsOK
  <2>2. CASE v = w
    <3>1. CASE /\ w \notin {"form", "create"}
               /\ \E d \in Calls : call[d].widget = w /\ call[d].pc = "done"
      <4>1. PICK d \in Calls : call[d].widget = w /\ call[d].pc = "done"
        BY <3>1
      <4>2. call'[d] = call[d]
        BY <1>2, <1>11, <4>1
      <4> QED
        BY <1>7, <1>8, <2>2, <3>1, <4>1, <4>2 DEF WidgetOK
    <3>2. CASE \A d \in Calls : ~Busy(w, call[d])
      <4>1. \A d \in Calls : Busy(w, call'[d]) => d = c
        BY <1>11, <3>2
      <4>2. (\A d \in Calls : call'[d].widget = w => call'[d].pc # "done")
              => \A d \in Calls : call[d].widget = w => call[d].pc # "done"
        BY <1>2, <1>11
      <4> QED
        BY <1>7, <1>8, <2>1, <2>2, <4>1, <4>2 DEF WidgetOK
    <3> QED
      BY <3>1, <3>2
  <2>3. CASE v # w
    <3>1. ui'[v] = ui[v]
      BY <1>8, <2>3
    <3>2. \A b \in Calls : /\ Busy(v, call'[b]) <=> Busy(v, call[b])
                           /\ Busy(v, call'[b]) => call'[b] = call[b]
      BY <1>2, <1>4, <1>11, <2>3 DEF Busy
    <3>3. (\A b \in Calls : call'[b].widget = v => call'[b].pc # "done")
            => \A b \in Calls : call[b].widget = v => call[b].pc # "done"
      BY <1>2, <1>11
    <3> QED
      BY <2>1, <3>1, <3>2, <3>3 DEF WidgetOK
  <2> QED
    BY <2>2, <2>3
<1> QED
  BY <1>10, <1>12 DEF TxInv, WidgetsOK

-----------------------------------------------------------------------------
(* Time passes for every call, and the ledger may take one transaction     *)
(* that is still valid: one that no answer has given up.                   *)
LEMMA TickKeeps == ASSUME TxInv, Tick PROVE TxInv'
<1>1. ASSUME NEW c \in Calls
      PROVE  /\ Later(c) \in CallStates
             /\ Later(c).widget = call[c].widget /\ Later(c).pc = call[c].pc
             /\ Later(c).key = call[c].key /\ Later(c).seq = call[c].seq
             /\ Later(c).attempts = call[c].attempts
             /\ Later(c).chain = call[c].chain
             /\ Later(c).answer = call[c].answer
             /\ Later(c).unsure = call[c].unsure
             /\ Later(c).unseen = call[c].unseen
             /\ Later(c).valid = (IF call[c].valid > 0
                                  THEN call[c].valid - 1 ELSE 0)
             /\ Later(c).wait = (IF call[c].wait > 0
                                 THEN call[c].wait - 1 ELSE 0)
  <2>1. call[c] \in CallStates
    BY DEF TxInv, TxTyped
  <2>2. /\ call[c].valid \in 0..TIMEOUT /\ call[c].wait \in {0, 1}
        /\ call[c].age \in 0..LAG
    BY <2>1 DEF CallStates
  <2> DEFINE v == IF call[c].valid > 0 THEN call[c].valid - 1 ELSE 0
             n == IF call[c].wait > 0 THEN call[c].wait - 1 ELSE 0
             g == IF c \in Taken /\ call[c].age < LAG
                  THEN call[c].age + 1 ELSE call[c].age
  <2>3. v \in 0..TIMEOUT /\ n \in {0, 1}
    BY <2>2, TransactionConstants
  <2>4. g \in 0..LAG
    BY <2>2, TransactionConstants
  <2>5. Later(c) = [call[c] EXCEPT !.valid = v, !.wait = n, !.age = g]
    BY <2>1 DEF Later, CallStates
  <2> HIDE DEF v, n, g
  <2> DEFINE l == [call[c] EXCEPT !.valid = v, !.wait = n, !.age = g]
  <2>6. l \in CallStates /\ l.valid = v /\ l.wait = n
    BY <2>1, <2>3, <2>4 DEF CallStates
  <2>7. /\ l.widget = call[c].widget /\ l.pc = call[c].pc
        /\ l.key = call[c].key /\ l.seq = call[c].seq
        /\ l.attempts = call[c].attempts /\ l.chain = call[c].chain
        /\ l.answer = call[c].answer /\ l.unsure = call[c].unsure
        /\ l.unseen = call[c].unseen
    BY <2>1 DEF CallStates
  <2> QED
    BY <2>5, <2>6, <2>7 DEF v, n
<1>2. ASSUME NEW c \in Calls
      PROVE  CallOK(Later(c), widgets)
  <2> DEFINE k == Later(c)
  <2>1. CallOK(call[c], widgets) /\ call[c] \in CallStates
    BY DEF TxInv, TxTyped, CallsOK
  <2>2. /\ call[c].valid \in Nat /\ call[c].wait \in {0, 1}
        /\ call[c].attempts \in Nat /\ TIMEOUT \in Nat
    BY <2>1, TransactionConstants DEF CallStates
  <2>3. /\ k \in CallStates
        /\ k.widget = call[c].widget /\ k.pc = call[c].pc
        /\ k.seq = call[c].seq /\ k.attempts = call[c].attempts
        /\ k.chain = call[c].chain /\ k.answer = call[c].answer
        /\ k.unsure = call[c].unsure /\ k.unseen = call[c].unseen
        /\ k.valid = IF call[c].valid > 0 THEN call[c].valid - 1 ELSE 0
        /\ k.wait = IF call[c].wait > 0 THEN call[c].wait - 1 ELSE 0
    BY <1>1
  <2> HIDE DEF k
  <2>4. k.pc = "poll" =>
          k.valid = 0 \/ k.valid + k.attempts <= TIMEOUT + k.wait
    <3> SUFFICES ASSUME k.pc = "poll", k.valid # 0
                 PROVE  k.valid + k.attempts <= TIMEOUT + k.wait
      OBVIOUS
    <3>1. call[c].valid + call[c].attempts <= TIMEOUT + call[c].wait
          /\ call[c].valid > 0
      BY <2>1, <2>2, <2>3 DEF CallOK
    <3> QED
      BY <2>2, <2>3, <3>1
  <2>5. call[c].valid = 0 => k.valid = 0
    BY <2>3
  <2>6. call[c].wait = 0 => k.wait = 0
    BY <2>3
  <2> QED
    BY <2>1, <2>3, <2>4, <2>5, <2>6 DEF CallOK, k
<1>3. ASSUME NEW a \in Calls, call[a].chain = "pool", call[a].valid > 0,
             NEW fate \in {"success", "failed"}
      PROVE  CallOK([Later(a) EXCEPT !.chain = fate], widgets)
  <2> DEFINE l == Later(a)
             k == [l EXCEPT !.chain = fate]
  <2>1. CallOK(call[a], widgets) /\ call[a] \in CallStates
    BY DEF TxInv, TxTyped, CallsOK
  <2>2. l \in CallStates /\ CallOK(l, widgets)
    BY <1>1, <1>2
  <2>3. l.chain = "pool" /\ l.answer = call[a].answer
        /\ l.unsure = call[a].unsure
    BY <1>1, <1>3
  <2> HIDE DEF l
  <2>4. /\ k \in CallStates /\ k.chain = fate
        /\ k.widget = l.widget /\ k.pc = l.pc /\ k.seq = l.seq
        /\ k.attempts = l.attempts /\ k.answer = l.answer
        /\ k.unsure = l.unsure /\ k.valid = l.valid /\ k.wait = l.wait
    BY <1>3, <2>2 DEF CallStates
  <2> HIDE DEF k
  <2>5. ~(k.answer = "error" /\ ~k.unsure)
    BY <1>3, <2>1, <2>3, <2>4 DEF CallOK
  <2>6. k.answer # "success" /\ k.pc \in {"poll", "done"}
    BY <2>2, <2>3, <2>4 DEF CallOK, CallStates
  <2>7. CallOK(k, widgets)
    BY <1>3, <2>2, <2>4, <2>5, <2>6 DEF CallOK
  <2> QED
    BY <2>7 DEF k, l
<1>4. /\ call' \in [Calls -> CallStates]
      /\ \A c \in Calls :
           /\ CallOK(call'[c], widgets) /\ call'[c].key = call[c].key
           /\ call'[c].widget = call[c].widget /\ call'[c].pc = call[c].pc
           /\ call[c].chain = "success" => call'[c].chain = "success"
  <2>1. CASE call' = [c \in Calls |-> Later(c)]
    BY <1>1, <1>2, <2>1
  <2>2. ASSUME NEW a \in Calls, NEW fate \in {"success", "failed"},
               call[a].chain = "pool", call[a].valid > 0,
               call' = [c \in Calls |->
                          IF c = a THEN [Later(c) EXCEPT !.chain = fate]
                          ELSE Later(c)]
        PROVE  /\ call' \in [Calls -> CallStates]
               /\ \A c \in Calls :
                    /\ CallOK(call'[c], widgets) /\ call'[c].key = call[c].key
                    /\ call'[c].widget = call[c].widget
                    /\ call'[c].pc = call[c].pc
                    /\ call[c].chain = "success" => call'[c].chain = "success"
    <3> DEFINE k == [Later(a) EXCEPT !.chain = fate]
    <3>1. CallOK(k, widgets)
      BY <1>3, <2>2
    <3>2. /\ k \in CallStates /\ k.key = call[a].key
          /\ k.widget = call[a].widget /\ k.pc = call[a].pc
      BY <1>1, <2>2 DEF CallStates
    <3>3. call' = [c \in Calls |-> IF c = a THEN k ELSE Later(c)]
      BY <2>2
    <3> HIDE DEF k
    <3>4. call'[a] = k /\ \A c \in Calls : c # a => call'[c] = Later(c)
      BY <3>3
    <3>5. call' \in [Calls -> CallStates]
      BY <1>1, <3>2, <3>3
    <3> QED
      BY <1>1, <1>2, <2>2, <3>1, <3>2, <3>4, <3>5
  <2> QED
    BY <2>1, <2>2 DEF Tick
<1>5. /\ UNCHANGED <<widgets, ui, key, loads, claimed, networkDisabled>>
      /\ lost' = lost
  BY DEF Tick, pageVars
<1>6. TxTyped' /\ CallsOK'
  BY <1>4, <1>5 DEF TxInv, TxTyped, CallsOK
<1>7. Claims'
  <2>1. SaysClaimed' => SaysClaimed
    BY <1>5 DEF SaysClaimed
  <2> QED
    BY <1>4, <2>1 DEF TxInv, Claims
<1>8. ASSUME NEW w \in AllWidgets
      PROVE  WidgetOK(w, call', ui'[w])
  <2>1. WidgetOK(w, call, ui[w]) /\ ui' = ui
    BY <1>5 DEF TxInv, WidgetsOK
  <2>2. \A c \in Calls : Busy(w, call'[c]) <=> Busy(w, call[c])
    BY <1>4 DEF Busy
  <2> QED
    BY <1>4, <2>1, <2>2 DEF WidgetOK
<1> QED
  BY <1>6, <1>7, <1>8 DEF TxInv, WidgetsOK

(* The page asks and hears of its own affairs: health, key, rewards.       *)
LEMMA PageKeeps ==
    ASSUME TxInv, CheckHealth \/ ChangeKey \/ LoadClaims
    PROVE  TxInv'
<1>1. /\ UNCHANGED <<widgets, ui, call, lost>>
      /\ key' \in Nat /\ key' >= key /\ loads' \in Nat
      /\ networkDisabled' \in BOOLEAN
      /\ claimed' \in {"no", "rows", claimed}
  BY DEF CheckHealth, ChangeKey, LoadClaims, TxInv, TxTyped
<1>2. TxTyped'
  BY <1>1 DEF TxInv, TxTyped
<1>3. CallsOK'
  BY <1>1 DEF TxInv, TxTyped, CallsOK
<1>4. Claims'
  BY <1>1 DEF TxInv, Claims, SaysClaimed
<1> QED
  BY <1>1, <1>2, <1>3, <1>4 DEF TxInv, WidgetsOK

(* What a widget that shows no call under way says of its calls.           *)
LEMMA NotBusy ==
    ASSUME TxInv, NEW w \in AllWidgets \ {"browse"},
           ui[w].status # "loading",
           w = "row" => ui[w].status # "success" \/ ui[w].dialog
    PROVE  \/ /\ w \notin {"form", "create"}
              /\ \E c \in Calls : call[c].widget = w /\ call[c].pc = "done"
           \/ \A c \in Calls : ~Busy(w, call[c])
  BY DEF TxInv, WidgetsOK, WidgetOK

(* The buttons that start a call.                                          *)
LEMMA ButtonsKeep ==
    ASSUME TxInv,
           ClaimOnCard \/ Retry \/ \E w \in widgets : Confirm(w)
    PROVE  TxInv'
<1>1. widgets \subseteq AllWidgets /\ ui \in [AllWidgets -> UiStates]
  BY PageFacts DEF TxInv, TxTyped
<1>2. CASE ClaimOnCard
  <2>1. /\ "card" \in widgets /\ Call("card", FALSE)
        /\ ui["card"].status # "loading"
    BY <1>2 DEF ClaimOnCard
  <2> QED
    BY <1>1, <2>1, NotBusy, CallStarts
<1>3. CASE Retry
  <2>1. /\ "form" \in widgets /\ Call("form", ui["form"].dialog)
        /\ ui["form"].status # "loading"
    BY <1>3 DEF Retry
  <2>2. ui["form"].dialog \in BOOLEAN
    BY <1>1, <2>1 DEF UiStates
  <2> QED
    BY <1>1, <2>1, <2>2, NotBusy, CallStarts
<1>4. ASSUME NEW w \in widgets, Confirm(w)
      PROVE  TxInv'
  <2>1. /\ Call(w, w # "row") /\ ui[w].dialog
        /\ ui[w].status # "loading"
    BY <1>4 DEF Confirm, Loading
  <2>2. (w # "row") \in BOOLEAN /\ (w = "row" => ~(w # "row"))
    OBVIOUS
  <2>3. w \notin {"card", "browse"}
    BY <1>1, <2>1 DEF TxInv, WidgetsOK, WidgetOK
  <2> QED
    BY <1>1, <2>1, <2>2, <2>3, NotBusy, CallStarts
<1> QED
  BY <1>2, <1>3, <1>4

(* The buttons and timers that start none.                                 *)
LEMMA ShowsKeep ==
    ASSUME TxInv,
           \/ Reset \/ ClaimOnBrowse
           \/ \E w \in widgets : Open(w) \/ Cancel(w) \/ TimerFires(w)
    PROVE  TxInv'
<1>1. widgets \subseteq AllWidgets /\ ui \in [AllWidgets -> UiStates]
  BY PageFacts DEF TxInv, TxTyped
<1>2. CASE Reset
  <2>1. ui["create"].status = "success" /\ Show("create", Idle)
    BY <1>2 DEF Reset
  <2>2. "create" \in AllWidgets /\ Idle \in UiStates /\ Idle.timers = 0
    BY DEF AllWidgets, Idle, UiStates, Statuses
  <2>3. \A c \in Calls : ~Busy("create", call[c])
    BY <2>1, <2>2, NotBusy
  <2>4. WidgetOK("create", call, Idle)
    BY <2>2, <2>3 DEF WidgetOK
  <2> QED
    BY <2>1, <2>2, <2>4, WidgetShows
<1>3. ASSUME NEW w \in widgets, Open(w)
      PROVE  TxInv'
  <2> DEFINE u == [ui[w] EXCEPT !.dialog = TRUE]
  <2>1. /\ Show(w, u) /\ CanOpen(w) /\ w \in AllWidgets
        /\ w \notin {"card", "browse"}
    BY <1>1, <1>3 DEF Open
  <2>2. /\ u \in UiStates /\ u.status = ui[w].status
        /\ u.timers = ui[w].timers
    BY <1>1, <2>1 DEF UiStates
  <2>3. w = "row" => ui[w].status \notin {"loading", "success"}
    BY <2>1 DEF CanOpen
  <2> HIDE DEF u
  <2>4. WidgetOK(w, call, ui[w])
    BY <2>1 DEF TxInv, WidgetsOK
  <2>5. WidgetOK(w, call, u)
    BY <2>1, <2>2, <2>3, <2>4 DEF WidgetOK
  <2> QED
    BY <2>1, <2>2, <2>5, WidgetShows
<1>4. ASSUME NEW w \in widgets, Cancel(w)
      PROVE  TxInv'
  <2> DEFINE u == [ui[w] EXCEPT !.dialog = FALSE]
  <2>1. Show(w, u) /\ w \in AllWidgets
    BY <1>1, <1>4 DEF Cancel
  <2>2. /\ u \in UiStates /\ u.status = ui[w].status
        /\ u.timers = ui[w].timers /\ u.dialog = FALSE
    BY <1>1, <2>1 DEF UiStates
  <2> HIDE DEF u
  <2>3. WidgetOK(w, call, ui[w])
    BY <2>1 DEF TxInv, WidgetsOK
  <2>4. WidgetOK(w, call, u)
    BY <2>2, <2>3 DEF WidgetOK
  <2> QED
    BY <2>1, <2>2, <2>4, WidgetShows
<1>5. ASSUME NEW w \in widgets, TimerFires(w)
      PROVE  TxInv'
  <2> DEFINE u == [ui[w] EXCEPT !.timers = @ - 1, !.status = "idle"]
  <2>1. Show(w, u) /\ w \in AllWidgets /\ ui[w].timers > 0
    BY <1>1, <1>5 DEF TimerFires
  <2>2. ui[w] \in UiStates /\ ui[w].timers \in Nat /\ ui[w].timers - 1 \in Nat
    BY <1>1, <2>1 DEF UiStates
  <2>3. u \in UiStates /\ u.status = "idle" /\ u.dialog = ui[w].dialog
    BY <2>2 DEF UiStates, Statuses
  <2> HIDE DEF u
  <2>4. WidgetOK(w, call, ui[w]) /\ ui[w].timers # 0
    BY <2>1, <2>2 DEF TxInv, WidgetsOK
  <2>5. WidgetOK(w, call, u)
    BY <2>3, <2>4 DEF WidgetOK
  <2> QED
    BY <2>1, <2>3, <2>5, WidgetShows
<1>6. CASE ClaimOnBrowse
  <2> DEFINE u == [ui["browse"] EXCEPT !.status = "success",
                                       !.timers = @ + 1]
  <2>1. Show("browse", u) /\ "browse" \in AllWidgets
    BY <1>6 DEF ClaimOnBrowse, AllWidgets
  <2>2. ui["browse"] \in UiStates /\ ui["browse"].timers + 1 \in Nat
    BY <1>1, <2>1 DEF UiStates
  <2>3. u \in UiStates /\ u.dialog = ui["browse"].dialog
    BY <2>2 DEF UiStates, Statuses
  <2> HIDE DEF u
  <2>4. WidgetOK("browse", call, u)
    BY <2>1, <2>3 DEF TxInv, WidgetsOK, WidgetOK
  <2> QED
    BY <2>1, <2>3, <2>4, WidgetShows
<1> QED
  BY <1>2, <1>3, <1>4, <1>5, <1>6

-----------------------------------------------------------------------------
(* A call that throws tells its widget an error.                           *)
LEMMA ThrowKeeps ==
    ASSUME TxInv, NEW c \in Calls, NEW step, Throw(c, step),
           call[c].pc \notin {"new", "reload", "done"},
           call[c].chain \in {"out", "failed"}
    PROVE  TxInv'
<1> DEFINE k == [call[c] EXCEPT !.pc = "done", !.answer = "error"]
<1>1. CallOK(call[c], widgets) /\ call[c] \in CallStates
  BY DEF TxInv, TxTyped, CallsOK
<1>2. /\ k \in CallStates /\ k.pc = "done" /\ k.answer = "error"
      /\ k.widget = call[c].widget /\ k.chain = call[c].chain
      /\ k.seq = call[c].seq /\ k.valid = call[c].valid
      /\ k.unsure = call[c].unsure /\ k.key = call[c].key
  BY <1>1 DEF CallStates
<1>3. call' = [call EXCEPT ![c] = k]
  BY DEF Throw, Finish, TxInv, TxTyped
<1> HIDE DEF k
<1>4. CallOK(k, widgets)
  BY <1>1, <1>2 DEF CallOK
<1>5. PICK status \in Statuses \ {"success"} :
        ui' = [ui EXCEPT ![call[c].widget] = After(call[c].widget, status)]
  BY FailShows DEF Throw
<1>6. UNCHANGED <<widgets, key, loads, claimed, networkDisabled, lost>>
  BY DEF Throw, pageVars
<1>7. lost' \in Nat /\ claimed' \in {"no", "claim", "rows"}
  BY <1>6 DEF TxInv, TxTyped
<1> QED
  BY <1>2, <1>3, <1>4, <1>5, <1>6, <1>7, Ends

(* The last poll finds nothing of a transaction whose time has passed.     *)
LEMMA GiveUpKeeps ==
    ASSUME TxInv, NEW c \in Calls, GiveUp(c), call[c].pc = "poll",
           call[c].valid = 0
    PROVE  TxInv'
<1> DEFINE unseen == c \in Taken
           k == [call[c] EXCEPT !.pc = "done", !.answer = "error",
                                !.unseen = unseen]
<1>1. CallOK(call[c], widgets) /\ call[c] \in CallStates
  BY DEF TxInv, TxTyped, CallsOK
<1>2. unseen \in BOOLEAN /\ (call[c].chain = "success" => unseen)
  BY DEF Taken
<1>3. call' = [call EXCEPT ![c] = k]
  BY DEF GiveUp, TxInv, TxTyped
<1> HIDE DEF unseen
<1>4. /\ k \in CallStates /\ k.pc = "done" /\ k.answer = "error"
      /\ k.widget = call[c].widget /\ k.chain = call[c].chain
      /\ k.seq = call[c].seq /\ k.valid = call[c].valid
      /\ k.unsure = call[c].unsure /\ k.key = call[c].key
      /\ k.unseen = unseen
  BY <1>1, <1>2 DEF CallStates
<1> HIDE DEF k
<1>5. CallOK(k, widgets)
  BY <1>1, <1>2, <1>4 DEF CallOK
<1>6. PICK status \in Statuses \ {"success"} :
        ui' = [ui EXCEPT ![call[c].widget] = After(call[c].widget, status)]
  BY FailShows DEF GiveUp
<1>7. UNCHANGED <<widgets, key, loads, claimed, networkDisabled, lost>>
  BY DEF GiveUp, pageVars
<1>8. lost' \in Nat /\ claimed' \in {"no", "claim", "rows"}
  BY <1>7 DEF TxInv, TxTyped
<1> QED
  BY <1>3, <1>4, <1>5, <1>6, <1>7, <1>8, Ends

(* invokeContract returns: the forms are done, the dashboard loads again.  *)
LEMMA ReturnKeeps ==
    ASSUME TxInv, NEW c \in Calls, Return(c), call[c].pc = "poll",
           call[c].chain = "success"
    PROVE  TxInv'
<1> DEFINE w == call[c].widget
<1>1. /\ CallOK(call[c], widgets) /\ call[c] \in CallStates
      /\ w \in AllWidgets /\ ui[w] \in UiStates
  BY PageFacts DEF TxInv, TxTyped, CallsOK, CallOK
<1>2. /\ UNCHANGED <<widgets, key, loads, networkDisabled, lost>>
      /\ claimed' = IF w = "card" THEN "claim" ELSE claimed
  BY DEF Return
<1>3. lost' \in Nat /\ claimed' \in {"no", "claim", "rows"}
  BY <1>2 DEF TxInv, TxTyped
<1>4. CASE w \in {"card", "row"}
  <2> DEFINE k == [call[c] EXCEPT !.pc = "reload"]
             u == [ui[w] EXCEPT !.status =
                     IF w = "row" THEN "success" ELSE @]
  <2>1. /\ k \in CallStates /\ k.pc = "reload" /\ k.widget = w
        /\ k.chain = "success" /\ k.seq = call[c].seq
        /\ k.answer = call[c].answer /\ k.key = call[c].key
    BY <1>1 DEF CallStates
  <2>2. call' = [call EXCEPT ![c] = k]
    BY <1>4 DEF Return, TxInv, TxTyped
  <2>3. /\ u \in UiStates /\ u.dialog = ui[w].dialog
        /\ u.timers = ui[w].timers
        /\ u.status = IF w = "row" THEN "success" ELSE ui[w].status
        /\ ui' = [ui EXCEPT ![w] = u]
    <3>1. ui' = [ui EXCEPT ![w] = u]
      BY <1>1, <1>4 DEF Return, TxInv, TxTyped
    <3> QED
      BY <1>1, <3>1 DEF UiStates, Statuses
  <2> HIDE DEF k, u
  <2>4. CallOK(k, widgets)
    BY <1>1, <2>1 DEF CallOK
  <2>5. /\ ui' \in [AllWidgets -> UiStates] /\ ui'[w] = u
        /\ \A v \in AllWidgets \ {w} : ui'[v] = ui[v]
    BY <1>1, <2>3 DEF TxInv, TxTyped
  <2>6. TxTyped' /\ CallsOK' /\ Claims'
    <3>1. k.key \in 0..key
      BY <2>1 DEF TxInv, CallsOK
    <3>2. SaysClaimed' => SaysClaimed \/ (k.chain = "success"
                                          /\ k.widget = "card")
      BY <1>2, <2>1, <2>3, <2>5 DEF SaysClaimed, AllWidgets
    <3> QED
      BY <1>2, <1>3, <2>1, <2>2, <2>4, <2>5, <3>1, <3>2, OneCallMoves
  <2>7. /\ call'[c] = k
        /\ \A b \in Calls : b # c => call'[b] = call[b]
    BY <2>2 DEF TxInv, TxTyped
  <2>8. ASSUME NEW v \in AllWidgets
        PROVE  WidgetOK(v, call', ui'[v])
    <3>1. WidgetOK(v, call, ui[v])
      BY DEF TxInv, WidgetsOK
    <3>2. /\ \A b \in Calls : Busy(v, call'[b]) <=> Busy(v, call[b])
          /\ \A b \in Calls : /\ call'[b].widget = call[b].widget
                              /\ call'[b].pc = "done" <=> call[b].pc = "done"
      BY <2>1, <2>7 DEF Busy
    <3>3. CASE v = w
      <4>1. Busy(w, call[c])
        BY <1>1, <1>4 DEF Busy
      <4> QED
        BY <1>4, <2>1, <2>3, <2>5, <2>7, <3>1, <3>2, <3>3, <4>1 DEF WidgetOK
    <3>4. CASE v # w
      <4>1. \A b \in Calls : Busy(v, call'[b]) => call'[b] = call[b]
        BY <2>1, <2>7, <3>4 DEF Busy
      <4>2. ui'[v] = ui[v]
        BY <2>5, <3>4
      <4> QED
        BY <3>1, <3>2, <4>1, <4>2 DEF WidgetOK
    <3> QED
      BY <3>3, <3>4
  <2> QED
    BY <2>6, <2>8 DEF TxInv, WidgetsOK
<1>5. CASE w \notin {"card", "row"}
  <2> DEFINE k == [call[c] EXCEPT !.pc = "done", !.answer = "success"]
  <2>1. /\ k \in CallStates /\ k.pc = "done" /\ k.widget = w
        /\ k.chain = "success" /\ k.answer = "success"
        /\ k.seq = call[c].seq /\ k.key = call[c].key
    BY <1>1 DEF CallStates
  <2>2. /\ call' = [call EXCEPT ![c] = k]
        /\ ui' = [ui EXCEPT ![w] = After(w, "success")]
    BY <1>5 DEF Return, Finish, TxInv, TxTyped
  <2> HIDE DEF k
  <2>3. CallOK(k, widgets)
    BY <1>1, <2>1 DEF CallOK
  <2>4. "success" \in Statuses
    BY DEF Statuses
  <2>5. claimed' = claimed
    BY <1>2, <1>5 DEF TxInv, TxTyped
  <2> QED
    BY <1>2, <1>3, <2>1, <2>2, <2>3, <2>4, <2>5, Ends
<1> QED
  BY <1>4, <1>5

(* The dashboard has loaded its rewards again.                             *)
LEMMA ReloadKeepsCalls == ASSUME TxInv, NEW c \in Calls, Reload(c) PROVE TxInv'
<1> DEFINE k == [call[c] EXCEPT !.pc = "done", !.answer = "success"]
<1>1. /\ CallOK(call[c], widgets) /\ call[c] \in CallStates
      /\ call[c].pc = "reload"
  BY DEF TxInv, TxTyped, CallsOK, Reload
<1>2. /\ k \in CallStates /\ k.pc = "done" /\ k.widget = call[c].widget
      /\ k.chain = call[c].chain /\ k.answer = "success"
      /\ k.seq = call[c].seq /\ k.key = call[c].key
  BY <1>1 DEF CallStates
<1>3. /\ call' = [call EXCEPT ![c] = k]
      /\ ui' = [ui EXCEPT ![call[c].widget] =
                  After(call[c].widget, "success")]
      /\ UNCHANGED <<widgets, key, loads, claimed, networkDisabled, lost>>
  BY DEF Reload, Finish, TxInv, TxTyped, pageVars
<1> HIDE DEF k
<1>4. CallOK(k, widgets) /\ call[c].chain = "success"
  BY <1>1, <1>2 DEF CallOK
<1>5. /\ "success" \in Statuses /\ lost' \in Nat
      /\ claimed' \in {"no", "claim", "rows"}
  BY <1>3 DEF Statuses, TxInv, TxTyped
<1> QED
  BY <1>1, <1>2, <1>3, <1>4, <1>5, Ends

(* A call is on its way to another step before the transaction is out.     *)
LEMMA GotoKeeps ==
    ASSUME TxInv, NEW c \in Calls, NEW pc \in {"simulate", "sign", "send"},
           call[c].pc \in {"account", "simulate", "sign"}, Goto(c, pc)
    PROVE  TxInv'
<1> DEFINE k == [call[c] EXCEPT !.pc = pc]
<1>1. CallOK(call[c], widgets) /\ call[c] \in CallStates
  BY DEF TxInv, TxTyped, CallsOK
<1>2. /\ k \in CallStates /\ k.pc = pc /\ k.widget = call[c].widget
      /\ k.chain = call[c].chain /\ k.answer = call[c].answer
      /\ k.seq = call[c].seq /\ k.attempts = call[c].attempts
      /\ k.wait = call[c].wait /\ k.key = call[c].key
  BY <1>1 DEF CallStates
<1>3. /\ call' = [call EXCEPT ![c] = k]
      /\ UNCHANGED <<pageVars, ui, lost>>
  BY DEF Goto, TxInv, TxTyped
<1> HIDE DEF k
<1>4. CallOK(k, widgets)
  BY <1>1, <1>2 DEF CallOK
<1>5. call[c].chain = "out"
  BY <1>1 DEF CallOK
<1> QED
  BY <1>2, <1>3, <1>4, <1>5, GoesOn

(* invokeContract up to the sending.                                       *)
LEMMA BeforeSending ==
    ASSUME TxInv, NEW c \in Calls,
           GetAccount(c) \/ SimulateTransaction(c) \/ SignTransaction(c)
    PROVE  TxInv'
<1>1. CallOK(call[c], widgets) /\ call[c] \in CallStates
  BY DEF TxInv, TxTyped, CallsOK
<1>2. CASE GetAccount(c)
  <2> DEFINE n == Sequence(call[c].key, Known) + 1
             k == [call[c] EXCEPT !.pc = "simulate", !.seq = n,
                                  !.valid = TIMEOUT]
  <2>1. n \in Nat /\ TIMEOUT \in 0..TIMEOUT /\ call[c].pc = "account"
    BY <1>2, OfCalls, SequenceBound, TransactionConstants DEF GetAccount
  <2>2. /\ k \in CallStates /\ k.pc = "simulate"
        /\ k.widget = call[c].widget /\ k.chain = call[c].chain
        /\ k.answer = call[c].answer /\ k.attempts = call[c].attempts
        /\ k.wait = call[c].wait /\ k.key = call[c].key
    <3> HIDE DEF n
    <3> QED
      BY <1>1, <2>1 DEF CallStates
  <2>3. /\ call' = [call EXCEPT ![c] = k]
        /\ UNCHANGED <<pageVars, ui, lost>>
    BY <1>2 DEF GetAccount, TxInv, TxTyped
  <2> HIDE DEF k
  <2>4. CallOK(k, widgets) /\ call[c].chain = "out"
    BY <1>1, <2>1, <2>2 DEF CallOK
  <2> QED
    BY <2>1, <2>2, <2>3, <2>4, GoesOn
<1>3. CASE SimulateTransaction(c)
  <2>1. call[c].pc = "simulate" /\ call[c].chain = "out"
    BY <1>1, <1>3 DEF SimulateTransaction, CallOK
  <2>2. Goto(c, "sign") \/ Throw(c, "simulate")
    BY <1>3 DEF SimulateTransaction
  <2> QED
    BY <2>1, <2>2, GotoKeeps, ThrowKeeps
<1>4. CASE SignTransaction(c)
  <2>1. call[c].pc = "sign" /\ call[c].chain = "out"
    BY <1>1, <1>4 DEF SignTransaction, CallOK
  <2>2. Goto(c, "send") \/ Throw(c, "sign")
    BY <1>4 DEF SignTransaction
  <2> QED
    BY <2>1, <2>2, GotoKeeps, ThrowKeeps
<1> QED
  BY <1>2, <1>3, <1>4

(* The transaction is sent, in time and in sequence, or refused.           *)
LEMMA SendKeeps ==
    ASSUME TxInv, NEW c \in Calls, SendTransaction(c)
    PROVE  TxInv'
<1>1. CallOK(call[c], widgets) /\ call[c] \in CallStates
  BY DEF TxInv, TxTyped, CallsOK
<1>2. /\ call[c].pc = "send" /\ call[c].chain = "out"
      /\ call[c].attempts = 0 /\ call[c].wait = 0
  BY <1>1 DEF SendTransaction, CallOK
<1>3. CASE ~InSequence(c, Taken) \/ call[c].valid = 0
  <2>1. Throw(c, "submit")
    BY <1>3 DEF SendTransaction
  <2> QED
    BY <1>2, <2>1, ThrowKeeps
<1>4. CASE ~(~InSequence(c, Taken) \/ call[c].valid = 0)
  <2>1. PICK pool \in {"pool", "out"} :
          /\ call' = [call EXCEPT ![c].pc = "poll", ![c].chain = pool]
          /\ UNCHANGED <<pageVars, ui, lost>>
    BY <1>4 DEF SendTransaction
  <2> DEFINE k == [call[c] EXCEPT !.pc = "poll", !.chain = pool]
  <2>2. /\ k \in CallStates /\ k.pc = "poll" /\ k.chain = pool
        /\ k.widget = call[c].widget /\ k.answer = call[c].answer
        /\ k.attempts = call[c].attempts /\ k.wait = call[c].wait
        /\ k.seq = call[c].seq /\ k.valid = call[c].valid
        /\ k.key = call[c].key
    BY <1>1, <2>1 DEF CallStates
  <2>3. call' = [call EXCEPT ![c] = k]
    BY <2>1 DEF TxInv, TxTyped
  <2>4. /\ call[c].seq > 0
        /\ call[c].valid + 0 <= TIMEOUT + 0
    BY <1>1, <1>4, OfCalls, SequenceBound, TransactionConstants
    DEF CallStates, InSequence
  <2> HIDE DEF k
  <2>5. CallOK(k, widgets)
    BY <1>1, <1>2, <2>1, <2>2, <2>4 DEF CallOK
  <2> QED
    BY <1>2, <2>1, <2>2, <2>3, <2>5, GoesOn
<1> QED
  BY <1>3, <1>4

(* A poll: when the last one finds nothing, the transaction's time has     *)
(* passed.                                                                 *)
LEMMA PollKeeps ==
    ASSUME TxInv, NEW c \in Calls, GetTransaction(c)
    PROVE  TxInv'
<1>1. CallOK(call[c], widgets) /\ call[c] \in CallStates
  BY DEF TxInv, TxTyped, CallsOK
<1>2. call[c].pc = "poll" /\ call[c].wait = 0
  BY DEF GetTransaction, Poll
<1>3. /\ call[c].attempts \in 0..ATTEMPTS /\ call[c].valid \in 0..TIMEOUT
      /\ ATTEMPTS \in Nat /\ TIMEOUT \in Nat /\ TIMEOUT <= ATTEMPTS
      /\ call[c].valid = 0 \/ call[c].valid + call[c].attempts <= TIMEOUT
  BY <1>1, <1>2, TransactionConstants DEF CallOK, CallStates
<1>4. CASE c \in Known /\ call[c].chain = "success"
  <2>1. Return(c)
    BY <1>4 DEF GetTransaction, Poll
  <2> QED
    BY <1>2, <1>4, <2>1, ReturnKeeps
<1>5. CASE c \in Known /\ call[c].chain = "failed"
  <2>1. Throw(c, "poll")
    BY <1>5 DEF GetTransaction, Poll
  <2> QED
    BY <1>2, <1>5, <2>1, ThrowKeeps
<1>6. CASE c \notin Known /\ call[c].attempts = ATTEMPTS
  <2>1. call[c].valid = 0
    BY <1>3, <1>6
  <2>2. GiveUp(c)
    BY <1>6 DEF GetTransaction, Poll
  <2> QED
    BY <1>2, <2>1, <2>2, GiveUpKeeps
<1>7. CASE c \notin Known /\ call[c].attempts # ATTEMPTS
  <2> DEFINE k == [call[c] EXCEPT !.attempts = @ + 1, !.wait = 1]
  <2>1. call[c].attempts + 1 \in 0..ATTEMPTS
    BY <1>3, <1>7
  <2>2. /\ k \in CallStates /\ k.pc = "poll" /\ k.key = call[c].key
        /\ k.chain = call[c].chain /\ k.widget = call[c].widget
        /\ k.answer = call[c].answer /\ k.valid = call[c].valid
        /\ k.attempts = call[c].attempts + 1 /\ k.wait = 1
        /\ k.seq = call[c].seq
    BY <1>1, <1>2, <2>1 DEF CallStates
  <2>3. /\ call' = [call EXCEPT ![c] = k]
        /\ UNCHANGED <<pageVars, ui, lost>>
    BY <1>7 DEF GetTransaction, Poll, TxInv, TxTyped
  <2> HIDE DEF k
  <2>4. k.valid = 0 \/ k.valid + k.attempts <= TIMEOUT + k.wait
    BY <1>3, <2>2
  <2>5. CallOK(k, widgets)
    BY <1>1, <1>2, <2>2, <2>4 DEF CallOK
  <2> QED
    BY <1>2, <2>2, <2>3, <2>5, GoesOn
<1>8. c \in Known => call[c].chain \in {"success", "failed"}
  BY DEF Known, Taken
<1> QED
  BY <1>4, <1>5, <1>6, <1>7, <1>8

(* A request is lost: what it was about is known only before the sending.  *)
LEMMA RequestFailsKeeps ==
    ASSUME TxInv, NEW c \in Calls, RequestFails(c)
    PROVE  TxInv'
<1> DEFINE sent == call[c].pc \in {"send", "poll", "reload"}
           late == ~InSequence(c, Taken) \/ call[c].valid = 0
<1>1. PICK got \in {call[c].chain} \cup
                   IF call[c].pc = "send" /\ ~late THEN {"pool"} ELSE {} :
        call' = [call EXCEPT ![c].pc = "done", ![c].answer = "error",
                             ![c].chain = got, ![c].unsure = sent]
  BY DEF RequestFails
<1>2. /\ CallOK(call[c], widgets) /\ call[c] \in CallStates
      /\ call[c].pc \in {"account", "simulate", "send", "poll", "reload"}
  BY DEF TxInv, TxTyped, CallsOK, RequestFails
<1> DEFINE k == [call[c] EXCEPT !.pc = "done", !.answer = "error",
                                !.chain = got, !.unsure = sent]
<1>3. /\ got \in {"out", "pool", "success", "failed"} /\ sent \in BOOLEAN
      /\ \/ got = call[c].chain
         \/ /\ got = "pool" /\ call[c].pc = "send"
            /\ InSequence(c, Taken)
  <2>1. sent \in BOOLEAN
    OBVIOUS
  <2>2. CASE got = call[c].chain
    <3> HIDE DEF sent
    <3> QED
      BY <1>2, <2>1, <2>2 DEF CallStates
  <2>3. CASE got # call[c].chain
    <3>1. call[c].pc = "send" /\ ~late /\ got = "pool"
      BY <1>1, <2>3
    <3> HIDE DEF sent
    <3> QED
      BY <2>1, <3>1
  <2> QED
    BY <2>2, <2>3
<1>4. call' = [call EXCEPT ![c] = k]
  BY <1>1 DEF TxInv, TxTyped
<1> HIDE DEF sent, late
<1>5. /\ k \in CallStates /\ k.pc = "done" /\ k.answer = "error"
      /\ k.chain = got /\ k.unsure = sent /\ k.widget = call[c].widget
      /\ k.seq = call[c].seq /\ k.valid = call[c].valid
      /\ k.key = call[c].key
  BY <1>2, <1>3 DEF CallStates
<1> HIDE DEF k
<1>6. got = "pool" => call[c].seq > 0
  BY <1>2, <1>3, OfCalls, SequenceBound DEF CallOK, InSequence
<1>7. ~sent => got = "out"
  BY <1>2, <1>3 DEF CallOK, sent
<1>8. CallOK(k, widgets)
  BY <1>2, <1>5, <1>6, <1>7 DEF CallOK
<1>9. call[c].chain = "success" => k.chain = "success"
  BY <1>2, <1>3, <1>5 DEF CallOK
<1>10. PICK status \in Statuses \ {"success"} :
         ui' = [ui EXCEPT ![call[c].widget] = After(call[c].widget, status)]
  BY FailShows DEF RequestFails
<1>11. /\ UNCHANGED <<widgets, key, loads, claimed, networkDisabled>>
       /\ lost' = lost + 1
  BY DEF RequestFails, pageVars
<1>12. lost' \in Nat /\ claimed' \in {"no", "claim", "rows"}
  BY <1>11 DEF TxInv, TxTyped
<1> QED
  BY <1>2, <1>4, <1>5, <1>8, <1>9, <1>10, <1>11, <1>12, Ends

(* The page is opened with every widget idle and no call.                  *)
LEMMA TxInitOK == TxInit => TxInv
<1> SUFFICES ASSUME TxInit
             PROVE  TxInv
  OBVIOUS
<1>1. NoCall \in CallStates
  BY TransactionConstants DEF NoCall, CallStates
<1>2. \A c \in Calls : call[c] = NoCall
  BY DEF TxInit
<1>3. \A w \in AllWidgets : ui[w] = Idle
  BY DEF TxInit
<1>4. TxTyped
  BY <1>1 DEF TxInit, TxTyped, Idle, UiStates, Statuses
<1>5. CallOK(NoCall, widgets)
  <2>1. /\ NoCall.pc = "new" /\ NoCall.widget = "none"
        /\ NoCall.chain = "out" /\ NoCall.attempts = 0 /\ NoCall.wait = 0
        /\ NoCall.answer = "none"
    BY DEF NoCall
  <2> HIDE DEF NoCall
  <2> QED
    BY <1>1, <2>1 DEF CallOK
<1>6. \A w \in AllWidgets, c \in Calls : ~Busy(w, call[c])
  BY <1>2 DEF Busy, NoCall
<1>7. WidgetsOK
  BY <1>3, <1>6 DEF WidgetsOK, WidgetOK, Idle
<1>8. ~SaysClaimed /\ key = 0 /\ NoCall.key = 0
  BY <1>3 DEF SaysClaimed, TxInit, AllWidgets, Idle, NoCall
<1> QED
  BY <1>2, <1>4, <1>5, <1>7, <1>8 DEF TxInv, CallsOK, Claims

(* Every step of a page with its calls keeps the invariant.                *)
LEMMA TxStep == TxInv /\ [TxNext]_txVars => TxInv'
<1> SUFFICES ASSUME TxInv, [TxNext]_txVars
             PROVE  TxInv'
  OBVIOUS
<1>1. CASE Tick
  BY <1>1, TickKeeps
<1>2. CASE CheckHealth \/ ChangeKey \/ LoadClaims
  BY <1>2, PageKeeps
<1>3. CASE ClaimOnCard \/ Retry \/ \E w \in widgets : Confirm(w)
  BY <1>3, ButtonsKeep
<1>4. CASE \/ Reset \/ ClaimOnBrowse
           \/ \E w \in widgets : Open(w) \/ Cancel(w) \/ TimerFires(w)
  BY <1>4, ShowsKeep
<1>5. ASSUME NEW c \in Calls, Progress(c)
      PROVE  TxInv'
  BY <1>5, BeforeSending, SendKeeps, PollKeeps, ReloadKeepsCalls DEF Progress
<1>6. ASSUME NEW c \in Calls, RequestFails(c)
      PROVE  TxInv'
  BY <1>6, RequestFailsKeeps
<1>7. CASE UNCHANGED txVars
  BY <1>7
  DEF txVars, pageVars, TxInv, TxTyped, CallsOK, Claims, SaysClaimed,
      WidgetsOK
<1> QED
  BY <1>1, <1>2, <1>3, <1>4, <1>5, <1>6, <1>7 DEF TxNext

(* The counters stay in their bounds.                                      *)
LEMMA CallsTyped == TxInv => TxTypeOK
<1> SUFFICES ASSUME TxInv
             PROVE  TxTypeOK
  OBVIOUS
<1>1. \A c \in Calls : CallOK(call[c], widgets) /\ call[c].key \in 0..key
  BY DEF TxInv, CallsOK
<1>2. \A k \in 0..key : Sequence(k, Taken) <= MaxCalls
  BY OfCalls, SequenceBound
<1> QED
  BY <1>1, <1>2 DEF TxTypeOK, CallOK, CallStates

(* What a page says of its calls is so.                                    *)
LEMMA CallsTold == TxInv => CallsAreTrue
<1> SUFFICES ASSUME TxInv
             PROVE  CallsAreTrue
  OBVIOUS
<1>1. OutcomesAreFinal
  <2>1. \A c \in Calls : CallOK(call[c], widgets)
    BY DEF TxInv, CallsOK
  <2> QED
    BY <2>1 DEF OutcomesAreFinal, CallOK
<1>2. OneCallAtATime
  <2> SUFFICES ASSUME NEW b \in Calls, NEW c \in Calls, b # c,
                      call[b].widget = call[c].widget,
                      call[b].pc \notin {"new", "done"},
                      call[c].pc \notin {"new", "done"}
               PROVE  /\ call[c].widget \in {"card", "row"}
                      /\ \E a \in Calls : /\ call[a].widget = call[c].widget
                                          /\ call[a].pc = "done"
    BY DEF OneCallAtATime
  <2> DEFINE w == call[c].widget
  <2>1. w \in AllWidgets \ {"browse"}
    BY PageFacts DEF TxInv, CallsOK, CallOK
  <2>2. WidgetOK(w, call, ui[w])
    BY <2>1 DEF TxInv, WidgetsOK
  <2>3. Busy(w, call[b]) /\ Busy(w, call[c])
    BY DEF Busy
  <2> QED
    BY <2>1, <2>2, <2>3 DEF WidgetOK, AllWidgets
<1>3. ClaimedOnLedger
  <2> SUFFICES ASSUME SaysClaimed
               PROVE  \E k \in 0..key : Succeeded("claim_reward", k, Calls) > 0
    BY DEF ClaimedOnLedger, SaysClaimed
  <2>1. PICK c \in Calls : /\ call[c].chain = "success"
                           /\ call[c].widget = "card"
    BY DEF TxInv, Claims
  <2> DEFINE k == call[c].key
             S == {b \in Calls : /\ call[b].chain = "success"
                                 /\ call[b].key = k
                                 /\ Method(call[b].widget) = "claim_reward"}
  <2>2. S # {} /\ k \in 0..key
    BY <2>1 DEF Method, TxInv, CallsOK
  <2>3. IsFiniteSet(Calls) /\ S \subseteq Calls
    BY TransactionConstants, FS_Interval DEF Calls
  <2>4. IsFiniteSet(S)
    BY <2>3, FS_Subset
  <2>5. Cardinality(S) \in Nat /\ Cardinality(S) # 0
    BY <2>2, <2>4, FS_CardinalityType, FS_EmptySet
  <2>6. Cardinality(S) > 0
    BY <2>5
  <2> QED
    BY <2>2, <2>6 DEF Succeeded
<1> QED
  BY <1>1, <1>2, <1>3 DEF CallsAreTrue

-----------------------------------------------------------------------------
(* The toasts.                                                             *)

Toasts == [at : Nat, duration : Nat, closed : BOOLEAN]

BoardStates ==
    [kit : BOOLEAN, now : Nat, toasts : SUBSET Nat,
     timers : SUBSET (Nat \X Nat), closing : SUBSET (Nat \X Nat),
     issued : Seq(Toasts), clicks : Nat]

(* The toasts shown so far by their ids, and when each one's time is over. *)
Shown(b) == 1..Len(b.issued)
End(b, i) == b.issued[i].at + b.issued[i].duration

(* The toast was closed by the user, or its time is over.                  *)
Spent(b, i) == b.issued[i].closed \/ End(b, i) <= b.now

IdsKnown(b) ==
    /\ b.toasts \subseteq Shown(b)
    /\ \A t \in b.timers \cup b.closing : t[1] \in Shown(b)

(* An auto-dismiss timer fires when its toast's time is over; only the kit *)
(* has animations, and one ends a toast that is closed, or out of time by  *)
(* then.  No timer is late.                                                *)
Timed(b) == \A t \in b.timers : t[2] = End(b, t[1]) /\ b.now <= t[2]

Leaving(b) ==
    \A t \in b.closing :
      /\ b.kit /\ b.now <= t[2]
      /\ b.issued[t[1]].closed \/ End(b, t[1]) <= t[2]

(* A toast on the screen has a timer, or an animation that its timer       *)
(* started or a click did before.                                          *)
Ticking(b, i) ==
    \/ <<i, End(b, i)>> \in b.timers
    \/ b.kit /\ \E t \in b.closing : t[1] = i /\ t[2] <= End(b, i) + ANIMATION

(* A toast that is gone was closed, out of time, or pushed out by newer    *)
(* ones.                                                                   *)
Left(b, i) ==
    Spent(b, i) \/ (~b.kit /\ MAX_TOASTS <= Len(b.issued) - i)

BoardOK(b) ==
    /\ b \in BoardStates /\ IdsKnown(b) /\ Timed(b) /\ Leaving(b)
    /\ \A i \in b.toasts : Ticking(b, i)
    /\ \A i \in Shown(b) \ b.toasts : Left(b, i)

(* A shown toast's record, and when its time is over.                      *)
LEMMA ToastOf ==
    ASSUME NEW b, b \in BoardStates, NEW i \in Shown(b)
    PROVE  /\ i \in Nat /\ 0 < i /\ i <= Len(b.issued)
           /\ Len(b.issued) \in Nat
           /\ b.issued[i] \in Toasts
           /\ b.issued[i].at \in Nat /\ b.issued[i].duration \in Nat
           /\ b.issued[i].closed \in BOOLEAN
           /\ End(b, i) \in Nat
<1>1. b.issued \in Seq(Toasts)
  BY DEF BoardStates
<1>2. Len(b.issued) \in Nat /\ b.issued[i] \in Toasts
  BY <1>1, ElementOfSeq DEF Shown
<1>3. i \in Nat /\ 0 < i /\ i <= Len(b.issued)
  BY <1>2 DEF Shown
<1> QED
  BY <1>2, <1>3 DEF Toasts, End

(* A step that takes away at most one toast and its timers, at a time when *)
(* the toast is spent or else still ticks, keeps the invariant.            *)
LEMMA TakesOneAway ==
    ASSUME NEW b, NEW k, NEW id \in Shown(b), BoardOK(b),
           k \in BoardStates, k.kit = b.kit, k.now = b.now,
           Len(k.issued) = Len(b.issued),
           \A i \in Shown(b) :
             End(k, i) = End(b, i)
             /\ (b.issued[i].closed => k.issued[i].closed),
           k.toasts \subseteq b.toasts, b.toasts \ k.toasts \subseteq {id},
           k.timers \subseteq b.timers,
           \A t \in b.timers : t \in k.timers \/ t[1] = id,
           \A t \in k.closing :
             t \in b.closing
             \/ (t = <<id, b.now + ANIMATION>> /\ b.kit /\ Spent(k, id)),
           \A t \in b.closing : t \in k.closing \/ t[1] = id,
           id \in k.toasts => Ticking(k, id),
           id \notin k.toasts => Spent(k, id)
    PROVE  BoardOK(k)
<1>1. /\ b \in BoardStates /\ IdsKnown(b) /\ Timed(b) /\ Leaving(b)
      /\ \A i \in b.toasts : Ticking(b, i)
      /\ \A i \in Shown(b) \ b.toasts : Left(b, i)
  BY DEF BoardOK
<1>2. Shown(k) = Shown(b)
  BY DEF Shown
<1>3. b.now \in Nat /\ ANIMATION \in Nat /\ End(b, id) \in Nat
  BY <1>1, WidgetConstants, ToastOf DEF BoardStates
<1>4. IdsKnown(k)
  <2>1. \A t \in k.timers : t[1] \in Shown(k)
    BY <1>1, <1>2 DEF IdsKnown
  <2>2. \A t \in k.closing : t[1] \in Shown(k)
    BY <1>1, <1>2 DEF IdsKnown
  <2> QED
    BY <1>1, <1>2, <2>1, <2>2 DEF IdsKnown
<1>5. Timed(k)
  BY <1>1 DEF Timed, IdsKnown
<1>6. Leaving(k)
  <2> SUFFICES ASSUME NEW t \in k.closing
               PROVE  /\ k.kit /\ k.now <= t[2]
                      /\ k.issued[t[1]].closed \/ End(k, t[1]) <= t[2]
    BY DEF Leaving
  <2>1. CASE t \in b.closing
    BY <1>1, <2>1 DEF Leaving, IdsKnown
  <2>2. CASE t = <<id, b.now + ANIMATION>> /\ b.kit /\ Spent(k, id)
    <3>1. t[1] = id /\ t[2] = b.now + ANIMATION
      BY <2>2
    <3>2. End(k, id) = End(b, id)
      OBVIOUS
    <3>3. k.issued[id].closed \/ End(k, id) <= b.now
      BY <2>2 DEF Spent
    <3> QED
      BY <1>3, <2>2, <3>1, <3>2, <3>3
  <2> QED
    BY <2>1, <2>2
<1>7. ASSUME NEW i \in k.toasts
      PROVE  Ticking(k, i)
  <2>1. CASE i = id
    BY <2>1
  <2>2. CASE i # id
    <3>1. i \in Shown(b) /\ Ticking(b, i) /\ End(k, i) = End(b, i)
      BY <1>1 DEF IdsKnown
    <3>2. CASE <<i, End(b, i)>> \in b.timers
      <4>1. <<i, End(b, i)>>[1] # id
        BY <2>2
      <4>2. <<i, End(b, i)>> \in k.timers
        BY <3>2, <4>1
      <4> QED
        BY <3>1, <4>2 DEF Ticking
    <3>3. CASE b.kit /\ \E t \in b.closing :
                           t[1] = i /\ t[2] <= End(b, i) + ANIMATION
      <4>1. PICK t \in b.closing : t[1] = i /\ t[2] <= End(b, i) + ANIMATION
        BY <3>3
      <4>2. t \in k.closing
        BY <2>2, <4>1
      <4> QED
        BY <3>1, <3>3, <4>1, <4>2 DEF Ticking
    <3> QED
      BY <3>1, <3>2, <3>3 DEF Ticking
  <2> QED
    BY <2>1, <2>2
<1>8. ASSUME NEW i \in Shown(k) \ k.toasts
      PROVE  Left(k, i)
  <2>1. CASE i = id
    BY <2>1 DEF Left
  <2>2. CASE i # id
    <3>1. i \in Shown(b) \ b.toasts
      BY <1>2, <2>2
    <3> QED
      BY <1>1, <3>1 DEF Left, Spent
  <2> QED
    BY <2>1, <2>2
<1> QED
  BY <1>4, <1>5, <1>6, <1>7, <1>8 DEF BoardOK

(* A toast that is closed, or whose time is over, leaves: at once in the   *)
(* application, and with an animation in the kit.                          *)
LEMMA ClickDismissOK == BoardOK(board) /\ ClickDismiss => BoardOK(board')
<1> SUFFICES ASSUME BoardOK(board), ClickDismiss
             PROVE  BoardOK(board')
  OBVIOUS
<1>1. PICK id \in board.toasts :
        board' = [OnDismiss(board, id) EXCEPT !.issued[id].closed = TRUE,
                                              !.clicks = @ + 1]
  BY DEF ClickDismiss
<1>2. board \in BoardStates /\ id \in Shown(board) /\ Ticking(board, id)
  BY DEF BoardOK, IdsKnown
<1> DEFINE q == [board.issued EXCEPT ![id].closed = TRUE]
           c == board.clicks + 1
<1>3. /\ board.issued \in Seq(Toasts) /\ board.clicks \in Nat
      /\ board.now \in Nat /\ ANIMATION \in Nat /\ board.kit \in BOOLEAN
      /\ board.closing \in SUBSET (Nat \X Nat)
      /\ board.timers \in SUBSET (Nat \X Nat) /\ board.toasts \in SUBSET Nat
  BY <1>2, WidgetConstants DEF BoardStates
<1>4. id \in Nat /\ id \in 1..Len(board.issued)
      /\ id \in DOMAIN board.issued /\ board.issued[id] \in Toasts
  BY <1>2, <1>3, ToastOf DEF Shown
<1>5. q \in Seq(Toasts) /\ Len(q) = Len(board.issued) /\ c \in Nat
  <2>1. [board.issued[id] EXCEPT !.closed = TRUE] \in Toasts
    BY <1>4 DEF Toasts
  <2>2. q = [board.issued EXCEPT
               ![id] = [board.issued[id] EXCEPT !.closed = TRUE]]
    OBVIOUS
  <2> QED
    BY <1>3, <1>4, <2>1, <2>2, ExceptSeq
<1>6. \A i \in Shown(board) :
        /\ q[i].at = board.issued[i].at
        /\ q[i].duration = board.issued[i].duration
        /\ board.issued[i].closed => q[i].closed
        /\ i = id => q[i].closed
  <2> SUFFICES ASSUME NEW i \in Shown(board)
               PROVE  /\ q[i].at = board.issued[i].at
                      /\ q[i].duration = board.issued[i].duration
                      /\ board.issued[i].closed => q[i].closed
                      /\ i = id => q[i].closed
    OBVIOUS
  <2>1. i \in DOMAIN board.issued /\ board.issued[i] \in Toasts
    BY <1>2, <1>3, ToastOf DEF Shown
  <2>2. q[i] = IF i = id THEN [board.issued[i] EXCEPT !.closed = TRUE]
               ELSE board.issued[i]
    BY <2>1
  <2> QED
    BY <2>1, <2>2 DEF Toasts
<1> HIDE DEF q, c
<1>7. CASE board.kit
  <2> DEFINE x == board.closing \cup {<<id, board.now + ANIMATION>>}
             k == [board EXCEPT !.closing = x, !.issued = q, !.clicks = c]
  <2>1. board' = k
    BY <1>1, <1>2, <1>7 DEF OnDismiss, BoardStates, q, c
  <2>2. x \in SUBSET (Nat \X Nat)
    BY <1>3, <1>4
  <2>3. /\ k \in BoardStates /\ k.kit = board.kit /\ k.now = board.now
        /\ k.toasts = board.toasts /\ k.timers = board.timers
        /\ k.closing = x /\ k.issued = q
    BY <1>2, <1>5, <2>2 DEF BoardStates
  <2> HIDE DEF k
  <2>4. /\ \A i \in Shown(board) : End(k, i) = End(board, i)
        /\ Spent(k, id)
    BY <1>2, <1>6, <2>3 DEF End, Spent
  <2>5. Ticking(k, id)
    BY <1>2, <2>3, <2>4 DEF Ticking
  <2>6. BoardOK(k)
    BY <1>2, <1>5, <1>6, <1>7, <2>3, <2>4, <2>5, TakesOneAway
  <2> QED
    BY <2>1, <2>6
<1>8. CASE ~board.kit
  <2> DEFINE s == board.toasts \ {id}
             m == {t \in board.timers : t[1] # id}
             k == [board EXCEPT !.toasts = s, !.timers = m,
                                !.issued = q, !.clicks = c]
  <2>1. board' = k
    BY <1>1, <1>2, <1>8 DEF OnDismiss, Dismiss, BoardStates, q, c
  <2>2. s \in SUBSET Nat /\ m \in SUBSET (Nat \X Nat)
    BY <1>3
  <2>3. /\ k \in BoardStates /\ k.kit = board.kit /\ k.now = board.now
        /\ k.toasts = s /\ k.timers = m
        /\ k.closing = board.closing /\ k.issued = q
    BY <1>2, <1>5, <2>2 DEF BoardStates
  <2> HIDE DEF k
  <2>4. /\ \A i \in Shown(board) : End(k, i) = End(board, i)
        /\ Spent(k, id)
    BY <1>2, <1>6, <2>3 DEF End, Spent
  <2>5. BoardOK(k)
    BY <1>2, <1>5, <1>6, <2>3, <2>4, TakesOneAway
  <2> QED
    BY <2>1, <2>5
<1> QED
  BY <1>7, <1>8

(* A timer that fires takes its own toast away.                            *)
LEMMA AutoDismissOK == BoardOK(board) /\ AutoDismiss => BoardOK(board')
<1> SUFFICES ASSUME BoardOK(board), AutoDismiss
             PROVE  BoardOK(board')
  OBVIOUS
<1>1. PICK t \in board.timers :
        /\ t[2] <= board.now
        /\ board' = OnDismiss([board EXCEPT !.timers = @ \ {t}], t[1])
  BY DEF AutoDismiss
<1> DEFINE id == t[1]
<1>2. /\ board \in BoardStates /\ id \in Shown(board)
      /\ t[2] = End(board, id) /\ board.now <= t[2]
  BY DEF BoardOK, IdsKnown, Timed
<1>3. /\ board.now \in Nat /\ ANIMATION \in Nat /\ board.kit \in BOOLEAN
      /\ board.closing \in SUBSET (Nat \X Nat)
      /\ board.timers \in SUBSET (Nat \X Nat) /\ board.toasts \in SUBSET Nat
  BY <1>2, WidgetConstants DEF BoardStates
<1>4. id \in Nat /\ t[2] \in Nat /\ board.now = t[2]
      /\ t = <<id, t[2]>>
  BY <1>1, <1>2, <1>3
<1>5. Spent(board, id)
  BY <1>1, <1>2 DEF Spent
<1> HIDE DEF id
<1>6. CASE board.kit
  <2> DEFINE x == board.closing \cup {<<id, board.now + ANIMATION>>}
             m == board.timers \ {t}
             k == [board EXCEPT !.closing = x, !.timers = m]
  <2>1. board' = k
    BY <1>1, <1>2, <1>6 DEF OnDismiss, BoardStates, id
  <2>2. x \in SUBSET (Nat \X Nat) /\ m \in SUBSET (Nat \X Nat)
    BY <1>3, <1>4
  <2>3. /\ k \in BoardStates /\ k.kit = board.kit /\ k.now = board.now
        /\ k.toasts = board.toasts /\ k.timers = m
        /\ k.closing = x /\ k.issued = board.issued
    BY <1>2, <2>2 DEF BoardStates
  <2> HIDE DEF k
  <2>4. /\ \A i \in Shown(board) : End(k, i) = End(board, i)
        /\ Spent(k, id)
    BY <1>5, <2>3 DEF End, Spent
  <2>5. Ticking(k, id)
    <3>1. <<id, board.now + ANIMATION>> \in k.closing
      BY <2>3
    <3>2. /\ <<id, board.now + ANIMATION>>[1] = id
          /\ <<id, board.now + ANIMATION>>[2] <= End(k, id) + ANIMATION
      BY <1>2, <1>3, <1>4, <2>4
    <3> QED
      BY <1>6, <2>3, <3>1, <3>2 DEF Ticking
  <2>6. \A u \in board.timers : u \in k.timers \/ u[1] = id
    BY <2>3 DEF id
  <2>7. BoardOK(k)
    BY <1>2, <1>6, <2>3, <2>4, <2>5, <2>6, TakesOneAway
  <2> QED
    BY <2>1, <2>7
<1>7. CASE ~board.kit
  <2> DEFINE s == board.toasts \ {id}
             m == {u \in board.timers \ {t} : u[1] # id}
             k == [board EXCEPT !.toasts = s, !.timers = m]
  <2>1. board' = k
    BY <1>1, <1>2, <1>7 DEF OnDismiss, Dismiss, BoardStates, id
  <2>2. s \in SUBSET Nat /\ m \in SUBSET (Nat \X Nat)
    BY <1>3
  <2>3. /\ k \in BoardStates /\ k.kit = board.kit /\ k.now = board.now
        /\ k.toasts = s /\ k.timers = m
        /\ k.closing = board.closing /\ k.issued = board.issued
    BY <1>2, <2>2 DEF BoardStates
  <2> HIDE DEF k
  <2>4. /\ \A i \in Shown(board) : End(k, i) = End(board, i)
        /\ Spent(k, id)
    BY <1>5, <2>3 DEF End, Spent
  <2>5. \A u \in board.timers : u \in k.timers \/ u[1] = id
    BY <2>3 DEF id
  <2>6. BoardOK(k)
    BY <1>2, <2>3, <2>4, <2>5, TakesOneAway
  <2> QED
    BY <2>1, <2>6
<1> QED
  BY <1>3, <1>6, <1>7

(* An animation that ends takes its own toast away.                        *)
LEMMA OnCloseOK == BoardOK(board) /\ OnClose => BoardOK(board')
<1> SUFFICES ASSUME BoardOK(board), OnClose
             PROVE  BoardOK(board')
  OBVIOUS
<1>1. PICK t \in board.closing :
        /\ t[2] <= board.now
        /\ board' = Dismiss([board EXCEPT !.closing = @ \ {t}], t[1])
  BY DEF OnClose
<1> DEFINE id == t[1]
<1>2. /\ board \in BoardStates /\ id \in Shown(board)
      /\ board.issued[id].closed \/ End(board, id) <= t[2]
  BY DEF BoardOK, IdsKnown, Leaving
<1>3. /\ board.now \in Nat /\ End(board, id) \in Nat
      /\ board.closing \in SUBSET (Nat \X Nat)
      /\ board.timers \in SUBSET (Nat \X Nat) /\ board.toasts \in SUBSET Nat
  BY <1>2, ToastOf DEF BoardStates
<1>4. t[2] \in Nat
  BY <1>3
<1>5. Spent(board, id)
  BY <1>1, <1>2, <1>3, <1>4 DEF Spent
<1> HIDE DEF id
<1> DEFINE x == board.closing \ {t}
           s == board.toasts \ {id}
           m == {u \in board.timers : u[1] # id}
           k == [board EXCEPT !.toasts = s, !.timers = m, !.closing = x]
<1>6. board' = k
  BY <1>1, <1>2 DEF Dismiss, BoardStates, id
<1>7. x \in SUBSET (Nat \X Nat) /\ s \in SUBSET Nat
      /\ m \in SUBSET (Nat \X Nat)
  BY <1>3
<1>8. /\ k \in BoardStates /\ k.kit = board.kit /\ k.now = board.now
      /\ k.toasts = s /\ k.timers = m
      /\ k.closing = x /\ k.issued = board.issued
  BY <1>2, <1>7 DEF BoardStates
<1> HIDE DEF k
<1>9. /\ \A i \in Shown(board) : End(k, i) = End(board, i)
      /\ Spent(k, id)
  BY <1>5, <1>8 DEF End, Spent
<1>10. \A u \in board.closing : u \in k.closing \/ u[1] = id
  BY <1>8 DEF id
<1>11. BoardOK(k)
  BY <1>2, <1>8, <1>9, <1>10, TakesOneAway
<1> QED
  BY <1>6, <1>11

(* Time passes only while no timer is due.                                 *)
LEMMA TimePassesOK == BoardOK(board) /\ TimePasses => BoardOK(board')
<1> SUFFICES ASSUME BoardOK(board), TimePasses
             PROVE  BoardOK(board')
  OBVIOUS
<1>1. /\ board \in BoardStates /\ IdsKnown(board) /\ Timed(board)
      /\ Leaving(board)
      /\ \A i \in board.toasts : Ticking(board, i)
      /\ \A i \in Shown(board) \ board.toasts : Left(board, i)
  BY DEF BoardOK
<1> DEFINE n == board.now + 1
           k == [board EXCEPT !.now = n]
<1>2. /\ board' = k
      /\ \A t \in board.timers \cup board.closing : t[2] > board.now
  BY DEF TimePasses
<1>3. /\ board.now \in Nat /\ n \in Nat
      /\ board.closing \in SUBSET (Nat \X Nat)
      /\ board.timers \in SUBSET (Nat \X Nat)
  BY <1>1 DEF BoardStates
<1>4. \A t \in board.timers \cup board.closing : n <= t[2]
  BY <1>2, <1>3
<1>5. \A m \in Nat : m <= board.now => m <= n
  BY <1>3
<1> HIDE DEF n
<1>6. /\ k \in BoardStates /\ k.kit = board.kit /\ k.now = n
      /\ k.toasts = board.toasts /\ k.timers = board.timers
      /\ k.closing = board.closing /\ k.issued = board.issued
  BY <1>1, <1>3 DEF BoardStates
<1> HIDE DEF k
<1>7. IdsKnown(k) /\ Shown(k) = Shown(board)
  BY <1>1, <1>6 DEF IdsKnown, Shown
<1>8. Timed(k)
  BY <1>1, <1>4, <1>6 DEF Timed, End
<1>9. Leaving(k)
  BY <1>1, <1>4, <1>6 DEF Leaving, End
<1>10. \A i \in k.toasts : Ticking(k, i)
  BY <1>1, <1>6 DEF Ticking, End
<1>11. \A i \in Shown(k) \ k.toasts : Left(k, i)
  <2> SUFFICES ASSUME NEW i \in Shown(board) \ board.toasts
               PROVE  Left(k, i)
    BY <1>6, <1>7
  <2>1. Left(board, i) /\ End(board, i) \in Nat /\ End(k, i) = End(board, i)
    BY <1>1, <1>6, ToastOf DEF End
  <2> QED
    BY <1>5, <1>6, <2>1 DEF Left, Spent
<1> QED
  BY <1>2, <1>6, <1>7, <1>8, <1>9, <1>10, <1>11 DEF BoardOK

(* A toast is pushed out only by as many newer ones as there is room for.  *)
LEMMA PushedOut ==
    ASSUME NEW S, NEW n \in Nat, S \subseteq 1..n, NEW i \in 1..n,
           ~(Cardinality({j \in S : j > i}) < MAX_TOASTS)
    PROVE  MAX_TOASTS <= n - i
<1> DEFINE N == {j \in S : j > i}
<1>1. i \in Nat /\ i + 1 \in Int /\ n \in Int /\ MAX_TOASTS \in Nat
  BY WidgetConstants
<1>2. /\ IsFiniteSet((i + 1)..n)
      /\ Cardinality((i + 1)..n) =
           IF i + 1 > n THEN 0 ELSE n - (i + 1) + 1
  BY <1>1, FS_Interval
<1>3. N \subseteq (i + 1)..n
  <2> SUFFICES ASSUME NEW j \in S, j > i
               PROVE  j \in (i + 1)..n
    OBVIOUS
  <2>1. j \in Int /\ j <= n
    OBVIOUS
  <2> QED
    BY <1>1, <2>1
<1>4. Cardinality(N) <= Cardinality((i + 1)..n) /\ Cardinality(N) \in Nat
  BY <1>2, <1>3, FS_Subset, FS_CardinalityType
<1>5. ~(Cardinality(N) < MAX_TOASTS)
  OBVIOUS
<1> HIDE DEF N
<1> QED
  BY <1>1, <1>2, <1>4, <1>5

(* A new toast has a timer, and those it pushes out are gone for good.     *)
LEMMA ShowToastOK == BoardOK(board) /\ ShowToast => BoardOK(board')
<1> SUFFICES ASSUME BoardOK(board), ShowToast
             PROVE  BoardOK(board')
  OBVIOUS
<1>1. /\ board \in BoardStates /\ IdsKnown(board) /\ Timed(board)
      /\ Leaving(board)
      /\ \A i \in board.toasts : Ticking(board, i)
      /\ \A i \in Shown(board) \ board.toasts : Left(board, i)
  BY DEF BoardOK
<1>2. PICK d \in Durations : board' = Added(board, d)
  BY DEF ShowToast
<1>3. /\ board.now \in Nat /\ d \in Nat /\ board.kit \in BOOLEAN
      /\ board.issued \in Seq(Toasts) /\ board.clicks \in Nat
      /\ board.closing \in SUBSET (Nat \X Nat)
      /\ board.timers \in SUBSET (Nat \X Nat) /\ board.toasts \in SUBSET Nat
  BY <1>1, WidgetConstants DEF BoardStates
<1> DEFINE len == Len(board.issued)
           id == len + 1
           next == board.toasts \cup {id}
           kept == {i \in next : board.kit \/
                      Cardinality({j \in next : j > i}) < MAX_TOASTS}
           over == board.now + d
           m == {t \in board.timers \cup {<<id, over>>} : t[1] \in kept}
           new == [at |-> board.now, duration |-> d, closed |-> FALSE]
           q == Append(board.issued, new)
           k == [board EXCEPT !.toasts = kept, !.timers = m, !.issued = q]
<1>4. board' = k
  BY <1>2 DEF Added
<1>5. len \in Nat /\ id \in Nat /\ over \in Nat /\ new \in Toasts
      /\ id \notin 1..len /\ \A i \in 1..len : i # id /\ i \in 1..id
  BY <1>3 DEF Toasts
<1>6. /\ q \in Seq(Toasts) /\ Len(q) = id /\ q[id] = new
      /\ \A i \in 1..len : q[i] = board.issued[i]
  BY <1>3, <1>5, AppendProperties
<1>7. new.at = board.now /\ new.duration = d /\ new.closed = FALSE
  OBVIOUS
<1>8. kept \in SUBSET Nat /\ m \in SUBSET (Nat \X Nat)
  BY <1>3, <1>5
<1>9. next \subseteq 1..id
  BY <1>1, <1>5 DEF IdsKnown, Shown
<1> HIDE DEF new, q
<1>10. /\ k \in BoardStates /\ k.kit = board.kit /\ k.now = board.now
       /\ k.toasts = kept /\ k.timers = m
       /\ k.closing = board.closing /\ k.issued = q
  BY <1>1, <1>6, <1>8 DEF BoardStates
<1> HIDE DEF k
<1>11. Shown(k) = 1..id /\ Shown(board) = 1..len
  BY <1>6, <1>10 DEF Shown
<1>12. /\ End(k, id) = over
       /\ \A i \in 1..len : End(k, i) = End(board, i)
                            /\ k.issued[i].closed = board.issued[i].closed
  BY <1>6, <1>7, <1>10 DEF End
<1>13. IdsKnown(k)
  <2>1. kept \subseteq 1..id
    BY <1>9
  <2>2. \A t \in m : t[1] \in 1..id
    BY <2>1
  <2>3. \A t \in board.closing : t[1] \in 1..id
    BY <1>1, <1>5, <1>11 DEF IdsKnown
  <2> QED
    BY <1>10, <1>11, <2>1, <2>2, <2>3 DEF IdsKnown
<1>14. Timed(k)
  <2> SUFFICES ASSUME NEW t \in m
               PROVE  t[2] = End(k, t[1]) /\ board.now <= t[2]
    BY <1>10 DEF Timed
  <2>1. CASE t \in board.timers
    <3>1. /\ t[1] \in 1..len /\ t[2] = End(board, t[1])
          /\ board.now <= t[2]
      BY <1>1, <1>11, <2>1 DEF IdsKnown, Timed
    <3> QED
      BY <1>12, <3>1
  <2>2. CASE t = <<id, over>>
    <3>1. t[1] = id /\ t[2] = over
      BY <2>2
    <3>2. board.now <= over
      BY <1>3
    <3> QED
      BY <1>12, <3>1, <3>2
  <2> QED
    BY <2>1, <2>2
<1>15. Leaving(k)
  <2> SUFFICES ASSUME NEW t \in board.closing
               PROVE  /\ board.kit /\ board.now <= t[2]
                      /\ k.issued[t[1]].closed \/ End(k, t[1]) <= t[2]
    BY <1>10 DEF Leaving
  <2>1. /\ t[1] \in 1..len /\ board.kit /\ board.now <= t[2]
        /\ board.issued[t[1]].closed \/ End(board, t[1]) <= t[2]
    BY <1>1, <1>11 DEF IdsKnown, Leaving
  <2> QED
    BY <1>12, <2>1
<1>16. ASSUME NEW i \in kept
       PROVE  Ticking(k, i)
  <2>1. CASE i = id
    <3>1. <<id, over>>[1] \in kept
      BY <2>1
    <3>2. <<id, over>> \in m
      BY <3>1
    <3> QED
      BY <1>10, <1>12, <2>1, <3>2 DEF Ticking
  <2>2. CASE i # id
    <3>1. i \in board.toasts /\ i \in 1..len
      BY <1>1, <1>11, <2>2 DEF IdsKnown
    <3>2. Ticking(board, i) /\ End(k, i) = End(board, i)
      BY <1>1, <1>12, <3>1
    <3>3. CASE <<i, End(board, i)>> \in board.timers
      <4>1. <<i, End(board, i)>>[1] \in kept
        OBVIOUS
      <4>2. <<i, End(board, i)>> \in m
        BY <3>3, <4>1
      <4> QED
        BY <1>10, <3>2, <4>2 DEF Ticking
    <3>4. CASE board.kit /\ \E t \in board.closing :
                 t[1] = i /\ t[2] <= End(board, i) + ANIMATION
      BY <1>10, <3>2, <3>4 DEF Ticking
    <3> QED
      BY <3>2, <3>3, <3>4 DEF Ticking
  <2> QED
    BY <2>1, <2>2
<1>17. ASSUME NEW i \in 1..id, i \notin kept
       PROVE  Left(k, i)
  <2>1. CASE i \in next
    <3>1. ~board.kit /\ ~(Cardinality({j \in next : j > i}) < MAX_TOASTS)
      BY <1>17, <2>1
    <3> HIDE DEF next
    <3>2. MAX_TOASTS <= id - i
      BY <1>5, <1>9, <3>1, PushedOut
    <3> QED
      BY <1>6, <1>10, <3>1, <3>2 DEF Left
  <2>2. CASE i \notin next
    <3>1. i \in 1..len /\ i \in Nat /\ i \notin board.toasts
      BY <1>5, <2>2
    <3>2. Left(board, i)
      BY <1>1, <1>11, <3>1
    <3>3. CASE Spent(board, i)
      BY <1>10, <1>12, <3>1, <3>3 DEF Left, Spent
    <3>4. CASE ~board.kit /\ MAX_TOASTS <= len - i
      <4>1. MAX_TOASTS <= id - i
        BY <1>5, <3>1, <3>4, WidgetConstants
      <4> QED
        BY <1>6, <1>10, <3>4, <4>1 DEF Left
    <3> QED
      BY <3>2, <3>3, <3>4 DEF Left
  <2> QED
    BY <2>1, <2>2
<1> HIDE DEF kept, m, id
<1>18. \A i \in Shown(k) \ k.toasts : Left(k, i)
  BY <1>10, <1>11, <1>17
<1>19. \A i \in k.toasts : Ticking(k, i)
  BY <1>10, <1>16
<1>20. BoardOK(k)
  BY <1>10, <1>13, <1>14, <1>15, <1>18, <1>19 DEF BoardOK
<1> QED
  BY <1>4, <1>20

(* Every step of the toasts keeps their invariant.                         *)
LEMMA ToastStep == BoardOK(board) /\ [ToastNext]_board => BoardOK(board')
<1>1. BoardOK(board) /\ UNCHANGED board => BoardOK(board')
  OBVIOUS
<1> QED
  BY <1>1, ShowToastOK, ClickDismissOK, AutoDismissOK, OnCloseOK,
     TimePassesOK DEF ToastNext

(* No toasts are shown at first.                                           *)
LEMMA NoToastsOK == \A x \in BOOLEAN : BoardOK([NoToasts EXCEPT !.kit = x])
<1> SUFFICES ASSUME NEW x \in BOOLEAN
             PROVE  BoardOK([NoToasts EXCEPT !.kit = x])
  OBVIOUS
<1> DEFINE b == [NoToasts EXCEPT !.kit = x]
<1>1. /\ b.kit = x /\ b.now = 0 /\ b.toasts = {} /\ b.timers = {}
      /\ b.closing = {} /\ b.issued = <<>> /\ b.clicks = 0
      /\ b \in [kit : BOOLEAN, now : Nat, toasts : SUBSET Nat,
                timers : SUBSET (Nat \X Nat),
                closing : SUBSET (Nat \X Nat),
                issued : {<<>>}, clicks : Nat]
  BY DEF NoToasts
<1>2. <<>> \in Seq(Toasts) /\ Len(<<>>) = 0
  OBVIOUS
<1>3. b \in BoardStates
  BY <1>1, <1>2 DEF BoardStates
<1> HIDE DEF b
<1>4. Shown(b) = {}
  BY <1>1, <1>2 DEF Shown
<1> QED
  BY <1>1, <1>3, <1>4 DEF BoardOK, IdsKnown, Timed, Leaving, b

(* What the toasts' invariant says of when they leave.                     *)
LEMMA ToastsAreTrue == BoardOK(board) => ToastsExpire /\ ToastsStay
<1> SUFFICES ASSUME BoardOK(board)
             PROVE  ToastsExpire /\ ToastsStay
  OBVIOUS
<1>1. /\ board \in BoardStates /\ IdsKnown(board) /\ Timed(board)
      /\ Leaving(board)
      /\ \A i \in board.toasts : Ticking(board, i)
      /\ \A i \in Shown(board) \ board.toasts : Left(board, i)
  BY DEF BoardOK
<1>2. /\ board.now \in Nat /\ ANIMATION \in Nat /\ MAX_TOASTS \in Nat
      /\ board.issued \in Seq(Toasts)
      /\ board.closing \in SUBSET (Nat \X Nat)
      /\ board.timers \in SUBSET (Nat \X Nat)
  BY <1>1, WidgetConstants DEF BoardStates
<1>3. ToastsExpire
  <2> SUFFICES ASSUME NEW id \in board.toasts
               PROVE  board.now <= board.issued[id].at
                                   + board.issued[id].duration
                                   + (IF board.kit THEN ANIMATION ELSE 0)
    BY DEF ToastsExpire
  <2>1. id \in Shown(board) /\ Ticking(board, id)
    BY <1>1 DEF IdsKnown
  <2>2. End(board, id) \in Nat
    BY <1>1, <2>1, ToastOf
  <2>3. CASE <<id, End(board, id)>> \in board.timers
    <3>1. <<id, End(board, id)>>[2] = End(board, id)
      OBVIOUS
    <3>2. board.now <= End(board, id)
      BY <1>1, <2>3, <3>1 DEF Timed
    <3> QED
      BY <1>2, <2>2, <3>2 DEF End
  <2>4. CASE board.kit /\ \E t \in board.closing :
               t[1] = id /\ t[2] <= End(board, id) + ANIMATION
    <3>1. PICK t \in board.closing : t[2] <= End(board, id) + ANIMATION
      BY <2>4
    <3>2. board.now <= t[2] /\ t[2] \in Nat
      BY <1>1, <1>2 DEF Leaving
    <3>3. board.now <= End(board, id) + ANIMATION
      BY <1>2, <2>2, <3>1, <3>2
    <3> QED
      BY <2>4, <3>3 DEF End
  <2> QED
    BY <2>1, <2>3, <2>4 DEF Ticking
<1>4. ToastsStay
  <2> SUFFICES ASSUME NEW id \in DOMAIN board.issued,
                      ~board.issued[id].closed,
                      board.now < End(board, id),
                      board.kit \/ Len(board.issued) - id < MAX_TOASTS
               PROVE  id \in board.toasts
    BY DEF ToastsStay, End
  <2>1. id \in Shown(board) /\ id \in Nat /\ Len(board.issued) \in Nat
    BY <1>2 DEF Shown
  <2>2. End(board, id) \in Nat
    BY <1>1, <2>1, ToastOf
  <2>3. ~Left(board, id)
    BY <1>2, <2>1, <2>2 DEF Left, Spent
  <2> QED
    BY <1>1, <2>1, <2>3
<1> QED
  BY <1>3, <1>4

-----------------------------------------------------------------------------
(* Integer division.                                                       *)

(* The quotient of two natural numbers rounds down.                        *)
LEMMA DivRounds ==
    ASSUME NEW a \in Nat, NEW n \in Nat \ {0}
    PROVE  /\ a \div n \in Nat
           /\ n * (a \div n) <= a
           /\ a < n * (a \div n) + n
  OBVIOUS

(* A larger factor gives no smaller product.                               *)
LEMMA MulGrows ==
    ASSUME NEW n \in Nat, NEW a \in Nat, NEW b \in Nat, a <= b
    PROVE  /\ n * a <= n * b
           /\ n * a \in Nat /\ n * b \in Nat
  OBVIOUS

(* The quotient is the only number whose multiple is that close below.     *)
LEMMA DivIs ==
    ASSUME NEW a \in Nat, NEW n \in Nat \ {0}, NEW q \in Nat,
           n * q <= a, a < n * q + n
    PROVE  a \div n = q
<1> DEFINE p == a \div n
<1>1. p \in Nat /\ n * p <= a /\ a < n * p + n
  BY DivRounds
<1> HIDE DEF p
<1>2. n * (p + 1) = n * p + n /\ n * (q + 1) = n * q + n
      /\ n * p \in Nat /\ n * q \in Nat
  BY <1>1
<1>3. ~(p + 1 <= q)
  <2> SUFFICES ASSUME p + 1 <= q
               PROVE  FALSE
    OBVIOUS
  <2>1. n * (p + 1) <= n * q
    BY <1>1, MulGrows
  <2> QED
    BY <1>1, <1>2, <2>1
<1>4. ~(q + 1 <= p)
  <2> SUFFICES ASSUME q + 1 <= p
               PROVE  FALSE
    OBVIOUS
  <2>1. n * (q + 1) <= n * p
    BY <1>1, MulGrows
  <2> QED
    BY <1>1, <1>2, <2>1
<1>5. p = q
  BY <1>1, <1>3, <1>4
<1> QED
  BY <1>5 DEF p

-----------------------------------------------------------------------------
(* The table.                                                              *)

TableStates ==
    [rows : Seq(TableRow), search : DOMAIN Searches, sortKey : SortKeys,
     desc : BOOLEAN, page : Nat \ {0}, confirm : Nat, deactivating : Nat,
     running : SUBSET Nat, shrunk : BOOLEAN, events : Nat]

(* How many pages n rows take.                                             *)
PagesFor(n) == IF n = 0 THEN 1 ELSE (n + TABLE_PAGE - 1) \div TABLE_PAGE

(* At most one deactivation runs, and the table knows which.               *)
OneRuns(t) ==
    t.running = IF t.deactivating = 0 THEN {} ELSE {t.deactivating}

OnAPage(t) == t.shrunk \/ t.page <= TotalPages(t)

TableOK(t) ==
    t \in TableStates /\ DistinctIds(t.rows) /\ OneRuns(t) /\ OnAPage(t)

(* A table's rows by their places.                                         *)
LEMMA RowOf ==
    ASSUME NEW t \in TableStates, NEW i \in DOMAIN t.rows
    PROVE  /\ i \in Nat /\ t.rows[i] \in TableRow
           /\ t.rows[i][t.sortKey] \in Nat /\ t.desc \in BOOLEAN
<1>1. t.rows \in Seq(TableRow) /\ t.sortKey \in SortKeys
      /\ t.desc \in BOOLEAN
  BY DEF TableStates
<1>2. /\ Len(t.rows) \in Nat /\ DOMAIN t.rows = 1..Len(t.rows)
      /\ t.rows[i] \in TableRow
  BY <1>1, LenProperties, ElementOfSeq
<1>3. \A r \in TableRow : r.id \in Nat /\ r.reward_amount \in Nat
  BY DEF TableRow
<1>4. CASE t.sortKey = "id"
  BY <1>1, <1>2, <1>3, <1>4
<1>5. CASE t.sortKey = "reward_amount"
  BY <1>1, <1>2, <1>3, <1>5
<1> QED
  BY <1>1, <1>4, <1>5 DEF SortKeys

(* Sorting puts any two rows in one order.                                 *)
LEMMA SortOrders ==
    ASSUME NEW t \in TableStates,
           NEW i \in DOMAIN t.rows, NEW j \in DOMAIN t.rows
    PROVE  /\ ~Precedes(t, i, i)
           /\ i # j => Precedes(t, i, j) \/ Precedes(t, j, i)
<1>1. /\ i \in Nat /\ j \in Nat /\ t.desc \in BOOLEAN
      /\ t.rows[i][t.sortKey] \in Nat /\ t.rows[j][t.sortKey] \in Nat
  BY RowOf
<1> QED
  BY <1>1 DEF Precedes

(* ... and is transitive.                                                 *)
LEMMA SortIsTransitive ==
    ASSUME NEW t \in TableStates,
           NEW i \in DOMAIN t.rows, NEW j \in DOMAIN t.rows,
           NEW k \in DOMAIN t.rows, Precedes(t, i, j), Precedes(t, j, k)
    PROVE  Precedes(t, i, k)
<1>1. /\ i \in Nat /\ j \in Nat /\ k \in Nat /\ t.desc \in BOOLEAN
      /\ t.rows[i][t.sortKey] \in Nat /\ t.rows[j][t.sortKey] \in Nat
      /\ t.rows[k][t.sortKey] \in Nat
  BY RowOf
<1> QED
  BY <1>1 DEF Precedes

(* The rows found are finitely many.                                       *)
LEMMA FoundFinite ==
    ASSUME NEW t \in TableStates
    PROVE  /\ IsFiniteSet(Filtered(t)) /\ Cardinality(Filtered(t)) \in Nat
           /\ Filtered(t) \subseteq DOMAIN t.rows
<1>1. Len(t.rows) \in Nat /\ DOMAIN t.rows = 1..Len(t.rows)
  BY LenProperties DEF TableStates
<1>2. Filtered(t) \in SUBSET DOMAIN t.rows
  BY DEF Filtered
<1>3. IsFiniteSet(1..Len(t.rows))
  BY <1>1, FS_Interval
<1> QED
  BY <1>1, <1>2, <1>3, FS_Subset, FS_CardinalityType

(* Ranks are below the number of rows found, and no two rows share one.    *)
LEMMA RanksDiffer ==
    ASSUME NEW t \in TableStates,
           NEW i \in Filtered(t), NEW j \in Filtered(t)
    PROVE  /\ Rank(t, i) \in Nat /\ Rank(t, i) < Cardinality(Filtered(t))
           /\ Precedes(t, i, j) => Rank(t, i) < Rank(t, j)
<1> DEFINE F == Filtered(t)
           B(k) == {l \in F : Precedes(t, l, k)}
<1>1. IsFiniteSet(F) /\ Cardinality(F) \in Nat /\ F \subseteq DOMAIN t.rows
  BY FoundFinite
<1>2. ASSUME NEW k \in F
      PROVE  /\ IsFiniteSet(B(k)) /\ Cardinality(B(k)) \in Nat
             /\ Cardinality(B(k)) < Cardinality(F)
  <2>1. B(k) \in SUBSET F /\ k \notin B(k)
    BY <1>1, SortOrders
  <2>2. /\ IsFiniteSet(B(k)) /\ Cardinality(B(k)) <= Cardinality(F)
        /\ Cardinality(F) = Cardinality(B(k)) => F = B(k)
    BY <1>1, <2>1, FS_Subset
  <2>3. Cardinality(B(k)) \in Nat
    BY <2>2, FS_CardinalityType
  <2> HIDE DEF F, B
  <2> QED
    BY <1>1, <2>1, <2>2, <2>3
<1>3. ASSUME Precedes(t, i, j)
      PROVE  Cardinality(B(i)) < Cardinality(B(j))
  <2>1. i \in B(j) /\ i \notin B(i)
    BY <1>1, <1>3, SortOrders
  <2>2. B(i) \in SUBSET B(j)
    BY <1>1, <1>3, SortIsTransitive
  <2>3. /\ Cardinality(B(i)) <= Cardinality(B(j))
        /\ Cardinality(B(j)) = Cardinality(B(i)) => B(j) = B(i)
    BY <1>2, <2>2, FS_Subset
  <2>4. Cardinality(B(i)) \in Nat /\ Cardinality(B(j)) \in Nat
    BY <1>2
  <2> HIDE DEF B
  <2> QED
    BY <2>1, <2>3, <2>4
<1>4. Rank(t, i) = Cardinality(B(i)) /\ Rank(t, j) = Cardinality(B(j))
  BY DEF Rank
<1> HIDE DEF B
<1> QED
  BY <1>2, <1>3, <1>4

(* The number of pages is positive, and grows with the number of rows.     *)
LEMMA PagesGrow ==
    ASSUME NEW m \in Nat, NEW n \in Nat, m <= n
    PROVE  /\ PagesFor(n) \in Nat /\ 1 <= PagesFor(n)
           /\ PagesFor(m) <= PagesFor(n)
<1> DEFINE T == TABLE_PAGE
           p == (m + T - 1) \div T
           q == (n + T - 1) \div T
<1>1. T \in Nat \ {0}
  BY WidgetConstants
<1> HIDE DEF T
<1>2. m + T - 1 \in Nat /\ n + T - 1 \in Nat
  BY <1>1
<1>3. /\ p \in Nat /\ T * p <= m + T - 1
      /\ q \in Nat /\ n + T - 1 < T * q + T
  BY <1>1, <1>2, DivRounds
<1> HIDE DEF p, q
<1>4. n # 0 => 1 <= q
  <2> SUFFICES ASSUME n # 0, q = 0
               PROVE  FALSE
    BY <1>3
  <2>1. T * q = 0
    BY <1>1
  <2> QED
    BY <1>1, <1>3, <2>1
<1>5. p <= q
  <2> SUFFICES ASSUME q + 1 <= p
               PROVE  FALSE
    BY <1>3
  <2>1. T * (q + 1) <= T * p
    BY <1>1, <1>3, MulGrows
  <2>2. T * (q + 1) = T * q + T /\ T * q \in Nat /\ T * p \in Nat
    BY <1>1, <1>3
  <2> QED
    BY <1>1, <1>3, <2>1, <2>2
<1>6. /\ PagesFor(n) = IF n = 0 THEN 1 ELSE q
      /\ PagesFor(m) = IF m = 0 THEN 1 ELSE p
  BY DEF PagesFor, p, q, T
<1> QED
  BY <1>3, <1>4, <1>5, <1>6

(* The number of pages is that of the rows found.                          *)
LEMMA PagesOfTable ==
    \A t : TotalPages(t) = PagesFor(Cardinality(Filtered(t)))
  BY DEF TotalPages, PagesFor

(* A rank is on one page only, and that page is there.                     *)
LEMMA RankOnOnePage ==
    ASSUME NEW n \in Nat, NEW r \in Nat, r < n
    PROVE  \E q \in 1..PagesFor(n) :
             \A m \in 1..PagesFor(n) :
               (m - 1) * TABLE_PAGE <= r /\ r < m * TABLE_PAGE <=> m = q
<1> DEFINE T == TABLE_PAGE
           p == r \div T
           last == PagesFor(n)
<1>1. T \in Nat \ {0}
  BY WidgetConstants
<1>2. last \in Nat /\ 1 <= last
  BY PagesGrow
<1> HIDE DEF T
<1>3. p \in Nat /\ T * p <= r /\ r < T * p + T
  BY <1>1, DivRounds
<1> HIDE DEF p
<1>4. p + 1 <= last
  <2> DEFINE q == (n + T - 1) \div T
  <2>1. n + T - 1 \in Nat
    BY <1>1
  <2>2. q \in Nat /\ n + T - 1 < T * q + T
    BY <1>1, <2>1, DivRounds
  <2>3. last = q
    BY DEF PagesFor, T
  <2> HIDE DEF q
  <2> SUFFICES ASSUME q <= p
               PROVE  FALSE
    BY <1>3, <2>2, <2>3
  <2>4. T * q <= T * p /\ T * q \in Nat /\ T * p \in Nat
    BY <1>1, <1>3, <2>2, MulGrows
  <2> QED
    BY <1>1, <1>3, <2>2, <2>4
<1> HIDE DEF last
<1>5. p + 1 \in 1..last
  BY <1>2, <1>3, <1>4
<1>6. ASSUME NEW m \in 1..last
      PROVE  (m - 1) * T <= r /\ r < m * T <=> m = p + 1
  <2> DEFINE k == m - 1
  <2>1. k \in Nat /\ m = k + 1
    BY <1>2
  <2> HIDE DEF k
  <2>2. /\ (m - 1) * T = T * k /\ m * T = T * k + T /\ T * k \in Nat
        /\ (p + 1 - 1) * T = T * p /\ (p + 1) * T = T * p + T
    BY <1>1, <1>3, <2>1
  <2>3. ASSUME (m - 1) * T <= r, r < m * T
        PROVE  m = p + 1
    <3>1. r \div T = k
      BY <1>1, <2>1, <2>2, <2>3, DivIs
    <3> QED
      BY <2>1, <3>1 DEF p
  <2>4. ASSUME m = p + 1
        PROVE  (m - 1) * T <= r /\ r < m * T
    BY <1>3, <2>2, <2>4
  <2> QED
    BY <2>3, <2>4
<1> QED
  BY <1>5, <1>6 DEF T, last

(* As many rows as numbers below them in an interval, or fewer.            *)
LEMMA RowsFit ==
    ASSUME NEW S, NEW f, NEW a \in Int, NEW b \in Int, a <= b,
           \A i \in S : f[i] \in a..b,
           \A i, j \in S : f[i] = f[j] => i = j
    PROVE  IsFiniteSet(S) /\ Cardinality(S) <= b - a + 1
<1> DEFINE g == [i \in S |-> f[i]]
<1>1. g \in [S -> a..b] /\ \A i, j \in S : g[i] = g[j] => i = j
  OBVIOUS
<1> HIDE DEF g
<1>2. g \in Injection(S, a..b)
  BY <1>1 DEF Injection, IsInjective
<1>3. IsFiniteSet(a..b) /\ Cardinality(a..b) = b - a + 1
  BY FS_Interval
<1> QED
  BY <1>2, <1>3, FS_Injection

(* The pages of a table partition the rows found.                          *)
LEMMA TablePartitioned == TableOK(table) => PagesPartition
<1> SUFFICES ASSUME TableOK(table)
             PROVE  PagesPartition
  OBVIOUS
<1> DEFINE F == Filtered(table)
           n == Cardinality(F)
           last == TotalPages(table)
           T == TABLE_PAGE
<1>1. table \in TableStates /\ T \in Nat \ {0}
  BY WidgetConstants DEF TableOK
<1>2. n \in Nat /\ last = PagesFor(n)
  BY <1>1, FoundFinite, PagesOfTable
<1>3. last \in Nat /\ 1 <= last
  BY <1>2, PagesGrow
<1>4. \A m : PageData(table, m) =
               {i \in F : /\ (m - 1) * T <= Rank(table, i)
                          /\ Rank(table, i) < m * T}
  BY DEF PageData
<1>5. ASSUME NEW i \in F
      PROVE  \E q \in 1..last :
               {m \in 1..last : i \in PageData(table, m)} = {q}
  <2> DEFINE r == Rank(table, i)
  <2>1. r \in Nat /\ r < n
    BY <1>1, RanksDiffer
  <2> HIDE DEF r, n, last
  <2>2. PICK q \in 1..last :
          \A m \in 1..last : (m - 1) * T <= r /\ r < m * T <=> m = q
    BY <1>2, <2>1, RankOnOnePage
  <2>3. \A m \in 1..last : i \in PageData(table, m) <=> m = q
    BY <1>4, <2>2 DEF r
  <2> QED
    BY <2>3
<1>6. ASSUME NEW m \in 1..last
      PROVE  Cardinality(PageData(table, m)) <= T
  <2> DEFINE a == (m - 1) * T
             b == m * T - 1
             D == PageData(table, m)
             f == [i \in F |-> Rank(table, i)]
  <2>1. m \in Nat /\ m - 1 \in Nat
    BY <1>3
  <2>2. a \in Int /\ b \in Int /\ b = a + T - 1 /\ a <= b
    BY <1>1, <2>1
  <2>3. D \subseteq F /\ \A i \in D : f[i] = Rank(table, i)
    BY <1>4
  <2>4. \A i \in D : f[i] \in a..b
    <3> SUFFICES ASSUME NEW i \in D
                 PROVE  f[i] \in a..b
      OBVIOUS
    <3> DEFINE r == Rank(table, i)
    <3>1. r \in Nat /\ a <= r /\ r < m * T
      BY <1>1, <1>4, <2>3, RanksDiffer
    <3> HIDE DEF r
    <3>2. r \in a..b
      BY <1>1, <2>1, <2>2, <3>1
    <3> QED
      BY <2>3, <3>2 DEF r
  <2>5. \A i, j \in D : f[i] = f[j] => i = j
    <3> SUFFICES ASSUME NEW i \in D, NEW j \in D, i # j,
                        Rank(table, i) = Rank(table, j)
                 PROVE  FALSE
      BY <2>3
    <3>1. Precedes(table, i, j) \/ Precedes(table, j, i)
      BY <1>1, <2>3, FoundFinite, SortOrders
    <3>2. /\ Rank(table, i) \in Nat /\ Rank(table, j) \in Nat
          /\ Precedes(table, i, j) => Rank(table, i) < Rank(table, j)
          /\ Precedes(table, j, i) => Rank(table, j) < Rank(table, i)
      BY <1>1, <2>3, RanksDiffer
    <3> QED
      BY <3>1, <3>2
  <2> HIDE DEF a, b, D, f
  <2>6. Cardinality(D) <= b - a + 1
    BY <2>2, <2>4, <2>5, RowsFit
  <2>7. b - a + 1 = T
    BY <1>1, <2>2
  <2> QED
    BY <2>6, <2>7 DEF D
<1> QED
  BY <1>5, <1>6 DEF PagesPartition

(* Whatever does not touch the list or the search leaves the same pages.   *)
LEMMA SamePages ==
    ASSUME NEW t, NEW k, k.rows = t.rows, k.search = t.search
    PROVE  TotalPages(k) = TotalPages(t)
  BY DEF TotalPages, Filtered

(* A table is on its first page, whatever it shows.                        *)
LEMMA FirstPage ==
    ASSUME NEW t \in TableStates
    PROVE  TotalPages(t) \in Nat /\ 1 <= TotalPages(t)
  BY FoundFinite, PagesOfTable, PagesGrow

(* A list with every campaign of another has no fewer pages of those found.*)
LEMMA MoreRowsMorePages ==
    ASSUME NEW t \in TableStates, NEW k \in TableStates,
           k.search = t.search, DistinctIds(t.rows),
           Ids(t.rows) \subseteq Ids(k.rows)
    PROVE  TotalPages(t) <= TotalPages(k)
<1> DEFINE F == Filtered(t)
           G == Filtered(k)
           f == [i \in F |-> CHOOSE j \in DOMAIN k.rows :
                               k.rows[j].id = t.rows[i].id]
<1>1. /\ IsFiniteSet(F) /\ Cardinality(F) \in Nat /\ F \subseteq DOMAIN t.rows
      /\ IsFiniteSet(G) /\ Cardinality(G) \in Nat
  BY FoundFinite
<1>2. ASSUME NEW i \in F
      PROVE  f[i] \in DOMAIN k.rows /\ k.rows[f[i]].id = t.rows[i].id
  <2>1. \E j \in DOMAIN k.rows : k.rows[j].id = t.rows[i].id
    <3>1. t.rows[i].id \in Ids(t.rows)
      BY <1>1 DEF Ids
    <3> QED
      BY <3>1 DEF Ids
  <2> QED
    BY <2>1
<1>3. f \in [F -> G]
  <2>1. \A i \in F : f[i] \in G
    BY <1>2 DEF Filtered
  <2> QED
    BY <2>1
<1> HIDE DEF F, G, f
<1>4. \A i, j \in F : f[i] = f[j] => i = j
  <2> SUFFICES ASSUME NEW i \in F, NEW j \in F, f[i] = f[j]
               PROVE  i = j
    OBVIOUS
  <2>1. /\ i \in DOMAIN t.rows /\ j \in DOMAIN t.rows
        /\ t.rows[i].id = t.rows[j].id
    BY <1>1, <1>2
  <2> QED
    BY <2>1 DEF DistinctIds
<1>5. f \in Injection(F, G)
  BY <1>3, <1>4 DEF Injection, IsInjective
<1>6. Cardinality(F) <= Cardinality(G)
  BY <1>1, <1>5, FS_Injection
<1> QED
  BY <1>1, <1>6, PagesOfTable, PagesGrow DEF F, G

(* A step of the user's that keeps the list, from one page to another that *)
(* is there, keeps the invariant.                                          *)
LEMMA TurnsOK ==
    ASSUME TableOK(table), NEW k \in TableStates,
           k.rows = table.rows, k.running = table.running,
           k.deactivating = table.deactivating, k.shrunk = table.shrunk,
           \/ k.page = 1
           \/ k.search = table.search /\ k.page <= table.page
           \/ /\ k.search = table.search /\ k.page = table.page + 1
              /\ table.page # TotalPages(table)
    PROVE  TableOK(k)
<1>1. /\ table \in TableStates /\ DistinctIds(table.rows)
      /\ OneRuns(table) /\ OnAPage(table)
  BY DEF TableOK
<1>2. /\ TotalPages(k) \in Nat /\ 1 <= TotalPages(k)
      /\ TotalPages(table) \in Nat
  BY <1>1, FirstPage
<1>3. k.page \in Nat /\ table.page \in Nat
  BY <1>1 DEF TableStates
<1>4. k.search = table.search => TotalPages(k) = TotalPages(table)
  BY SamePages
<1>5. OnAPage(k)
  BY <1>1, <1>2, <1>3, <1>4 DEF OnAPage
<1>6. OneRuns(k)
  BY <1>1 DEF OneRuns
<1> QED
  BY <1>1, <1>5, <1>6 DEF TableOK

(* Searching, sorting, turning pages and opening or closing the dialog.    *)
LEMMA UserStep ==
    TableOK(table) /\ (\/ \E s \in DOMAIN Searches : TypeSearch(s)
                       \/ \E col \in SortKeys : ToggleSort(col)
                       \/ Turn \/ AskDeactivate \/ CancelDeactivate)
      => TableOK(table')
<1> SUFFICES ASSUME TableOK(table),
                    \/ \E s \in DOMAIN Searches : TypeSearch(s)
                    \/ \E col \in SortKeys : ToggleSort(col)
                    \/ Turn \/ AskDeactivate \/ CancelDeactivate
             PROVE  TableOK(table')
  OBVIOUS
<1>1. table \in TableStates
  BY DEF TableOK
<1> DEFINE e == table.events + 1
           first == 1
<1>2. /\ table.events \in Nat /\ e \in Nat /\ table.page \in Nat \ {0}
      /\ first \in Nat \ {0}
  BY <1>1 DEF TableStates
<1> HIDE DEF e
<1>3. ASSUME NEW s \in DOMAIN Searches, TypeSearch(s)
      PROVE  TableOK(table')
  <2> DEFINE k == [table EXCEPT !.search = s, !.page = first, !.events = e]
  <2>1. table' = k
    BY <1>1, <1>3 DEF TypeSearch, Does, TableStates, e
  <2> HIDE DEF first
  <2>2. /\ k \in TableStates /\ k.rows = table.rows
        /\ k.running = table.running /\ k.shrunk = table.shrunk
        /\ k.deactivating = table.deactivating /\ k.page = first
    BY <1>1, <1>2 DEF TableStates
  <2> HIDE DEF k
  <2> QED
    BY <2>1, <2>2, TurnsOK DEF first
<1>4. ASSUME NEW col \in SortKeys, ToggleSort(col)
      PROVE  TableOK(table')
  <2> DEFINE d == (col = table.sortKey /\ ~table.desc)
             k == [table EXCEPT !.sortKey = col, !.page = first,
                                !.desc = d, !.events = e]
  <2>1. table' = k
    BY <1>1, <1>4 DEF ToggleSort, Does, TableStates, e
  <2>2. d \in BOOLEAN
    OBVIOUS
  <2> HIDE DEF d, first
  <2>3. /\ k \in TableStates /\ k.rows = table.rows
        /\ k.running = table.running /\ k.shrunk = table.shrunk
        /\ k.deactivating = table.deactivating /\ k.page = first
    BY <1>1, <1>2, <2>2 DEF TableStates
  <2> HIDE DEF k
  <2> QED
    BY <2>1, <2>3, TurnsOK DEF first
<1>5. ASSUME NEW p \in Nat \ {0},
             \/ p <= table.page
             \/ p = table.page + 1 /\ table.page # TotalPages(table),
             Does([table EXCEPT !.page = p])
      PROVE  TableOK(table')
  <2> DEFINE k == [table EXCEPT !.page = p, !.events = e]
  <2>1. table' = k
    BY <1>1, <1>5 DEF Does, TableStates, e
  <2>2. /\ k \in TableStates /\ k.rows = table.rows
        /\ k.running = table.running /\ k.shrunk = table.shrunk
        /\ k.deactivating = table.deactivating /\ k.page = p
        /\ k.search = table.search
    BY <1>1, <1>2 DEF TableStates
  <2> HIDE DEF k
  <2> QED
    BY <1>5, <2>1, <2>2, TurnsOK
<1>6. CASE Prev
  <2>1. /\ table.page - 1 \in Nat \ {0} /\ table.page - 1 <= table.page
        /\ Does([table EXCEPT !.page = table.page - 1])
    BY <1>2, <1>6 DEF Prev
  <2> QED
    BY <1>5, <2>1
<1>7. CASE NextPage
  <2>1. /\ table.page + 1 \in Nat \ {0}
        /\ table.page # TotalPages(table)
        /\ Does([table EXCEPT !.page = table.page + 1])
    BY <1>2, <1>7 DEF NextPage
  <2> QED
    BY <1>5, <2>1
<1>8. ASSUME NEW c \in Nat, Does([table EXCEPT !.confirm = c])
      PROVE  TableOK(table')
  <2> DEFINE k == [table EXCEPT !.confirm = c, !.events = e]
  <2>1. table' = k
    BY <1>1, <1>8 DEF Does, TableStates, e
  <2>2. /\ k \in TableStates /\ k.rows = table.rows
        /\ k.running = table.running /\ k.shrunk = table.shrunk
        /\ k.deactivating = table.deactivating /\ k.page = table.page
        /\ k.search = table.search
    BY <1>1, <1>2 DEF TableStates
  <2> HIDE DEF k
  <2> QED
    BY <1>2, <2>1, <2>2, TurnsOK
<1>9. CASE AskDeactivate
  <2>1. PICK i \in PageData(table, table.page) :
          Does([table EXCEPT !.confirm = table.rows[i].id])
    BY <1>9 DEF AskDeactivate
  <2>2. i \in DOMAIN table.rows
    BY DEF PageData, Filtered
  <2>3. table.rows[i].id \in Nat
    BY <1>1, <2>2, RowOf DEF TableRow
  <2> QED
    BY <1>8, <2>1, <2>3
<1>10. CASE CancelDeactivate
  <2>1. Does([table EXCEPT !.confirm = 0])
    BY <1>10 DEF CancelDeactivate
  <2> QED
    BY <1>8, <2>1
<1> QED
  BY <1>3, <1>4, <1>6, <1>7, <1>9, <1>10 DEF Turn

(* A deactivation starts while none runs.                                  *)
LEMMA HandleDeactivateOK ==
    TableOK(table) /\ HandleDeactivate => TableOK(table')
<1> SUFFICES ASSUME TableOK(table), HandleDeactivate
             PROVE  TableOK(table')
  OBVIOUS
<1>1. /\ table \in TableStates /\ DistinctIds(table.rows)
      /\ OneRuns(table) /\ OnAPage(table)
  BY DEF TableOK
<1> DEFINE e == table.events + 1
           c == table.confirm
           r == table.running \cup {c}
           k == [table EXCEPT !.deactivating = c, !.running = r,
                              !.events = e]
<1>2. table' = k /\ c # 0 /\ table.deactivating = 0
  BY <1>1 DEF HandleDeactivate, Does, TableStates
<1>3. e \in Nat /\ c \in Nat /\ r \in SUBSET Nat
  BY <1>1 DEF TableStates
<1>4. r = {c}
  BY <1>1, <1>2 DEF OneRuns
<1> HIDE DEF e, c, r
<1>5. /\ k \in TableStates /\ k.rows = table.rows
      /\ k.running = r /\ k.shrunk = table.shrunk
      /\ k.deactivating = c /\ k.page = table.page
      /\ k.search = table.search
  BY <1>1, <1>3 DEF TableStates
<1> HIDE DEF k
<1>6. OneRuns(k)
  BY <1>2, <1>4, <1>5 DEF OneRuns
<1>7. OnAPage(k)
  BY <1>1, <1>5, SamePages DEF OnAPage
<1> QED
  BY <1>1, <1>2, <1>5, <1>6, <1>7 DEF TableOK

(* A deactivation that ends was the only one, and keeps every campaign.    *)
LEMMA DeactivatedOK ==
    TableOK(table) /\ (\E id \in table.running : Deactivated(id))
      => TableOK(table')
<1> SUFFICES ASSUME TableOK(table),
                    NEW id \in table.running, Deactivated(id)
             PROVE  TableOK(table')
  OBVIOUS
<1>1. /\ table \in TableStates /\ DistinctIds(table.rows)
      /\ OneRuns(table) /\ OnAPage(table)
  BY DEF TableOK
<1>2. /\ table.rows \in Seq(TableRow) /\ table.running \in SUBSET Nat
      /\ Len(table.rows) \in Nat
      /\ DOMAIN table.rows = 1..Len(table.rows)
      /\ \A i \in DOMAIN table.rows : table.rows[i] \in TableRow
  BY <1>1, LenProperties, ElementOfSeq DEF TableStates
<1>3. PICK done \in BOOLEAN :
        table' = [table EXCEPT
                    !.running = @ \ {id}, !.deactivating = 0, !.confirm = 0,
                    !.rows = [p \in DOMAIN @ |->
                                IF done /\ @[p].id = id
                                THEN [@[p] EXCEPT !.active = FALSE]
                                ELSE @[p]]]
  BY DEF Deactivated
<1> DEFINE r == table.running \ {id}
           q == [p \in DOMAIN table.rows |->
                   IF done /\ table.rows[p].id = id
                   THEN [table.rows[p] EXCEPT !.active = FALSE]
                   ELSE table.rows[p]]
           k == [table EXCEPT !.running = r, !.deactivating = 0,
                              !.confirm = 0, !.rows = q]
<1>4. table' = k
  BY <1>1, <1>3 DEF TableStates
<1>5. r \in SUBSET Nat /\ r = {}
  BY <1>1, <1>2 DEF OneRuns
<1>6. \A p \in DOMAIN table.rows :
        q[p] \in TableRow /\ q[p].id = table.rows[p].id
  <2> SUFFICES ASSUME NEW p \in DOMAIN table.rows
               PROVE  q[p] \in TableRow /\ q[p].id = table.rows[p].id
    OBVIOUS
  <2>1. table.rows[p] \in TableRow
    BY <1>2
  <2> QED
    BY <2>1 DEF TableRow
<1>7. q \in Seq(TableRow) /\ DOMAIN q = DOMAIN table.rows
  <2>1. q \in [1..Len(table.rows) -> TableRow]
    BY <1>2, <1>6
  <2> HIDE DEF q
  <2> QED
    BY <1>2, <2>1
<1> HIDE DEF r, q
<1>8. /\ k \in TableStates /\ k.rows = q /\ k.running = r
      /\ k.shrunk = table.shrunk /\ k.deactivating = 0
      /\ k.page = table.page /\ k.search = table.search
  BY <1>1, <1>5, <1>7 DEF TableStates
<1> HIDE DEF k
<1>9. DistinctIds(k.rows)
  BY <1>1, <1>6, <1>7, <1>8 DEF DistinctIds
<1>10. OneRuns(k)
  BY <1>5, <1>8 DEF OneRuns
<1>11. OnAPage(k)
  <2>1. Filtered(k) = Filtered(table)
    BY <1>6, <1>7, <1>8 DEF Filtered
  <2> QED
    BY <1>1, <1>8, <2>1, PagesOfTable DEF OnAPage
<1> QED
  BY <1>4, <1>8, <1>9, <1>10, <1>11 DEF TableOK

(* Another list has the campaigns of the last, or the table says so.       *)
LEMMA NewRowsOK == TableOK(table) /\ NewRows => TableOK(table')
<1> SUFFICES ASSUME TableOK(table), NewRows
             PROVE  TableOK(table')
  OBVIOUS
<1>1. /\ table \in TableStates /\ DistinctIds(table.rows)
      /\ OneRuns(table) /\ OnAPage(table)
  BY DEF TableOK
<1>2. PICK rows \in TableRows :
        Does([table EXCEPT !.rows = rows,
                           !.shrunk = @ \/ ~(Ids(table.rows)
                                               \subseteq Ids(rows))])
  BY DEF NewRows
<1> DEFINE e == table.events + 1
           s == (table.shrunk \/ ~(Ids(table.rows) \subseteq Ids(rows)))
           k == [table EXCEPT !.rows = rows, !.shrunk = s, !.events = e]
<1>3. table' = k
  BY <1>1, <1>2 DEF Does, TableStates
<1>4. /\ rows \in Seq(TableRow) /\ DistinctIds(rows) /\ e \in Nat
      /\ s \in BOOLEAN /\ table.shrunk \in BOOLEAN
  BY <1>1, WidgetConstants DEF TableStates
<1>5. ~s => ~table.shrunk /\ Ids(table.rows) \subseteq Ids(rows)
  OBVIOUS
<1> HIDE DEF s, e
<1>6. /\ k \in TableStates /\ k.rows = rows /\ k.running = table.running
      /\ k.shrunk = s /\ k.deactivating = table.deactivating
      /\ k.page = table.page /\ k.search = table.search
  BY <1>1, <1>4 DEF TableStates
<1> HIDE DEF k
<1>7. OneRuns(k)
  BY <1>1, <1>6 DEF OneRuns
<1>8. OnAPage(k)
  <2> SUFFICES ASSUME ~s
               PROVE  k.page <= TotalPages(k)
    BY <1>4, <1>6 DEF OnAPage
  <2>1. TotalPages(table) <= TotalPages(k)
    BY <1>1, <1>5, <1>6, MoreRowsMorePages
  <2>2. /\ TotalPages(table) \in Nat /\ TotalPages(k) \in Nat
        /\ table.page \in Nat
    BY <1>1, <1>6, FirstPage DEF TableStates
  <2> QED
    BY <1>1, <1>5, <1>6, <2>1, <2>2 DEF OnAPage
<1> QED
  BY <1>3, <1>4, <1>6, <1>7, <1>8 DEF TableOK

(* Every step of the table keeps its invariant.                            *)
LEMMA TableStep == TableOK(table) /\ [TableNext]_table => TableOK(table')
<1>1. TableOK(table) /\ UNCHANGED table => TableOK(table')
  OBVIOUS
<1> QED
  BY <1>1, UserStep, HandleDeactivateOK, DeactivatedOK, NewRowsOK
  DEF TableNext

(* A table that was just given its list is on the first page.              *)
LEMMA NoTableOK == \A rows \in TableRows :
                     TableOK([NoTable EXCEPT !.rows = rows])
<1> SUFFICES ASSUME NEW rows \in TableRows
             PROVE  TableOK([NoTable EXCEPT !.rows = rows])
  OBVIOUS
<1> DEFINE t == [NoTable EXCEPT !.rows = rows]
<1>1. /\ rows \in Seq(TableRow) /\ DistinctIds(rows)
      /\ Unsearched \in DOMAIN Searches /\ 1 \in Nat \ {0}
      /\ "id" \in SortKeys
  BY WidgetConstants DEF SortKeys
<1>2. NoTable \in [rows : {<<>>}, search : DOMAIN Searches,
                   sortKey : SortKeys, desc : BOOLEAN, page : Nat \ {0},
                   confirm : Nat, deactivating : Nat, running : SUBSET Nat,
                   shrunk : BOOLEAN, events : Nat]
      /\ NoTable.page = 1 /\ NoTable.running = {}
      /\ NoTable.deactivating = 0
  BY <1>1 DEF NoTable
<1>3. /\ t \in TableStates /\ t.rows = rows /\ t.page = 1
      /\ t.running = {} /\ t.deactivating = 0
  BY <1>1, <1>2 DEF TableStates
<1> HIDE DEF t
<1>4. OnAPage(t)
  BY <1>3, FirstPage DEF OnAPage
<1>5. OneRuns(t)
  BY <1>3 DEF OneRuns
<1> QED
  BY <1>1, <1>3, <1>4, <1>5 DEF TableOK, t

(* What the table's invariant says of its pages and its deactivations.     *)
LEMMA TableIsTrue ==
    TableOK(table) => TablePageInRange /\ PagesPartition /\ OneDeactivation
<1> SUFFICES ASSUME TableOK(table)
             PROVE  TablePageInRange /\ OneDeactivation
  BY TablePartitioned
<1>1. table \in TableStates /\ OneRuns(table) /\ OnAPage(table)
  BY DEF TableOK
<1>2. TablePageInRange
  BY <1>1 DEF TablePageInRange, OnAPage, TableStates
<1>3. Cardinality(table.running) <= 1
  <2>1. Cardinality({}) = 0
    BY FS_EmptySet
  <2>2. Cardinality({table.deactivating}) = 1
    BY FS_Singleton
  <2> QED
    BY <1>1, <2>1, <2>2 DEF OneRuns
<1>4. OneDeactivation
  BY <1>1, <1>3 DEF OneRuns, OneDeactivation
<1> QED
  BY <1>2, <1>4

-----------------------------------------------------------------------------
(* The card.                                                               *)

CardStates ==
    [expiration : Nat, now : Nat, left : Nat, fires : Nat,
     showConfirm : BOOLEAN, deactivating : BOOLEAN, error : BOOLEAN,
     active : BOOLEAN, attempts : Nat]

(* The countdown shows the time left when its interval last fired, a       *)
(* MINUTE before it fires next.  It stops at the expiration.               *)
Counts(c) ==
    /\ c.fires # 0 => /\ c.left > 0 /\ c.now <= c.fires
                      /\ c.left + c.fires = c.expiration + MINUTE
    /\ c.fires = 0 => c.left = 0 /\ c.expiration <= c.now

(* The dialog belongs to an active campaign, and a deactivation under way  *)
(* or its error to the open dialog.                                        *)
Asks(c) ==
    /\ c.showConfirm => c.active
    /\ c.deactivating => c.showConfirm
    /\ c.error => c.showConfirm /\ ~c.deactivating

CardOK(c) == c \in CardStates /\ Counts(c) /\ Asks(c)

(* The time left is a number, and none when the campaign has expired.      *)
LEMMA TimeLeft ==
    ASSUME NEW e \in Nat, NEW now \in Nat
    PROVE  /\ Calc(e, now) \in Nat
           /\ now < e => Calc(e, now) = e - now /\ Calc(e, now) > 0
           /\ e <= now => Calc(e, now) = 0
  BY DEF Calc

(* A card that was just mounted has a countdown.                           *)
LEMMA MountedOK == \A e \in Expirations : CardOK(Mounted(e))
<1> SUFFICES ASSUME NEW e \in Expirations
             PROVE  CardOK(Mounted(e))
  OBVIOUS
<1>1. e \in Nat /\ MINUTE \in Nat \ {0}
  BY WidgetConstants
<1> DEFINE c == Mounted(e)
           l == Calc(e, 0)
<1>2. l \in Nat /\ (0 < e => l = e /\ l > 0) /\ (e <= 0 => l = 0)
  BY <1>1, TimeLeft
<1>3. /\ c.expiration = e /\ c.now = 0 /\ c.left = l
      /\ c.fires = IF l = 0 THEN 0 ELSE MINUTE
      /\ c.showConfirm = FALSE /\ c.deactivating = FALSE
      /\ c.error = FALSE /\ c.active = TRUE /\ c.attempts = 0
  BY DEF Mounted
<1>4. c \in CardStates
  BY <1>1, <1>2 DEF Mounted, CardStates
<1> HIDE DEF c, l
<1>5. Counts(c)
  BY <1>1, <1>2, <1>3 DEF Counts
<1>6. Asks(c)
  BY <1>3 DEF Asks
<1> QED
  BY <1>4, <1>5, <1>6 DEF CardOK, c

(* Every step of the card keeps its invariant.                             *)
LEMMA CardStep == CardOK(card) /\ [CardNext]_card => CardOK(card')
<1> SUFFICES ASSUME CardOK(card), [CardNext]_card
             PROVE  CardOK(card')
  OBVIOUS
<1>1. card \in CardStates /\ Counts(card) /\ Asks(card)
  BY DEF CardOK
<1>2. MINUTE \in Nat \ {0}
  BY WidgetConstants
<1>3. CASE Countdown
  <2> DEFINE l == Calc(card.expiration, card.now)
             f == IF l = 0 THEN 0 ELSE card.fires + MINUTE
             k == [card EXCEPT !.left = l, !.fires = f]
  <2>1. card' = k /\ card.fires # 0 /\ card.fires <= card.now
    BY <1>3, <1>1 DEF Countdown, CardStates
  <2>2. card.expiration \in Nat /\ card.now \in Nat /\ card.fires \in Nat
    BY <1>1 DEF CardStates
  <2>3. /\ l \in Nat
        /\ card.now < card.expiration =>
             l = card.expiration - card.now /\ l > 0
        /\ card.expiration <= card.now => l = 0
    BY <2>2, TimeLeft
  <2> HIDE DEF l
  <2>4. f \in Nat
    BY <1>2, <2>2, <2>3
  <2>5. /\ k \in CardStates /\ k.left = l /\ k.fires = f
        /\ k.now = card.now /\ k.expiration = card.expiration
        /\ k.showConfirm = card.showConfirm /\ k.active = card.active
        /\ k.deactivating = card.deactivating /\ k.error = card.error
    BY <1>1, <2>3, <2>4 DEF CardStates
  <2> HIDE DEF k
  <2>6. card.now = card.fires
    BY <1>1, <2>1, <2>2 DEF Counts
  <2>7. Counts(k)
    BY <1>2, <2>2, <2>3, <2>5, <2>6, <2>1 DEF Counts, f
  <2>8. Asks(k)
    BY <1>1, <2>5 DEF Asks
  <2> QED
    BY <2>1, <2>5, <2>7, <2>8 DEF CardOK
<1>4. CASE CardTime
  <2> DEFINE k == [card EXCEPT !.now = @ + 1]
  <2>1. card' = k /\ (card.fires = 0 \/ card.fires > card.now)
    BY <1>4 DEF CardTime
  <2>2. /\ card.now \in Nat /\ card.fires \in Nat /\ card.left \in Nat
        /\ card.expiration \in Nat
    BY <1>1 DEF CardStates
  <2>3. /\ k \in CardStates /\ k.left = card.left /\ k.fires = card.fires
        /\ k.now = card.now + 1 /\ k.expiration = card.expiration
        /\ k.showConfirm = card.showConfirm /\ k.active = card.active
        /\ k.deactivating = card.deactivating /\ k.error = card.error
    BY <1>1, <2>2 DEF CardStates
  <2> HIDE DEF k
  <2>4. Counts(k) /\ Asks(k)
    BY <1>1, <1>2, <2>1, <2>2, <2>3 DEF Counts, Asks
  <2> QED
    BY <2>1, <2>3, <2>4 DEF CardOK
<1>5. CASE DeactivateButton \/ CancelConfirm \/ HandleDeactivateConfirm
             \/ DeactivateEnds
  <2>1. card.attempts \in Nat /\ card.attempts + 1 \in Nat
    BY <1>1 DEF CardStates
  <2>2. /\ card' \in CardStates
        /\ card'.left = card.left /\ card'.fires = card.fires
        /\ card'.now = card.now /\ card'.expiration = card.expiration
    <3>1. CASE DeactivateButton
      BY <1>1, <3>1 DEF CardStates, DeactivateButton
    <3>2. CASE CancelConfirm
      BY <1>1, <3>2 DEF CardStates, CancelConfirm
    <3>3. CASE HandleDeactivateConfirm
      BY <1>1, <2>1, <3>3 DEF CardStates, HandleDeactivateConfirm
    <3>4. CASE DeactivateEnds
      BY <1>1, <3>4 DEF CardStates, DeactivateEnds
    <3> QED
      BY <1>5, <3>1, <3>2, <3>3, <3>4
  <2>3. Asks(card')
    BY <1>1, <1>5 DEF CardStates, DeactivateButton, CancelConfirm,
       HandleDeactivateConfirm, DeactivateEnds, Asks
  <2>4. Counts(card')
    BY <1>1, <2>2 DEF Counts
  <2> QED
    BY <2>2, <2>3, <2>4 DEF CardOK
<1>6. CASE UNCHANGED card
  BY <1>6
<1> QED
  BY <1>3, <1>4, <1>5, <1>6 DEF CardNext

(* What the card's invariant says of its offer and of its message.         *)
LEMMA CardIsTrue ==
    CardOK(card) => ClaimableUntilExpiry /\ ErrorIsOfThisAttempt
<1> SUFFICES ASSUME CardOK(card)
             PROVE  ClaimableUntilExpiry /\ ErrorIsOfThisAttempt
  OBVIOUS
<1>1. Counts(card) /\ Asks(card)
  BY DEF CardOK
<1>2. /\ card.now \in Nat /\ card.fires \in Nat /\ card.left \in Nat
      /\ card.expiration \in Nat /\ MINUTE \in Nat
  BY WidgetConstants DEF CardOK, CardStates
<1>3. ErrorIsOfThisAttempt
  BY <1>1 DEF Asks, ErrorIsOfThisAttempt
<1>4. ClaimableUntilExpiry
  BY <1>1, <1>2 DEF Counts, ClaimableUntilExpiry, CanClaim
<1> QED
  BY <1>3, <1>4

-----------------------------------------------------------------------------
(* The parts together.                                                     *)

(* The parts that are not in use rest.                                     *)
OthersRest ==
    /\ part # "wallet" => \A t \in Tabs : tab[t] = Closed
    /\ part # "calls" => \A c \in Calls : call[c] = NoCall
    /\ part # "view" => view.page = "none"
    /\ part # "feed" => feed = NoFeed
    /\ part # "search" => search = NoSearch
    /\ part # "toasts" => board = NoToasts
    /\ part # "table" => table.events = 0 /\ table.running = {}
    /\ part # "card" => card = Mounted(card.expiration)

FrontendInv ==
    /\ part \in Parts /\ OthersRest
    /\ WalletInv /\ TxInv /\ ViewInv /\ FeedOK(feed) /\ SearchOK(search)
    /\ BoardOK(board) /\ TableOK(table) /\ CardOK(card)

(* The list and the search dialog leave each other alone.                  *)
LEMMA ListsApart ==
    /\ FeedNext => UNCHANGED search
    /\ SearchNext => UNCHANGED feed
<1>1. FeedNext => UNCHANGED search
  BY DEF FeedNext, WalletChanges, SentinelSeen, RetryFeed, FeedSettles,
         FeedAnswer, FeedThrows, FeedFails
<1>2. SearchNext => UNCHANGED feed
  BY DEF SearchNext, Toggle, PickRecent, GotCampaigns, CampaignsLost,
         CampaignsUndefined, ArrowDown, ArrowUp, Enter, Type, MouseEnter,
         Navigate, Pressed
<1> QED
  BY <1>1, <1>2

(* At first every part rests, one of them about to be used.                *)
LEMMA FrontendInitOK == FrontendInit => FrontendInv
<1> SUFFICES ASSUME FrontendInit
             PROVE  FrontendInv
  OBVIOUS
<1>1. WalletInv /\ TxInv /\ ViewInv /\ FeedOK(feed) /\ SearchOK(search)
  BY WalletInitTyped, TxInitOK, ViewInitOK, NoFeedOK, NoSearchOK
  DEF FrontendInit, FeedInit
<1>2. BoardOK(board) /\ TableOK(table) /\ CardOK(card)
  <2>1. BoardOK(board)
    BY NoToastsOK DEF FrontendInit
  <2>2. TableOK(table)
    BY NoTableOK DEF FrontendInit
  <2>3. CardOK(card)
    BY MountedOK DEF FrontendInit
  <2> QED
    BY <2>1, <2>2, <2>3
<1>3. OthersRest
  <2>1. \A t \in Tabs : tab[t] = Closed
    BY DEF FrontendInit, WalletInit
  <2>2. \A c \in Calls : call[c] = NoCall
    BY DEF FrontendInit, TxInit
  <2>3. view.page = "none" /\ feed = NoFeed /\ search = NoSearch
    BY DEF FrontendInit, ViewInit, Opened, FeedInit
  <2>4. part # "toasts" => board = NoToasts
    <3>1. PICK k \in BOOLEAN : board = [NoToasts EXCEPT !.kit = k]
      BY DEF FrontendInit
    <3>2. part # "toasts" => ~board.kit
      BY DEF FrontendInit
    <3>3. board.kit = k
      BY <3>1 DEF NoToasts
    <3>4. ~k => board = NoToasts
      BY <3>1 DEF NoToasts
    <3> QED
      BY <3>2, <3>3, <3>4
  <2>5. table.events = 0 /\ table.running = {}
    <3>1. PICK rows \in TableRows : table = [NoTable EXCEPT !.rows = rows]
      BY DEF FrontendInit
    <3> QED
      BY <3>1 DEF NoTable
  <2>6. card = Mounted(card.expiration)
    <3>1. PICK e \in Expirations : card = Mounted(e)
      BY DEF FrontendInit
    <3> QED
      BY <3>1 DEF Mounted
  <2> QED
    BY <2>1, <2>2, <2>3, <2>4, <2>5, <2>6 DEF OthersRest
<1> QED
  BY <1>1, <1>2, <1>3 DEF FrontendInv, FrontendInit

(* A step of the frontend is one of each part, or leaves the part alone.   *)
LEMMA OfEachPart ==
    ASSUME part \in Parts, [FrontendNext]_frontendVars
    PROVE  /\ part' = part
           /\ [part = "wallet" /\ WalletNext]_walletVars
           /\ [part = "calls" /\ TxNext]_txVars
           /\ [part = "view" /\ ViewNext]_view
           /\ [part = "feed" /\ FeedNext]_feed
           /\ [part = "search" /\ SearchNext]_search
           /\ [part = "toasts" /\ ToastNext]_board
           /\ [part = "table" /\ TableNext]_table
           /\ [part = "card" /\ CardNext]_card
  BY ListsApart DEF FrontendNext, frontendVars, feedVars

(* Every step of the frontend keeps the invariants of all its parts.       *)
LEMMA FrontendStep ==
    FrontendInv /\ [FrontendNext]_frontendVars => FrontendInv'
<1> SUFFICES ASSUME FrontendInv, [FrontendNext]_frontendVars
             PROVE  FrontendInv'
  OBVIOUS
<1>1. /\ part \in Parts /\ OthersRest
      /\ WalletInv /\ TxInv /\ ViewInv /\ FeedOK(feed) /\ SearchOK(search)
      /\ BoardOK(board) /\ TableOK(table) /\ CardOK(card)
  BY DEF FrontendInv
<1>2. /\ part' = part
      /\ [part = "wallet" /\ WalletNext]_walletVars
      /\ [part = "calls" /\ TxNext]_txVars
      /\ [part = "view" /\ ViewNext]_view
      /\ [part = "feed" /\ FeedNext]_feed
      /\ [part = "search" /\ SearchNext]_search
      /\ [part = "toasts" /\ ToastNext]_board
      /\ [part = "table" /\ TableNext]_table
      /\ [part = "card" /\ CardNext]_card
  BY <1>1, OfEachPart
<1>3. WalletInv'
  BY <1>1, <1>2, WalletStep
<1>4. TxInv'
  BY <1>1, <1>2, TxStep
<1>5. ViewInv'
  BY <1>1, <1>2, ViewStep
<1>6. FeedOK(feed)' /\ SearchOK(search)'
  BY <1>1, <1>2, FeedStep, SearchStep
<1>7. BoardOK(board)' /\ TableOK(table)' /\ CardOK(card)'
  BY <1>1, <1>2, ToastStep, TableStep, CardStep
<1>8. OthersRest'
  BY <1>1, <1>2 DEF OthersRest, walletVars, txVars
<1> QED
  BY <1>1, <1>2, <1>3, <1>4, <1>5, <1>6, <1>7, <1>8 DEF FrontendInv

(* The invariant of the composed frontend, the induction of the theorems   *)
(* below.                                                                  *)
THEOREM FrontendHolds == FrontendSpec => []FrontendInv
  BY FrontendInitOK, FrontendStep, PTL DEF FrontendSpec

(* Type correctness: a key is an account or null, a call belongs to a      *)
(* widget of its page and has a sequence number before it is in the pool,  *)
(* and the parts that are not in use rest.                                 *)
THEOREM FrontendTypeCorrect == FrontendSpec => []FrontendTypeOK
<1>1. FrontendInv => FrontendTypeOK
  BY CallsTyped DEF FrontendInv, OthersRest, WalletInv, FrontendTypeOK
<1> QED
  BY <1>1, FrontendHolds, PTL

(* What the buttons report of their calls is so: after "success" the       *)
(* ledger has the transaction; after an error it has not and will not take *)
(* it, unless an answer was lost or the RPC server told of it after the    *)
(* last poll.  A widget has one call under way, or a reset timer ran out   *)
(* on it.  A claim that handleClaim or the card's status tells of is on    *)
(* the ledger, of a key that the page had; one of loadRewards need not be. *)
THEOREM CallsReportTruly == FrontendSpec => []CallsAreTrue
<1>1. FrontendInv => CallsAreTrue
  BY CallsTold DEF FrontendInv
<1> QED
  BY <1>1, FrontendHolds, PTL

(* Tabs that are quiet agree with localStorage and with each other, and a  *)
(* page that has settled shows the answer to its last request: no storage  *)
(* event, silent restore or late answer leaves another there.              *)
THEOREM ShownHolds == FrontendSpec => []ShownIsCurrent
<1>1. FrontendInv => ShownIsCurrent
  BY FollowersAgree, ShownIsAsked DEF FrontendInv, ShownIsCurrent
<1> QED
  BY <1>1, FrontendHolds, PTL

(* The list of campaigns has as many rows as the loads counted and less    *)
(* than a page too many, all of the backend's first page, however its      *)
(* loads fail and start again, as long as no reload overlaps with a load;  *)
(* the search dialog shows the results of what is typed.                   *)
THEOREM ListsHold == FrontendSpec => []ListsAreTrue
<1>1. FrontendInv => ListsAreTrue
  BY FeedIsCounted, SearchIsCurrent DEF FrontendInv, ListsAreTrue
<1> QED
  BY <1>1, FrontendHolds, PTL

(* Toasts stay for their time and no longer, the table's pages partition   *)
(* the campaigns found and one of them is shown, one deactivation runs at  *)
(* a time, and a card offers its campaign until it expires.                *)
THEOREM WidgetsHold == FrontendSpec => []WidgetsAreTrue
<1>1. FrontendInv => WidgetsAreTrue
  BY ToastsAreTrue, TableIsTrue, CardIsTrue DEF FrontendInv, WidgetsAreTrue
<1> QED
  BY <1>1, FrontendHolds, PTL
=============================================================================
