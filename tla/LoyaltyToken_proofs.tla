------------------------ MODULE LoyaltyToken_proofs ------------------------
(***************************************************************************)
(* Proofs about the token contract: type correctness, that the signatures  *)
(* of a pending rotation are genuine, that only a threshold of them        *)
(* replaces the signers and the minter, that the signers can always reach  *)
(* their threshold, that a spender never draws more than the owner         *)
(* approved, and that the balances add up to the supply.                   *)
(***************************************************************************)
EXTENDS LoyaltyToken, FiniteSetTheorems, FunctionTheorems,
        WellFoundedInduction, TLAPS

(* What transfer and transfer_from do to the balances keeps them           *)
(* non-negative integers.                                                  *)
LEMMA MoveKeepsBalances ==
    ASSUME balance \in [Address -> Nat], selfSent \in Nat,
           NEW from \in Address, NEW to \in Address, NEW x \in Nat,
           CanMove(from, to, x), MoveTokens(from, to, x)
    PROVE  balance' \in [Address -> Nat] /\ selfSent' \in Nat
  BY DEF CanMove, MoveTokens, Moved

(* One step of the token keeps every storage entry well typed.             *)
LEMMA TokenTypeStep == TokenTypeOK /\ [TokenNext]_tokenVars => TokenTypeOK'
<1> SUFFICES ASSUME TokenTypeOK, [TokenNext]_tokenVars PROVE TokenTypeOK'
  OBVIOUS
<1> USE TokenConstants
<1>1. ASSUME NEW a \in Address, NEW x \in Amounts, Mint(a, x)
      PROVE  TokenTypeOK'
  BY <1>1 DEF TokenTypeOK, Mint, Credit, adminVars, historyVars
<1>2. ASSUME HolderNext PROVE TokenTypeOK'
  <2>1. ASSUME NEW a \in Address, NEW x \in Amounts, Burn(a, x)
        PROVE  TokenTypeOK'
    BY <2>1 DEF TokenTypeOK, Burn, adminVars, historyVars
  <2>2. ASSUME NEW a \in Address, NEW b \in Address, NEW x \in Amounts,
               Transfer(a, b, x)
        PROVE  TokenTypeOK'
    BY <2>2, MoveKeepsBalances DEF TokenTypeOK, Transfer, adminVars
  <2>3. ASSUME NEW a \in Address, NEW b \in Spenders, NEW x \in Amounts,
               Approve(a, b, x)
        PROVE  TokenTypeOK'
    BY <2>3 DEF TokenTypeOK, Approve, adminVars
  <2>4. ASSUME NEW s \in Spenders, NEW a \in Address, NEW b \in Address,
               NEW x \in Amounts, TransferFrom(s, a, b, x)
        PROVE  TokenTypeOK'
    <3>1. balance' \in [Address -> Nat] /\ selfSent' \in Nat
      BY <2>4, MoveKeepsBalances DEF TokenTypeOK, TransferFrom
    <3>2. allowance' \in [Address \X Address -> Nat]
      BY <2>4 DEF TokenTypeOK, TransferFrom
    <3>3. drawn' \in [Address \X Address -> Nat]
      BY <2>4 DEF TokenTypeOK, TransferFrom
    <3> QED
      BY <2>4, <3>1, <3>2, <3>3 DEF TokenTypeOK, TransferFrom, adminVars
  <2> QED
    BY <1>2, <2>1, <2>2, <2>3, <2>4 DEF HolderNext
<1>3. ASSUME RotationNext PROVE TokenTypeOK'
  <2>1. ASSUME NEW s \in Address, NEW m \in Address, NEW l \in SignerLists,
               NEW t \in Thresholds,
               ProposeSetAdmin(s, [signers |-> l, threshold |-> t], m)
        PROVE  TokenTypeOK'
    <3>1. l \in Seq(Address) /\ t \in Nat
      OBVIOUS
    <3>2. [signers |-> l, threshold |-> t] \in Config
      BY <3>1 DEF Config
    <3>3. <<s>> \in Seq(Address)
      OBVIOUS
    <3>4. proposal' \subseteq SetAdminProposal
      BY <2>1, <3>2, <3>3 DEF ProposeSetAdmin, SetAdminProposal
    <3> QED
      BY <2>1, <3>4 DEF TokenTypeOK, ProposeSetAdmin, ledgerVars, historyVars
  <2>2. ASSUME NEW s \in Address, ApproveSetAdmin(s)
        PROVE  TokenTypeOK'
    <3>1. PICK p \in proposal :
             proposal' = {[p EXCEPT !.signatures = Append(p.signatures, s)]}
      BY <2>2 DEF ApproveSetAdmin
    <3>2. p \in SetAdminProposal
      BY <3>1 DEF TokenTypeOK
    <3>3. Append(p.signatures, s) \in Seq(Address)
      BY <3>2 DEF SetAdminProposal
    <3>4. proposal' \subseteq SetAdminProposal
      BY <3>1, <3>2, <3>3 DEF SetAdminProposal
    <3> QED
      BY <2>2, <3>4 DEF TokenTypeOK, ApproveSetAdmin, ledgerVars, historyVars
  <2>3. ASSUME NEW s \in Address, ExecuteSetAdmin(s)
        PROVE  TokenTypeOK'
    BY <2>3 DEF TokenTypeOK, ExecuteSetAdmin, SetAdminProposal,
                ledgerVars, historyVars
  <2> QED
    BY <1>3, <2>1, <2>2, <2>3 DEF RotationNext
<1>4. ASSUME PauseNext PROVE TokenTypeOK'
  BY <1>4 DEF TokenTypeOK, PauseNext, EmergencyPause, EmergencyUnpause,
              adminVars, historyVars
<1>5. CASE UNCHANGED tokenVars
  BY <1>5 DEF TokenTypeOK, tokenVars, adminVars, historyVars
<1> QED
  BY <1>1, <1>2, <1>3, <1>4, <1>5 DEF TokenNext

(* initialize writes well typed entries.                                   *)
LEMMA TokenInitTyped == TokenInit => TokenTypeOK
<1> SUFFICES ASSUME TokenInit PROVE TokenTypeOK
  OBVIOUS
<1>1. config \in Config /\ minter \in Address
  BY TokenConstants DEF TokenInit
<1>2. [p \in Address \X Address |-> 0] \in [Address \X Address -> Nat]
  OBVIOUS
<1>3. /\ allowance \in [Address \X Address -> Nat]
      /\ approved \in [Address \X Address -> Nat]
      /\ drawn \in [Address \X Address -> Nat]
  BY <1>2, Zenon DEF TokenInit
<1>4. /\ balance \in [Address -> Nat]
      /\ supply \in Int
      /\ selfSent \in Nat
  BY DEF TokenInit
<1>5. proposal \subseteq SetAdminProposal /\ tokenPaused \in BOOLEAN
  BY DEF TokenInit
<1> QED
  BY <1>1, <1>3, <1>4, <1>5 DEF TokenTypeOK

(* The token's storage is well typed in every reachable state.             *)
THEOREM TokenTypeCorrect == TokenSpec => []TokenTypeOK
  BY TokenInitTyped, TokenTypeStep, PTL DEF TokenSpec

-----------------------------------------------------------------------------
(* Appending a signer that has not signed to a genuine list of signatures  *)
(* gives a genuine list.                                                   *)
LEMMA AppendEndorses ==
    ASSUME NEW s \in Seq(Address), NEW a \in Address,
           Endorses(s), IsSigner(a), ~HasSigned(s, a)
    PROVE  Endorses(Append(s, a))
<1>1. /\ DOMAIN s = 1 .. Len(s)
      /\ DOMAIN Append(s, a) = 1 .. Len(s) + 1
      /\ Len(s) \in Nat
  OBVIOUS
<1>2. /\ \A i \in DOMAIN s : Append(s, a)[i] = s[i]
      /\ Append(s, a)[Len(s) + 1] = a
  OBVIOUS
<1>3. Distinct(Append(s, a))
  BY <1>1, <1>2 DEF Distinct, Endorses, HasSigned
<1>4. \A i \in DOMAIN Append(s, a) : IsSigner(Append(s, a)[i])
  BY <1>1, <1>2 DEF Endorses
<1> QED
  BY <1>3, <1>4 DEF Endorses

(* The configuration is only written together with the removal of the      *)
(* pending proposal, so signatures never outlive the signers they were     *)
(* checked against.                                                        *)
LEMMA GenuineStep ==
    TokenTypeOK /\ SignaturesAreGenuine /\ [TokenNext]_tokenVars
        => SignaturesAreGenuine'
<1> SUFFICES ASSUME TokenTypeOK, SignaturesAreGenuine, [TokenNext]_tokenVars
             PROVE  SignaturesAreGenuine'
  OBVIOUS
<1>1. ASSUME UNCHANGED <<config, proposal>> PROVE SignaturesAreGenuine'
  BY <1>1 DEF SignaturesAreGenuine, Endorses, IsSigner
<1>2. ASSUME NEW s \in Address, NEW m \in Address, NEW c, ProposeSetAdmin(s, c, m)
      PROVE  SignaturesAreGenuine'
  <2>1. DOMAIN <<s>> = {1} /\ <<s>>[1] = s
    OBVIOUS
  <2>2. IsSigner(s) /\ config' = config
    BY <1>2 DEF ProposeSetAdmin
  <2>3. Endorses(<<s>>)'
    BY <2>1, <2>2 DEF Endorses, Distinct, IsSigner
  <2> QED
    BY <1>2, <2>3 DEF ProposeSetAdmin, SignaturesAreGenuine
<1>3. ASSUME NEW s \in Address, ApproveSetAdmin(s)
      PROVE  SignaturesAreGenuine'
  <2>1. PICK p \in proposal :
           /\ ~HasSigned(p.signatures, s)
           /\ proposal' = {[p EXCEPT !.signatures = Append(p.signatures, s)]}
    BY <1>3 DEF ApproveSetAdmin
  <2>2. p \in SetAdminProposal /\ p.signatures \in Seq(Address)
    BY <2>1 DEF TokenTypeOK, SetAdminProposal
  <2>3. IsSigner(s) /\ config' = config
    BY <1>3 DEF ApproveSetAdmin
  <2>4. Endorses(Append(p.signatures, s))
    BY <2>1, <2>2, <2>3, AppendEndorses DEF SignaturesAreGenuine
  <2>5. Endorses(Append(p.signatures, s))'
    BY <2>3, <2>4 DEF Endorses, IsSigner
  <2>6. [p EXCEPT !.signatures = Append(p.signatures, s)].signatures
          = Append(p.signatures, s)
    BY <2>2 DEF SetAdminProposal
  <2> QED
    BY <2>1, <2>5, <2>6 DEF SignaturesAreGenuine
<1>4. ASSUME NEW s \in Address, ExecuteSetAdmin(s)
      PROVE  SignaturesAreGenuine'
  BY <1>4 DEF ExecuteSetAdmin, SignaturesAreGenuine
<1>5. ASSUME NEW a \in Address, NEW x \in Amounts, Mint(a, x)
      PROVE  SignaturesAreGenuine'
  BY <1>1, <1>5 DEF Mint, adminVars
<1>6. ASSUME HolderNext PROVE SignaturesAreGenuine'
  BY <1>1, <1>6 DEF HolderNext, Burn, Transfer, Approve, TransferFrom, adminVars
<1>7. ASSUME PauseNext PROVE SignaturesAreGenuine'
  BY <1>1, <1>7 DEF PauseNext, EmergencyPause, EmergencyUnpause, adminVars
<1>8. CASE UNCHANGED tokenVars
  BY <1>1, <1>8 DEF tokenVars, adminVars
<1> QED
  BY <1>2, <1>3, <1>4, <1>5, <1>6, <1>7, <1>8 DEF TokenNext, RotationNext

(* Whatever the signers, the threshold and the order of the calls, the     *)
(* signatures of a pending rotation are those of different current         *)
(* signers.                                                                *)
THEOREM SignaturesGenuine == TokenSpec => []SignaturesAreGenuine
<1>1. TokenInit => SignaturesAreGenuine
  BY DEF TokenInit, SignaturesAreGenuine
<1> QED
  BY <1>1, TokenTypeCorrect, GenuineStep, PTL DEF TokenSpec

(* No step replaces the signers or the minter without the signatures of    *)
(* threshold different signers of the outgoing configuration.              *)
THEOREM RotationThreshold == TokenSpec => RotationNeedsThreshold
<1> DEFINE Endorsed ==
      \E p \in proposal : /\ Endorses(p.signatures)
                          /\ Len(p.signatures) >= config.threshold
                          /\ config' = p.newConfig
                          /\ minter' = p.newMinter
<1>1. SignaturesAreGenuine /\ [TokenNext]_tokenVars
        => [Endorsed]_<<config, minter>>
  <2> SUFFICES ASSUME SignaturesAreGenuine, [TokenNext]_tokenVars,
                      ~UNCHANGED <<config, minter>>
               PROVE  Endorsed
    OBVIOUS
  <2>1. PICK s \in Address : ExecuteSetAdmin(s)
    BY DEF TokenNext, HolderNext, RotationNext, PauseNext, Mint, Burn, Transfer,
           Approve, TransferFrom, ProposeSetAdmin, ApproveSetAdmin,
           EmergencyPause, EmergencyUnpause, tokenVars, adminVars
  <2> QED
    BY <2>1 DEF ExecuteSetAdmin, SignaturesAreGenuine
<1> QED
  BY <1>1, SignaturesGenuine, PTL DEF TokenSpec, RotationNeedsThreshold

(* The first threshold entries of a list without repetition are that many  *)
(* signers.                                                                *)
LEMMA EnoughSigners ==
    ASSUME NEW s, NEW n \in Nat, 1 .. n \subseteq DOMAIN s, Distinct(s)
    PROVE  \E T \in SUBSET {s[i] : i \in DOMAIN s} : Cardinality(T) = n
<1> DEFINE T == {s[i] : i \in 1 .. n}
           f == [i \in 1 .. n |-> s[i]]
<1>1. f \in Bijection(1 .. n, T)
  <2>1. f \in [1 .. n -> T] /\ \A t \in T : \E i \in 1 .. n : f[i] = t
    OBVIOUS
  <2>2. \A i, j \in 1 .. n : f[i] = f[j] => i = j
    BY DEF Distinct
  <2> HIDE DEF f, T
  <2> QED
    BY <2>1, <2>2, Fun_IsBij
<1>2. IsFiniteSet(1 .. n) /\ Cardinality(1 .. n) = n
  BY FS_Interval
<1>3. Cardinality(T) = n
  BY <1>1, <1>2, FS_Bijection DEF ExistsBijection
<1>4. T \in SUBSET {s[i] : i \in DOMAIN s}
  OBVIOUS
<1> QED
  BY <1>3, <1>4

(* What makes ThresholdReachable inductive: the configuration in force and *)
(* the one that is proposed both passed the assertions.                    *)
ConfigsAreValid ==
    /\ ValidConfig(config)
    /\ \A p \in proposal : ValidConfig(p.newConfig)

(* A proposal is validated before it is stored and stored before it takes  *)
(* effect.                                                                 *)
LEMMA ValidStep ==
    TokenTypeOK /\ ConfigsAreValid /\ [TokenNext]_tokenVars
        => ConfigsAreValid'
<1> SUFFICES ASSUME TokenTypeOK, ConfigsAreValid, [TokenNext]_tokenVars
             PROVE  ConfigsAreValid'
  OBVIOUS
<1>1. CASE UNCHANGED <<config, proposal>>
  BY <1>1 DEF ConfigsAreValid, ValidConfig
<1>2. ASSUME NEW s \in Address, NEW m \in Address, NEW c, ProposeSetAdmin(s, c, m)
      PROVE  ConfigsAreValid'
  BY <1>2 DEF ProposeSetAdmin, ConfigsAreValid, ValidConfig
<1>3. ASSUME NEW s \in Address, ApproveSetAdmin(s) PROVE ConfigsAreValid'
  <2>1. PICK p \in proposal :
           proposal' = {[p EXCEPT !.signatures = Append(p.signatures, s)]}
    BY <1>3 DEF ApproveSetAdmin
  <2>2. p \in SetAdminProposal /\ ValidConfig(p.newConfig)
    BY <2>1 DEF TokenTypeOK, ConfigsAreValid
  <2>3. [p EXCEPT !.signatures = Append(p.signatures, s)].newConfig
          = p.newConfig
    BY <2>2 DEF SetAdminProposal
  <2>4. config' = config
    BY <1>3 DEF ApproveSetAdmin
  <2> QED
    BY <2>1, <2>2, <2>3, <2>4 DEF ConfigsAreValid, ValidConfig
<1>4. ASSUME NEW s \in Address, ExecuteSetAdmin(s) PROVE ConfigsAreValid'
  BY <1>4 DEF ExecuteSetAdmin, ConfigsAreValid, ValidConfig
<1>5. \/ UNCHANGED <<config, proposal>>
      \/ RotationNext
  BY DEF TokenNext, HolderNext, PauseNext, Mint, Burn, Transfer, Approve,
         TransferFrom, EmergencyPause, EmergencyUnpause, tokenVars, adminVars
<1> QED
  BY <1>1, <1>2, <1>3, <1>4, <1>5 DEF RotationNext

(* Whatever is proposed, signed and executed, a configuration in force     *)
(* that names no signer twice can reach its threshold.                     *)
THEOREM SignersReachThreshold == TokenSpec => []ThresholdReachable
<1>1. TokenInit => ConfigsAreValid
  BY DEF TokenInit, ConfigsAreValid
<1>2. TokenTypeOK /\ ConfigsAreValid => ThresholdReachable
  <2> SUFFICES ASSUME TokenTypeOK, ConfigsAreValid, Distinct(config.signers)
               PROVE  \E s \in SUBSET {config.signers[i] :
                                         i \in DOMAIN config.signers} :
                          Cardinality(s) = config.threshold
    BY DEF ThresholdReachable
  <2>1. config.signers \in Seq(Address) /\ config.threshold \in Nat
    BY DEF TokenTypeOK, Config
  <2>2. config.threshold <= Len(config.signers)
    BY DEF ConfigsAreValid, ValidConfig
  <2>3. 1 .. config.threshold \subseteq DOMAIN config.signers
    BY <2>1, <2>2
  <2> QED
    BY <2>1, <2>3, EnoughSigners
<1> QED
  BY <1>1, <1>2, ValidStep, TokenTypeCorrect, PTL DEF TokenSpec

-----------------------------------------------------------------------------
(* What the spender may still draw is what was approved minus what it has  *)
(* drawn: the strengthening that makes DrawnWithinApproval inductive.      *)
AllowanceAccounts ==
    \A p \in Address \X Address : allowance[p] = approved[p] - drawn[p]

(* approve and transfer_from keep the accounts of every allowance.         *)
LEMMA AllowanceStep ==
    TokenTypeOK /\ AllowanceAccounts /\ [TokenNext]_tokenVars
        => AllowanceAccounts'
<1> SUFFICES ASSUME TokenTypeOK, AllowanceAccounts, [TokenNext]_tokenVars,
                    NEW p \in Address \X Address
             PROVE  (allowance[p] = approved[p] - drawn[p])'
  BY DEF AllowanceAccounts
<1> USE TokenConstants
<1>1. CASE UNCHANGED <<allowance, approved, drawn>>
  BY <1>1 DEF AllowanceAccounts
<1>2. ASSUME NEW a \in Address, NEW b \in Spenders, NEW x \in Amounts,
             Approve(a, b, x)
      PROVE  (allowance[p] = approved[p] - drawn[p])'
  <2>1. <<a, b>> \in Address \X Address /\ x \in Nat
    OBVIOUS
  <2>2. CASE p = <<a, b>>
    <3>1. allowance'[p] = x /\ approved'[p] = x /\ drawn'[p] = 0
      BY <1>2, <2>1, <2>2 DEF Approve, TokenTypeOK
    <3> QED
      BY <2>1, <3>1
  <2>3. CASE p # <<a, b>>
    BY <1>2, <2>1, <2>3 DEF Approve, AllowanceAccounts, TokenTypeOK
  <2> QED
    BY <2>2, <2>3
<1>3. ASSUME NEW s \in Spenders, NEW a \in Address, NEW b \in Address,
             NEW x \in Amounts, TransferFrom(s, a, b, x)
      PROVE  (allowance[p] = approved[p] - drawn[p])'
  <2>1. <<a, s>> \in Address \X Address /\ x \in Nat
    OBVIOUS
  <2>2. /\ allowance[p] = approved[p] - drawn[p]
        /\ allowance[p] \in Nat /\ approved[p] \in Nat /\ drawn[p] \in Nat
    BY DEF AllowanceAccounts, TokenTypeOK
  <2>3. CASE p = <<a, s>>
    <3>1. /\ allowance'[p] = allowance[p] - x
          /\ approved'[p] = approved[p]
          /\ drawn'[p] = drawn[p] + x
      BY <1>3, <2>1, <2>3 DEF TransferFrom, TokenTypeOK
    <3> QED
      BY <2>1, <2>2, <3>1
  <2>4. CASE p # <<a, s>>
    BY <1>3, <2>1, <2>2, <2>4 DEF TransferFrom, TokenTypeOK
  <2> QED
    BY <2>3, <2>4
<1>4. \/ UNCHANGED <<allowance, approved, drawn>>
      \/ \E a \in Address, s \in Spenders, x \in Amounts : Approve(a, s, x)
      \/ \E s \in Spenders, a, b \in Address, x \in Amounts :
            TransferFrom(s, a, b, x)
  BY DEF TokenNext, HolderNext, RotationNext, PauseNext, Mint, Burn, Transfer,
         ProposeSetAdmin, ApproveSetAdmin, ExecuteSetAdmin,
         EmergencyPause, EmergencyUnpause, tokenVars, ledgerVars, historyVars
<1> QED
  BY <1>1, <1>2, <1>3, <1>4

(* A spender never draws more than the owner last approved.                *)
THEOREM DrawnBounded == TokenSpec => []DrawnWithinApproval
<1>1. TokenInit => AllowanceAccounts
  BY DEF TokenInit, AllowanceAccounts
<1>2. TokenTypeOK /\ AllowanceAccounts => DrawnWithinApproval
  BY DEF TokenTypeOK, AllowanceAccounts, DrawnWithinApproval
<1> QED
  BY <1>1, <1>2, AllowanceStep, TokenTypeCorrect, PTL DEF TokenSpec

-----------------------------------------------------------------------------
(* Sums over finite sets.                                                  *)

(* The function the fold under SumOver chooses: the sum over every subset  *)
(* of S, taken one member at a time.                                       *)
Sums(f, S, g) ==
    g = [s \in SUBSET S |->
           IF s = {} THEN 0
           ELSE f[CHOOSE x \in s : TRUE] + g[s \ {CHOOSE x \in s : TRUE}]]

(* SumOver applies such a function.                                        *)
LEMMA SumDef == \A f, S : SumOver(f, S) = (CHOOSE g : Sums(f, S, g))[S]
  BY DEF SumOver, MapThenSumSet, MapThenFoldSet, Sums

(* Induction over the subsets of a finite set, on the members of a set     *)
(* Good: a minimal subset outside Good cannot exist.                       *)
LEMMA FiniteInduction ==
    ASSUME NEW S, IsFiniteSet(S), NEW Good,
           ASSUME NEW T \in SUBSET S,
                  \A U \in SUBSET T : U # T => U \in Good
           PROVE  T \in Good
    PROVE  S \in Good
<1> DEFINE Bad == (SUBSET S) \ Good
           R == StrictSubsetOrdering(S)
<1>1. IsWellFoundedOn(R, SUBSET S)
  BY FS_StrictSubsetOrderingWellFounded, FS_FiniteSubsetsOfFinite
<1>2. SUFFICES ASSUME S \notin Good PROVE FALSE
  OBVIOUS
<1>3. PICK T \in Bad : \A U \in Bad : <<U, T>> \notin R
  <2> HIDE DEF R
  <2>1. Bad \subseteq SUBSET S /\ Bad # {}
    BY <1>2
  <2> HIDE DEF Bad
  <2> QED
    BY <1>1, <2>1, WFMin
<1>4. \A U \in SUBSET T : U # T => U \in Good
  BY <1>3 DEF StrictSubsetOrdering
<1> QED
  BY <1>3, <1>4

(* The sums over the subsets of a set agree with those over the subsets of *)
(* a larger one.                                                           *)
LEMMA SumsUnique ==
    ASSUME NEW f, NEW S, IsFiniteSet(S), NEW T \in SUBSET S, NEW g, NEW h,
           Sums(f, S, g), Sums(f, T, h)
    PROVE  \A s \in SUBSET T : g[s] = h[s]
<1> DEFINE Good == {s \in SUBSET T : g[s] = h[s]}
<1> SUFFICES ASSUME NEW t \in SUBSET T PROVE t \in Good
  OBVIOUS
<1>1. IsFiniteSet(t)
  BY FS_Subset
<1>2. ASSUME NEW s \in SUBSET t, \A u \in SUBSET s : u # s => u \in Good
      PROVE  s \in Good
  <2> DEFINE x == CHOOSE x \in s : TRUE
  <2>1. CASE s = {}
    BY <2>1 DEF Sums
  <2>2. CASE s # {}
    <3>1. x \in s
      BY <2>2
    <3>2. s \ {x} \in Good
      BY <1>2, <3>1
    <3>3. g[s] = f[x] + g[s \ {x}] /\ h[s] = f[x] + h[s \ {x}]
      BY <2>2 DEF Sums
    <3> QED
      BY <3>2, <3>3
  <2> QED
    BY <2>1, <2>2
<1> HIDE DEF Good
<1> QED
  BY <1>1, <1>2, FiniteInduction

(* Every finite set has its sums.                                          *)
LEMMA SumsExist ==
    ASSUME NEW f, NEW S, IsFiniteSet(S)
    PROVE  \E g : Sums(f, S, g)
<1> DEFINE G(T) == CHOOSE g : Sums(f, T, g)
           Good == {T \in SUBSET S : \E g : Sums(f, T, g)}
<1>1. ASSUME NEW T \in SUBSET S, \A U \in SUBSET T : U # T => U \in Good
      PROVE  T \in Good
  <2> DEFINE X(s) == CHOOSE x \in s : TRUE
             h == [s \in SUBSET T |->
                     IF s = {} THEN 0
                     ELSE f[X(s)] + G(s \ {X(s)})[s \ {X(s)}]]
  <2>1. ASSUME NEW s \in SUBSET T, s # T, s # {}
        PROVE  h[s] = G(s)[s]
    <3>1. X(s) \in s
      BY <2>1
    <3>2. Sums(f, s, G(s)) /\ Sums(f, s \ {X(s)}, G(s \ {X(s)}))
      <4>1. s \in Good /\ s \ {X(s)} \in Good
        BY <1>1, <2>1, <3>1
      <4> QED
        BY <4>1
    <3>3. IsFiniteSet(s)
      BY FS_Subset
    <3>4. G(s)[s \ {X(s)}] = G(s \ {X(s)})[s \ {X(s)}]
      <4> HIDE DEF G, X
      <4> QED BY <3>2, <3>3, SumsUnique
    <3>5. G(s)[s] = f[X(s)] + G(s)[s \ {X(s)}]
      <4> HIDE DEF G
      <4> QED BY <3>2, <2>1 DEF Sums
    <3> QED
      BY <2>1, <3>4, <3>5
  <2>2. ASSUME NEW s \in SUBSET T, s # {}
        PROVE  h[s \ {X(s)}] = G(s \ {X(s)})[s \ {X(s)}]
    <3>1. X(s) \in s
      BY <2>2
    <3>2. CASE s \ {X(s)} # {}
      <4> HIDE DEF h, X, G
      <4> QED BY <2>1, <3>1, <3>2
    <3>3. CASE s \ {X(s)} = {}
      <4>1. {} \in Good
        BY <1>1, <2>2
      <4>2. Sums(f, {}, G({}))
        BY <4>1
      <4>3. G({})[{}] = 0
        <5> HIDE DEF G
        <5> QED BY <4>2 DEF Sums
      <4> QED
        BY <3>3, <4>3
    <3> QED
      BY <3>2, <3>3
  <2>3. Sums(f, T, h)
    <3> HIDE DEF G
    <3>1. \A s \in SUBSET T : s # {} => h[s] = f[X(s)] + h[s \ {X(s)}]
      <4> SUFFICES ASSUME NEW s \in SUBSET T, s # {}
                   PROVE  h[s] = f[X(s)] + h[s \ {X(s)}]
        OBVIOUS
      <4>1. h[s] = f[X(s)] + G(s \ {X(s)})[s \ {X(s)}]
        <5> HIDE DEF X
        <5> QED OBVIOUS
      <4> QED
        BY <2>2, <4>1
    <3>2. h[{}] = 0
      OBVIOUS
    <3>3. h = [s \in SUBSET T |-> h[s]]
      OBVIOUS
    <3> HIDE DEF h
    <3>4. h = [s \in SUBSET T |->
                 IF s = {} THEN 0 ELSE f[X(s)] + h[s \ {X(s)}]]
      <4> HIDE DEF X
      <4> QED
        BY <3>1, <3>2, <3>3
    <3> QED
      BY <3>4 DEF Sums
  <2> QED
    BY <2>3
<1> HIDE DEF Good
<1>2. S \in Good
  BY <1>1, FiniteInduction
<1> QED
  BY <1>2 DEF Good

(* The sum over no member is zero.                                         *)
LEMMA SumOfNone == ASSUME NEW f PROVE SumOver(f, {}) = 0
<1>1. PICK g : Sums(f, {}, g)
  BY SumsExist, FS_EmptySet
<1>2. Sums(f, {}, CHOOSE h : Sums(f, {}, h))
  BY <1>1
<1> DEFINE c == CHOOSE h : Sums(f, {}, h)
<1> HIDE DEF c
<1> QED
  BY <1>2, SumDef DEF Sums, c

(* The member that is chosen first can be taken out of the sum ...         *)
LEMMA SumChosen ==
    ASSUME NEW f, NEW S, IsFiniteSet(S), S # {}
    PROVE  LET x == CHOOSE x \in S : TRUE
           IN  SumOver(f, S) = f[x] + SumOver(f, S \ {x})
<1> DEFINE x == CHOOSE x \in S : TRUE
           g == CHOOSE g : Sums(f, S, g)
           h == CHOOSE h : Sums(f, S \ {x}, h)
<1>1. x \in S
  OBVIOUS
<1>2. IsFiniteSet(S \ {x})
  BY FS_RemoveElement
<1>3. Sums(f, S, g) /\ Sums(f, S \ {x}, h)
  <2> HIDE DEF x
  <2>1. \E k : Sums(f, S, k)
    BY SumsExist
  <2>2. \E k : Sums(f, S \ {x}, k)
    BY <1>2, SumsExist
  <2> QED
    BY <2>1, <2>2
<1>4. SumOver(f, S) = g[S] /\ SumOver(f, S \ {x}) = h[S \ {x}]
  <2> HIDE DEF x
  <2> QED
    BY SumDef
<1> HIDE DEF g, h
<1>5. g[S] = f[x] + g[S \ {x}]
  BY <1>3 DEF Sums
<1>6. g[S \ {x}] = h[S \ {x}]
  <2> HIDE DEF x
  <2> DEFINE T == S \ {x}
  <2>1. T \in SUBSET S /\ Sums(f, S, g) /\ Sums(f, T, h)
    BY <1>3
  <2> HIDE DEF T
  <2>2. \A s \in SUBSET T : g[s] = h[s]
    BY <2>1, SumsUnique
  <2> USE DEF T
  <2> QED
    BY <2>2
<1> QED
  BY <1>4, <1>5, <1>6

(* Integers have an integer sum.                                           *)
LEMMA SumType ==
    ASSUME NEW S, IsFiniteSet(S), NEW f, \A x \in S : f[x] \in Int
    PROVE  SumOver(f, S) \in Int
<1> DEFINE Good == {T \in SUBSET S : SumOver(f, T) \in Int}
<1>1. ASSUME NEW T \in SUBSET S, \A U \in SUBSET T : U # T => U \in Good
      PROVE  T \in Good
  <2> DEFINE x == CHOOSE x \in T : TRUE
  <2>1. CASE T = {}
    BY <2>1, SumOfNone
  <2>2. CASE T # {}
    <3>1. x \in T /\ f[x] \in Int
      BY <2>2
    <3>2. T \ {x} \in Good
      BY <1>1, <3>1
    <3>3. IsFiniteSet(T)
      BY FS_Subset
    <3>4. SumOver(f, T) = f[x] + SumOver(f, T \ {x})
      BY <2>2, <3>3, SumChosen
    <3> HIDE DEF x
    <3> QED
      BY <3>1, <3>2, <3>4
  <2> QED
    BY <2>1, <2>2
<1> HIDE DEF Good
<1>2. S \in Good
  BY <1>1, FiniteInduction
<1> QED
  BY <1>2 DEF Good

(* ... and so can any other: the order of the sum does not matter.         *)
LEMMA SumRemove ==
    ASSUME NEW S, IsFiniteSet(S), NEW f, \A x \in S : f[x] \in Int
    PROVE  \A x \in S : SumOver(f, S) = f[x] + SumOver(f, S \ {x})
<1> DEFINE Good == {T \in SUBSET S : \A x \in T :
                      SumOver(f, T) = f[x] + SumOver(f, T \ {x})}
<1>1. ASSUME NEW T \in SUBSET S, \A U \in SUBSET T : U # T => U \in Good
      PROVE  T \in Good
  <2> SUFFICES ASSUME NEW x \in T
               PROVE  SumOver(f, T) = f[x] + SumOver(f, T \ {x})
    OBVIOUS
  <2> DEFINE y == CHOOSE y \in T : TRUE
  <2>1. y \in T
    OBVIOUS
  <2>2. IsFiniteSet(T) /\ IsFiniteSet(T \ {x}) /\ IsFiniteSet(T \ {y})
    BY FS_Subset
  <2>3. SumOver(f, T) = f[y] + SumOver(f, T \ {y})
    BY <2>2, SumChosen
  <2> HIDE DEF y
  <2>4. CASE x = y
    BY <2>3, <2>4
  <2>5. CASE x # y
    <3>1. T \ {x} \in Good /\ T \ {y} \in Good
      BY <1>1, <2>1
    <3> DEFINE rest == SumOver(f, (T \ {x}) \ {y})
    <3>2. (T \ {y}) \ {x} = (T \ {x}) \ {y}
      OBVIOUS
    <3>3. SumOver(f, T \ {y}) = f[x] + rest
      BY <2>5, <3>1, <3>2
    <3>4. SumOver(f, T \ {x}) = f[y] + rest
      BY <2>1, <2>5, <3>1
    <3>5. rest \in Int
      <4>1. IsFiniteSet((T \ {x}) \ {y})
        BY FS_Subset
      <4> QED
        BY <4>1, SumType
    <3>6. f[x] \in Int /\ f[y] \in Int
      BY <2>1
    <3> HIDE DEF rest
    <3> QED
      BY <2>3, <3>3, <3>4, <3>5, <3>6
  <2> QED
    BY <2>4, <2>5
<1> HIDE DEF Good
<1>2. S \in Good
  BY <1>1, FiniteInduction
<1> QED
  BY <1>2 DEF Good

(* A function that is nowhere larger has no larger sum.                    *)
LEMMA SumMonotone ==
    ASSUME NEW S, IsFiniteSet(S), NEW f, NEW g,
           \A x \in S : f[x] \in Int /\ g[x] \in Int /\ f[x] <= g[x]
    PROVE  SumOver(f, S) <= SumOver(g, S)
<1> DEFINE Good == {T \in SUBSET S : SumOver(f, T) <= SumOver(g, T)}
<1>1. ASSUME NEW T \in SUBSET S, \A U \in SUBSET T : U # T => U \in Good
      PROVE  T \in Good
  <2>1. CASE T = {}
    BY <2>1, SumOfNone
  <2>2. CASE T # {}
    <3>1. PICK x \in T : TRUE
      BY <2>2
    <3>2. T \ {x} \in Good
      BY <1>1, <3>1
    <3>3. IsFiniteSet(T) /\ IsFiniteSet(T \ {x})
      BY FS_Subset
    <3>4. /\ SumOver(f, T) = f[x] + SumOver(f, T \ {x})
          /\ SumOver(g, T) = g[x] + SumOver(g, T \ {x})
      BY <3>1, <3>3, SumRemove
    <3>5. SumOver(f, T \ {x}) \in Int /\ SumOver(g, T \ {x}) \in Int
      BY <3>3, SumType
    <3>6. f[x] \in Int /\ g[x] \in Int /\ f[x] <= g[x]
      BY <3>1
    <3> QED
      BY <3>2, <3>4, <3>5, <3>6
  <2> QED
    BY <2>1, <2>2
<1> HIDE DEF Good
<1>2. S \in Good
  BY <1>1, FiniteInduction
<1> QED
  BY <1>2 DEF Good

(* Zeros add up to zero.                                                   *)
LEMMA SumOfZeros ==
    ASSUME NEW S, IsFiniteSet(S), NEW f, \A x \in S : f[x] = 0
    PROVE  SumOver(f, S) = 0
<1> DEFINE Good == {T \in SUBSET S : SumOver(f, T) = 0}
<1>1. ASSUME NEW T \in SUBSET S, \A U \in SUBSET T : U # T => U \in Good
      PROVE  T \in Good
  <2>1. CASE T = {}
    BY <2>1, SumOfNone
  <2>2. CASE T # {}
    <3>1. PICK x \in T : TRUE
      BY <2>2
    <3>2. IsFiniteSet(T) /\ \A y \in T : f[y] = 0
      BY FS_Subset
    <3>3. SumOver(f, T) = f[x] + SumOver(f, T \ {x})
      BY <3>1, <3>2, SumRemove
    <3>4. T \ {x} \in Good
      BY <1>1, <3>1
    <3> QED
      BY <3>1, <3>2, <3>3, <3>4
  <2> QED
    BY <2>1, <2>2
<1> HIDE DEF Good
<1>2. S \in Good
  BY <1>1, FiniteInduction
<1> QED
  BY <1>2 DEF Good

(* Natural numbers add up to a natural number.                             *)
LEMMA SumOfNaturals ==
    ASSUME NEW S, IsFiniteSet(S), NEW f, \A x \in S : f[x] \in Nat
    PROVE  SumOver(f, S) \in Nat
<1> DEFINE none == [x \in S |-> 0]
<1>1. \A x \in S : none[x] = 0
  OBVIOUS
<1> HIDE DEF none
<1>2. SumOver(none, S) = 0
  BY <1>1, SumOfZeros
<1>3. SumOver(none, S) <= SumOver(f, S)
  <2>1. \A x \in S : none[x] \in Int /\ f[x] \in Int /\ none[x] <= f[x]
    BY <1>1
  <2> QED
    BY <2>1, SumMonotone
<1>4. SumOver(f, S) \in Int
  <2>1. \A x \in S : f[x] \in Int
    OBVIOUS
  <2> QED
    BY <2>1, SumType
<1> QED
  BY <1>2, <1>3, <1>4

(* Functions that agree on the set have the same sum.                      *)
LEMMA SumExtensional ==
    ASSUME NEW S, IsFiniteSet(S), NEW f, NEW g,
           \A x \in S : f[x] \in Int /\ f[x] = g[x]
    PROVE  SumOver(f, S) = SumOver(g, S)
<1>1. SumOver(f, S) <= SumOver(g, S) /\ SumOver(g, S) <= SumOver(f, S)
  BY SumMonotone
<1>2. SumOver(f, S) \in Int /\ SumOver(g, S) \in Int
  BY SumType
<1> QED
  BY <1>1, <1>2

(* When one entry changes, the sum changes by the difference.              *)
LEMMA SumUpdate ==
    ASSUME NEW S, IsFiniteSet(S), NEW f, NEW g, NEW k \in S,
           \A x \in S : f[x] \in Int /\ g[x] \in Int,
           \A x \in S \ {k} : g[x] = f[x]
    PROVE  SumOver(g, S) = SumOver(f, S) - f[k] + g[k]
<1>1. IsFiniteSet(S \ {k})
  BY FS_Subset
<1>2. SumOver(f, S \ {k}) = SumOver(g, S \ {k})
  BY <1>1, SumExtensional
<1>3. SumOver(f, S \ {k}) \in Int
  BY <1>1, SumType
<1>4. /\ SumOver(f, S) = f[k] + SumOver(f, S \ {k})
      /\ SumOver(g, S) = g[k] + SumOver(g, S \ {k})
  BY SumRemove
<1> QED
  BY <1>2, <1>3, <1>4

(* When one entry is new, the sum grows by it.                             *)
LEMMA SumExtended ==
    ASSUME NEW S, IsFiniteSet(S), NEW f, NEW g, NEW k, k \notin S,
           \A x \in S : f[x] \in Int /\ g[x] = f[x], g[k] \in Int
    PROVE  SumOver(g, S \cup {k}) = SumOver(f, S) + g[k]
<1> DEFINE T == S \cup {k}
<1>1. IsFiniteSet(T)
  BY FS_AddElement
<1>2. k \in T /\ T \ {k} = S /\ \A x \in T : g[x] \in Int
  OBVIOUS
<1>3. SumOver(g, T) = g[k] + SumOver(g, S)
  <2> HIDE DEF T
  <2> QED
    BY <1>1, <1>2, SumRemove
<1>4. SumOver(g, S) = SumOver(f, S)
  BY SumExtensional
<1>5. SumOver(f, S) \in Int
  BY SumType
<1> QED
  BY <1>3, <1>4, <1>5

(* When at most one entry grows, and by no more than n, the sum grows by   *)
(* no more than n.                                                         *)
LEMMA SumGrowsBy ==
    ASSUME NEW S, IsFiniteSet(S), NEW f, NEW g, NEW k, NEW n \in Nat,
           \A x \in S : f[x] \in Int /\ g[x] \in Int,
           \A x \in S : g[x] <= f[x] + (IF x = k THEN n ELSE 0)
    PROVE  SumOver(g, S) <= SumOver(f, S) + n
<1>1. SumOver(f, S) \in Int /\ SumOver(g, S) \in Int
  BY SumType
<1>2. CASE k \notin S
  <2>1. \A x \in S : g[x] <= f[x]
    BY <1>2
  <2>2. SumOver(g, S) <= SumOver(f, S)
    BY <2>1, SumMonotone
  <2> QED
    BY <1>1, <2>2
<1>3. CASE k \in S
  <2> DEFINE h == [x \in S |-> f[x] + (IF x = k THEN n ELSE 0)]
  <2>1. /\ \A x \in S : h[x] \in Int /\ g[x] <= h[x]
        /\ \A x \in S \ {k} : h[x] = f[x]
        /\ h[k] = f[k] + n
    BY <1>3
  <2> HIDE DEF h
  <2>2. SumOver(g, S) <= SumOver(h, S)
    BY <2>1, SumMonotone
  <2>3. SumOver(h, S) = SumOver(f, S) - f[k] + h[k]
    BY <1>3, <2>1, SumUpdate
  <2>4. f[k] \in Int
    BY <1>3
  <2> QED
    BY <1>1, <2>1, <2>2, <2>3, <2>4
<1> QED
  BY <1>2, <1>3

-----------------------------------------------------------------------------
(* What a transfer writes changes the sum of the balances only when an     *)
(* account pays itself: the second write then wins over the first.         *)
LEMMA MoveSum ==
    ASSUME balance \in [Address -> Nat],
           NEW from \in Address, NEW to \in Address, NEW x \in Nat
    PROVE  SumOver(Moved(balance, from, to, x), Address)
             = TotalBalance + (IF from = to THEN x ELSE 0)
<1> DEFINE sent == [balance EXCEPT ![from] = balance[from] - x]
           moved == Moved(balance, from, to, x)
<1>1. IsFiniteSet(Address)
  BY TokenConstants
<1>2. \A a \in Address : balance[a] \in Int /\ sent[a] \in Int /\ moved[a] \in Int
  BY DEF Moved
<1>3. TotalBalance \in Int
  BY <1>1, <1>2, SumType DEF TotalBalance
<1>4. CASE from = to
  <2>1. /\ moved[to] = balance[to] + x
        /\ \A a \in Address \ {to} : moved[a] = balance[a]
    BY <1>4 DEF Moved
  <2> HIDE DEF moved
  <2>2. SumOver(moved, Address) = TotalBalance - balance[to] + moved[to]
    BY <1>1, <1>2, <2>1, SumUpdate DEF TotalBalance
  <2>3. SumOver(moved, Address) = TotalBalance + x
    BY <1>2, <1>3, <2>1, <2>2
  <2> QED
    BY <1>4, <2>3 DEF moved
<1>5. CASE from # to
  <2>1. /\ sent[from] = balance[from] - x
        /\ \A a \in Address \ {from} : sent[a] = balance[a]
        /\ moved[to] = balance[to] + x /\ sent[to] = balance[to]
        /\ \A a \in Address \ {to} : moved[a] = sent[a]
    BY <1>5 DEF Moved
  <2> HIDE DEF sent, moved
  <2>2. SumOver(sent, Address) = TotalBalance - balance[from] + sent[from]
    BY <1>1, <1>2, <2>1, SumUpdate DEF TotalBalance
  <2>3. SumOver(moved, Address) = SumOver(sent, Address) - sent[to] + moved[to]
    <3>1. /\ \A a \in Address : sent[a] \in Int /\ moved[a] \in Int
          /\ \A a \in Address \ {to} : moved[a] = sent[a]
      BY <1>2, <2>1
    <3> QED
      BY <1>1, <3>1, SumUpdate
  <2>4. SumOver(moved, Address) = TotalBalance
    BY <1>2, <1>3, <2>1, <2>2, <2>3
  <2> QED
    BY <1>3, <1>5, <2>4 DEF moved
<1> QED
  BY <1>4, <1>5

(* mint and burn change one balance and the supply by the same amount, a   *)
(* transfer neither.                                                       *)
LEMMA LedgerSumStep ==
    TokenTypeOK /\ LedgerBalanced /\ [TokenNext]_tokenVars => LedgerBalanced'
<1> SUFFICES ASSUME TokenTypeOK, LedgerBalanced, [TokenNext]_tokenVars
             PROVE  LedgerBalanced'
  OBVIOUS
<1> USE TokenConstants
<1>1. /\ balance \in [Address -> Nat] /\ supply \in Int /\ selfSent \in Nat
      /\ SumOver(balance, Address) = supply + selfSent
  BY DEF TokenTypeOK, LedgerBalanced, TotalBalance
<1>2. \A a \in Address : balance[a] \in Int
  BY <1>1
<1>3. SUFFICES SumOver(balance', Address) = supply' + selfSent'
  BY DEF LedgerBalanced, TotalBalance
<1>4. CASE UNCHANGED <<balance, supply, selfSent>>
  BY <1>1, <1>4
<1>5. ASSUME NEW a \in Address, NEW x \in Int,
             \A c \in Address :
                balance'[c] = balance[c] + (IF c = a THEN x ELSE 0),
             supply' = supply + x, selfSent' = selfSent
      PROVE  SumOver(balance', Address) = supply' + selfSent'
  <2>1. /\ \A b \in Address : balance'[b] \in Int
        /\ \A b \in Address \ {a} : balance'[b] = balance[b]
        /\ balance'[a] = balance[a] + x
    BY <1>1, <1>5
  <2>2. SumOver(balance', Address)
          = SumOver(balance, Address) - balance[a] + balance'[a]
    <3> DEFINE b2 == balance'
    <3>1. /\ \A c \in Address : balance[c] \in Int /\ b2[c] \in Int
          /\ \A c \in Address \ {a} : b2[c] = balance[c]
      BY <1>2, <2>1
    <3>2. IsFiniteSet(Address)
      OBVIOUS
    <3> HIDE DEF b2
    <3>3. SumOver(b2, Address) = SumOver(balance, Address) - balance[a] + b2[a]
      BY <3>1, <3>2, SumUpdate
    <3> QED
      BY <3>3 DEF b2
  <2> QED
    BY <1>1, <1>2, <1>5, <2>1, <2>2
<1>6. ASSUME NEW a \in Address, NEW x \in Amounts, Mint(a, x)
      PROVE  SumOver(balance', Address) = supply' + selfSent'
  <2>1. /\ x \in Int
        /\ \A c \in Address : balance'[c] = balance[c] + (IF c = a THEN x ELSE 0)
        /\ supply' = supply + x /\ selfSent' = selfSent
    BY <1>1, <1>6 DEF Mint, Credit, historyVars
  <2> QED
    BY <1>5, <2>1
<1>7. ASSUME NEW a \in Address, NEW x \in Amounts, Burn(a, x)
      PROVE  SumOver(balance', Address) = supply' + selfSent'
  <2>1. /\ -x \in Int
        /\ \A c \in Address :
              balance'[c] = balance[c] + (IF c = a THEN -x ELSE 0)
        /\ supply' = supply + (-x) /\ selfSent' = selfSent
    BY <1>1, <1>7 DEF Burn, historyVars
  <2> QED
    BY <1>5, <2>1
<1>8. ASSUME NEW a \in Address, NEW b \in Address, NEW x \in Amounts,
             MoveTokens(a, b, x), supply' = supply
      PROVE  SumOver(balance', Address) = supply' + selfSent'
  <2>1. SumOver(balance', Address) = TotalBalance + (IF a = b THEN x ELSE 0)
    BY <1>1, <1>8, MoveSum DEF MoveTokens
  <2> QED
    BY <1>1, <1>8, <2>1 DEF MoveTokens, TotalBalance
<1>9. ASSUME HolderNext PROVE SumOver(balance', Address) = supply' + selfSent'
  BY <1>4, <1>7, <1>8, <1>9
     DEF HolderNext, Transfer, TransferFrom, Approve
<1>10. RotationNext \/ PauseNext \/ UNCHANGED tokenVars
         => UNCHANGED <<balance, supply, selfSent>>
  BY DEF RotationNext, PauseNext, ProposeSetAdmin, ApproveSetAdmin,
         ExecuteSetAdmin, EmergencyPause, EmergencyUnpause, ledgerVars,
         tokenVars, historyVars
<1> QED
  BY <1>4, <1>6, <1>9, <1>10 DEF TokenNext

(* A ledger without entries is balanced.                                   *)
LEMMA LedgerSumInit == TokenInit => LedgerBalanced
<1> SUFFICES ASSUME TokenInit PROVE LedgerBalanced
  OBVIOUS
<1>1. SumOver(balance, Address) = 0
  BY SumOfZeros, TokenConstants DEF TokenInit
<1> QED
  BY <1>1 DEF TokenInit, LedgerBalanced, TotalBalance

(* After any sequence of calls, by any number of holders, the balances add *)
(* up to the total supply and what accounts sent to themselves.            *)
THEOREM LedgerSums == TokenSpec => []LedgerBalanced
  BY LedgerSumInit, LedgerSumStep, TokenTypeCorrect, PTL DEF TokenSpec
=============================================================================
