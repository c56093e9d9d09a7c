------------------------- MODULE MerchantAuth_proofs -------------------------
(***************************************************************************)
(* Proofs about merchant sign-in: type correctness, and that every token   *)
(* was earned by one challenge of its own, for any merchants, any times    *)
(* to live and any number of challenges and restarts.                      *)
(***************************************************************************)
EXTENDS MerchantAuth, TLAPS

(* What makes TokensAreEarned inductive: the nonce in store for k is that  *)
(* of one challenge, made to k by the running process, NONCE_TTL before    *)
(* it expires, and no token has used it.                                   *)
NoncesAreFresh ==
    \A k \in Merchants : \A e \in nonceStore[k] :
      /\ challenges[e.nonce].key = k
      /\ challenges[e.nonce].life = life
      /\ e.expiresAt = challenges[e.nonce].at + NONCE_TTL
      /\ \A t \in tokens : t.nonce # e.nonce

AuthInv == AuthTypeOK /\ NoncesAreFresh /\ TokensAreEarned

(* Challenges are only ever added, at the end.                             *)
LEMMA ChallengesGrow ==
    ASSUME AuthTypeOK, NEW c \in [key : Merchants, at : Nat, life : Nat],
           challenges' = Append(challenges, c)
    PROVE  /\ challenges' \in Seq([key : Merchants, at : Nat, life : Nat])
           /\ DOMAIN challenges = 1 .. Len(challenges)
           /\ DOMAIN challenges' = 1 .. Len(challenges) + 1
           /\ Len(challenges') = Len(challenges) + 1
           /\ Len(challenges) \in Nat
           /\ \A n \in DOMAIN challenges :
                n \in DOMAIN challenges' /\ challenges'[n] = challenges[n]
           /\ challenges'[Len(challenges) + 1] = c
<1>1. challenges \in Seq([key : Merchants, at : Nat, life : Nat])
  BY DEF AuthTypeOK
<1> QED
  BY <1>1

(* What a sequence over S holds is in S.                                   *)
LEMMA MembersOfSeq ==
    ASSUME NEW S, NEW s \in Seq(S), NEW i \in DOMAIN s
    PROVE  s[i] \in S
  OBVIOUS

(* The tokens of earlier sign-ins answer a challenge each.                 *)
LEMMA AuthInitial == AuthInit => AuthInv
<1> SUFFICES ASSUME AuthInit PROVE AuthInv
  OBVIOUS
<1> USE AuthConstants DEF AuthInit
<1>1. /\ DOMAIN SeedSessions = 1 .. Len(SeedSessions)
      /\ \A n \in DOMAIN SeedSessions : SeedSessions[n] \in Merchants
      /\ Len(SeedSessions) \in Nat
  OBVIOUS
<1>2. challenges \in Seq([key : Merchants, at : Nat, life : Nat])
  <2>1. challenges \in [1 .. Len(SeedSessions) ->
                          [key : Merchants, at : Nat, life : Nat]]
    BY <1>1
  <2> QED
    BY <1>1, <2>1
<1>3. DOMAIN challenges = DOMAIN SeedSessions
  OBVIOUS
<1>4. \A n \in DOMAIN SeedSessions :
        challenges[n] = [key |-> SeedSessions[n], at |-> 0, life |-> 0]
  OBVIOUS
<1>5. \A t \in tokens :
        \E n \in DOMAIN SeedSessions :
           t = [sub |-> SeedSessions[n], exp |-> JWT_EXPIRY, life |-> 0,
                nonce |-> n]
  OBVIOUS
<1>6. AuthTypeOK
  BY <1>1, <1>2, <1>3, <1>5 DEF AuthTypeOK, Token
<1>7. TokensAreEarned
  <2>1. \A t \in tokens :
          /\ challenges[t.nonce].key = t.sub
          /\ challenges[t.nonce].life = t.life
          /\ t.exp <= challenges[t.nonce].at + NONCE_TTL + JWT_EXPIRY
    BY <1>4, <1>5
  <2>2. \A t, u \in tokens : t.nonce = u.nonce => t = u
    BY <1>5
  <2> QED
    BY <2>1, <2>2 DEF TokensAreEarned
<1>8. NoncesAreFresh
  BY DEF NoncesAreFresh
<1> QED
  BY <1>6, <1>7, <1>8 DEF AuthInv

(* challengeHandler replaces the key's nonce by one no token can have, for *)
(* tokens have nonces of earlier challenges.                               *)
LEMMA ChallengeStep ==
    ASSUME AuthInv, NEW k \in Merchants, ChallengeHandler(k)
    PROVE  AuthInv'
<1> DEFINE c == [key |-> k, at |-> clock, life |-> life]
           n == Len(challenges) + 1
<1> USE AuthConstants
<1>1. AuthTypeOK /\ NoncesAreFresh /\ TokensAreEarned
  BY DEF AuthInv
<1>2. c \in [key : Merchants, at : Nat, life : Nat]
  BY <1>1 DEF AuthTypeOK
<1>3. challenges' = Append(challenges, c)
  BY DEF ChallengeHandler
<1>4. /\ challenges' \in Seq([key : Merchants, at : Nat, life : Nat])
      /\ DOMAIN challenges = 1 .. Len(challenges)
      /\ DOMAIN challenges' = 1 .. n
      /\ Len(challenges') = n
      /\ Len(challenges) \in Nat
      /\ \A i \in DOMAIN challenges :
           i \in DOMAIN challenges' /\ challenges'[i] = challenges[i]
      /\ challenges'[n] = c
  BY <1>1, <1>2, <1>3, ChallengesGrow
<1>5. /\ nonceStore'[k] = {[nonce |-> n, expiresAt |-> clock + NONCE_TTL]}
      /\ \A j \in Merchants \ {k} : nonceStore'[j] \subseteq nonceStore[j]
  BY <1>4 DEF ChallengeHandler, Unexpired
<1>6. UNCHANGED <<clock, secretInEnv, life, tokens>>
  BY DEF ChallengeHandler
<1>7. AuthTypeOK'
  <2>1. nonceStore' \in [Merchants -> SUBSET NonceEntry]
    <3>1. nonceStore \in [Merchants -> SUBSET NonceEntry] /\ clock \in Nat
      BY <1>1 DEF AuthTypeOK
    <3>2. [nonce |-> n, expiresAt |-> clock + NONCE_TTL] \in NonceEntry
      BY <1>4, <3>1 DEF NonceEntry
    <3> QED
      BY <1>4, <3>1, <3>2 DEF ChallengeHandler, Unexpired
  <2>2. \A j \in Merchants : \A e \in nonceStore'[j] :
          e.nonce \in DOMAIN challenges'
    BY <1>1, <1>4, <1>5 DEF AuthTypeOK
  <2> QED
    BY <1>1, <1>4, <1>6, <2>1, <2>2 DEF AuthTypeOK
<1>8. NoncesAreFresh'
  <2> SUFFICES ASSUME NEW j \in Merchants, NEW e \in nonceStore'[j]
               PROVE  /\ challenges'[e.nonce].key = j
                      /\ challenges'[e.nonce].life = life
                      /\ e.expiresAt = challenges'[e.nonce].at + NONCE_TTL
                      /\ \A t \in tokens : t.nonce # e.nonce
    BY <1>6 DEF NoncesAreFresh
  <2>1. CASE j = k
    <3>1. e = [nonce |-> n, expiresAt |-> clock + NONCE_TTL]
      BY <1>5, <2>1
    <3>2. \A t \in tokens : t.nonce # n
      BY <1>1, <1>4 DEF AuthTypeOK
    <3> QED
      BY <1>4, <2>1, <3>1, <3>2
  <2>2. CASE j # k
    <3>1. e \in nonceStore[j] /\ e.nonce \in DOMAIN challenges
      BY <1>1, <1>5, <2>2 DEF AuthTypeOK
    <3> QED
      BY <1>1, <1>4, <3>1 DEF NoncesAreFresh
  <2> QED
    BY <2>1, <2>2
<1>9. TokensAreEarned'
  <2>1. \A t \in tokens : challenges'[t.nonce] = challenges[t.nonce]
    BY <1>1, <1>4 DEF AuthTypeOK
  <2> QED
    BY <1>1, <1>6, <2>1 DEF TokensAreEarned
<1> QED
  BY <1>7, <1>8, <1>9 DEF AuthInv

(* verifyHandler takes the nonce out of the store before it signs, so the  *)
(* new token is the only one of its challenge.                             *)
LEMMA VerifyStep ==
    ASSUME AuthInv, NEW k \in Merchants, NEW n \in DOMAIN challenges,
           VerifyHandler(k, n)
    PROVE  AuthInv'
<1> DEFINE t0 == [sub |-> k, exp |-> clock + JWT_EXPIRY, life |-> life,
                  nonce |-> n]
<1> USE AuthConstants
<1>1. AuthTypeOK /\ NoncesAreFresh /\ TokensAreEarned
  BY DEF AuthInv
<1>2. /\ clock \in Nat /\ life \in Nat
      /\ challenges \in Seq([key : Merchants, at : Nat, life : Nat])
      /\ nonceStore \in [Merchants -> SUBSET NonceEntry]
  BY <1>1 DEF AuthTypeOK
<1>3. PICK e \in nonceStore[k] : e.expiresAt >= clock /\ e.nonce = n
  BY DEF VerifyHandler
<1>4. /\ challenges[n].key = k /\ challenges[n].life = life
      /\ clock <= challenges[n].at + NONCE_TTL
      /\ \A t \in tokens : t.nonce # n
  BY <1>1, <1>3 DEF NoncesAreFresh
<1>5. /\ tokens' = tokens \cup {t0}
      /\ nonceStore' = [nonceStore EXCEPT ![k] = {}]
      /\ UNCHANGED <<clock, secretInEnv, life, challenges>>
  BY DEF VerifyHandler, SignJwt
<1>6. /\ nonceStore'[k] = {}
      /\ \A j \in Merchants \ {k} : nonceStore'[j] = nonceStore[j]
  BY <1>2, <1>5
<1>7. AuthTypeOK'
  <2>1. n \in Nat
    BY <1>2
  <2>2. t0 \in Token
    BY <1>2, <2>1 DEF Token
  <2>3. /\ tokens' \subseteq Token
        /\ \A t \in tokens' : t.nonce \in DOMAIN challenges
    BY <1>1, <1>5, <2>2 DEF AuthTypeOK
  <2>4. nonceStore' \in [Merchants -> SUBSET NonceEntry]
    BY <1>2, <1>5
  <2>5. \A j \in Merchants : \A f \in nonceStore'[j] :
          f.nonce \in DOMAIN challenges
    BY <1>1, <1>6 DEF AuthTypeOK
  <2> QED
    BY <1>1, <1>5, <2>3, <2>4, <2>5 DEF AuthTypeOK
<1>8. NoncesAreFresh'
  <2> SUFFICES ASSUME NEW j \in Merchants, NEW f \in nonceStore'[j]
               PROVE  /\ challenges[f.nonce].key = j
                      /\ challenges[f.nonce].life = life
                      /\ f.expiresAt = challenges[f.nonce].at + NONCE_TTL
                      /\ \A t \in tokens' : t.nonce # f.nonce
    BY <1>5 DEF NoncesAreFresh
  <2>1. j # k /\ f \in nonceStore[j]
    BY <1>6
  <2>2. /\ challenges[f.nonce].key = j
        /\ challenges[f.nonce].life = life
        /\ f.expiresAt = challenges[f.nonce].at + NONCE_TTL
        /\ \A t \in tokens : t.nonce # f.nonce
    BY <1>1, <2>1 DEF NoncesAreFresh
  <2>3. f.nonce # n
    BY <1>4, <2>1, <2>2
  <2> QED
    BY <1>5, <2>2, <2>3
<1>9. TokensAreEarned'
  <2>1. /\ challenges[t0.nonce].key = t0.sub
        /\ challenges[t0.nonce].life = t0.life
    BY <1>4
  <2>2. challenges[n].at \in Nat
    <3>1. challenges[n] \in [key : Merchants, at : Nat, life : Nat]
      BY <1>2, MembersOfSeq
    <3> QED
      BY <3>1
  <2>3. t0.exp <= challenges[t0.nonce].at + NONCE_TTL + JWT_EXPIRY
    BY <1>2, <1>4, <2>2
  <2>4. \A t \in tokens' :
          /\ challenges[t.nonce].key = t.sub
          /\ challenges[t.nonce].life = t.life
          /\ t.exp <= challenges[t.nonce].at + NONCE_TTL + JWT_EXPIRY
    BY <1>1, <1>5, <2>1, <2>3 DEF TokensAreEarned
  <2>5. \A t, u \in tokens' : t.nonce = u.nonce => t = u
    BY <1>1, <1>4, <1>5 DEF TokensAreEarned
  <2> QED
    BY <1>5, <2>4, <2>5 DEF TokensAreEarned
<1> QED
  BY <1>7, <1>8, <1>9 DEF AuthInv

(* Every other step keeps the tokens and the challenges; a restart empties *)
(* the store.                                                              *)
LEMMA AuthStep == AuthInv /\ [AuthNext]_authVars => AuthInv'
<1> SUFFICES ASSUME AuthInv, [AuthNext]_authVars PROVE AuthInv'
  OBVIOUS
<1>1. ASSUME Tick PROVE AuthInv'
  BY <1>1 DEF Tick, AuthInv, AuthTypeOK, NoncesAreFresh, TokensAreEarned
<1>2. ASSUME Restart PROVE AuthInv'
  <2>1. AuthTypeOK'
    BY <1>2 DEF Restart, AuthInv, AuthTypeOK
  <2>2. NoncesAreFresh' /\ TokensAreEarned'
    BY <1>2 DEF Restart, AuthInv, NoncesAreFresh, TokensAreEarned
  <2> QED
    BY <2>1, <2>2 DEF AuthInv
<1>3. ASSUME SignIn PROVE AuthInv'
  BY <1>3, ChallengeStep, VerifyStep DEF SignIn
<1>4. CASE UNCHANGED authVars
  BY <1>4 DEF authVars, AuthInv, AuthTypeOK, NoncesAreFresh, TokensAreEarned
<1> QED
  BY <1>1, <1>2, <1>3, <1>4 DEF AuthNext

-----------------------------------------------------------------------------
(* The store and the tokens are well typed in every reachable state.       *)
THEOREM AuthTypeCorrect == AuthSpec => []AuthTypeOK
<1>1. AuthInv => AuthTypeOK
  BY DEF AuthInv
<1> QED
  BY AuthInitial, AuthStep, <1>1, PTL DEF AuthSpec

(* A token answers a challenge made to its own key by the process that     *)
(* signed it, in time, and no challenge yields two tokens, whatever is     *)
(* sent again.                                                             *)
THEOREM TokensEarned == AuthSpec => []TokensAreEarned
<1>1. AuthInv => TokensAreEarned
  BY DEF AuthInv
<1> QED
  BY AuthInitial, AuthStep, <1>1, PTL DEF AuthSpec
=============================================================================
