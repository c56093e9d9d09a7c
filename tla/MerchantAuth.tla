---------------------------- MODULE MerchantAuth ----------------------------
(***************************************************************************)
(* Challenge-response sign-in of merchants (backend/src/auth.ts).          *)
(*                                                                         *)
(* The handlers are synchronous, so each is one action.  A nonce is the    *)
(* position of its challenge in the sequence of all challenges: nonces are *)
(* random and never repeat.  A client can sign every nonce it was given,   *)
(* late ones and used ones included, and send the signature again.         *)
(* Rejected calls change nothing and are left out.                         *)
(***************************************************************************)
EXTENDS Naturals, Sequences, FiniteSets

CONSTANTS
    Merchants,      \* public keys
    NONCE_TTL,      \* five minutes
    JWT_EXPIRY,     \* an hour
    SeedSessions,   \* merchants that signed in before time 0
    MaxTime,        \* bound on the clock
    MaxChallenges,  \* bound on the challenges
    MaxRestarts     \* bound on the restarts of the process

ASSUME AuthConstants ==
    /\ NONCE_TTL \in Nat /\ JWT_EXPIRY \in Nat
    /\ SeedSessions \in Seq(Merchants)
    /\ MaxTime \in Nat /\ MaxChallenges \in Nat /\ MaxRestarts \in Nat

VARIABLES
    clock,
    secretInEnv,    \* JWT_SECRET is set: it outlives the process
    life,           \* restarts so far
    nonceStore,     \* by key: {} or the entry of its last challenge
    tokens,         \* JWTs given out: subject, expiry and the life whose
                    \* secret signed them
    \* History variables, read by the properties only.
    challenges      \* key, time and life of every challenge

authVars == <<clock, secretInEnv, life, nonceStore, tokens, challenges>>

NonceEntry == [nonce : Nat, expiresAt : Nat]

(* nonce is not part of a JWT: the properties read it.                     *)
Token == [sub : Merchants, exp : Nat, life : Nat, nonce : Nat]

AuthInit ==
    /\ clock = 0
    /\ secretInEnv \in BOOLEAN
    /\ life = 0
    /\ nonceStore = [k \in Merchants |-> {}]
    /\ tokens = {[sub |-> SeedSessions[n], exp |-> JWT_EXPIRY, life |-> 0,
                  nonce |-> n] : n \in DOMAIN SeedSessions}
    /\ challenges = [n \in DOMAIN SeedSessions |->
                        [key |-> SeedSessions[n], at |-> 0, life |-> 0]]

Tick ==
    /\ clock < MaxTime
    /\ clock' = clock + 1
    /\ UNCHANGED <<secretInEnv, life, nonceStore, tokens, challenges>>

(* pruneExpiredNonces.                                                     *)
Unexpired(entries) == {e \in entries : e.expiresAt >= clock}

ChallengeHandler(k) ==
    /\ Len(challenges) < MaxChallenges
    /\ challenges' =
         Append(challenges, [key |-> k, at |-> clock, life |-> life])
    /\ nonceStore' =
         [j \in Merchants |->
            IF j = k THEN {[nonce |-> Len(challenges'),
                            expiresAt |-> clock + NONCE_TTL]}
            ELSE Unexpired(nonceStore[j])]
    /\ UNCHANGED <<clock, secretInEnv, life, tokens>>

SignJwt(k, n) ==
    tokens' = tokens \cup {[sub |-> k, exp |-> clock + JWT_EXPIRY,
                            life |-> life, nonce |-> n]}

(* Faulty: the nonce is not consumed.                                      *)
VerifyHandlerKeeps(k, n) ==
    /\ \E e \in nonceStore[k] : e.expiresAt >= clock /\ e.nonce = n
    /\ SignJwt(k, n)
    /\ UNCHANGED <<nonceStore, clock, secretInEnv, life, challenges>>

(* The signature of k over nonce n is the one over the stored nonce.       *)
VerifyHandler(k, n) ==
    /\ \E e \in nonceStore[k] : e.expiresAt >= clock /\ e.nonce = n
    /\ nonceStore' = [nonceStore EXCEPT ![k] = {}]
    /\ SignJwt(k, n)
    /\ UNCHANGED <<clock, secretInEnv, life, challenges>>

(* verifyJwt: the secret that signed t is the one in use.                  *)
Accepted(t) == (secretInEnv \/ t.life = life) /\ t.exp >= clock

(* The process starts again: the nonces are gone and, unless the           *)
(* environment sets it, the secret is another one.                         *)
Restart ==
    /\ life < MaxRestarts
    /\ life' = life + 1
    /\ nonceStore' = [k \in Merchants |-> {}]
    /\ UNCHANGED <<clock, secretInEnv, tokens, challenges>>

SignIn ==
    \/ \E k \in Merchants : ChallengeHandler(k)
    \/ \E k \in Merchants, n \in DOMAIN challenges : VerifyHandler(k, n)

AuthNext == Tick \/ SignIn \/ Restart

AuthSpec == AuthInit /\ [][AuthNext]_authVars

-----------------------------------------------------------------------------
(* Properties.                                                             *)

(* The nonces and tokens in store are of challenges that were made.        *)
AuthTypeOK ==
    /\ clock \in Nat /\ life \in Nat /\ secretInEnv \in BOOLEAN
    /\ challenges \in Seq([key : Merchants, at : Nat, life : Nat])
    /\ nonceStore \in [Merchants -> SUBSET NonceEntry]
    /\ \A k \in Merchants : \A e \in nonceStore[k] :
         e.nonce \in DOMAIN challenges
    /\ tokens \subseteq Token
    /\ \A t \in tokens : t.nonce \in DOMAIN challenges

(* A token that requireAuth accepts answers a challenge made to the same   *)
(* key no more than NONCE_TTL before the token was signed, by the same     *)
(* process; and no challenge yields two tokens, however often its          *)
(* signature is sent, across new challenges, expiry and restarts.          *)
TokensAreEarned ==
    /\ \A t \in tokens :
         LET c == challenges[t.nonce] IN
         /\ c.key = t.sub
         /\ c.life = t.life
         /\ t.exp <= c.at + NONCE_TTL + JWT_EXPIRY
    /\ \A t, u \in tokens : t.nonce = u.nonce => t = u
=============================================================================
