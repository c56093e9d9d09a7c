---------------------------- MODULE Entitlements ----------------------------
(***************************************************************************)
(* What the rewards contract promises, whatever the order of the claims,   *)
(* vesting payments, pauses, admin calls and migrations: a pair of a user  *)
(* and a campaign is granted one amount, once; the amount never changes    *)
(* afterwards; and the payments made for it never add up to more.  A pair  *)
(* that claimed under the v1 code has been granted nothing more.           *)
(***************************************************************************)
EXTENDS Integers

CONSTANT Settled    \* pairs that have nothing to come from the start

VARIABLES
    granted,        \* amount granted, by pair
    paidOut         \* amount paid so far, by pair

entitlementVars == <<granted, paidOut>>

EntitlementsInit ==
    /\ granted = [p \in Settled |-> 0]
    /\ paidOut = [p \in Settled |-> 0]

(* A new pair is granted an amount and receives at most that amount.       *)
Grant ==
    \E p \in DOMAIN granted' \ DOMAIN granted :
        /\ DOMAIN granted' = DOMAIN granted \cup {p}
        /\ DOMAIN paidOut' = DOMAIN granted'
        /\ \A q \in DOMAIN granted :
              granted'[q] = granted[q] /\ paidOut'[q] = paidOut[q]
        /\ 0 <= paidOut'[p] /\ paidOut'[p] <= granted'[p]

(* One pair is paid some of what it still has to come.                     *)
Pay ==
    \E p \in DOMAIN granted :
        /\ granted' = granted
        /\ DOMAIN paidOut' = DOMAIN paidOut
        /\ \A q \in DOMAIN paidOut \ {p} : paidOut'[q] = paidOut[q]
        /\ paidOut[p] < paidOut'[p] /\ paidOut'[p] <= granted[p]

EntitlementsNext == Grant \/ Pay

EntitlementsSpec == EntitlementsInit /\ [][EntitlementsNext]_entitlementVars
=============================================================================
