------------------------------ MODULE Storage ------------------------------
(***************************************************************************)
(* What the contracts share: the addresses of accounts and contracts, and  *)
(* the write of one storage entry.                                         *)
(***************************************************************************)

CONSTANT Address        \* accounts and contracts

(* env.storage().set: the entry may be new or overwrite an older one.      *)
Put(f, key, value) ==
    [k \in DOMAIN f \cup {key} |-> IF k = key THEN value ELSE f[k]]
=============================================================================
