---------------------------- MODULE LoyaltyToken ----------------------------
(***************************************************************************)
(* The LYT token contract (contracts/token): balances, allowances, total   *)
(* supply, the designated minter, and the multi-signature rotation of the  *)
(* administrators.                                                         *)
(*                                                                         *)
(* A contract call either completes or panics and leaves no trace, so one  *)
(* call is one action and every assert! is a guard.  An i128 lies in       *)
(* -MaxAmount-1..MaxAmount; checked arithmetic panics outside that range.  *)
(* Arguments are drawn from the finite sets of the CONSTANTS.              *)
(***************************************************************************)
EXTENDS Storage, Integers, Sequences, FiniteSetsExt

CONSTANTS
    MaxAmount,      \* i128::MAX
    Amounts,        \* amounts passed by callers
    Spenders,       \* accounts that owners approve
    MaxSelfSent,    \* bound on the amount accounts transfer to themselves
    SignerLists,    \* lists of signers passed to propose_set_admin
    Thresholds,     \* thresholds passed to propose_set_admin
    InitConfig,     \* configuration given to initialize
    InitMinter      \* minter given to initialize (the rewards contract)

Config == [signers: Seq(Address), threshold: Nat]

(* Faulty: the length of the list is not checked.                          *)
ValidConfigOfAnyLength(c) == c.threshold > 0

(* Thresholds are positive, and no longer list of signers is required.     *)
ValidConfig(c) == c.threshold > 0 /\ Len(c.signers) >= c.threshold

(* An address is a key of fixed length, so there are finitely many.        *)
ASSUME TokenConstants ==
    /\ IsFiniteSet(Address)
    /\ MaxAmount \in Nat
    /\ Amounts \subseteq Nat
    /\ Spenders \subseteq Address
    /\ MaxSelfSent \in Nat
    /\ SignerLists \subseteq Seq(Address)
    /\ Thresholds \subseteq Nat
    /\ InitConfig \in Config
    /\ InitMinter \in Address

VARIABLES
    balance,        \* DataKey::Balance
    supply,         \* DataKey::TotalSupply
    allowance,      \* DataKey::Allowance, by <<owner, spender>>
    config,         \* DataKey::MultiSig
    minter,         \* DataKey::Minter
    proposal,       \* DataKey::SetAdminProposal: {} when the key is absent
    tokenPaused,    \* DataKey::Paused
    \* History variables, read by the properties only.
    selfSent,       \* sum of the transfers an account made to itself
    approved,       \* amount last approved, by <<owner, spender>>
    drawn           \* amount drawn since then, by <<owner, spender>>

adminVars == <<config, minter, proposal>>
historyVars == <<selfSent, approved, drawn>>
tokenVars == <<balance, supply, allowance, adminVars, tokenPaused, historyVars>>

SetAdminProposal ==
    [newConfig: Config, newMinter: Address, signatures: Seq(Address)]

TokenInit ==
    /\ ValidConfig(InitConfig)
    /\ balance = [a \in Address |-> 0]
    /\ supply = 0
    /\ allowance = [p \in Address \X Address |-> 0]
    /\ config = InitConfig
    /\ minter = InitMinter
    /\ proposal = {}
    /\ tokenPaused = FALSE
    /\ selfSent = 0
    /\ approved = [p \in Address \X Address |-> 0]
    /\ drawn = [p \in Address \X Address |-> 0]

-----------------------------------------------------------------------------
(* Ledger helpers, also used by the rewards contract's model.              *)

InRange(x) == -MaxAmount - 1 <= x /\ x <= MaxAmount

Credit(b, to, amount) == [b EXCEPT ![to] = @ + amount]

(* transfer reads both balances before it writes either, and writes the    *)
(* recipient last.                                                         *)
Moved(b, from, to, amount) ==
    [b EXCEPT ![from] = b[from] - amount, ![to] = b[to] + amount]

(* Faulty: the sender's balance is not checked.                            *)
CanMoveOverdrawn(from, to, amount) ==
    amount > 0 /\ InRange(balance[to] + amount)

CanMove(from, to, amount) ==
    /\ amount > 0
    /\ balance[from] >= amount
    /\ InRange(balance[to] + amount)

MoveTokens(from, to, amount) ==
    /\ balance' = Moved(balance, from, to, amount)
    /\ selfSent' = IF from = to THEN selfSent + amount ELSE selfSent
    /\ selfSent' <= MaxSelfSent

-----------------------------------------------------------------------------
(* Ledger operations.                                                      *)

(* Faulty: the supply is not updated.                                      *)
MintUncounted(to, amount) ==
    /\ amount > 0
    /\ InRange(balance[to] + amount)
    /\ balance' = Credit(balance, to, amount)
    /\ UNCHANGED <<supply, allowance, adminVars, tokenPaused, historyVars>>

Mint(to, amount) ==
    /\ amount > 0
    /\ InRange(balance[to] + amount)
    /\ InRange(supply + amount)
    /\ balance' = Credit(balance, to, amount)
    /\ supply' = supply + amount
    /\ UNCHANGED <<allowance, adminVars, tokenPaused, historyVars>>

Burn(from, amount) ==
    /\ ~tokenPaused
    /\ amount > 0
    /\ balance[from] >= amount
    /\ InRange(supply - amount)
    /\ balance' = [balance EXCEPT ![from] = @ - amount]
    /\ supply' = supply - amount
    /\ UNCHANGED <<allowance, adminVars, tokenPaused, historyVars>>

Transfer(from, to, amount) ==
    /\ ~tokenPaused
    /\ CanMove(from, to, amount)
    /\ MoveTokens(from, to, amount)
    /\ UNCHANGED <<supply, allowance, adminVars, tokenPaused, approved, drawn>>

Approve(owner, spender, amount) ==
    /\ ~tokenPaused
    /\ amount >= 0
    /\ allowance' = [allowance EXCEPT ![<<owner, spender>>] = amount]
    /\ approved' = [approved EXCEPT ![<<owner, spender>>] = amount]
    /\ drawn' = [drawn EXCEPT ![<<owner, spender>>] = 0]
    /\ UNCHANGED <<balance, supply, adminVars, tokenPaused, selfSent>>

(* Faulty: the allowance is not spent.                                     *)
TransferFromUnspent(spender, from, to, amount) ==
    /\ ~tokenPaused
    /\ allowance[<<from, spender>>] >= amount
    /\ CanMove(from, to, amount)
    /\ MoveTokens(from, to, amount)
    /\ drawn' = [drawn EXCEPT ![<<from, spender>>] = @ + amount]
    /\ UNCHANGED <<supply, allowance, adminVars, tokenPaused, approved>>

TransferFrom(spender, from, to, amount) ==
    /\ ~tokenPaused
    /\ allowance[<<from, spender>>] >= amount
    /\ CanMove(from, to, amount)
    /\ allowance' = [allowance EXCEPT ![<<from, spender>>] = @ - amount]
    /\ MoveTokens(from, to, amount)
    /\ drawn' = [drawn EXCEPT ![<<from, spender>>] = @ + amount]
    /\ UNCHANGED <<supply, adminVars, tokenPaused, approved>>

(* The pause switch is called by the tests and the runbook only: the       *)
(* contract has no function that sets it.                                  *)
EmergencyPause ==
    /\ tokenPaused' = TRUE
    /\ UNCHANGED <<balance, supply, allowance, adminVars, historyVars>>

EmergencyUnpause ==
    /\ tokenPaused' = FALSE
    /\ UNCHANGED <<balance, supply, allowance, adminVars, historyVars>>

-----------------------------------------------------------------------------
(* Rotation of the signers and of the minter.                              *)

ledgerVars == <<balance, supply, allowance, tokenPaused, historyVars>>

IsSigner(a) == \E i \in DOMAIN config.signers : config.signers[i] = a

HasSigned(signatures, a) == \E i \in DOMAIN signatures : signatures[i] = a

ProposeSetAdmin(signer, newConfig, newMinter) ==
    /\ IsSigner(signer)
    /\ ValidConfig(newConfig)
    /\ proposal = {}
    /\ proposal' = {[newConfig |-> newConfig, newMinter |-> newMinter,
                     signatures |-> <<signer>>]}
    /\ UNCHANGED <<ledgerVars, config, minter>>

ApproveSetAdmin(signer) ==
    /\ IsSigner(signer)
    /\ \E p \in proposal :
         /\ ~HasSigned(p.signatures, signer)
         /\ proposal' =
              {[p EXCEPT !.signatures = Append(p.signatures, signer)]}
    /\ UNCHANGED <<ledgerVars, config, minter>>

(* Faulty: counts the executor as one more signature.                      *)
ExecuteSetAdminOneShort(signer) ==
    /\ IsSigner(signer)
    /\ \E p \in proposal :
         /\ Len(p.signatures) + 1 >= config.threshold
         /\ config' = p.newConfig
         /\ minter' = p.newMinter
    /\ proposal' = {}
    /\ UNCHANGED ledgerVars

ExecuteSetAdmin(signer) ==
    /\ IsSigner(signer)
    /\ \E p \in proposal :
         /\ Len(p.signatures) >= config.threshold
         /\ config' = p.newConfig
         /\ minter' = p.newMinter
    /\ proposal' = {}
    /\ UNCHANGED ledgerVars

-----------------------------------------------------------------------------
(* Calls made by account holders: everything but mint, whose caller is the *)
(* minter (the rewards contract, or an account after a rotation).          *)
HolderNext ==
    \/ \E a \in Address, x \in Amounts : Burn(a, x)
    \/ \E a, b \in Address, x \in Amounts : Transfer(a, b, x)
    \/ \E a \in Address, s \in Spenders, x \in Amounts : Approve(a, s, x)
    \/ \E s \in Spenders, a, b \in Address, x \in Amounts :
          TransferFrom(s, a, b, x)

RotationNext ==
    \/ \E s, m \in Address, l \in SignerLists, t \in Thresholds :
          ProposeSetAdmin(s, [signers |-> l, threshold |-> t], m)
    \/ \E s \in Address : ApproveSetAdmin(s)
    \/ \E s \in Address : ExecuteSetAdmin(s)

PauseNext == EmergencyPause \/ EmergencyUnpause

TokenNext ==
    \/ \E a \in Address, x \in Amounts : Mint(a, x)
    \/ HolderNext
    \/ RotationNext
    \/ PauseNext

TokenSpec == TokenInit /\ [][TokenNext]_tokenVars

-----------------------------------------------------------------------------
(* Properties.                                                             *)

(* Every storage entry has the type the contract reads it back with.       *)
TokenTypeOK ==
    /\ balance \in [Address -> Nat]
    /\ supply \in Int
    /\ allowance \in [Address \X Address -> Nat]
    /\ config \in Config
    /\ minter \in Address
    /\ proposal \subseteq SetAdminProposal
    /\ tokenPaused \in BOOLEAN
    /\ selfSent \in Nat
    /\ approved \in [Address \X Address -> Nat]
    /\ drawn \in [Address \X Address -> Nat]

SumOver(f, S) == MapThenSumSet(LAMBDA p : f[p], S)

TotalBalance == SumOver(balance, Address)

(* mint, burn, transfer and transfer_from keep the sum of the balances     *)
(* equal to the total supply, except that a transfer of an account to      *)
(* itself creates the amount it sends: its two writes go to the same key.  *)
LedgerBalanced == TotalBalance = supply + selfSent

(* What the property tests state of the same ledger                        *)
(* (fuzz_tests.rs: "after any sequence of ops, the sum of the balances     *)
(* equals total_supply").                                                  *)
GlobalLedger == TotalBalance = supply

(* Since its last approval, a spender has never drawn more through         *)
(* transfer_from than the owner approved.                                  *)
DrawnWithinApproval ==
    \A p \in Address \X Address : drawn[p] <= approved[p]

Distinct(s) == \A i, j \in DOMAIN s : s[i] = s[j] => i = j

(* A list of different signers of the configuration in force.              *)
Endorses(s) == Distinct(s) /\ \A i \in DOMAIN s : IsSigner(s[i])

(* At most one rotation is pending, and its signatures are those of        *)
(* different signers of the configuration in force: what                   *)
(* execute_set_admin counts with signatures.len().                         *)
SignaturesAreGenuine ==
    /\ \A p, q \in proposal : p = q
    /\ \A p \in proposal : Endorses(p.signatures)

(* The signers and the minter are only replaced by a proposal that at      *)
(* least threshold different signers of the outgoing configuration signed. *)
RotationNeedsThreshold ==
    [][\E p \in proposal :
         /\ Endorses(p.signatures)
         /\ Len(p.signatures) >= config.threshold
         /\ config' = p.newConfig
         /\ minter' = p.newMinter]_<<config, minter>>

(* The configuration in force has enough different signers to reach its    *)
(* threshold, as initialize and propose_set_admin assert ("insufficient    *)
(* signers for threshold"), provided its list repeats none: the assertion  *)
(* counts the entries of the list, not the signers.                        *)
ThresholdReachable ==
    Distinct(config.signers) =>
        \E s \in SUBSET {config.signers[i] : i \in DOMAIN config.signers} :
            Cardinality(s) = config.threshold
=============================================================================
