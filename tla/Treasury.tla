------------------------------ MODULE Treasury ------------------------------
(***************************************************************************)
(* The treasury contract: a tracked balance per asset, kept beside the     *)
(* token balance the treasury really has, and the list of the assets with  *)
(* a tracked balance.  Tokens reach the treasury as plain transfers that   *)
(* it does not see; its admin books them afterwards.                       *)
(*                                                                         *)
(* The token balances themselves are one ledger for the treasury, the      *)
(* aTokens and the users, moved by the modules that extend this one too.   *)
(* All operations are the admin's and are modelled once initialised; the   *)
(* handover of the admin is module Governance's.                           *)
(***************************************************************************)
EXTENDS Integers

CONSTANTS
  Assets,    \* tokens
  Users,     \* accounts that transfer tokens
  AToken,    \* the account holding the liquidity lent out, one per asset
  Treasury,  \* the treasury's account
  Amounts    \* bound: amounts the environment chooses

Accounts == Users \union {AToken, Treasury}

ASSUME AccountsAssumption ==
  /\ AToken \notin Users /\ Treasury \notin Users /\ AToken # Treasury
  /\ Amounts \subseteq Nat

VARIABLES
  cash,       \* token balances: account -> asset -> amount
  tracked,    \* Balance(asset); a missing entry reads as 0
  asset_list  \* the entries of AssetList

treasury_vars == <<tracked, asset_list>>

TreasuryTypeOK ==
  /\ cash \in [Accounts -> [Assets -> Nat]]
  /\ tracked \in [Assets -> Nat]
  /\ asset_list \subseteq Assets

-----------------------------------------------------------------------------
transfer(from, to, a, n) ==
  /\ n <= cash[from][a]
  /\ LET taken == [cash EXCEPT ![from][a] = @ - n]
     IN  cash' = [taken EXCEPT ![to][a] = @ + n]

remove_from_asset_list(a) == asset_list \ {a}

(* Adding looks for the asset first, so the list has no duplicates.        *)
add_to_asset_list(a) == asset_list \union {a}

set_balance(a, n) ==
  /\ tracked' = [tracked EXCEPT ![a] = n]
  /\ asset_list' = IF n = 0 THEN remove_from_asset_list(a)
                            ELSE add_to_asset_list(a)

(* Mutation: a deposit measured against the real balance alone. *)
covers_amount(a, n) == cash[Treasury][a] >= n

(* The real balance supports what is already tracked and the new amount. *)
covers_deposit(a, n) == cash[Treasury][a] >= tracked[a] + n

deposit(a, n) ==
  /\ n > 0
  /\ covers_deposit(a, n)
  /\ set_balance(a, tracked[a] + n)
  /\ UNCHANGED cash

sync_balance(a) ==
  /\ set_balance(a, cash[Treasury][a])
  /\ UNCHANGED cash

withdraw(a, n, to) ==
  /\ 0 < n /\ n <= tracked[a]
  /\ set_balance(a, tracked[a] - n)
  /\ transfer(Treasury, to, a, n)

TreasuryStep ==
  \E a \in Assets :
    \/ sync_balance(a)
    \/ \E n \in Amounts : deposit(a, n)
    \/ \E n \in Amounts, to \in Accounts : withdraw(a, n, to)

-----------------------------------------------------------------------------
(***************************************************************************)
(* What the treasury has on its books it really has, so a withdrawal of a  *)
(* tracked balance never fails at the token; and the list of assets names  *)
(* exactly those with a tracked balance, so get_all_balances forgets none  *)
(* (treasury contract.rs:58-198, storage.rs:55-89).                        *)
(***************************************************************************)
TrackedIsBacked ==
  /\ \A a \in Assets : tracked[a] <= cash[Treasury][a]
  /\ asset_list = {a \in Assets : tracked[a] > 0}

=============================================================================
