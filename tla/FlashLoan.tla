----------------------------- MODULE FlashLoan -----------------------------
(***************************************************************************)
(* Flash loans of the kinetic-router (flash_loan.rs) over the ledger the   *)
(* treasury shares.  A loan of several assets, the same one more than      *)
(* once if the caller likes, runs inside one transaction: every debt is    *)
(* measured, all amounts are paid out, the receiver's callback runs        *)
(* arbitrary calls, and then each debt in turn is verified and its premium *)
(* sent to the treasury.  Any failure reverts the transaction.             *)
(*                                                                         *)
(* The steps of a transaction are separate actions; nobody else's are      *)
(* interleaved with them.  While the router is on the call stack the       *)
(* platform refuses to call it again, so a callback may move tokens and    *)
(* call the treasury, and no pool operation.  A revert restores the ledger *)
(* of the time before the loan.                                            *)
(***************************************************************************)
EXTENDS Treasury, Sequences

CONSTANTS
  BASIS_POINTS_MULTIPLIER,
  Premiums,   \* bound: premiums, in basis points, the pool admin sets
  Requests,   \* bound: loans asked for, sequences of [asset, amount]
  InitialCash, \* the balances the instance starts with
  NoLoan

ASSUME FlashLoanAssumption ==
  /\ BASIS_POINTS_MULTIPLIER \in Nat \ {0}
  /\ Premiums \subseteq Nat
  /\ Requests \subseteq Seq([asset : Assets, amount : Nat])
  /\ InitialCash \in [Accounts -> [Assets -> Nat]]

VARIABLES
  flash_loan_premium,
  lendable,  \* reserves active, not paused and with flash loans enabled
  loan       \* the flash loan under way, or NoLoan

vars == <<cash, tracked, asset_list, flash_loan_premium, lendable, loan>>

FlashLoanDebt ==
  [asset : Assets, amount : Nat, premium : Nat, initial_balance : Nat]

Ledger ==
  [cash : [Accounts -> [Assets -> Nat]], tracked : [Assets -> Nat],
   asset_list : SUBSET Assets]

(* before: the ledger a revert restores.  next: the debt the loop is at. *)
Loans ==
  [stage : {"paying", "callback", "settling"}, next : Nat,
   receiver : Users, debts : Seq(FlashLoanDebt), before : Ledger]

ASSUME NoLoanAssumption == NoLoan \notin Loans

Idle == loan = NoLoan

TypeOK ==
  /\ TreasuryTypeOK
  /\ flash_loan_premium \in Nat
  /\ lendable \subseteq Assets
  /\ ~Idle => /\ loan \in Loans
              /\ loan.next \in 1 .. Len(loan.debts) + 1

percent_mul_up(value, percentage) ==
  (value * percentage + BASIS_POINTS_MULTIPLIER - 1)
    \div BASIS_POINTS_MULTIPLIER

-----------------------------------------------------------------------------
(* One debt per requested entry, each measured before any payout. *)
debt_of(r) ==
  [asset           |-> r.asset,
   amount          |-> r.amount,
   premium         |-> percent_mul_up(r.amount, flash_loan_premium),
   initial_balance |-> cash[AToken][r.asset]]

StartFlashLoan(request, u) ==
  /\ Idle
  /\ Len(request) > 0
  /\ \A i \in DOMAIN request :
       /\ request[i].amount > 0
       /\ request[i].asset \in lendable
       /\ cash[AToken][request[i].asset] >= request[i].amount
  /\ loan' = [stage |-> "paying", next |-> 1, receiver |-> u,
              debts |-> [i \in DOMAIN request |-> debt_of(request[i])],
              before |-> [cash |-> cash, tracked |-> tracked,
                          asset_list |-> asset_list]]
  /\ UNCHANGED <<cash, treasury_vars, flash_loan_premium, lendable>>

Running(stage) == ~Idle /\ loan.stage = stage

current == loan.debts[loan.next]

more_debts == loan.next <= Len(loan.debts)

PayOut ==
  /\ Running("paying") /\ more_debts
  /\ transfer(AToken, loan.receiver, current.asset, current.amount)
  /\ loan' = [loan EXCEPT !.next = @ + 1]
  /\ UNCHANGED <<treasury_vars, flash_loan_premium, lendable>>

InvokeReceiver ==
  /\ Running("paying") /\ ~more_debts
  /\ loan' = [loan EXCEPT !.stage = "callback"]
  /\ UNCHANGED <<cash, treasury_vars, flash_loan_premium, lendable>>

(* The callback has returned true. *)
ReceiverReturns ==
  /\ Running("callback")
  /\ loan' = [loan EXCEPT !.stage = "settling", !.next = 1]
  /\ UNCHANGED <<cash, treasury_vars, flash_loan_premium, lendable>>

(* Mutation: the principal alone is asked back. *)
principal_is_back == cash[AToken][current.asset] >= current.initial_balance

verify_repayment ==
  cash[AToken][current.asset] >= current.initial_balance + current.premium

(* verify_repayment and transfer_premium_to_treasury for one debt. *)
Settle ==
  /\ Running("settling") /\ more_debts
  /\ verify_repayment
  /\ transfer(AToken, Treasury, current.asset, current.premium)
  /\ loan' = [loan EXCEPT !.next = @ + 1]
  /\ UNCHANGED <<treasury_vars, flash_loan_premium, lendable>>

CompleteFlashLoan ==
  /\ Running("settling") /\ ~more_debts
  /\ loan' = NoLoan
  /\ UNCHANGED <<cash, treasury_vars, flash_loan_premium, lendable>>

payout_fails ==
  /\ loan.stage = "paying" /\ more_debts
  /\ cash[AToken][current.asset] < current.amount

repayment_fails == loan.stage = "settling" /\ more_debts /\ ~verify_repayment

(* A reverted transaction leaves no trace. *)
NoTrace ==
  /\ cash' = loan.before.cash
  /\ tracked' = loan.before.tracked
  /\ asset_list' = loan.before.asset_list
  /\ loan' = NoLoan
  /\ UNCHANGED <<flash_loan_premium, lendable>>

(* A payout beyond the balance, a callback that fails or returns false, or *)
(* a debt not repaid.                                                      *)
Revert ==
  /\ ~Idle
  /\ loan.stage = "callback" \/ payout_fails \/ repayment_fails
  /\ NoTrace

-----------------------------------------------------------------------------
(* What may run by itself and inside a callback: token transfers of the    *)
(* users and the treasury's operations.                                    *)
Interleavable == Idle \/ Running("callback")

Transfer(u, to, a, n) ==
  /\ Interleavable
  /\ n > 0
  /\ transfer(u, to, a, n)
  /\ UNCHANGED <<treasury_vars, flash_loan_premium, lendable, loan>>

TreasuryOperation ==
  /\ Interleavable
  /\ TreasuryStep
  /\ UNCHANGED <<flash_loan_premium, lendable, loan>>

(* Borrowing and withdrawing; what comes in is a Transfer. *)
PayUser(u, a, n) ==
  /\ Idle
  /\ n > 0
  /\ transfer(AToken, u, a, n)
  /\ UNCHANGED <<treasury_vars, flash_loan_premium, lendable, loan>>

(* Module LendingPool says how much is collectible. *)
collect_protocol_reserves(a, n) ==
  /\ Idle
  /\ n > 0
  /\ transfer(AToken, Treasury, a, n)
  /\ UNCHANGED <<treasury_vars, flash_loan_premium, lendable, loan>>

set_flash_loan_premium(p) ==
  /\ Idle
  /\ flash_loan_premium' = p
  /\ UNCHANGED <<cash, treasury_vars, lendable, loan>>

(* The configurator pauses, closes or reopens a reserve to flash loans. *)
SetLendable(a) ==
  /\ Idle
  /\ lendable' = IF a \in lendable THEN lendable \ {a}
                                   ELSE lendable \union {a}
  /\ UNCHANGED <<cash, treasury_vars, flash_loan_premium, loan>>

Init ==
  /\ cash = InitialCash
  /\ tracked = [a \in Assets |-> 0]
  /\ asset_list = {}
  /\ flash_loan_premium \in Premiums
  /\ lendable = Assets
  /\ loan = NoLoan

Next ==
  \/ \E request \in Requests, u \in Users : StartFlashLoan(request, u)
  \/ PayOut
  \/ InvokeReceiver
  \/ ReceiverReturns
  \/ Settle
  \/ CompleteFlashLoan
  \/ Revert
  \/ TreasuryOperation
  \/ \E u \in Users, a \in Assets, n \in Amounts :
       \/ \E to \in Accounts \ {u} : Transfer(u, to, a, n)
       \/ PayUser(u, a, n)
  \/ \E a \in Assets, n \in Amounts : collect_protocol_reserves(a, n)
  \/ \E p \in Premiums : set_flash_loan_premium(p)
  \/ \E a \in Assets : SetLendable(a)

Spec == Init /\ [][Next]_vars

-----------------------------------------------------------------------------
(* However a loan names its assets and whatever the callback does, the     *)
(* aToken of no asset has less when the transaction ends than when it      *)
(* began: premiums come out of repayments, never out of the depositors'    *)
(* cash (flash_loan.rs:45-170).                                            *)
PoolIsRepaid ==
  [][ ~Idle /\ loan' = NoLoan =>
        \A a \in Assets : cash'[AToken][a] >= loan.before.cash[AToken][a] ]_vars

=============================================================================
