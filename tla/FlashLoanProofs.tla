-------------------------- MODULE FlashLoanProofs --------------------------
(***************************************************************************)
(* Theorems about flash loans and the treasury's books, for any assets,    *)
(* accounts, premiums and loans, however many entries a loan has.          *)
(***************************************************************************)
EXTENDS FlashLoan, TLAPS

(* A transfer takes from one balance what it adds to another.              *)
LEMMA TransferMoves ==
  ASSUME cash \in [Accounts -> [Assets -> Nat]],
         NEW from \in Accounts, NEW to \in Accounts,
         NEW a \in Assets, NEW n \in Nat,
         transfer(from, to, a, n)
  PROVE  /\ cash' \in [Accounts -> [Assets -> Nat]]
         /\ \A q \in Accounts, b \in Assets :
              /\ q # from => cash'[q][b] >= cash[q][b]
              /\ b # a => cash'[q][b] = cash[q][b]
              /\ q # from /\ q # to => cash'[q][b] = cash[q][b]
              /\ cash'[q][b] >= cash[q][b] - n
         /\ from = to => cash'[from][a] = cash[from][a]
         /\ from # to => cash'[from][a] = cash[from][a] - n
  <1>1. n <= cash[from][a]
    BY DEF transfer
  <1> DEFINE taken == [cash EXCEPT ![from][a] = @ - n]
  <1>2. /\ taken \in [Accounts -> [Assets -> Nat]]
        /\ \A q \in Accounts, b \in Assets :
             taken[q][b] = IF q = from /\ b = a THEN cash[q][b] - n
                                               ELSE cash[q][b]
    <2>1. cash[from] \in [Assets -> Nat] /\ cash[from][a] - n \in Nat
      BY <1>1
    <2>2. taken = [cash EXCEPT ![from] = [cash[from] EXCEPT ![a] = @ - n]]
      OBVIOUS
    <2> QED
      BY <2>1, <2>2
  <1>3. cash' = [taken EXCEPT ![to][a] = @ + n]
    BY DEF transfer
  <1> HIDE DEF taken
  <1>4. /\ cash' \in [Accounts -> [Assets -> Nat]]
        /\ \A q \in Accounts, b \in Assets :
             cash'[q][b] = IF q = to /\ b = a THEN taken[q][b] + n
                                             ELSE taken[q][b]
    BY <1>2, <1>3
  <1> QED
    BY <1>1, <1>2, <1>4

(* The treasury's own operations: the types hold, the books stay backed,   *)
(* and nothing leaves the aTokens.                                         *)
LEMMA TreasuryStepKeeps ==
  ASSUME TreasuryTypeOK, TreasuryStep
  PROVE  /\ TreasuryTypeOK'
         /\ TrackedIsBacked => TrackedIsBacked'
         /\ \A a \in Assets : cash'[AToken][a] >= cash[AToken][a]
  <1> USE DEF TreasuryTypeOK
  <1>1. PICK a \in Assets :
          \/ sync_balance(a)
          \/ \E n \in Amounts : deposit(a, n)
          \/ \E n \in Amounts, to \in Accounts : withdraw(a, n, to)
    BY DEF TreasuryStep
  <1>2. Treasury \in Accounts /\ AToken \in Accounts /\ AToken # Treasury
    BY AccountsAssumption DEF Accounts
  <1>3. ASSUME NEW n \in Nat, set_balance(a, n)
        PROVE  /\ tracked' \in [Assets -> Nat]
               /\ tracked'[a] = n
               /\ \A b \in Assets \ {a} : tracked'[b] = tracked[b]
               /\ asset_list' \subseteq Assets
               /\ asset_list = {b \in Assets : tracked[b] > 0}
                    => asset_list' = {b \in Assets : tracked'[b] > 0}
    BY <1>3 DEF set_balance, remove_from_asset_list, add_to_asset_list
  <1>4. CASE sync_balance(a)
    <2>1. set_balance(a, cash[Treasury][a]) /\ cash' = cash
      BY <1>4 DEF sync_balance
    <2>2. cash[Treasury][a] \in Nat
      BY <1>2
    <2> QED
      BY <1>2, <1>3, <2>1, <2>2 DEF TrackedIsBacked
  <1>5. CASE \E n \in Amounts : deposit(a, n)
    <2>1. PICK n \in Nat : deposit(a, n)
      BY <1>5, AccountsAssumption
    <2>2. /\ set_balance(a, tracked[a] + n) /\ cash' = cash
          /\ cash[Treasury][a] >= tracked[a] + n
      BY <2>1 DEF deposit, covers_deposit
    <2>3. tracked[a] + n \in Nat
      OBVIOUS
    <2> QED
      BY <1>2, <1>3, <2>2, <2>3 DEF TrackedIsBacked
  <1>6. CASE \E n \in Amounts, to \in Accounts : withdraw(a, n, to)
    <2>1. PICK n \in Nat, to \in Accounts : withdraw(a, n, to)
      BY <1>6, AccountsAssumption
    <2>2. /\ n <= tracked[a] /\ tracked[a] - n \in Nat
          /\ set_balance(a, tracked[a] - n)
          /\ transfer(Treasury, to, a, n)
      BY <2>1 DEF withdraw
    <2>3. /\ cash' \in [Accounts -> [Assets -> Nat]]
          /\ cash'[Treasury][a] >= cash[Treasury][a] - n
          /\ \A b \in Assets :
               /\ b # a => cash'[Treasury][b] = cash[Treasury][b]
               /\ cash'[AToken][b] >= cash[AToken][b]
      BY <1>2, <2>2, TransferMoves
    <2>4. TreasuryTypeOK'
      BY <1>3, <2>2, <2>3
    <2>5. ASSUME TrackedIsBacked
          PROVE  TrackedIsBacked'
      <3>1. tracked'[a] = tracked[a] - n /\ tracked[a] <= cash[Treasury][a]
        BY <1>3, <2>2, <2>5 DEF TrackedIsBacked
      <3>2. \A b \in Assets : tracked'[b] <= cash'[Treasury][b]
        BY <1>2, <1>3, <2>2, <2>3, <2>5, <3>1 DEF TrackedIsBacked
      <3>3. asset_list' = {b \in Assets : tracked'[b] > 0}
        BY <1>3, <2>2, <2>5 DEF TrackedIsBacked
      <3> QED
        BY <3>2, <3>3 DEF TrackedIsBacked
    <2> QED
      BY <2>3, <2>4, <2>5
  <1> QED
    BY <1>1, <1>4, <1>5, <1>6

-----------------------------------------------------------------------------
(* What holds while a loan is under way.  The ledger a revert goes back to *)
(* has backed books; every debt was measured against that ledger; assets   *)
(* the loan does not name have not lost anything; and the ones it names    *)
(* are whole again once their debt has been settled.                       *)
named(a) == \E i \in DOMAIN loan.debts : loan.debts[i].asset = a

LoanInv ==
  ~Idle =>
    /\ \A a \in Assets : loan.before.tracked[a] <= loan.before.cash[Treasury][a]
    /\ loan.before.asset_list = {a \in Assets : loan.before.tracked[a] > 0}
    /\ \A i \in DOMAIN loan.debts :
         loan.debts[i].initial_balance
           = loan.before.cash[AToken][loan.debts[i].asset]
    /\ \A a \in Assets :
         ~named(a) => cash[AToken][a] >= loan.before.cash[AToken][a]
    /\ loan.stage = "settling" =>
         \A i \in DOMAIN loan.debts : i < loan.next =>
           cash[AToken][loan.debts[i].asset]
             >= loan.before.cash[AToken][loan.debts[i].asset]

IInv == TypeOK /\ TrackedIsBacked /\ LoanInv

(* The two holders whose balances the invariant speaks of.                 *)
LEMMA Holders ==
  /\ AToken \in Accounts /\ Treasury \in Accounts /\ AToken # Treasury
  /\ \A u \in Users : u \in Accounts /\ u # AToken /\ u # Treasury
  BY AccountsAssumption DEF Accounts

(* The books stay backed when the treasury only receives.                  *)
LEMMA ReceivingBacks ==
  ASSUME TypeOK, TrackedIsBacked, UNCHANGED <<tracked, asset_list>>,
         cash' \in [Accounts -> [Assets -> Nat]],
         \A b \in Assets : cash'[Treasury][b] >= cash[Treasury][b]
  PROVE  TrackedIsBacked'
  <1>1. \A b \in Assets : /\ tracked[b] \in Nat
                         /\ cash[Treasury][b] \in Nat
                         /\ cash'[Treasury][b] \in Nat
    BY Holders DEF TypeOK, TreasuryTypeOK
  <1> QED
    BY <1>1 DEF TrackedIsBacked

(* The types of a loan under way and of the debt it is at.                 *)
LEMMA LoanType ==
  ASSUME TypeOK, ~Idle
  PROVE  /\ loan.receiver \in Users
         /\ loan.next \in Nat
         /\ loan.debts \in Seq(FlashLoanDebt)
         /\ \A i \in DOMAIN loan.debts : loan.debts[i] \in FlashLoanDebt
         /\ loan.before.cash \in [Accounts -> [Assets -> Nat]]
         /\ loan.before.tracked \in [Assets -> Nat]
         /\ loan.before.asset_list \subseteq Assets
         /\ more_debts => /\ loan.next \in DOMAIN loan.debts
                          /\ loan.next + 1 \in 1 .. Len(loan.debts) + 1
         /\ ~more_debts => \A i \in DOMAIN loan.debts : i < loan.next
  BY DEF TypeOK, Loans, Ledger, more_debts

LEMMA InitInv == Init => IInv
  <1> SUFFICES ASSUME Init PROVE IInv
    OBVIOUS
  <1>1. /\ cash \in [Accounts -> [Assets -> Nat]]
        /\ tracked = [a \in Assets |-> 0]
        /\ asset_list = {}
        /\ flash_loan_premium \in Nat
        /\ lendable \subseteq Assets
        /\ Idle
    BY FlashLoanAssumption DEF Init, Idle
  <1>2. TypeOK
    BY <1>1 DEF TypeOK, TreasuryTypeOK
  <1>3. TrackedIsBacked
    BY <1>1, Holders DEF TrackedIsBacked
  <1> QED
    BY <1>1, <1>2, <1>3 DEF IInv, LoanInv

-----------------------------------------------------------------------------
(* A premium is an amount.                                                 *)
LEMMA PremiumIsNat ==
  ASSUME NEW value \in Nat, NEW percentage \in Nat
  PROVE  percent_mul_up(value, percentage) \in Nat
  <1>1. BASIS_POINTS_MULTIPLIER \in Nat /\ BASIS_POINTS_MULTIPLIER > 0
    BY FlashLoanAssumption
  <1>2. value * percentage \in Nat
    OBVIOUS
  <1> QED
    BY <1>1, <1>2 DEF percent_mul_up

LEMMA StartKeeps ==
  ASSUME IInv, NEW request \in Requests, NEW u \in Users,
         StartFlashLoan(request, u)
  PROVE  IInv'
  <1> USE DEF IInv
  <1>1. /\ request \in Seq([asset : Assets, amount : Nat])
        /\ \A i \in DOMAIN request :
             request[i].asset \in Assets /\ request[i].amount \in Nat
    <2> DEFINE Entry == [asset : Assets, amount : Nat]
    <2>1. request \in Seq(Entry)
      BY FlashLoanAssumption
    <2>2. \A i \in DOMAIN request : request[i] \in Entry
      <3> HIDE DEF Entry
      <3> QED
        BY <2>1
    <2> QED
      BY <2>1, <2>2
  <1> DEFINE debts == [i \in DOMAIN request |-> debt_of(request[i])]
  <1>2. \A i \in DOMAIN request :
          /\ debt_of(request[i]) \in FlashLoanDebt
          /\ debt_of(request[i]).initial_balance
               = cash[AToken][debt_of(request[i]).asset]
    <2> SUFFICES ASSUME NEW i \in DOMAIN request
                 PROVE  /\ debt_of(request[i]) \in FlashLoanDebt
                        /\ debt_of(request[i]).initial_balance
                             = cash[AToken][debt_of(request[i]).asset]
      OBVIOUS
    <2>1. cash[AToken][request[i].asset] \in Nat
      BY <1>1, Holders DEF TypeOK, TreasuryTypeOK
    <2>2. percent_mul_up(request[i].amount, flash_loan_premium) \in Nat
      BY <1>1, PremiumIsNat DEF TypeOK
    <2> QED
      BY <1>1, <2>1, <2>2 DEF debt_of, FlashLoanDebt
  <1>3. debts \in Seq(FlashLoanDebt) /\ DOMAIN debts = DOMAIN request
    BY <1>1, <1>2
  <1>4. /\ loan' = [stage |-> "paying", next |-> 1, receiver |-> u,
                    debts |-> debts,
                    before |-> [cash |-> cash, tracked |-> tracked,
                                asset_list |-> asset_list]]
        /\ UNCHANGED <<cash, tracked, asset_list, flash_loan_premium, lendable>>
    BY DEF StartFlashLoan, treasury_vars
  <1>5. \A i \in DOMAIN debts :
          debts[i].initial_balance = cash[AToken][debts[i].asset]
    BY <1>2, <1>3
  <1> HIDE DEF debts
  <1>6. loan' \in Loans /\ loan'.next \in 1 .. Len(loan'.debts) + 1
    BY <1>3, <1>4 DEF Loans, Ledger, TypeOK, TreasuryTypeOK
  <1>7. TypeOK'
    BY <1>4, <1>6 DEF TypeOK, TreasuryTypeOK
  <1>8. TrackedIsBacked'
    BY <1>4 DEF TrackedIsBacked
  <1>9. LoanInv'
    BY <1>4, <1>5, Holders DEF LoanInv, TrackedIsBacked, TypeOK, TreasuryTypeOK
  <1> QED
    BY <1>7, <1>8, <1>9

(* A step that goes on with a loan keeps what the invariant says of it if  *)
(* no asset the loan does not name is taken from, and every debt settled   *)
(* already or by this step is whole.                                       *)
LEMMA LoanKept ==
  ASSUME IInv, ~Idle, TypeOK',
         loan'.debts = loan.debts, loan'.before = loan.before,
         \A a \in Assets : ~named(a) => cash'[AToken][a] >= cash[AToken][a],
         loan'.stage = "settling" =>
           \A i \in DOMAIN loan.debts : i < loan'.next =>
             cash'[AToken][loan.debts[i].asset]
               >= loan.before.cash[AToken][loan.debts[i].asset]
  PROVE  LoanInv'
  <1>1. AToken \in Accounts
    BY Holders
  <1>2. \A a \in Assets : cash[AToken][a] \in Nat /\ cash'[AToken][a] \in Nat
    BY <1>1 DEF IInv, TypeOK, TreasuryTypeOK
  <1>3. \A a \in Assets : loan.before.cash[AToken][a] \in Nat
    BY <1>1, LoanType DEF IInv
  <1>4. \A a \in Assets : named(a)' <=> named(a)
    BY DEF named
  <1>5. \A a \in Assets :
          ~named(a)' => cash'[AToken][a] >= loan'.before.cash[AToken][a]
    BY <1>2, <1>3, <1>4 DEF IInv, LoanInv
  <1> QED
    BY <1>5 DEF IInv, LoanInv

LEMMA PayOutKeeps == IInv /\ PayOut => IInv' /\ loan' \in Loans
  <1> SUFFICES ASSUME IInv, PayOut PROVE IInv' /\ loan' \in Loans
    OBVIOUS
  <1>1. /\ ~Idle /\ more_debts /\ loan.stage = "paying"
        /\ transfer(AToken, loan.receiver, current.asset, current.amount)
        /\ loan' = [loan EXCEPT !.next = @ + 1]
        /\ UNCHANGED <<tracked, asset_list, flash_loan_premium, lendable>>
    BY DEF PayOut, Running, treasury_vars
  <1>2. /\ loan \in Loans
        /\ loan.receiver \in Users
        /\ loan.next \in DOMAIN loan.debts
        /\ loan.next + 1 \in 1 .. Len(loan.debts) + 1
        /\ current.asset \in Assets /\ current.amount \in Nat
    BY <1>1, LoanType DEF IInv, TypeOK, current, FlashLoanDebt
  <1>3. /\ cash' \in [Accounts -> [Assets -> Nat]]
        /\ \A b \in Assets :
             /\ cash'[Treasury][b] = cash[Treasury][b]
             /\ b # current.asset => cash'[AToken][b] = cash[AToken][b]
    BY <1>1, <1>2, Holders, TransferMoves DEF IInv, TypeOK, TreasuryTypeOK
  <1>4. /\ loan' \in Loans /\ loan'.next = loan.next + 1
        /\ loan'.debts = loan.debts /\ loan'.before = loan.before
        /\ loan'.stage = "paying"
    BY <1>1, <1>2 DEF Loans
  <1>5. TypeOK'
    BY <1>1, <1>2, <1>3, <1>4 DEF IInv, TypeOK, TreasuryTypeOK
  <1>6. TrackedIsBacked'
    BY <1>1, <1>3 DEF IInv, TrackedIsBacked
  <1>7. \A a \in Assets : ~named(a) => cash'[AToken][a] >= cash[AToken][a]
    BY <1>2, <1>3, Holders DEF named, current, IInv, TypeOK, TreasuryTypeOK
  <1>8. LoanInv'
    BY <1>1, <1>4, <1>5, <1>7, LoanKept
  <1> QED
    BY <1>4, <1>5, <1>6, <1>8 DEF IInv

(* Calling the receiver, and coming back from it, move nothing.            *)
LEMMA CallKeeps ==
  IInv /\ (InvokeReceiver \/ ReceiverReturns) => IInv' /\ loan' \in Loans
  <1> SUFFICES ASSUME IInv, InvokeReceiver \/ ReceiverReturns
               PROVE  IInv' /\ loan' \in Loans
    OBVIOUS
  <1>1. /\ ~Idle /\ loan \in Loans
        /\ UNCHANGED <<cash, tracked, asset_list, flash_loan_premium, lendable>>
        /\ \/ loan' = [loan EXCEPT !.stage = "callback"]
           \/ loan' = [loan EXCEPT !.stage = "settling", !.next = 1]
    BY DEF InvokeReceiver, ReceiverReturns, Running, treasury_vars, IInv, TypeOK
  <1>2. /\ loan' \in Loans
        /\ loan'.debts = loan.debts /\ loan'.before = loan.before
        /\ \/ loan'.next = loan.next /\ loan'.stage = "callback"
           \/ loan'.next = 1 /\ loan'.stage = "settling"
    <2>1. CASE loan' = [loan EXCEPT !.stage = "callback"]
      BY <1>1, <2>1 DEF Loans
    <2>2. CASE loan' = [loan EXCEPT !.stage = "settling", !.next = 1]
      BY <1>1, <2>2 DEF Loans
    <2> QED
      BY <1>1, <2>1, <2>2
  <1>3. TypeOK'
    BY <1>1, <1>2, LoanType DEF IInv, TypeOK, TreasuryTypeOK
  <1>4. TrackedIsBacked'
    BY <1>1 DEF IInv, TrackedIsBacked
  <1>5. \A i \in DOMAIN loan.debts : ~(i < 1)
    BY <1>1, LoanType DEF IInv
  <1>6. \A a \in Assets : cash'[AToken][a] >= cash[AToken][a]
    BY <1>1, Holders DEF IInv, TypeOK, TreasuryTypeOK
  <1>7. LoanInv'
    BY <1>1, <1>2, <1>3, <1>5, <1>6, LoanKept
  <1> QED
    BY <1>2, <1>3, <1>4, <1>7 DEF IInv

LEMMA SettleKeeps == IInv /\ Settle => IInv' /\ loan' \in Loans
  <1> SUFFICES ASSUME IInv, Settle PROVE IInv' /\ loan' \in Loans
    OBVIOUS
  <1>1. /\ ~Idle /\ more_debts /\ loan.stage = "settling"
        /\ verify_repayment
        /\ transfer(AToken, Treasury, current.asset, current.premium)
        /\ loan' = [loan EXCEPT !.next = @ + 1]
        /\ UNCHANGED <<tracked, asset_list, flash_loan_premium, lendable>>
    BY DEF Settle, Running, treasury_vars
  <1>2. /\ loan \in Loans
        /\ loan.next \in DOMAIN loan.debts
        /\ loan.next + 1 \in 1 .. Len(loan.debts) + 1
        /\ \A i \in DOMAIN loan.debts : loan.debts[i] \in FlashLoanDebt
    BY <1>1, LoanType DEF IInv, TypeOK
  <1>3. /\ current.asset \in Assets /\ current.premium \in Nat
        /\ current.initial_balance = loan.before.cash[AToken][current.asset]
        /\ loan.before.cash[AToken][current.asset] \in Nat
    BY <1>1, <1>2, LoanType, Holders DEF IInv, LoanInv, current, FlashLoanDebt
  <1>4. /\ cash' \in [Accounts -> [Assets -> Nat]]
        /\ cash'[AToken][current.asset]
             = cash[AToken][current.asset] - current.premium
        /\ \A b \in Assets :
             /\ cash'[Treasury][b] >= cash[Treasury][b]
             /\ b # current.asset => cash'[AToken][b] = cash[AToken][b]
    BY <1>1, <1>3, Holders, TransferMoves DEF IInv, TypeOK, TreasuryTypeOK
  <1>5. /\ loan' \in Loans /\ loan'.next = loan.next + 1
        /\ loan'.debts = loan.debts /\ loan'.before = loan.before
    BY <1>1, <1>2 DEF Loans
  <1>6. TypeOK'
    BY <1>1, <1>2, <1>4, <1>5 DEF IInv, TypeOK, TreasuryTypeOK
  <1>7. TrackedIsBacked'
    BY <1>1, <1>4, ReceivingBacks DEF IInv
  <1>8. \A a \in Assets : ~named(a) => cash'[AToken][a] >= cash[AToken][a]
    BY <1>2, <1>4, Holders DEF named, current, IInv, TypeOK, TreasuryTypeOK
  <1>9. \A i \in DOMAIN loan.debts : i < loan'.next =>
          cash'[AToken][loan.debts[i].asset]
            >= loan.before.cash[AToken][loan.debts[i].asset]
    <2>1. SUFFICES ASSUME NEW i \in DOMAIN loan.debts, i < loan'.next,
                          loan.debts[i].asset # current.asset
                   PROVE  cash'[AToken][loan.debts[i].asset]
                            >= loan.before.cash[AToken][loan.debts[i].asset]
      <3>1. cash'[AToken][current.asset]
              >= loan.before.cash[AToken][current.asset]
        <4>1. cash[AToken][current.asset]
                >= current.initial_balance + current.premium
          BY <1>1 DEF verify_repayment
        <4>2. cash[AToken][current.asset] \in Nat
          BY <1>3, Holders DEF IInv, TypeOK, TreasuryTypeOK
        <4> QED
          BY <1>3, <1>4, <4>1, <4>2
      <3> QED
        BY <3>1
    <2>2. loan.next \in Nat /\ i \in Nat /\ i < loan.next
      <3>1. loan.next \in Nat /\ i \in Nat /\ i # loan.next
        BY <1>1, <2>1, LoanType DEF IInv, current
      <3> QED
        BY <1>5, <2>1, <3>1
    <2>3. loan.debts[i].asset \in Assets
      BY <1>2, <2>1 DEF FlashLoanDebt
    <2> QED
      BY <1>1, <1>4, <2>1, <2>2, <2>3 DEF IInv, LoanInv
  <1>10. LoanInv'
    BY <1>1, <1>5, <1>6, <1>8, <1>9, LoanKept
  <1> QED
    BY <1>5, <1>6, <1>7, <1>10 DEF IInv

(* At the end every debt has been settled, so no aToken has lost anything. *)
LEMMA WholeAtTheEnd ==
  ASSUME IInv, CompleteFlashLoan \/ Revert
  PROVE  IInv' /\ \A a \in Assets :
                    cash'[AToken][a] >= loan.before.cash[AToken][a]
  <1>1. CASE CompleteFlashLoan
    <2>1. /\ ~Idle /\ ~more_debts /\ loan.stage = "settling"
          /\ loan' = NoLoan
          /\ UNCHANGED <<cash, tracked, asset_list, flash_loan_premium,
                         lendable>>
      BY <1>1 DEF CompleteFlashLoan, Running, treasury_vars
    <2>2. \A i \in DOMAIN loan.debts : i < loan.next
      BY <2>1, LoanType DEF IInv
    <2>3. \A a \in Assets : cash[AToken][a] >= loan.before.cash[AToken][a]
      BY <2>1, <2>2 DEF IInv, LoanInv, named
    <2>4. Idle'
      BY <2>1 DEF Idle
    <2> QED
      BY <2>1, <2>3, <2>4
      DEF IInv, TypeOK, TreasuryTypeOK, TrackedIsBacked, LoanInv
  <1>2. CASE Revert
    <2>1. /\ ~Idle /\ Idle'
          /\ cash' = loan.before.cash
          /\ tracked' = loan.before.tracked
          /\ asset_list' = loan.before.asset_list
          /\ UNCHANGED <<flash_loan_premium, lendable>>
      BY <1>2 DEF Revert, NoTrace, Idle
    <2>2. /\ loan.before.cash \in [Accounts -> [Assets -> Nat]]
          /\ loan.before.tracked \in [Assets -> Nat]
          /\ loan.before.asset_list \subseteq Assets
      BY <2>1, LoanType DEF IInv
    <2>3. TypeOK' /\ LoanInv'
      BY <2>1, <2>2 DEF IInv, TypeOK, TreasuryTypeOK, LoanInv
    <2>4. TrackedIsBacked'
      BY <2>1 DEF IInv, LoanInv, TrackedIsBacked
    <2>5. \A a \in Assets : cash'[AToken][a] >= loan.before.cash[AToken][a]
      BY <2>1, <2>2, Holders
    <2> QED
      BY <2>3, <2>4, <2>5 DEF IInv
  <1> QED
    BY <1>1, <1>2

(* What the users and the treasury do, by themselves or in the callback.   *)
LEMMA OutsideKeeps ==
  ASSUME IInv,
         \/ TreasuryOperation
         \/ \E u \in Users, a \in Assets, n \in Amounts :
              \E to \in Accounts \ {u} : Transfer(u, to, a, n)
  PROVE  IInv' /\ loan' = loan
  <1> USE DEF TypeOK, TreasuryTypeOK
  <1>1. /\ Interleavable /\ UNCHANGED <<flash_loan_premium, lendable, loan>>
        /\ TreasuryTypeOK' /\ TrackedIsBacked'
        /\ \A a \in Assets : cash'[AToken][a] >= cash[AToken][a]
    <2>1. CASE TreasuryOperation
      BY <2>1, TreasuryStepKeeps DEF IInv, TreasuryOperation
    <2>2. ASSUME NEW u \in Users, NEW a \in Assets, NEW n \in Amounts,
                 NEW to \in Accounts, Transfer(u, to, a, n)
          PROVE  /\ Interleavable
                 /\ UNCHANGED <<flash_loan_premium, lendable, loan>>
                 /\ TreasuryTypeOK' /\ TrackedIsBacked'
                 /\ \A b \in Assets : cash'[AToken][b] >= cash[AToken][b]
      <3>1. /\ Interleavable /\ transfer(u, to, a, n)
            /\ UNCHANGED <<tracked, asset_list>>
            /\ UNCHANGED <<flash_loan_premium, lendable, loan>>
        BY <2>2 DEF Transfer, treasury_vars
      <3>2. /\ cash' \in [Accounts -> [Assets -> Nat]]
            /\ \A b \in Assets :
                 /\ cash'[Treasury][b] >= cash[Treasury][b]
                 /\ cash'[AToken][b] >= cash[AToken][b]
        BY <3>1, Holders, AccountsAssumption, TransferMoves DEF IInv
      <3>3. TrackedIsBacked'
        BY <3>1, <3>2, ReceivingBacks DEF IInv
      <3> QED
        BY <3>1, <3>2, <3>3 DEF IInv
    <2> QED
      BY <2>1, <2>2
  <1>2. TypeOK'
    BY <1>1 DEF IInv, Idle
  <1>3. LoanInv'
    <2>1. CASE Idle
      BY <1>1, <2>1 DEF LoanInv, Idle
    <2>2. CASE ~Idle
      <3>1. loan.stage = "callback"
        BY <1>1, <2>2 DEF Interleavable, Running
      <3> QED
        BY <1>1, <1>2, <2>2, <3>1, LoanKept
    <2> QED
      BY <2>1, <2>2
  <1> QED
    BY <1>1, <1>2, <1>3 DEF IInv

(* What only happens while no loan is under way.                           *)
LEMMA IdleKeeps ==
  ASSUME IInv,
         \/ \E a \in Assets, n \in Amounts :
              \/ \E u \in Users : PayUser(u, a, n)
              \/ collect_protocol_reserves(a, n)
         \/ \E p \in Premiums : set_flash_loan_premium(p)
         \/ \E a \in Assets : SetLendable(a)
  PROVE  IInv' /\ Idle
  <1> USE DEF TypeOK, TreasuryTypeOK
  <1>1. ASSUME NEW to \in Users \union {Treasury}, NEW a \in Assets,
               NEW n \in Amounts, Idle, transfer(AToken, to, a, n),
               UNCHANGED <<treasury_vars, flash_loan_premium, lendable, loan>>
        PROVE  IInv'
    <2>1. /\ cash' \in [Accounts -> [Assets -> Nat]]
          /\ \A b \in Assets : cash'[Treasury][b] >= cash[Treasury][b]
      BY <1>1, Holders, AccountsAssumption, TransferMoves DEF IInv
    <2>2. TrackedIsBacked'
      BY <1>1, <2>1, ReceivingBacks DEF IInv, treasury_vars
    <2> QED
      BY <1>1, <2>1, <2>2 DEF IInv, LoanInv, Idle, treasury_vars
  <1>2. ASSUME Idle, UNCHANGED <<cash, treasury_vars, loan>>,
               flash_loan_premium' \in Nat, lendable' \subseteq Assets
        PROVE  IInv'
    BY <1>2 DEF IInv, LoanInv, Idle, treasury_vars, TrackedIsBacked
  <1>3. CASE \E a \in Assets, n \in Amounts :
               \/ \E u \in Users : PayUser(u, a, n)
               \/ collect_protocol_reserves(a, n)
    BY <1>1, <1>3 DEF PayUser, collect_protocol_reserves
  <1>4. CASE \E p \in Premiums : set_flash_loan_premium(p)
    BY <1>2, <1>4, FlashLoanAssumption DEF set_flash_loan_premium, IInv
  <1>5. CASE \E a \in Assets : SetLendable(a)
    BY <1>2, <1>5 DEF SetLendable, IInv
  <1> QED
    BY <1>3, <1>4, <1>5

(* Every step keeps the invariant, and one that ends a loan leaves the     *)
(* aTokens whole.                                                          *)
LEMMA StepInv ==
  IInv /\ [Next]_vars =>
    /\ IInv'
    /\ ~Idle /\ loan' = NoLoan =>
         \A a \in Assets : cash'[AToken][a] >= loan.before.cash[AToken][a]
  <1> SUFFICES ASSUME IInv, [Next]_vars
               PROVE  /\ IInv'
                      /\ ~Idle /\ loan' = NoLoan =>
                           \A a \in Assets :
                             cash'[AToken][a] >= loan.before.cash[AToken][a]
    OBVIOUS
  <1>1. ASSUME NEW request \in Requests, NEW u \in Users,
               StartFlashLoan(request, u)
        PROVE  IInv' /\ Idle
    BY <1>1, StartKeeps DEF StartFlashLoan
  <1>2. CASE PayOut \/ Settle \/ InvokeReceiver \/ ReceiverReturns
    BY <1>2, PayOutKeeps, SettleKeeps, CallKeeps, NoLoanAssumption
  <1>3. CASE CompleteFlashLoan \/ Revert
    BY <1>3, WholeAtTheEnd
  <1>4. CASE \/ TreasuryOperation
             \/ \E u \in Users, a \in Assets, n \in Amounts :
                  \E to \in Accounts \ {u} : Transfer(u, to, a, n)
    BY <1>4, OutsideKeeps DEF Idle
  <1>5. CASE \/ \E a \in Assets, n \in Amounts :
                  \/ \E u \in Users : PayUser(u, a, n)
                  \/ collect_protocol_reserves(a, n)
             \/ \E p \in Premiums : set_flash_loan_premium(p)
             \/ \E a \in Assets : SetLendable(a)
    BY <1>5, IdleKeeps
  <1>6. CASE UNCHANGED vars
    BY <1>6 DEF vars, treasury_vars, IInv, TypeOK, TreasuryTypeOK,
                TrackedIsBacked, LoanInv, named, Idle
  <1> QED
    BY <1>1, <1>2, <1>3, <1>4, <1>5, <1>6 DEF Next

LEMMA Inductive == Spec => []IInv
  BY InitInv, StepInv, PTL DEF Spec

(* The types hold, a loan's debts and its place among them included.       *)
THEOREM TypeCorrect == Spec => []TypeOK
  <1>1. IInv => TypeOK
    BY DEF IInv
  <1> QED
    BY <1>1, Inductive, PTL

(* The treasury really has what its books say, and lists exactly the       *)
(* assets they hold, whatever callbacks do to it (treasury contract.rs).   *)
THEOREM BooksAreBacked == Spec => []TrackedIsBacked
  <1>1. IInv => TrackedIsBacked
    BY DEF IInv
  <1> QED
    BY <1>1, Inductive, PTL

(* When a flash loan ends, the aToken of no asset has less than it had     *)
(* before it, for loans of any length that may name an asset many times,   *)
(* any callback and any premium (flash_loan.rs:45-170).                    *)
THEOREM PoolAlwaysRepaid == Spec => PoolIsRepaid
  <1>1. IInv /\ [Next]_vars =>
          [~Idle /\ loan' = NoLoan =>
             \A a \in Assets :
               cash'[AToken][a] >= loan.before.cash[AToken][a]]_vars
    BY StepInv
  <1> QED
    BY <1>1, Inductive, PTL DEF Spec, PoolIsRepaid

=============================================================================
