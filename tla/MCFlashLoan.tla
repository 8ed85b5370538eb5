---------------------------- MODULE MCFlashLoan ----------------------------
(***************************************************************************)
(* Instances of FlashLoan for TLC: one borrower, two assets, loans of one  *)
(* or two entries.                                                         *)
(***************************************************************************)
EXTENDS FlashLoan

CONSTANTS usdc, xlm, alice, atoken, treasury

TwoAssets == {usdc, xlm}

OneUser == {alice}

OneUnit == {1}

(* Both amounts of a loan of one asset twice, or of one unit of each. *)
OneOrTwoEntries ==
  LET entry(a, n) == [asset |-> a, amount |-> n]
  IN  {<<entry(usdc, 1)>>, <<entry(usdc, 1), entry(usdc, 1)>>,
       <<entry(usdc, 1), entry(xlm, 1)>>}

NoneOrTenth == {0, 1}

(* The pool lends 2 usdc and 1 xlm; she has enough for two premiums. *)
StartingBalances ==
  [h \in Accounts |->
     [a \in Assets |->
        CASE h = atoken /\ a = usdc -> 2
          [] h = atoken /\ a = xlm  -> 1
          [] h = alice  /\ a = usdc -> 2
          [] h = alice  /\ a = xlm  -> 1
          [] OTHER -> 0]]

=============================================================================
