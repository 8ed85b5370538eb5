-------------------------- MODULE MCConfiguration --------------------------
(***************************************************************************)
(* An instance of Configuration for TLC: the fields of the code in their   *)
(* order, with the gap before flashloan_enabled, but only as wide as the   *)
(* few values asked for; two pairs of bits per user.                       *)
(***************************************************************************)
EXTENDS Configuration

NarrowLayout ==
  [ltv                   |-> Bits("low", 0, 4),
   liquidation_threshold |-> Bits("low", 4, 4),
   liquidation_bonus     |-> Bits("low", 8, 4),
   decimals              |-> Bits("low", 12, 2),
   active                |-> Bits("low", 14, 1),
   frozen                |-> Bits("low", 15, 1),
   borrowing_enabled     |-> Bits("low", 16, 1),
   paused                |-> Bits("low", 17, 1),
   flashloan_enabled     |-> Bits("low", 20, 1),
   reserve_factor        |-> Bits("low", 21, 4),
   min_remaining_debt    |-> Bits("low", 25, 2),
   borrow_cap            |-> Bits("high", 0, 2),
   supply_cap            |-> Bits("high", 2, 2)]

(* 12 is more than the whole. *)
SomePoints == {0, 3, 9, 12}

(* The last flag, beyond the gap; "active" is set from the start. *)
SomeFlags == {"flashloan_enabled"}

(* Two premiums of 6 are more than a maximum of 6. *)
SomePremiums == {0, 6}

(* 3 fills the two bits of a number, 5 does not fit. *)
SomeNumbers == {0, 3, 5}

FirstIds == 0 .. 2

=============================================================================
