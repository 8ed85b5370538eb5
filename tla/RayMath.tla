------------------------------ MODULE RayMath ------------------------------
(***************************************************************************)
(* Fixed-point arithmetic of the k2-shared crate (shared/src/utils.rs):    *)
(* ray and basis-point products and quotients with the rounding direction  *)
(* each caller relies on, and the two interest factors that move a         *)
(* reserve's indices.                                                      *)
(*                                                                         *)
(* The scales are parameters: the code has RAY = 10^27, 10_000 basis       *)
(* points and 31_536_000 seconds per year; the small instances use a few   *)
(* units of each so that every rounding case occurs within tiny balances.  *)
(* All operands are u128 in the code and the 256-bit intermediates never   *)
(* wrap; a result that does not fit u128 is an error that reverts the      *)
(* transaction, so naturals are an exact model of every completed call.    *)
(***************************************************************************)
EXTENDS Integers

CONSTANTS RAY,                       \* the unit of indices and rates
          BASIS_POINTS_MULTIPLIER,   \* 100% in basis points
          SECONDS_PER_YEAR           \* period of the annual rates

ASSUME ScaleAssumption ==
  /\ RAY \in Nat \ {0} /\ RAY % 2 = 0
  /\ BASIS_POINTS_MULTIPLIER \in Nat \ {0} /\ BASIS_POINTS_MULTIPLIER % 2 = 0
  /\ SECONDS_PER_YEAR \in Nat \ {0}

HALF_RAY == RAY \div 2

HALF_BASIS_POINTS == BASIS_POINTS_MULTIPLIER \div 2

(***************************************************************************)
(* Products and quotients.  A divisor of zero is an error in the code; the *)
(* callers below only divide by indices and by RAY.                        *)
(***************************************************************************)
ray_mul(a, b) == (a * b + HALF_RAY) \div RAY

ray_mul_down(a, b) == (a * b) \div RAY

ray_div(a, b) == (a * RAY + (b \div 2)) \div b

ray_div_down(a, b) == (a * RAY) \div b

ray_div_up(a, b) == (a * RAY + b - 1) \div b

percent_mul(value, percentage) ==
  (value * percentage + HALF_BASIS_POINTS) \div BASIS_POINTS_MULTIPLIER

percent_mul_up(value, percentage) ==
  (value * percentage + BASIS_POINTS_MULTIPLIER - 1)
    \div BASIS_POINTS_MULTIPLIER

(***************************************************************************)
(* Interest factors over elapsed seconds, in RAY units (RAY = no change).  *)
(* The compound factor is the third-order Taylor expansion of the code,    *)
(* with each term truncated where the code truncates it.                   *)
(***************************************************************************)
calculate_linear_interest(rate, last, current) ==
  RAY + (rate * (current - last)) \div SECONDS_PER_YEAR

(* Mutation: the square term without the minus one. *)
compound_with_square(rate, last, current) ==
  RAY + (rate * (current - last)) \div SECONDS_PER_YEAR
      + ((current - last) * (current - last)
           * (ray_mul(rate, rate) \div (SECONDS_PER_YEAR * SECONDS_PER_YEAR)))
          \div 2

calculate_compound_interest(rate, last, current) ==
  LET exp           == current - last
      exp_minus_one == IF exp > 0 THEN exp - 1 ELSE 0
      exp_minus_two == IF exp > 1 THEN exp - 2 ELSE 0
      power_two     == ray_mul(rate, rate)
                         \div (SECONDS_PER_YEAR * SECONDS_PER_YEAR)
      power_three   == ray_mul(power_two, rate) \div SECONDS_PER_YEAR
  IN  RAY + (rate * exp) \div SECONDS_PER_YEAR
          + (exp * exp_minus_one * power_two) \div 2
          + (exp * exp_minus_one * exp_minus_two * power_three) \div 6

=============================================================================
