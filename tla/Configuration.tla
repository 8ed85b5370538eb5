--------------------------- MODULE Configuration ---------------------------
(***************************************************************************)
(* The configuration of one reserve, packed into two words of 128 bits,    *)
(* the positions of one user, packed into a third (shared/src/utils.rs),   *)
(* and the pool-wide parameters (kinetic-router/src/params.rs).            *)
(*                                                                         *)
(* The pool configurator reads the words, sets some fields and writes the  *)
(* words back through the router, which validates them again; the pool     *)
(* admin sets caps and the minimal debt at the router directly.  A call is *)
(* one transaction, so nobody writes between the read and the write.       *)
(*                                                                         *)
(* The layout is a parameter: LayoutOfCode has the code's positions, the   *)
(* instances narrower fields in the same order.                            *)
(***************************************************************************)
EXTENDS RayMath, FiniteSets

CONSTANTS
  Layout,     \* field -> [word, at, width]
  WORD_SIZE,
  MIN_LIQUIDATION_BUFFER_BPS,
  MAX_SAFE_DECIMALS,
  DEFAULT_PREMIUM, DEFAULT_PREMIUM_MAX,  \* before either is set
  MAX_RESERVES,   \* pairs of bits in the word of a user
  Switches,       \* bound: the flags the instance switches
  Ids,            \* bound: reserve ids, those without a bit included
  Points,         \* bound: basis points asked for
  Premiums,       \* bound: premiums and their maximum asked for
  Numbers,        \* bound: caps and minimal debts asked for
  Decimals        \* bound: decimals of the token listed

Flags == {"active", "frozen", "borrowing_enabled", "paused",
          "flashloan_enabled"}
Fields == Flags \union
  {"ltv", "liquidation_threshold", "liquidation_bonus", "decimals",
   "reserve_factor", "min_remaining_debt", "borrow_cap", "supply_cap"}

Bits(word, at, width) == [word |-> word, at |-> at, width |-> width]

(* utils.rs:284-297 *)
LayoutOfCode ==
  [ltv                   |-> Bits("low", 0, 14),
   liquidation_threshold |-> Bits("low", 14, 14),
   liquidation_bonus     |-> Bits("low", 28, 14),
   decimals              |-> Bits("low", 42, 8),
   active                |-> Bits("low", 50, 1),
   frozen                |-> Bits("low", 51, 1),
   borrowing_enabled     |-> Bits("low", 52, 1),
   paused                |-> Bits("low", 53, 1),
   flashloan_enabled     |-> Bits("low", 56, 1),
   reserve_factor        |-> Bits("low", 57, 14),
   min_remaining_debt    |-> Bits("low", 71, 32),
   borrow_cap            |-> Bits("high", 0, 64),
   supply_cap            |-> Bits("high", 64, 64)]

(* No bit belongs to two fields, and none lies beyond the word. *)
FieldsAreApart(layout, size) ==
  \A f \in Fields :
    /\ layout[f].at + layout[f].width <= size
    /\ \A g \in Fields \ {f} :
         layout[f].word = layout[g].word =>
           \/ layout[f].at + layout[f].width <= layout[g].at
           \/ layout[g].at + layout[g].width <= layout[f].at

(* Shifts are by powers of two. *)
two_to[n \in Nat] == IF n = 0 THEN 1 ELSE 2 * two_to[n - 1]

InPoints == {"ltv", "liquidation_threshold", "liquidation_bonus",
             "reserve_factor"}

(* Fields are wide enough for what they are checked against. *)
FieldsAreWide(layout) ==
  /\ \A f \in InPoints : BASIS_POINTS_MULTIPLIER < two_to[layout[f].width]
  /\ MAX_SAFE_DECIMALS < two_to[layout["decimals"].width]

FieldPlaces == [word : {"low", "high"}, at : Nat, width : Nat \ {0}]

ASSUME LayoutAssumption ==
  /\ LayoutOfCode \in [Fields -> FieldPlaces]
  /\ FieldsAreApart(LayoutOfCode, 128) /\ FieldsAreWide(LayoutOfCode)
  /\ Layout \in [Fields -> FieldPlaces]
  /\ FieldsAreApart(Layout, WORD_SIZE) /\ FieldsAreWide(Layout)

ASSUME ArgumentsAssumption ==
  /\ Switches \subseteq Flags
  /\ MAX_SAFE_DECIMALS \in Nat /\ MAX_RESERVES \in Nat
  /\ Points \subseteq Nat /\ Numbers \subseteq Nat /\ Decimals \subseteq Nat
  /\ Ids \subseteq Nat

(* Premiums are u128 numbers of basis points. *)
ASSUME PremiumAssumption ==
  /\ DEFAULT_PREMIUM \in Nat /\ DEFAULT_PREMIUM_MAX \in Nat
  /\ Premiums \subseteq Nat

VARIABLES
  configuration,  \* ReserveConfiguration: the words data_low and data_high
  user_data,      \* UserConfiguration: the word of the user
  params,         \* the pool-wide parameters
  asked,          \* history: the value last asked for, by field
  positions       \* history: the positions asked for, by kind

configuration_vars ==
  <<configuration, user_data, params, asked, positions>>

-----------------------------------------------------------------------------
(* ReserveConfiguration *)

get(c, f) ==
  (c[Layout[f].word] \div two_to[Layout[f].at]) % two_to[Layout[f].width]

(* Mutation: the old bits are not cleared when the new ones are added. *)
merged(c, f, v) ==
  [c EXCEPT ![Layout[f].word] =
     @ + (IF get(c, f) = 0 THEN v ELSE 0) * two_to[Layout[f].at]]

(* Every setter: clear the field, then write the bits of v that fit it. *)
put(c, f, v) ==
  [c EXCEPT ![Layout[f].word] =
     @ + ((v % two_to[Layout[f].width]) - get(c, f)) * two_to[Layout[f].at]]

fits(f, v) == v < two_to[Layout[f].width]

in_points(v) == v <= BASIS_POINTS_MULTIPLIER

buffered(ltv, threshold) ==
  threshold > ltv /\ threshold >= ltv + MIN_LIQUIDATION_BUFFER_BPS

validate_reserve_configuration(c) ==
  /\ \A f \in InPoints : in_points(get(c, f))
  /\ buffered(get(c, "ltv"), get(c, "liquidation_threshold"))
  /\ get(c, "decimals") <= MAX_SAFE_DECIMALS

(* asked: what the caller of the setter meant to change. *)
Asks(changes) ==
  asked' = [f \in Fields |-> IF f \in DOMAIN changes THEN changes[f]
                                                     ELSE asked[f]]

update_reserve_configuration(c) ==
  /\ validate_reserve_configuration(c)
  /\ configuration' = c
  /\ UNCHANGED <<user_data, params, positions>>

configure_reserve_as_collateral(ltv, threshold, bonus) ==
  /\ in_points(ltv) /\ in_points(threshold) /\ in_points(bonus)
  /\ buffered(ltv, threshold)
  /\ update_reserve_configuration(
       put(put(put(configuration, "ltv", ltv),
               "liquidation_threshold", threshold),
           "liquidation_bonus", bonus))
  /\ Asks([ltv |-> ltv, liquidation_threshold |-> threshold,
           liquidation_bonus |-> bonus])

(* set_reserve_active, _freeze, _pause, _flashloaning; borrowing can only  *)
(* be enabled.                                                             *)
set_flag(f, v) ==
  /\ f = "borrowing_enabled" => v = 1
  /\ update_reserve_configuration(put(configuration, f, v))
  /\ Asks([g \in {f} |-> v])

set_reserve_factor(v) ==
  /\ in_points(v)
  /\ update_reserve_configuration(put(configuration, "reserve_factor", v))
  /\ Asks([reserve_factor |-> v])

(* The pool admin's own setters, which validate nothing else. *)
set_number(f, v) ==
  /\ f \in {"supply_cap", "borrow_cap", "min_remaining_debt"}
  /\ fits(f, v)
  /\ configuration' = put(configuration, f, v)
  /\ Asks([g \in {f} |-> v])
  /\ UNCHANGED <<user_data, params, positions>>

-----------------------------------------------------------------------------
(* UserConfiguration: bit 2 id for collateral, bit 2 id + 1 for borrowing. *)
Kinds == {"collateral", "borrowing"}

shift(kind, id) == 2 * id + IF kind = "borrowing" THEN 1 ELSE 0

is_set(data, kind, id) ==
  id < MAX_RESERVES /\ (data \div two_to[shift(kind, id)]) % 2 = 1

with_bit(data, kind, id, value) ==
  IF id >= MAX_RESERVES THEN data
  ELSE LET at == shift(kind, id)
       IN  data + ((IF value THEN 1 ELSE 0) - ((data \div two_to[at]) % 2))
                  * two_to[at]

(* set_using_as_collateral, set_borrowing *)
set_position(kind, id, value) ==
  /\ user_data' = with_bit(user_data, kind, id, value)
  /\ positions' = [positions EXCEPT ![kind] =
       IF value /\ id < MAX_RESERVES THEN @ \union {id} ELSE @ \ {id}]
  /\ UNCHANGED <<configuration, params, asked>>

get_active_reserve_ids(data) ==
  {id \in 0 .. MAX_RESERVES - 1 : (data \div two_to[2 * id]) % 4 # 0}

count_active_reserves(data) == Cardinality(get_active_reserve_ids(data))

has_any_borrowing(data) ==
  \E id \in 0 .. MAX_RESERVES - 1 : is_set(data, "borrowing", id)

-----------------------------------------------------------------------------
(* Pool-wide parameters: the premium of flash loans, the surcharge of      *)
(* flash liquidations, and what the two may come to.                       *)

(* Mutation: a premium is checked without the other one. *)
premium_alone(name, v) == v

combined_premium(name, v) ==
  v + params[IF name = "premium" THEN "surcharge" ELSE "premium"]

(* set_flash_loan_premium, set_flash_liquidation_premium *)
set_premium(name, v) ==
  /\ name \in {"premium", "surcharge"}
  /\ combined_premium(name, v) <= params.max
  /\ params' = [params EXCEPT ![name] = v]
  /\ UNCHANGED <<configuration, user_data, asked, positions>>

(* The maximum may be set below the premiums already in force. *)
set_flash_loan_premium_max(v) ==
  /\ in_points(v)
  /\ params' = [params EXCEPT !.max = v]
  /\ UNCHANGED <<configuration, user_data, asked, positions>>

-----------------------------------------------------------------------------
NoBits == [low |-> 0, high |-> 0]

(* init_reserve packs its parameters into empty words. *)
packed(ltv, threshold, decimals) ==
  put(put(put(put(NoBits, "ltv", ltv), "liquidation_threshold", threshold),
          "decimals", decimals), "active", 1)

ConfigurationInit ==
  /\ \E ltv, threshold \in Points, decimals \in Decimals :
       /\ in_points(ltv) /\ in_points(threshold) /\ buffered(ltv, threshold)
       /\ decimals <= MAX_SAFE_DECIMALS
       /\ configuration = packed(ltv, threshold, decimals)
       /\ asked = [f \in Fields |->
            CASE f = "ltv" -> ltv
              [] f = "liquidation_threshold" -> threshold
              [] f = "decimals" -> decimals
              [] f = "active" -> 1
              [] OTHER -> 0]
  /\ user_data = 0
  /\ params = [premium |-> DEFAULT_PREMIUM, surcharge |-> 0,
               max |-> DEFAULT_PREMIUM_MAX]
  /\ positions = [k \in Kinds |-> {}]

ConfigurationNext ==
  \/ \E ltv, threshold, bonus \in Points :
       configure_reserve_as_collateral(ltv, threshold, bonus)
  \/ \E f \in Switches, v \in 0 .. 1 : set_flag(f, v)
  \/ \E v \in Points : set_reserve_factor(v)
  \/ \E v \in Premiums :
       \/ set_flash_loan_premium_max(v)
       \/ \E name \in {"premium", "surcharge"} : set_premium(name, v)
  \/ \E v \in Numbers, f \in Fields : set_number(f, v)
  \/ \E kind \in Kinds, id \in Ids, value \in BOOLEAN :
       set_position(kind, id, value)

ConfigurationSpec ==
  ConfigurationInit /\ [][ConfigurationNext]_configuration_vars

-----------------------------------------------------------------------------
(* Whatever was set before and in whatever order, every field reads as the *)
(* value last asked for it and every bit of a user as the position last    *)
(* set; the counts the pool derives from the bits agree: no setter reaches *)
(* a neighbouring field, and no value is cut to its width without the call *)
(* failing (utils.rs:299-462, 469-549).                                    *)
WordsSayWhatWasAsked ==
  /\ \A f \in Fields : get(configuration, f) = asked[f]
  /\ \A kind \in Kinds, id \in Ids :
       is_set(user_data, kind, id) <=> id \in positions[kind]
  /\ count_active_reserves(user_data) =
       Cardinality(positions["collateral"] \union positions["borrowing"])
  /\ has_any_borrowing(user_data) <=> positions["borrowing"] # {}

(* A flash liquidation charges the premium and the surcharge together.     *)
(* The maximum may be lowered below what is in force, but no sequence of   *)
(* the three setters makes the sum grow beyond the maximum then in force   *)
(* (params.rs:5-45, 222-244).                                              *)
PremiumsGrowWithinMax ==
  [][params'.premium + params'.surcharge > params.premium + params.surcharge =>
       params'.premium + params'.surcharge <= params'.max]_configuration_vars

=============================================================================
