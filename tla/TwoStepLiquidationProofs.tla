---------------------- MODULE TwoStepLiquidationProofs ----------------------
(***************************************************************************)
(* Liquidations, in one call and in two, for every set of users and        *)
(* reserves, every price history and every sequence of operations of the   *)
(* pool between them.                                                      *)
(*                                                                         *)
(* The order of the argument: the amounts of a settlement; the burn of the *)
(* debt; the payment, in aTokens and in underlying; the two accruals; then *)
(* what a whole call does, and with it the types, the sums, the bonus, the *)
(* close factor and the surplus of the pool. The same facts about the      *)
(* amounts and the burns carry the execution of an authorization.  At the  *)
(* end, that none of these steps harms a healthy account.                  *)
(***************************************************************************)
EXTENDS TwoStepLiquidation, LendingPoolProofs

(* What a unit of the collateral, and a unit of the debt with the bonus on *)
(* it, weigh in a common measure: seizing s for c is within the bonus when *)
(* s * seized_weight <= c * covered_weight (calculation.rs,                *)
(* calculate_liquidation_amounts_with_reserves).                           *)
seized_weight(coll, debt) ==
  price[coll] * reserve[debt].configuration.decimals_pow
    * BASIS_POINTS_MULTIPLIER

covered_weight(coll, debt) ==
  price[debt] * reserve[coll].configuration.decimals_pow
    * (BASIS_POINTS_MULTIPLIER + reserve[coll].configuration.liquidation_bonus)

(* Three divisions in a row, each rounding down (the value of the debt,    *)
(* the bonus on it, the collateral it buys), never exceed the product that *)
(* is not rounded.                                                         *)
LEMMA ChainOfBounds ==
  ASSUME NEW a \in Nat, NEW p \in Nat, NEW q \in Nat, NEW o \in Nat,
         NEW d \in Nat, NEW e \in Nat, NEW m \in Nat, NEW k \in Nat,
         NEW base \in Nat, NEW bonus \in Nat, NEW w \in Nat, o > 0,
         base * d <= a * p * o,
         bonus * m <= base * k,
         w * (q * o) <= (base + bonus) * e
  PROVE  w * (q * d * m) <= a * (p * e * (m + k))
  <1>1. (base + bonus) * m <= base * (m + k)
    <2>1. /\ (base + bonus) * m = base * m + bonus * m
          /\ base * (m + k) = base * m + base * k
      BY SMT
    <2>2. base * m \in Nat /\ bonus * m \in Nat /\ base * k \in Nat
      BY ProductNat
    <2> QED
      BY <2>1, <2>2
  <1>2. w * (q * o) * (d * m) <= (base + bonus) * e * (d * m)
    <2>1. w * (q * o) \in Nat /\ (base + bonus) * e \in Nat /\ d * m \in Nat
      BY ProductNat
    <2> QED
      BY <2>1, ProductMonotone, SMT
  <1>3. (base + bonus) * m * (e * d) <= base * (m + k) * (e * d)
    <2>1. (base + bonus) * m \in Nat /\ base * (m + k) \in Nat /\ e * d \in Nat
      BY ProductNat
    <2> QED
      BY <1>1, <2>1, ProductMonotone, SMT
  <1>4. base * d * (e * (m + k)) <= a * p * o * (e * (m + k))
    <2>1. base * d \in Nat /\ a * p * o \in Nat /\ e * (m + k) \in Nat
      BY ProductNat
    <2> QED
      BY <2>1, ProductMonotone, SMT
  <1>5. /\ w * (q * o) * (d * m) = (w * (q * d * m)) * o
        /\ (base + bonus) * e * (d * m) = (base + bonus) * m * (e * d)
        /\ base * (m + k) * (e * d) = base * d * (e * (m + k))
        /\ a * p * o * (e * (m + k)) = (a * (p * e * (m + k))) * o
    BY SMT
  <1> DEFINE x == w * (q * d * m)
             y == a * (p * e * (m + k))
  <1>6. x \in Nat /\ y \in Nat
    BY ProductNat
  <1>7. x * o <= y * o
    <2>1. /\ x * o \in Nat /\ (base + bonus) * m * (e * d) \in Nat
          /\ base * d * (e * (m + k)) \in Nat /\ y * o \in Nat
      BY ProductNat, <1>6
    <2> QED
      BY <1>2, <1>3, <1>4, <1>5, <2>1
  <1> HIDE DEF x, y
  <1>8. x <= y
    BY <1>6, <1>7, SMT
  <1> QED
    BY <1>8 DEF x, y

(* What the market and the configuration contribute are naturals. *)
LEMMA MarketType ==
  ASSUME TypeOK, NEW r \in Reserves
  PROVE  LET c == reserve[r].configuration
         IN  /\ price[r] \in Nat
             /\ c.decimals_pow \in Nat /\ c.decimals_pow > 0
             /\ c.liquidation_bonus \in Nat /\ c.min_remaining_debt \in Nat
BY DEF TypeOK, ReserveData, ValidConfiguration, ReserveConfiguration

(* The value of an amount is the price of it, rounded down. *)
LEMMA ValueType ==
  ASSUME TypeOK, NEW r \in Reserves, NEW a \in Nat
  PROVE  /\ value_in_base(r, a) \in Nat
         /\ value_in_base(r, a) * reserve[r].configuration.decimals_pow
              <= a * price[r] * ORACLE_TO_WAD
<1> DEFINE d == reserve[r].configuration.decimals_pow
<1>1. d \in Nat /\ d > 0 /\ price[r] \in Nat /\ ORACLE_TO_WAD \in Nat
  BY MarketType, PoolAssumption
<1>2. a * price[r] * ORACLE_TO_WAD \in Nat
  BY <1>1, ProductNat
<1> HIDE DEF d
<1> QED BY <1>1, <1>2, DivBounds DEF value_in_base, d

(* A larger amount is worth no less. *)
LEMMA ValueMonotone ==
  ASSUME TypeOK, NEW r \in Reserves, NEW a \in Nat, NEW b \in Nat, a <= b
  PROVE  value_in_base(r, a) <= value_in_base(r, b)
<1> DEFINE d == reserve[r].configuration.decimals_pow
           p == price[r]
           x == a * p * ORACLE_TO_WAD
           y == b * p * ORACLE_TO_WAD
<1>1. d \in Nat /\ d > 0 /\ p \in Nat /\ ORACLE_TO_WAD \in Nat
  BY MarketType, PoolAssumption
<1>2. x \in Nat /\ y \in Nat
  BY <1>1, ProductNat
<1>3. x <= y
  <2>1. a * p <= b * p /\ a * p \in Nat /\ b * p \in Nat
    BY <1>1, ProductNat, ProductMonotone, SMT
  <2> HIDE DEF p
  <2> QED BY <1>1, <2>1, ProductMonotone, SMT
<1> HIDE DEF x, y, d
<1>4. (x \div d) * d <= y
  BY <1>1, <1>2, <1>3, DivBounds
<1>5. x \div d <= y \div d
  BY <1>1, <1>2, <1>4, DivBounds, DivAtLeast
<1> QED BY <1>5 DEF value_in_base, x, y, d

(* The collateral an amount of debt buys, at the prices of today with the  *)
(* bonus and never more.                                                   *)
LEMMA WantedBound ==
  ASSUME TypeOK, NEW coll \in Reserves, NEW debt \in Reserves,
         price[coll] > 0, NEW a \in Nat
  PROVE  LET wanted == collateral_to_seize(coll, debt, a)
         IN  /\ wanted \in Nat
             /\ wanted * seized_weight(coll, debt)
                  <= a * covered_weight(coll, debt)
<1> DEFINE p == price[debt]
           q == price[coll]
           d == reserve[debt].configuration.decimals_pow
           e == reserve[coll].configuration.decimals_pow
           k == reserve[coll].configuration.liquidation_bonus
           o == ORACLE_TO_WAD
           m == BASIS_POINTS_MULTIPLIER
           base  == value_in_base(debt, a)
           bonus == (base * k) \div m
           w     == ((base + bonus) * e) \div (q * o)
<1>1. /\ p \in Nat /\ q \in Nat /\ q > 0 /\ d \in Nat /\ e \in Nat
      /\ k \in Nat /\ o \in Nat /\ o > 0 /\ m \in Nat /\ m > 0
  BY MarketType, PoolAssumption, ScaleAssumption
<1>2. base \in Nat /\ base * d <= a * p * o
  BY ValueType
<1> HIDE DEF p, q, d, e, k, o, m, base
<1>3. bonus \in Nat /\ bonus * m <= base * k
  BY <1>1, <1>2, ProductNat, DivBounds
<1> HIDE DEF bonus
<1>4. w \in Nat /\ w * (q * o) <= (base + bonus) * e
  <2>1. (base + bonus) * e \in Nat /\ q * o \in Nat /\ q * o > 0
    BY <1>1, <1>2, <1>3, ProductNat, SMT
  <2> QED BY <2>1, DivBounds
<1> HIDE DEF w
<1>5. w * (q * d * m) <= a * (p * e * (m + k))
  BY <1>1, <1>2, <1>3, <1>4, ChainOfBounds
<1>6. collateral_to_seize(coll, debt, a) = w
  BY DEF collateral_to_seize, amount_of_base, w, bonus, base, k, m, e, q, o
<1> QED BY <1>4, <1>5, <1>6
        DEF seized_weight, covered_weight, p, q, d, e, k, m

(* Cutting a purchase to the balance at hand keeps the rate.               *)
LEMMA CutKeepsRate ==
  ASSUME NEW x \in Nat, NEW y \in Nat, NEW a \in Nat,
         NEW wanted \in Nat, NEW balance \in Nat,
         wanted * x <= a * y, balance < wanted
  PROVE  LET covered == (a * balance + wanted - 1) \div wanted
         IN  /\ covered \in Nat /\ covered <= a
             /\ balance * x <= covered * y
<1> DEFINE n == a * balance + wanted - 1
           covered == n \div wanted
<1>1. /\ a * balance \in Nat /\ n \in Nat /\ wanted > 0
      /\ balance * x \in Nat /\ a * y \in Nat
  BY ProductNat
<1>2. a * balance + a <= a * wanted
  <2>1. balance + 1 <= wanted /\ balance + 1 \in Nat
    OBVIOUS
  <2>2. a * (balance + 1) <= a * wanted
    BY <2>1, ProductMonotone
  <2> QED BY <2>2
<1>3. /\ covered \in Nat /\ covered * wanted <= n
      /\ a * balance <= covered * wanted
  <2> HIDE DEF n
  <2>1. /\ covered \in Nat /\ covered * wanted <= n
        /\ n < covered * wanted + wanted
    BY <1>1, DivBounds
  <2>2. covered * wanted \in Nat /\ a * balance \in Nat
    BY <2>1, <1>1, ProductNat
  <2> HIDE DEF covered
  <2> QED BY <2>1, <2>2 DEF n
<1> HIDE DEF covered, n
<1>4. covered <= a
  <2>1. n < (a + 1) * wanted
    <3>1. a * wanted \in Nat /\ (a + 1) * wanted = a * wanted + wanted
      BY ProductNat, SMT
    <3>2. a * balance <= a * wanted
      BY <1>2, <1>1, <3>1
    <3> QED BY <1>1, <3>1, <3>2 DEF n
  <2>2. covered < a + 1
    BY <1>1, <2>1, DivBelow DEF covered
  <2> QED BY <1>3, <2>2
<1>5. balance * x <= covered * y
  <2>1. balance * (wanted * x) <= balance * (a * y)
    BY <1>1, ProductNat, ProductMonotone
  <2>2. (a * balance) * y <= (covered * wanted) * y
    <3>1. covered * wanted \in Nat
      BY <1>3, ProductNat
    <3> QED BY <1>1, <1>3, <3>1, ProductMonotone, SMT
  <2>3. /\ balance * (wanted * x) = (balance * x) * wanted
        /\ balance * (a * y) = (a * balance) * y
        /\ (covered * wanted) * y = (covered * y) * wanted
    BY <1>3, SMT
  <2>4. (balance * x) * wanted <= (covered * y) * wanted
    <3>1. /\ (balance * x) * wanted \in Nat /\ (covered * y) * wanted \in Nat
          /\ (a * balance) * y \in Nat
      BY <1>1, <1>3, ProductNat
    <3> QED BY <2>1, <2>2, <2>3, <3>1
  <2> DEFINE s == balance * x
             t == covered * y
  <2>5. s \in Nat /\ t \in Nat
    BY <1>3, ProductNat
  <2> HIDE DEF s, t
  <2>6. s * wanted <= t * wanted
    BY <2>4 DEF s, t
  <2>7. s <= t
    BY <1>1, <2>5, <2>6, SMT
  <2> QED BY <2>7 DEF s, t
<1> QED BY <1>3, <1>4, <1>5 DEF covered, n

(* The fee and the share of it in the collateral. *)
LEMMA FeeType ==
  ASSUME TypeOK, NEW coll \in Reserves, NEW debt \in Reserves,
         price[coll] > 0, NEW a \in Nat
  PROVE  /\ protocol_fee(coll, debt, a) \in Nat
         /\ FLASH_LOAN_PREMIUM = 0 => protocol_fee(coll, debt, a) = 0
<1> DEFINE p == price[debt]
           q == price[coll]
           d == reserve[debt].configuration.decimals_pow
           e == reserve[coll].configuration.decimals_pow
           m == BASIS_POINTS_MULTIPLIER
           n == a * FLASH_LOAN_PREMIUM + m - 1
           cut == n \div m
           x == cut * p * e
<1>1. /\ p \in Nat /\ q \in Nat /\ q > 0 /\ d \in Nat /\ d > 0 /\ e \in Nat
      /\ m \in Nat /\ m > 0 /\ FLASH_LOAN_PREMIUM \in Nat
  BY MarketType, ScaleAssumption, LiquidationAssumption
<1> HIDE DEF p, q, d, e, m
<1>2. cut \in Nat /\ (FLASH_LOAN_PREMIUM = 0 => cut = 0)
  <2>1. a * FLASH_LOAN_PREMIUM \in Nat /\ n \in Nat
    BY <1>1, ProductNat
  <2>2. cut \in Nat
    <3> HIDE DEF n
    <3> QED BY <1>1, <2>1, DivBounds
  <2>3. ASSUME FLASH_LOAN_PREMIUM = 0
        PROVE  cut = 0
    <3>1. a * FLASH_LOAN_PREMIUM = 0
      BY <2>3
    <3>2. n < 1 * m
      BY <1>1, <3>1
    <3> HIDE DEF n
    <3>3. cut < 1
      BY <1>1, <2>1, <3>2, DivBelow
    <3> QED BY <2>2, <3>3
  <2> QED BY <2>2, <2>3
<1> HIDE DEF cut
<1>3. x \in Nat /\ (cut = 0 => x = 0)
  <2>1. x \in Nat
    BY <1>1, <1>2, ProductNat
  <2>2. cut = 0 => x = 0
    <3>1. 0 * p = 0 /\ 0 * e = 0
      BY <1>1
    <3> QED BY <3>1
  <2> QED BY <2>1, <2>2
<1> HIDE DEF x
<1>4. x \div q \in Nat /\ (x = 0 => x \div q = 0)
  BY <1>1, <1>3, DivBounds
<1>5. (x \div q) \div d \in Nat /\ (x \div q = 0 => (x \div q) \div d = 0)
  BY <1>1, <1>4, DivBounds
<1>6. protocol_fee(coll, debt, a) = (x \div q) \div d
  BY DEF protocol_fee, percent_mul_up, x, cut, n, m, p, e, q, d
<1> QED BY <1>2, <1>3, <1>4, <1>5, <1>6

(***************************************************************************)
(* What a settlement comes to, however the requested amount was adjusted.  *)
(***************************************************************************)
LEMMA AskedType ==
  ASSUME TypeOK, NEW debt \in Reserves, NEW db \in Nat, NEW n \in Nat
  PROVE  LET asked == debt_covered(reserve[debt].configuration, db, n)
         IN  asked \in Nat /\ asked \in {db, n}
BY DEF debt_covered

(* What the rest of the argument needs to know of a settlement: the        *)
(* seizure is backed by the balance and by what it pays, the fee comes out *)
(* of it, and a call that leaves a debt covers no more than was asked for. *)
settlement_ok(coll, debt, cb, db, n, s) ==
  /\ s.covered \in Nat /\ s.seized \in Nat /\ s.fee \in Nat
  /\ s.bad_debt \in Nat
  /\ s.seized <= cb
  /\ s.collateral_left = cb - s.seized
  /\ s.to_liquidator = s.seized - s.fee
  /\ FLASH_LOAN_PREMIUM = 0 => s.fee = 0
  /\ s.debt_left = 0 \/ s.covered <= n
  /\ s.bad_debt > 0 => s.debt_left = 0
  /\ s.seized * seized_weight(coll, debt)
       <= s.covered * covered_weight(coll, debt)

(* Every settlement is such, cut to the collateral at hand or not, with    *)
(* its bad debt written off or not.                                        *)
LEMMA SettlementBounds ==
  ASSUME TypeOK, NEW coll \in Reserves, NEW debt \in Reserves,
         price[coll] > 0,
         NEW cb \in Nat, NEW db \in Nat, NEW n \in Nat
  PROVE  settlement_ok(coll, debt, cb, db, n,
                       settlement(coll, debt, cb, db, n))
<1> DEFINE s       == settlement(coll, debt, cb, db, n)
           asked   == debt_covered(reserve[debt].configuration, db, n)
           wanted  == collateral_to_seize(coll, debt, asked)
           capped  == wanted > cb
           cut     == (asked * cb + wanted - 1) \div wanted
           covered == IF capped THEN cut ELSE asked
           seized  == IF capped THEN cb ELSE wanted
           x == seized_weight(coll, debt)
           y == covered_weight(coll, debt)
<1>1. asked \in Nat /\ asked \in {db, n}
  BY AskedType
<1>2. /\ s.covered = covered /\ s.seized = seized
      /\ s.fee = protocol_fee(coll, debt, covered)
      /\ s.to_liquidator = s.seized - s.fee
      /\ s.collateral_left = cb - seized
      /\ s.bad_debt = IF capped /\ db > covered THEN db - covered ELSE 0
      /\ s.debt_left = IF capped /\ db > covered THEN 0 ELSE db - covered
  BY DEF settlement
<1> HIDE DEF s, asked
<1>3. x \in Nat /\ y \in Nat
  <2>1. /\ price[coll] \in Nat /\ price[debt] \in Nat
        /\ reserve[debt].configuration.decimals_pow \in Nat
        /\ reserve[coll].configuration.decimals_pow \in Nat
        /\ reserve[coll].configuration.liquidation_bonus \in Nat
        /\ BASIS_POINTS_MULTIPLIER \in Nat
    BY MarketType, ScaleAssumption
  <2> QED BY <2>1, ProductNat DEF seized_weight, covered_weight
<1>4. wanted \in Nat /\ wanted * x <= asked * y
  BY <1>1, WantedBound
<1> HIDE DEF wanted, x, y
<1>5. capped => /\ cut \in Nat /\ cut <= asked /\ cb * x <= cut * y
  BY <1>1, <1>3, <1>4, CutKeepsRate
<1> HIDE DEF cut
<1>6. /\ covered \in Nat /\ covered <= asked /\ seized \in Nat /\ seized <= cb
      /\ seized * x <= covered * y
  BY <1>1, <1>4, <1>5
<1>7. s.fee \in Nat /\ (FLASH_LOAN_PREMIUM = 0 => s.fee = 0)
  <2> HIDE DEF covered
  <2> QED BY <1>2, <1>6, FeeType
<1>8. s.bad_debt \in Nat /\ (s.bad_debt > 0 => s.debt_left = 0)
  BY <1>2, <1>6
<1>9. s.debt_left = 0 \/ s.covered <= n
  <2>1. CASE asked = n
    BY <1>2, <1>6, <2>1
  <2>2. CASE asked = db
    BY <1>2, <1>5, <1>6, <2>2
  <2> QED BY <1>1, <2>1, <2>2
<1> HIDE DEF covered, seized
<1>10. s.seized * x <= s.covered * y
  BY <1>2, <1>6
<1> QED BY <1>2, <1>6, <1>7, <1>8, <1>9, <1>10 DEF settlement_ok, x, y, s

(* One call of the debt token, and two in a row: at most a scaled unit     *)
(* more than was paid for, and then nothing is left.                       *)
LEMMA OneDebtBurn ==
  ASSUME NEW held \in Nat, NEW amount \in Nat, NEW index \in Nat, index > 0,
         ray_div_down(amount, index) <= held
  PROVE  LET burned == debt_burned(held, amount, index)
             floor  == ray_div_down(amount, index)
         IN  /\ floor \in Nat /\ floor * index <= amount * RAY
             /\ burned \in Nat /\ burned <= held
             /\ burned <= floor + 1
             /\ burned = floor \/ burned = held
<1>1. /\ ray_div_down(amount, index) \in Nat
      /\ ray_div_down(amount, index) * index <= amount * RAY
  BY QuotientBounds
<1> QED BY <1>1 DEF debt_burned

(* What a burn costs the pool: nothing, or a unit when it empties.         *)
burn_paid(held, burned, index, paid) ==
  \/ burned * index <= paid
  \/ held > 0 /\ burned = held /\ burned * index <= paid + index

(* One call of the debt token costs at most what was paid for it. *)
LEMMA OneBurnPaid ==
  ASSUME NEW held \in Nat, NEW amount \in Nat, NEW index \in Nat, index > 0,
         ray_div_down(amount, index) <= held
  PROVE  burn_paid(held, debt_burned(held, amount, index), index, amount * RAY)
<1> DEFINE burned == debt_burned(held, amount, index)
           floor  == ray_div_down(amount, index)
           paid == amount * RAY
<1>1. /\ floor \in Nat /\ floor * index <= paid
      /\ burned \in Nat /\ burned <= held /\ burned <= floor + 1
      /\ burned = floor \/ burned = held
  BY OneDebtBurn
<1>2. paid \in Nat
  BY ProductNat, ScaleAssumption
<1> HIDE DEF burned, floor, paid
<1>3. CASE burned <= floor
  <2>1. burned * index <= floor * index /\ burned * index \in Nat
        /\ floor * index \in Nat
    BY <1>1, <1>3, ProductNat, ProductMonotone, SMT
  <2>2. burned * index <= paid
    BY <1>1, <1>2, <2>1
  <2> QED BY <2>2 DEF burn_paid, burned, paid
<1>4. CASE burned > floor
  <2>1. burned = floor + 1 /\ burned = held /\ held > 0
    BY <1>1, <1>4
  <2>2. (floor + 1) * index = floor * index + index
    BY <1>1, SMT
  <2>3. floor * index \in Nat
    BY <1>1, ProductNat
  <2>4. burned * index <= paid + index
    BY <1>1, <1>2, <2>1, <2>2, <2>3
  <2> QED BY <2>1, <2>4 DEF burn_paid, burned, paid
<1> QED BY <1>1, <1>3, <1>4

(* So do two in a row, the covered debt and the bad debt after it. *)
LEMMA TwoBurnsPaid ==
  ASSUME NEW held \in Nat, NEW first \in Nat, NEW second \in Nat,
         NEW x \in Nat, NEW y \in Nat, NEW index \in Nat,
         first <= held, second <= held - first,
         burn_paid(held, first, index, x),
         burn_paid(held - first, second, index, y)
  PROVE  burn_paid(held, first + second, index, x + y)
<1> DEFINE a == first * index
           b == second * index
<1>1. (first + second) * index = a + b /\ a \in Nat /\ b \in Nat
  BY ProductNat, SMT
<1>2. first = held => second = 0 /\ b = 0
  <2>1. 0 * index = 0
    OBVIOUS
  <2>2. first = held => second = 0
    OBVIOUS
  <2> QED BY <2>1, <2>2
<1>3. /\ \/ a <= x
         \/ held > 0 /\ first = held /\ a <= x + index
      /\ \/ b <= y
         \/ held - first > 0 /\ second = held - first /\ b <= y + index
  BY DEF burn_paid
<1> HIDE DEF a, b
<1>4. \/ a + b <= x + y
      \/ held > 0 /\ first + second = held /\ a + b <= x + y + index
  BY <1>1, <1>2, <1>3
<1> QED BY <1>1, <1>4 DEF burn_paid

-----------------------------------------------------------------------------
(* The balances and the settlement that a liquidation call starts from. *)
collateral_of(u, r) ==
  IF r \in collateral[u] THEN supplied(r, u, update_state(reserve[r])) ELSE 0

debt_of(u, r) ==
  IF r \in borrowing[u] THEN owed(r, u, update_state(reserve[r])) ELSE 0

settled(u, coll, debt, n) ==
  settlement(coll, debt, collateral_of(u, coll), debt_of(u, debt), n)

accrued_liquidity(r) == update_state(reserve[r]).liquidity_index

accrued_borrow(r) == update_state(reserve[r]).variable_borrow_index

(* A call of liquidation_call is made of the settlement, the burn of the   *)
(* debt, the payment and the two accruals.                                 *)
LEMMA LiquidationParts ==
  ASSUME NEW l \in Users, NEW u \in Users,
         NEW coll \in Reserves, NEW debt \in Reserves,
         NEW n \in Nat, NEW b \in BOOLEAN,
         LiquidationCall(l, u, coll, debt, n, b)
  PROVE  LET s == settled(u, coll, debt, n)
         IN  /\ coll # debt /\ price[coll] > 0 /\ price[debt] > 0
             /\ FLASH_LOAN_PREMIUM > 0 => s.seized > s.fee
             /\ Pay(l, coll, debt, s, b)
             /\ BurnDebt(u, debt, s, accrued_borrow(debt))
             /\ IF b
                THEN PayInATokens(l, u, coll, s, accrued_liquidity(coll))
                ELSE PayInUnderlying(l, u, coll, s, accrued_liquidity(coll))
             /\ StoreRates(coll, debt, update_state(reserve[coll]),
                           update_state(reserve[debt]))
             /\ UNCHANGED environment
BY DEF LiquidationCall, settled, collateral_of, debt_of, accrued_liquidity,
       accrued_borrow, get_asset_prices_batch, prices_available,
       validate_liquidation

(* Both balances that a call starts from are naturals. *)
LEMMA BalancesType ==
  ASSUME TypeOK, NEW u \in Users, NEW r \in Reserves
  PROVE  collateral_of(u, r) \in Nat /\ debt_of(u, r) \in Nat
<1>1. u \in Accounts
  BY UserIsAccount
<1>2. scaled_balance[r][u] \in Nat /\ scaled_debt[r][u] \in Nat
  BY <1>1 DEF TypeOK
<1>3. /\ supplied(r, u, update_state(reserve[r])) \in Nat
      /\ owed(r, u, update_state(reserve[r])) \in Nat
  BY <1>2, AccruedIndices, RayMulType DEF supplied, owed
<1> QED BY <1>3 DEF collateral_of, debt_of

(* The amounts of a call: the fee never exceeds the seizure.               *)
LEMMA LiquidationAmounts ==
  ASSUME TypeOK, NEW l \in Users, NEW u \in Users,
         NEW coll \in Reserves, NEW debt \in Reserves,
         NEW n \in Nat, NEW b \in BOOLEAN,
         LiquidationCall(l, u, coll, debt, n, b)
  PROVE  LET s == settled(u, coll, debt, n)
         IN  /\ settlement_ok(coll, debt, collateral_of(u, coll),
                              debt_of(u, debt), n, s)
             /\ s.fee <= s.seized /\ s.to_liquidator \in Nat
<1> DEFINE s == settled(u, coll, debt, n)
<1>1. price[coll] > 0 /\ (FLASH_LOAN_PREMIUM > 0 => s.seized > s.fee)
  BY LiquidationParts
<1>2. collateral_of(u, coll) \in Nat /\ debt_of(u, debt) \in Nat
  BY BalancesType
<1>3. settlement_ok(coll, debt, collateral_of(u, coll), debt_of(u, debt), n, s)
  BY <1>1, <1>2, SettlementBounds DEF settled
<1> HIDE DEF s
<1>4. s.fee <= s.seized /\ s.to_liquidator \in Nat
  BY <1>1, <1>3, LiquidationAssumption DEF settlement_ok
<1> QED BY <1>3, <1>4 DEF s

(* The debt that a call burns.                                             *)
debt_of_call_burned(u, debt, s) ==
  LET held  == scaled_debt[debt][u]
      first == debt_burned(held, s.covered, accrued_borrow(debt))
  IN  first + bad_debt_burned(held - first, s.bad_debt, accrued_borrow(debt))

(* It is a burn of the debt token: at most the debt of the account, at     *)
(* most a scaled unit above what the amounts are worth, all of it when     *)
(* nothing is to be left.                                                  *)
LEMMA LiquidationBurns ==
  ASSUME TypeOK, NEW u \in Users, NEW debt \in Reserves, NEW s,
         s.covered \in Nat, s.bad_debt \in Nat,
         BurnDebt(u, debt, s, accrued_borrow(debt))
  PROVE  LET burned == debt_of_call_burned(u, debt, s)
             held   == scaled_debt[debt][u]
             index  == accrued_borrow(debt)
         IN  /\ burned \in Nat /\ burned <= held
             /\ burn_paid(held, burned, index,
                          s.covered * RAY + s.bad_debt * RAY)
             /\ s.bad_debt = 0 =>
                  burned <= ray_div_down(s.covered, index) + 1
             /\ DebtBurn(debt, u, burned)
<1> DEFINE held  == scaled_debt[debt][u]
           index == accrued_borrow(debt)
           first == debt_burned(held, s.covered, index)
           rest  == held - first
           second == bad_debt_burned(rest, s.bad_debt, index)
           x == s.covered * RAY
           y == s.bad_debt * RAY
<1>1. /\ held \in Nat /\ index \in Nat /\ index > 0
      /\ x \in Nat /\ y \in Nat
  <2>1. u \in Accounts
    BY UserIsAccount
  <2> QED BY <2>1, AccruedIndices, ProductNat, ScaleAssumption
          DEF TypeOK, accrued_borrow
<1>2. /\ ray_div_down(s.covered, index) <= held
      /\ s.bad_debt > 0 => ray_div_down(s.bad_debt, index) <= rest
      /\ DebtBurn(debt, u, first + second)
  BY DEF BurnDebt, covers
<1> HIDE DEF held, index
<1>3. /\ first \in Nat /\ first <= held
      /\ first <= ray_div_down(s.covered, index) + 1
      /\ burn_paid(held, first, index, x)
  BY <1>1, <1>2, OneDebtBurn, OneBurnPaid
<1> HIDE DEF first
<1>4. rest \in Nat
  BY <1>1, <1>3
<1> HIDE DEF rest
<1>5. /\ second \in Nat /\ second <= rest
      /\ burn_paid(rest, second, index, y)
      /\ s.bad_debt = 0 => second = 0
  <2>1. CASE s.bad_debt > 0
    <3>1. second = debt_burned(rest, s.bad_debt, index)
      BY <2>1 DEF bad_debt_burned
    <3> QED BY <1>1, <1>2, <1>4, <2>1, <3>1, OneDebtBurn, OneBurnPaid
  <2>2. CASE s.bad_debt = 0
    <3>1. second = 0 /\ 0 * index = 0
      BY <1>1, <2>2 DEF bad_debt_burned
    <3> QED BY <1>1, <1>4, <3>1 DEF burn_paid
  <2> QED BY <2>1, <2>2
<1> HIDE DEF second, x, y
<1>6. /\ first + second \in Nat /\ first + second <= held
      /\ burn_paid(held, first + second, index, x + y)
      /\ s.bad_debt = 0 => first + second <= ray_div_down(s.covered, index) + 1
  <2>1. burn_paid(held, first + second, index, x + y)
    BY <1>1, <1>3, <1>4, <1>5, TwoBurnsPaid DEF rest
  <2> QED BY <1>1, <1>3, <1>4, <1>5, <2>1 DEF rest
<1>7. debt_of_call_burned(u, debt, s) = first + second
  BY DEF debt_of_call_burned, first, second, rest, held, index
<1> QED BY <1>2, <1>6, <1>7 DEF held, index, x, y

(* A transfer, perhaps to oneself, in one row of balances. *)
LEMMA TransferRow ==
  ASSUME NEW before \in [Accounts -> Nat],
         NEW from \in Accounts, NEW to \in Accounts,
         NEW n \in Nat, n <= before[from]
  PROVE  LET row == transferred(before, from, to, n)
         IN  /\ row \in [Accounts -> Nat]
             /\ from = to => row = before
             /\ from # to => /\ row[from] = before[from] - n
                             /\ row[to] = before[to] + n
             /\ \A a \in Accounts \ {from, to} : row[a] = before[a]
             /\ SumFunctionOnSet(row, Accounts)
                  = SumFunctionOnSet(before, Accounts)
<1> DEFINE less == debited(before, from, n)
           row  == transferred(before, from, to, n)
<1>1. before[from] - n \in Nat /\ before[from] \in Nat
  OBVIOUS
<1>2. /\ less \in [Accounts -> Nat] /\ less[from] = before[from] - n
      /\ \A a \in Accounts : a # from => less[a] = before[a]
  BY <1>1 DEF debited
<1>3. row = [less EXCEPT ![to] = less[to] + n]
  BY DEF transferred
<1> HIDE DEF less, row
<1>4. less[to] + n \in Nat
  BY <1>2
<1>5. /\ row \in [Accounts -> Nat] /\ row[to] = less[to] + n
      /\ \A a \in Accounts : a # to => row[a] = less[a]
  BY <1>2, <1>3, <1>4
<1>6. ASSUME from = to
      PROVE  row = before
  <2>1. \A a \in Accounts : row[a] = before[a]
    <3>1. row[to] = before[to]
      BY <1>1, <1>2, <1>5, <1>6
    <3> QED BY <1>2, <1>5, <1>6, <3>1
  <2> QED BY <1>5, <2>1
<1>7. ASSUME from # to
      PROVE  row[from] = before[from] - n /\ row[to] = before[to] + n
  BY <1>2, <1>5, <1>7
<1>8. \A a \in Accounts \ {from, to} : row[a] = before[a]
  BY <1>2, <1>5
<1>9. SumFunctionOnSet(row, Accounts) = SumFunctionOnSet(before, Accounts)
  <2>1. CASE from = to
    BY <1>6, <2>1
  <2>2. CASE from # to
    BY <1>5, <1>7, <1>8, <2>2, MoveKeepsSum
  <2> QED BY <2>1, <2>2
<1> QED BY <1>5, <1>6, <1>7, <1>8, <1>9 DEF row

(***************************************************************************)
(* Payment in aTokens: only the account pays, it pays no more shares than  *)
(* the seized amount buys, and the sum of the balances stays.              *)
(***************************************************************************)
LEMMA SharesOfParts ==
  ASSUME NEW x \in Nat, NEW y \in Nat, NEW i \in Nat, i > 0
  PROVE  (ray_div_down(x, i) + ray_div_down(y, i)) * i <= (x + y) * RAY
<1> DEFINE p == ray_div_down(x, i)
           q == ray_div_down(y, i)
<1>1. p \in Nat /\ q \in Nat /\ p * i <= x * RAY /\ q * i <= y * RAY
  BY QuotientBounds
<1> HIDE DEF p, q
<1>2. (p + q) * i = p * i + q * i /\ (x + y) * RAY = x * RAY + y * RAY
  BY <1>1, ScaleAssumption, SMT
<1>3. p * i \in Nat /\ q * i \in Nat /\ x * RAY \in Nat /\ y * RAY \in Nat
  BY <1>1, ProductNat, ScaleAssumption
<1>4. (p + q) * i <= (x + y) * RAY
  BY <1>1, <1>2, <1>3
<1> QED BY <1>4 DEF p, q

(* Payment in aTokens, on one row of balances: nobody but the account      *)
(* loses shares, and it loses no more than the seized amount buys.         *)
payment_ok(u, coll, seized, after) ==
  LET before == scaled_balance[coll]
      index  == accrued_liquidity(coll)
  IN  /\ after \in [Accounts -> Nat]
      /\ \A a \in Accounts : a # u => after[a] >= before[a]
      /\ (before[u] - after[u]) * index <= seized * RAY
      /\ SumFunctionOnSet(after, Accounts) = SumFunctionOnSet(before, Accounts)

(* Payment in aTokens: only the account pays, it pays no more shares than  *)
(* the seized amount buys, and the sum of the balances stays               *)
(* (transfer_on_liquidation, to the treasury and to the liquidator).       *)
LEMMA PaidInATokens ==
  ASSUME TypeOK, NEW l \in Users, NEW u \in Users, NEW coll \in Reserves,
         NEW s, s.to_liquidator \in Nat, s.fee \in Nat, s.seized \in Nat,
         s.to_liquidator = s.seized - s.fee,
         PayInATokens(l, u, coll, s, accrued_liquidity(coll))
  PROVE  /\ scaled_balance' \in [Reserves -> [Accounts -> Nat]]
         /\ \A q \in Reserves : q # coll =>
              scaled_balance'[q] = scaled_balance[q]
         /\ payment_ok(u, coll, s.seized, scaled_balance'[coll])
         /\ total_supply_scaled' = total_supply_scaled
         /\ collateral' \in [Accounts -> SUBSET Reserves]
<1> DEFINE index == accrued_liquidity(coll)
           m == ray_div_down(s.to_liquidator, index)
           f == ray_div_down(s.fee, index)
           held == scaled_balance[coll]
           paid == transferred(held, u, l, m)
           after == transferred(paid, u, Treasury, f)
<1>1. /\ u \in Accounts /\ l \in Accounts /\ Treasury \in Accounts
      /\ u # Treasury /\ l # Treasury
  BY UserIsAccount, PoolAssumption DEF Accounts
<1>2. /\ index \in Nat /\ index > 0 /\ held \in [Accounts -> Nat]
      /\ m \in Nat /\ f \in Nat /\ (s.fee = 0 => f = 0)
  <2>1. index \in Nat /\ index > 0
    BY AccruedIndices DEF accrued_liquidity
  <2>2. m \in Nat /\ f \in Nat /\ f * index <= s.fee * RAY
    BY <2>1, QuotientBounds
  <2>3. s.fee = 0 => f = 0
    <3> HIDE DEF f
    <3>1. ASSUME s.fee = 0
          PROVE  f = 0
      <4>1. f * index <= 0
        BY <2>2, <3>1, ScaleAssumption
      <4> QED BY <2>1, <2>2, <4>1, SMT
    <3> QED BY <3>1
  <2> QED BY <2>1, <2>2, <2>3 DEF TypeOK
<1>3. /\ m <= held[u] /\ (s.fee > 0 => f <= paid[u])
      /\ scaled_balance' = [scaled_balance EXCEPT ![coll] = after]
      /\ total_supply_scaled' = total_supply_scaled
  BY DEF PayInATokens
<1>4. (m + f) * index <= s.seized * RAY
  <2>1. (m + f) * index <= (s.to_liquidator + s.fee) * RAY
    BY <1>2, SharesOfParts
  <2>2. s.to_liquidator + s.fee = s.seized
    OBVIOUS
  <2> QED BY <2>1, <2>2
<1>5. collateral' \in [Accounts -> SUBSET Reserves]
  <2> DEFINE liquidator_flags(b) ==
        [collateral EXCEPT ![l] = IF b THEN @ \union {coll} ELSE @]
      user_flags(b, c, d) ==
        [liquidator_flags(b) EXCEPT
          ![Treasury] = IF c THEN @ \union {coll} ELSE @,
          ![u] = IF d THEN @ \ {coll} ELSE @]
  <2>1. \E b, c, d \in BOOLEAN : collateral' = user_flags(b, c, d)
    <3> DEFINE first == debited(held, u, m)[l] = 0
               joins == /\ s.fee > 0 /\ held[Treasury] = 0
                        /\ has_free_slot(Treasury, coll,
                                         liquidator_flags(first))
               spent == s.collateral_left = 0
    <3>1. collateral' = user_flags(first, joins, spent)
      BY DEF PayInATokens
    <3>2. first \in BOOLEAN /\ joins \in BOOLEAN /\ spent \in BOOLEAN
      BY DEF has_free_slot
    <3> HIDE DEF first, joins, spent, user_flags
    <3> QED BY <3>1, <3>2
  <2>2. \A b \in BOOLEAN :
          liquidator_flags(b) \in [Accounts -> SUBSET Reserves]
    BY <1>1 DEF TypeOK
  <2> HIDE DEF liquidator_flags
  <2>3. \A b, c, d \in BOOLEAN :
          user_flags(b, c, d) \in [Accounts -> SUBSET Reserves]
    BY <1>1, <2>2
  <2> HIDE DEF user_flags
  <2> QED BY <2>1, <2>3
<1> HIDE DEF index, m, f, held
<1>6. /\ paid \in [Accounts -> Nat]
      /\ u = l => paid = held
      /\ u # l => paid[u] = held[u] - m /\ paid[l] = held[l] + m
      /\ \A a \in Accounts \ {u, l} : paid[a] = held[a]
      /\ SumFunctionOnSet(paid, Accounts) = SumFunctionOnSet(held, Accounts)
  BY <1>1, <1>2, <1>3, TransferRow
<1> HIDE DEF paid
<1>7. f <= paid[u]
  BY <1>1, <1>2, <1>3, <1>6
<1>8. /\ after \in [Accounts -> Nat]
      /\ after[u] = paid[u] - f /\ after[Treasury] = paid[Treasury] + f
      /\ \A a \in Accounts \ {u, Treasury} : after[a] = paid[a]
      /\ SumFunctionOnSet(after, Accounts) = SumFunctionOnSet(paid, Accounts)
  <2>1. /\ paid \in [Accounts -> Nat] /\ f \in Nat /\ f <= paid[u]
        /\ u \in Accounts /\ Treasury \in Accounts
    BY <1>1, <1>2, <1>6, <1>7
  <2> HIDE DEF after
  <2>2. /\ after \in [Accounts -> Nat]
        /\ u # Treasury => /\ after[u] = paid[u] - f
                           /\ after[Treasury] = paid[Treasury] + f
        /\ \A a \in Accounts \ {u, Treasury} : after[a] = paid[a]
        /\ SumFunctionOnSet(after, Accounts) = SumFunctionOnSet(paid, Accounts)
    BY <2>1, TransferRow DEF after
  <2> QED BY <1>1, <2>2
<1> HIDE DEF after
<1>9. \A a \in Accounts : a # u => after[a] >= held[a]
  <2> SUFFICES ASSUME NEW a \in Accounts, a # u
               PROVE  after[a] >= held[a]
    OBVIOUS
  <2>1. paid[a] >= held[a]
    BY <1>2, <1>6
  <2>2. after[a] >= paid[a]
    BY <1>2, <1>6, <1>8
  <2>3. after[a] \in Nat /\ paid[a] \in Nat /\ held[a] \in Nat
    BY <1>2, <1>6, <1>8
  <2> QED BY <2>1, <2>2, <2>3
<1>10. (held[u] - after[u]) * index <= s.seized * RAY
  <2>1. held[u] - after[u] <= m + f /\ held[u] - after[u] \in Nat
    <3>1. held[u] \in Nat /\ paid[u] \in Nat /\ after[u] \in Nat
      BY <1>1, <1>2, <1>6, <1>8
    <3>2. paid[u] = held[u] \/ paid[u] = held[u] - m
      BY <1>6
    <3> QED BY <1>2, <1>8, <3>1, <3>2
  <2>2. (held[u] - after[u]) * index <= (m + f) * index
    BY <1>2, <2>1, ProductMonotone, SMT
  <2>3. /\ (held[u] - after[u]) * index \in Nat /\ (m + f) * index \in Nat
        /\ s.seized * RAY \in Nat
    BY <1>2, <2>1, ProductNat, ScaleAssumption
  <2> QED BY <1>4, <2>2, <2>3
<1>11. payment_ok(u, coll, s.seized, after)
  BY <1>6, <1>8, <1>9, <1>10 DEF payment_ok, held, index
<1>12. /\ scaled_balance' \in [Reserves -> [Accounts -> Nat]]
       /\ scaled_balance'[coll] = after
       /\ \A q \in Reserves : q # coll => scaled_balance'[q] = scaled_balance[q]
  BY <1>3, <1>8 DEF TypeOK
<1> QED BY <1>3, <1>5, <1>11, <1>12

(* A ceiling is less than a unit above its quotient. *)
LEMMA CeilingBound ==
  ASSUME NEW n \in Nat, NEW i \in Nat, i > 0
  PROVE  /\ ray_div_up(n, i) \in Nat
         /\ ray_div_up(n, i) * i <= n * RAY + i - 1
<1>1. n * RAY \in Nat /\ n * RAY + i - 1 \in Nat
  BY ProductNat, ScaleAssumption
<1> QED BY <1>1, DivBounds DEF ray_div_up

(* The last share that a ceiling takes is not all paid for. *)
LEMMA AllButOneShare ==
  ASSUME NEW shares \in Nat, NEW i \in Nat, NEW total \in Nat, shares > 0,
         shares * i <= total + i - 1
  PROVE  (shares - 1) * i + 1 <= total
<1>1. (shares - 1) * i = shares * i - i
  BY SMT
<1>2. shares * i \in Nat
  BY ProductNat
<1> QED BY <1>1, <1>2

(***************************************************************************)
(* Payment in underlying: shares worth the seized amount, rounded up, or   *)
(* all the shares of the account.                                          *)
(***************************************************************************)
LEMMA ATokenShares ==
  ASSUME TypeOK, NEW u \in Users, NEW r \in Reserves, NEW seized \in Nat
  PROVE  LET index  == accrued_liquidity(r)
             shares == a_token_burned(r, u, seized, index)
         IN  /\ shares \in Nat /\ shares <= scaled_balance[r][u]
             /\ shares * index <= seized * RAY + index - 1
             /\ shares < scaled_balance[r][u] => seized * RAY <= shares * index
<1> DEFINE index  == accrued_liquidity(r)
           held   == scaled_balance[r][u]
           up     == ray_div_up(seized, index)
           shares == IF up > held THEN held ELSE up
<1>1. index \in Nat /\ index > 0 /\ held \in Nat
  BY AccruedIndices, UserIsAccount DEF accrued_liquidity, TypeOK
<1> HIDE DEF index, held
<1>2. /\ up \in Nat /\ up * index <= seized * RAY + index - 1
      /\ seized * RAY <= up * index
  BY <1>1, CeilingBound, QuotientBounds
<1> HIDE DEF up
<1>3. shares \in Nat /\ shares <= held /\ shares <= up
  BY <1>1, <1>2
<1>4. shares < held => shares = up
  BY <1>1, <1>2
<1> HIDE DEF shares
<1>5. shares * index <= up * index
  BY <1>1, <1>2, <1>3, ProductMonotone, SMT
<1>6. shares * index <= seized * RAY + index - 1
  <2>1. /\ shares * index \in Nat /\ up * index \in Nat
        /\ seized * RAY \in Nat
    BY <1>1, <1>2, <1>3, ProductNat, ScaleAssumption
  <2> QED BY <1>1, <1>2, <1>5, <2>1
<1>7. a_token_burned(r, u, seized, index) = shares
  BY DEF a_token_burned, shares, up, held, index
<1> QED BY <1>2, <1>3, <1>4, <1>6, <1>7 DEF held, index

(* Payment in underlying is a burn of those shares                         *)
(* (burn_scaled_and_transfer_to, to the treasury and to the liquidator).   *)
LEMMA PaidInUnderlying ==
  ASSUME TypeOK, NEW l \in Users, NEW u \in Users, NEW coll \in Reserves,
         NEW s, s.seized \in Nat,
         PayInUnderlying(l, u, coll, s, accrued_liquidity(coll))
  PROVE  LET index  == accrued_liquidity(coll)
             shares == a_token_burned(coll, u, s.seized, index)
         IN  /\ ATokenBurn(coll, u, shares)
             /\ shares > 0 /\ s.seized <= cash[coll]
             /\ scaled_balance' \in [Reserves -> [Accounts -> Nat]]
             /\ total_supply_scaled' \in [Reserves -> Nat]
             /\ \A q \in Reserves : q # coll =>
                  scaled_balance'[q] = scaled_balance[q]
             /\ \A a \in Accounts : a # u =>
                  scaled_balance'[coll][a] = scaled_balance[coll][a]
             /\ scaled_balance'[coll][u] = scaled_balance[coll][u] - shares
             /\ collateral' \in [Accounts -> SUBSET Reserves]
<1> DEFINE index  == accrued_liquidity(coll)
           shares == a_token_burned(coll, u, s.seized, index)
<1>1. u \in Accounts
  BY UserIsAccount
<1>2. shares \in Nat /\ shares <= scaled_balance[coll][u]
  BY ATokenShares
<1>3. /\ ATokenBurn(coll, u, shares) /\ s.seized <= cash[coll]
      /\ collateral' = [collateral EXCEPT
           ![u] = IF s.collateral_left = 0 THEN @ \ {coll} ELSE @]
  BY DEF PayInUnderlying
<1> HIDE DEF shares
<1>4. shares > 0
  BY <1>3 DEF ATokenBurn
<1>5. /\ scaled_balance' \in [Reserves -> [Accounts -> Nat]]
      /\ total_supply_scaled' \in [Reserves -> Nat]
  BY <1>1, <1>2, <1>3, ATokenBurnType
<1>6. /\ \A q \in Reserves : q # coll => scaled_balance'[q] = scaled_balance[q]
      /\ \A a \in Accounts : a # u =>
           scaled_balance'[coll][a] = scaled_balance[coll][a]
      /\ scaled_balance'[coll][u] = scaled_balance[coll][u] - shares
  BY <1>1, <1>3 DEF ATokenBurn, TypeOK
<1>7. collateral' \in [Accounts -> SUBSET Reserves]
  BY <1>1, <1>3 DEF TypeOK
<1> QED BY <1>3, <1>4, <1>5, <1>6, <1>7 DEF shares

-----------------------------------------------------------------------------
(* Two reserves are brought up to date and keep their configuration. *)
stored_ok(coll, debt) ==
  /\ reserve' \in [Reserves -> ReserveData]
  /\ \A q \in Reserves : reserve'[q].last_update_timestamp <= now'
  /\ \A q \in Reserves :
       reserve'[q].configuration = reserve[q].configuration
  /\ \A q \in {coll, debt} :
       /\ reserve'[q].last_update_timestamp = now
       /\ reserve'[q].liquidity_index = accrued_liquidity(q)
       /\ reserve'[q].variable_borrow_index = accrued_borrow(q)
  /\ \A q \in Reserves \ {coll, debt} : reserve'[q] = reserve[q]

(* Indices and configuration of a reserve that a call stores. *)
LEMMA StoredReserve ==
  ASSUME TypeOK, NEW r \in Reserves, NEW a \in Nat, NEW d \in Nat
  PROVE  LET new == with_new_rates(r, update_state(reserve[r]), a, d)
         IN  /\ new \in ReserveData
             /\ new.last_update_timestamp = now
             /\ new.configuration = reserve[r].configuration
             /\ new.liquidity_index = accrued_liquidity(r)
             /\ new.variable_borrow_index = accrued_borrow(r)
<1> DEFINE x == update_state(reserve[r])
<1>1. /\ x \in ReserveData /\ x.last_update_timestamp = now
      /\ x.configuration = reserve[r].configuration
      /\ x.liquidity_index = accrued_liquidity(r)
      /\ x.variable_borrow_index = accrued_borrow(r)
  BY UpdateStateType DEF accrued_liquidity, accrued_borrow
<1> HIDE DEF x
<1>2. /\ with_new_rates(r, x, a, d) \in ReserveData
      /\ with_new_rates(r, x, a, d).last_update_timestamp
           = x.last_update_timestamp
  BY <1>1, NewRatesType
<1>3. LET new == with_new_rates(r, x, a, d)
      IN  /\ new.configuration = x.configuration
          /\ new.liquidity_index = x.liquidity_index
          /\ new.variable_borrow_index = x.variable_borrow_index
  BY <1>1, NewRatesKeep
<1>4. LET new == with_new_rates(r, x, a, d)
      IN  /\ new \in ReserveData
          /\ new.last_update_timestamp = now
          /\ new.configuration = reserve[r].configuration
          /\ new.liquidity_index = accrued_liquidity(r)
          /\ new.variable_borrow_index = accrued_borrow(r)
  BY <1>1, <1>2, <1>3
<1> QED BY <1>4 DEF x

(* Both accruals with whatever rates, the other reserves as they were. *)
two_stored(coll, debt, after) ==
  \E a, b, c, d \in Nat :
    /\ after[coll] = with_new_rates(coll, update_state(reserve[coll]), a, b)
    /\ after[debt] = with_new_rates(debt, update_state(reserve[debt]), c, d)
    /\ \A q \in Reserves \ {coll, debt} : after[q] = reserve[q]

(* What a call stores is both of them, brought up to date. *)
LEMMA TwoReservesStored ==
  ASSUME TypeOK, NEW coll \in Reserves, NEW debt \in Reserves,
         now' = now,
         reserve' = [q \in Reserves |-> reserve'[q]],
         two_stored(coll, debt, reserve')
  PROVE  stored_ok(coll, debt)
<1> DEFINE after == reserve'
<1>1. PICK a, b, c, d \in Nat :
        /\ after[coll] = with_new_rates(coll, update_state(reserve[coll]), a, b)
        /\ after[debt] = with_new_rates(debt, update_state(reserve[debt]), c, d)
        /\ \A q \in Reserves \ {coll, debt} : after[q] = reserve[q]
  BY DEF two_stored
<1>2. ASSUME NEW r \in {coll, debt}
      PROVE  /\ after[r] \in ReserveData
             /\ after[r].last_update_timestamp = now
             /\ after[r].configuration = reserve[r].configuration
             /\ after[r].liquidity_index = accrued_liquidity(r)
             /\ after[r].variable_borrow_index = accrued_borrow(r)
  <2>1. PICK e, f \in Nat :
          after[r] = with_new_rates(r, update_state(reserve[r]), e, f)
    BY <1>1
  <2> QED BY <2>1, StoredReserve
<1>3. /\ now \in Nat /\ reserve \in [Reserves -> ReserveData]
      /\ \A q \in Reserves : reserve[q].last_update_timestamp <= now
  BY DEF TypeOK
<1>4. ASSUME NEW q \in Reserves
      PROVE  /\ after[q] \in ReserveData
             /\ after[q].last_update_timestamp <= now
             /\ after[q].configuration = reserve[q].configuration
  <2>1. CASE q \in {coll, debt}
    <3>1. /\ after[q] \in ReserveData
          /\ after[q].last_update_timestamp = now
          /\ after[q].configuration = reserve[q].configuration
      BY <1>2, <2>1
    <3> QED BY <1>3, <3>1
  <2>2. CASE q \notin {coll, debt}
    BY <1>1, <1>3, <2>2
  <2> QED BY <2>1, <2>2
<1>5. after \in [Reserves -> ReserveData]
  BY <1>4
<1> QED BY <1>1, <1>2, <1>4, <1>5 DEF stored_ok

(* What a call of liquidation_call does to every variable. *)
LEMMA LiquidationStores ==
  ASSUME TypeOK, NEW coll \in Reserves, NEW debt \in Reserves, coll # debt,
         total_supply_scaled' \in [Reserves -> Nat],
         total_debt_scaled' \in [Reserves -> Nat], now' = now,
         StoreRates(coll, debt, update_state(reserve[coll]),
                    update_state(reserve[debt]))
  PROVE  stored_ok(coll, debt)
<1> DEFINE a == total_supply_scaled'[coll]
           b == total_debt_scaled[coll]
           c == total_supply_scaled[debt]
           d == total_debt_scaled'[debt]
           x == with_new_rates(coll, update_state(reserve[coll]), a, b)
           y == with_new_rates(debt, update_state(reserve[debt]), c, d)
<1>1. a \in Nat /\ b \in Nat /\ c \in Nat /\ d \in Nat
  BY DEF TypeOK
<1>2. reserve' = [reserve EXCEPT ![debt] = y, ![coll] = x]
  BY DEF StoreRates
<1> HIDE DEF x, y
<1>3. /\ reserve'[coll] = x /\ reserve'[debt] = y
      /\ \A q \in Reserves \ {coll, debt} : reserve'[q] = reserve[q]
      /\ reserve' = [q \in Reserves |-> reserve'[q]]
  BY <1>2 DEF TypeOK
<1>4. two_stored(coll, debt, reserve')
  BY <1>1, <1>3 DEF two_stored, x, y
<1> QED BY <1>3, <1>4, TwoReservesStored

(* The funds of the reserve that is repaid grow by the covered amount; the *)
(* other pays the seized amount, or nothing.                               *)
LEMMA LiquidationFunds ==
  ASSUME TypeOK, NEW l \in Users, NEW coll \in Reserves, NEW debt \in Reserves,
         coll # debt, NEW b \in BOOLEAN,
         NEW s, s.covered \in Nat, s.seized \in Nat, s.fee \in Nat,
         s.to_liquidator \in Nat, s.seized <= cash[coll] \/ b,
         Pay(l, coll, debt, s, b)
  PROVE  /\ wallet' \in [Reserves -> [Accounts -> Nat]]
         /\ cash' \in [Reserves -> Nat]
         /\ cash'[debt] = cash[debt] + s.covered
         /\ cash'[coll] = IF b THEN cash[coll] ELSE cash[coll] - s.seized
         /\ \A q \in Reserves \ {coll, debt} : cash'[q] = cash[q]
<1>1. l \in Accounts /\ Treasury \in Accounts /\ l # Treasury
  BY UserIsAccount, PoolAssumption DEF Accounts
<1>2. wallet[debt][l] - s.covered \in Nat
  BY <1>1 DEF Pay, TypeOK
<1>3. CASE b
  <2>1. /\ wallet' = [wallet EXCEPT ![debt][l] = @ - s.covered]
        /\ cash' = [cash EXCEPT ![debt] = @ + s.covered]
    BY <1>3 DEF Pay
  <2> QED BY <1>1, <1>2, <1>3, <2>1 DEF TypeOK
<1>4. CASE ~b
  <2> DEFINE one == [wallet EXCEPT ![debt][l] = @ - s.covered]
             two == [one EXCEPT ![coll][Treasury] =
                       wallet[coll][Treasury] + s.fee]
             three == [two EXCEPT ![coll][l] =
                         wallet[coll][l] + s.to_liquidator]
  <2>1. /\ wallet' = three
        /\ cash' = [cash EXCEPT ![debt] = @ + s.covered,
                                ![coll] = @ - s.seized]
    BY <1>4 DEF Pay
  <2>2. three \in [Reserves -> [Accounts -> Nat]]
    <3>1. one \in [Reserves -> [Accounts -> Nat]]
      BY <1>1, <1>2 DEF TypeOK
    <3> HIDE DEF one
    <3>2. two \in [Reserves -> [Accounts -> Nat]]
      BY <1>1, <3>1 DEF TypeOK
    <3> HIDE DEF two
    <3> QED BY <1>1, <3>2 DEF TypeOK
  <2>3. cash[coll] - s.seized \in Nat
    BY <1>4 DEF TypeOK
  <2>4. /\ cash' \in [Reserves -> Nat]
        /\ cash'[debt] = cash[debt] + s.covered
        /\ cash'[coll] = cash[coll] - s.seized
        /\ \A q \in Reserves \ {coll, debt} : cash'[q] = cash[q]
    <3> DEFINE paid == [cash EXCEPT ![debt] = cash[debt] + s.covered]
    <3>1. cash' = [paid EXCEPT ![coll] = cash[coll] - s.seized]
      BY <2>1
    <3>2. /\ paid \in [Reserves -> Nat]
          /\ paid[debt] = cash[debt] + s.covered
          /\ \A q \in Reserves : q # debt => paid[q] = cash[q]
      BY DEF TypeOK
    <3> HIDE DEF paid
    <3> QED BY <2>3, <3>1, <3>2
  <2> HIDE DEF three
  <2> QED BY <1>4, <2>1, <2>2, <2>4
<1> QED BY <1>3, <1>4

(* The debt after a call: only the account loses, and the flag is off when *)
(* nothing is left.                                                        *)
LEMMA LiquidationDebt ==
  ASSUME TypeOK, NEW u \in Users, NEW debt \in Reserves, NEW s,
         s.covered \in Nat, s.bad_debt \in Nat,
         BurnDebt(u, debt, s, accrued_borrow(debt))
  PROVE  LET burned == debt_of_call_burned(u, debt, s)
         IN  /\ scaled_debt' \in [Reserves -> [Accounts -> Nat]]
             /\ total_debt_scaled' \in [Reserves -> Nat]
             /\ \A q \in Reserves : q # debt =>
                  /\ scaled_debt'[q] = scaled_debt[q]
                  /\ total_debt_scaled'[q] = total_debt_scaled[q]
             /\ \A a \in Accounts : a # u =>
                  scaled_debt'[debt][a] = scaled_debt[debt][a]
             /\ scaled_debt'[debt][u] = scaled_debt[debt][u] - burned
             /\ total_debt_scaled'[debt] = total_debt_scaled[debt] - burned
             /\ borrowing' \in [Accounts -> SUBSET Reserves]
             /\ s.debt_left = 0 => debt \notin borrowing'[u]
             /\ deficit' \in [Reserves -> Nat]
             /\ deficit' = [deficit EXCEPT ![debt] = @ + s.bad_debt]
<1> DEFINE burned == debt_of_call_burned(u, debt, s)
<1>1. u \in Accounts
  BY UserIsAccount
<1>2. /\ burned \in Nat /\ burned <= scaled_debt[debt][u]
      /\ DebtBurn(debt, u, burned)
  BY LiquidationBurns
<1> HIDE DEF burned
<1>3. /\ scaled_debt' \in [Reserves -> [Accounts -> Nat]]
      /\ total_debt_scaled' \in [Reserves -> Nat]
  BY <1>1, <1>2, DebtBurnType
<1>4. /\ \A q \in Reserves : q # debt =>
           /\ scaled_debt'[q] = scaled_debt[q]
           /\ total_debt_scaled'[q] = total_debt_scaled[q]
      /\ \A a \in Accounts : a # u =>
           scaled_debt'[debt][a] = scaled_debt[debt][a]
      /\ scaled_debt'[debt][u] = scaled_debt[debt][u] - burned
      /\ total_debt_scaled'[debt] = total_debt_scaled[debt] - burned
  BY <1>1, <1>2 DEF DebtBurn, TypeOK
<1>5. /\ borrowing' = [borrowing EXCEPT
           ![u] = IF s.debt_left = 0 THEN @ \ {debt} ELSE @]
      /\ deficit' = [deficit EXCEPT ![debt] = @ + s.bad_debt]
  BY DEF BurnDebt
<1>6. /\ borrowing' \in [Accounts -> SUBSET Reserves]
      /\ s.debt_left = 0 => debt \notin borrowing'[u]
      /\ deficit' \in [Reserves -> Nat]
  BY <1>1, <1>5 DEF TypeOK
<1> QED BY <1>3, <1>4, <1>5, <1>6 DEF burned

(***************************************************************************)
(* The balances after a call: only the account loses shares, and no more   *)
(* than the seized amount buys, but for the last one.                      *)
(***************************************************************************)
LEMMA LiquidationShares ==
  ASSUME TypeOK, NEW l \in Users, NEW u \in Users,
         NEW coll \in Reserves, NEW debt \in Reserves,
         NEW n \in Nat, NEW b \in BOOLEAN,
         LiquidationCall(l, u, coll, debt, n, b)
  PROVE  LET s == settled(u, coll, debt, n)
         IN  /\ scaled_balance' \in [Reserves -> [Accounts -> Nat]]
             /\ total_supply_scaled' \in [Reserves -> Nat]
             /\ collateral' \in [Accounts -> SUBSET Reserves]
             /\ s.seized <= cash[coll] \/ b
             /\ \A q \in Reserves : q # coll =>
                  scaled_balance'[q] = scaled_balance[q]
             /\ \A a \in Accounts : a # u =>
                  scaled_balance'[coll][a] >= scaled_balance[coll][a]
             /\ LET lost == scaled_balance[coll][u] - scaled_balance'[coll][u]
                IN  lost > 0 =>
                      (lost - 1) * accrued_liquidity(coll) + 1
                         <= s.seized * RAY
<1> DEFINE s == settled(u, coll, debt, n)
           index == accrued_liquidity(coll)
           before == scaled_balance[coll]
           after == scaled_balance'[coll]
           lost == before[u] - after[u]
<1>1. /\ s.seized \in Nat /\ s.fee \in Nat /\ s.to_liquidator \in Nat
      /\ s.to_liquidator = s.seized - s.fee
  BY LiquidationAmounts DEF settlement_ok
<1>2. IF b THEN PayInATokens(l, u, coll, s, index)
           ELSE PayInUnderlying(l, u, coll, s, index)
  BY LiquidationParts
<1>3. index \in Nat /\ index > 0 /\ u \in Accounts
  BY AccruedIndices, UserIsAccount DEF accrued_liquidity
<1>4. before \in [Accounts -> Nat] /\ total_supply_scaled \in [Reserves -> Nat]
  BY DEF TypeOK
<1> HIDE DEF s
<1>5. CASE b
  <2>1. /\ scaled_balance' \in [Reserves -> [Accounts -> Nat]]
        /\ \A q \in Reserves : q # coll =>
             scaled_balance'[q] = scaled_balance[q]
        /\ payment_ok(u, coll, s.seized, after)
        /\ total_supply_scaled' = total_supply_scaled
        /\ collateral' \in [Accounts -> SUBSET Reserves]
    BY <1>1, <1>2, <1>5, PaidInATokens
  <2>2. /\ after \in [Accounts -> Nat]
        /\ \A a \in Accounts : a # u => after[a] >= before[a]
        /\ lost * index <= s.seized * RAY
    BY <2>1 DEF payment_ok
  <2>3. lost \in Int
    BY <1>3, <1>4, <2>2
  <2>4. ASSUME lost > 0
        PROVE  (lost - 1) * index + 1 <= s.seized * RAY
    <3> HIDE DEF lost, index
    <3>1. lost * index <= s.seized * RAY + index - 1 /\ s.seized * RAY \in Nat
      <4>1. s.seized * RAY \in Nat /\ lost \in Nat /\ lost * index \in Nat
        BY <1>1, <1>3, <2>3, <2>4, ProductNat, ScaleAssumption
      <4> QED BY <1>3, <2>2, <4>1
    <3> QED BY <1>3, <2>3, <2>4, <3>1, AllButOneShare
  <2> QED BY <1>4, <1>5, <2>1, <2>2, <2>4 DEF s
<1>6. CASE ~b
  <2> DEFINE shares == a_token_burned(coll, u, s.seized, index)
  <2>1. /\ shares > 0 /\ s.seized <= cash[coll]
        /\ scaled_balance' \in [Reserves -> [Accounts -> Nat]]
        /\ total_supply_scaled' \in [Reserves -> Nat]
        /\ \A q \in Reserves : q # coll =>
             scaled_balance'[q] = scaled_balance[q]
        /\ \A a \in Accounts : a # u => after[a] = before[a]
        /\ after[u] = before[u] - shares
        /\ collateral' \in [Accounts -> SUBSET Reserves]
    BY <1>1, <1>2, <1>6, PaidInUnderlying
  <2>2. /\ shares \in Nat /\ shares * index <= s.seized * RAY + index - 1
    BY <1>1, ATokenShares
  <2> HIDE DEF shares
  <2>3. s.seized * RAY \in Nat
    BY <1>1, ProductNat, ScaleAssumption
  <2>4. (shares - 1) * index + 1 <= s.seized * RAY
    <3> HIDE DEF index
    <3> QED BY <1>3, <2>1, <2>2, <2>3, AllButOneShare
  <2>5. lost = shares
    BY <1>3, <1>4, <2>1, <2>2
  <2>6. \A a \in Accounts : a # u => after[a] >= before[a]
    BY <1>4, <2>1
  <2> QED BY <2>1, <2>4, <2>5, <2>6 DEF s
<1> QED BY <1>5, <1>6

(* A call keeps every variable in its type. *)
LEMMA LiquidationType ==
  ASSUME TypeOK, NEW l \in Users, NEW u \in Users,
         NEW coll \in Reserves, NEW debt \in Reserves,
         NEW n \in Nat, NEW b \in BOOLEAN,
         LiquidationCall(l, u, coll, debt, n, b)
  PROVE  TypeOK' /\ stored_ok(coll, debt)
<1> DEFINE s == settled(u, coll, debt, n)
<1>1. /\ coll # debt
      /\ Pay(l, coll, debt, s, b)
      /\ BurnDebt(u, debt, s, accrued_borrow(debt))
      /\ StoreRates(coll, debt, update_state(reserve[coll]),
                    update_state(reserve[debt]))
      /\ UNCHANGED environment
  BY LiquidationParts
<1>2. /\ s.covered \in Nat /\ s.seized \in Nat /\ s.fee \in Nat
      /\ s.bad_debt \in Nat /\ s.to_liquidator \in Nat
  BY LiquidationAmounts DEF settlement_ok
<1>3. /\ scaled_balance' \in [Reserves -> [Accounts -> Nat]]
      /\ total_supply_scaled' \in [Reserves -> Nat]
      /\ collateral' \in [Accounts -> SUBSET Reserves]
      /\ s.seized <= cash[coll] \/ b
  BY LiquidationShares
<1> HIDE DEF s
<1>4. /\ scaled_debt' \in [Reserves -> [Accounts -> Nat]]
      /\ total_debt_scaled' \in [Reserves -> Nat]
      /\ borrowing' \in [Accounts -> SUBSET Reserves]
      /\ deficit' \in [Reserves -> Nat]
  BY <1>1, <1>2, LiquidationDebt
<1>5. /\ wallet' \in [Reserves -> [Accounts -> Nat]]
      /\ cash' \in [Reserves -> Nat]
  BY <1>1, <1>2, <1>3, LiquidationFunds
<1>6. now' = now /\ paused' = paused /\ price' = price
  BY <1>1 DEF environment
<1>7. stored_ok(coll, debt)
  BY <1>1, <1>3, <1>4, <1>6, LiquidationStores
<1>8. /\ reserve' \in [Reserves -> ReserveData]
      /\ \A q \in Reserves : reserve'[q].last_update_timestamp <= now'
  BY <1>7 DEF stored_ok
<1>9. TypeOK'
  BY <1>3, <1>4, <1>5, <1>6, <1>8 DEF TypeOK
<1> QED BY <1>7, <1>9

(* Every step of the pool with liquidations keeps the types. *)
LEMMA LiquidationStepType ==
  ASSUME TypeOK, [LiquidationNext]_vars
  PROVE  TypeOK'
<1>1. \A n \in Amounts : n \in Nat
  BY AmountsNat
<1>2. CASE [Next]_vars
  BY <1>2, NextType
<1>3. CASE Liquidate
  BY <1>1, <1>3, LiquidationType DEF Liquidate
<1> QED BY <1>2, <1>3 DEF LiquidationNext

(***************************************************************************)
(* Types are kept when liquidations join the operations of the pool        *)
(* (liquidation.rs, internal_liquidation_call).                            *)
(***************************************************************************)
THEOREM LiquidationTypeCorrect == LiquidationSpec => []TypeOK
<1>1. Init => TypeOK
  BY InitType
<1>2. TypeOK /\ [LiquidationNext]_vars => TypeOK'
  BY LiquidationStepType
<1> QED BY <1>1, <1>2, PTL DEF LiquidationSpec

-----------------------------------------------------------------------------
(* A call moves balances and totals together. *)
LEMMA LiquidationSums ==
  ASSUME TypeOK, TotalsAreSums, NEW l \in Users, NEW u \in Users,
         NEW coll \in Reserves, NEW debt \in Reserves,
         NEW n \in Nat, NEW b \in BOOLEAN,
         LiquidationCall(l, u, coll, debt, n, b)
  PROVE  TotalsAreSums'
<1> DEFINE s == settled(u, coll, debt, n)
           burned == debt_of_call_burned(u, debt, s)
           shares == a_token_burned(coll, u, s.seized, accrued_liquidity(coll))
<1>1. /\ sums_to(total_supply_scaled, scaled_balance)
      /\ sums_to(total_debt_scaled, scaled_debt)
  BY TotalsBySum
<1>2. /\ s.covered \in Nat /\ s.seized \in Nat /\ s.fee \in Nat
      /\ s.bad_debt \in Nat /\ s.to_liquidator \in Nat
      /\ s.to_liquidator = s.seized - s.fee
  BY LiquidationAmounts DEF settlement_ok
<1>3. /\ BurnDebt(u, debt, s, accrued_borrow(debt))
      /\ IF b THEN PayInATokens(l, u, coll, s, accrued_liquidity(coll))
              ELSE PayInUnderlying(l, u, coll, s, accrued_liquidity(coll))
  BY LiquidationParts
<1>4. u \in Accounts
  BY UserIsAccount
<1> HIDE DEF s
<1>5. sums_to(total_debt_scaled', scaled_debt')
  <2>1. burned \in Nat /\ burned <= scaled_debt[debt][u]
        /\ DebtBurn(debt, u, burned)
    BY <1>2, <1>3, LiquidationBurns
  <2> HIDE DEF burned
  <2> QED BY <1>1, <1>4, <2>1, DebtBurnSums
<1>6. CASE b
  <2>1. /\ \A q \in Reserves : q # coll =>
             scaled_balance'[q] = scaled_balance[q]
        /\ payment_ok(u, coll, s.seized, scaled_balance'[coll])
        /\ total_supply_scaled' = total_supply_scaled
    BY <1>2, <1>3, <1>6, PaidInATokens
  <2>2. SumFunctionOnSet(scaled_balance'[coll], Accounts)
          = SumFunctionOnSet(scaled_balance[coll], Accounts)
    BY <2>1 DEF payment_ok
  <2>3. sums_to(total_supply_scaled', scaled_balance')
    BY <1>1, <2>1, <2>2 DEF sums_to
  <2> QED BY <1>5, <2>3, TotalsBySum
<1>7. CASE ~b
  <2>1. ATokenBurn(coll, u, shares)
    BY <1>2, <1>3, <1>7, PaidInUnderlying
  <2>2. shares \in Nat /\ shares <= scaled_balance[coll][u]
    BY <1>2, ATokenShares
  <2> HIDE DEF shares
  <2>3. sums_to(total_supply_scaled', scaled_balance')
    BY <1>1, <1>4, <2>1, <2>2, ATokenBurnSums
  <2> QED BY <1>5, <2>3, TotalsBySum
<1> QED BY <1>6, <1>7

(* So does every step. *)
LEMMA LiquidationStepSums ==
  ASSUME TypeOK, TotalsAreSums, [LiquidationNext]_vars
  PROVE  TotalsAreSums'
<1>1. \A n \in Amounts : n \in Nat
  BY AmountsNat
<1>2. CASE [Next]_vars
  BY <1>2, NextSums
<1>3. CASE Liquidate
  BY <1>1, <1>3, LiquidationSums DEF Liquidate
<1> QED BY <1>2, <1>3 DEF LiquidationNext

(***************************************************************************)
(* The supplies that aToken and debt token store stay the sums of the      *)
(* balances when liquidations join: a call that burns a debt in two        *)
(* pieces, pays the treasury and the liquidator in turn, in shares or in   *)
(* underlying, loses none and makes none (liquidation.rs,                  *)
(* internal_liquidation_call).                                             *)
(***************************************************************************)
THEOREM SumsUnderLiquidation == LiquidationSpec => []TotalsAreSums
<1> DEFINE Inv == TypeOK /\ TotalsAreSums
<1>1. Init => Inv
  BY InitType, InitSums
<1>2. Inv /\ [LiquidationNext]_vars => Inv'
  BY LiquidationStepType, LiquidationStepSums
<1>3. Inv => TotalsAreSums
  OBVIOUS
<1> QED BY <1>1, <1>2, <1>3, PTL DEF LiquidationSpec

-----------------------------------------------------------------------------
(* No other operation of the pool takes both. *)
LEMMA PoolNeverLiquidates ==
  ASSUME TypeOK, [Next]_vars, NEW u \in Users,
         NEW coll \in Reserves, NEW debt \in Reserves
  PROVE  ~liquidated(u, coll, debt)
<1>0. /\ scaled_balance[coll][u] \in Nat /\ scaled_debt[debt][u] \in Nat
  BY UserIsAccount DEF TypeOK
<1>1. ASSUME \/ UNCHANGED scaled_balance
             \/ UNCHANGED scaled_debt
      PROVE  ~liquidated(u, coll, debt)
  BY <1>0, <1>1 DEF liquidated
<1>2. CASE UserOperation
  <2> DEFINE Half == UNCHANGED scaled_balance \/ UNCHANGED scaled_debt
  <2>1. ASSUME NEW r, NEW x, NEW y, NEW n,
               \/ Supply(x, y, r, n) \/ Withdraw(x, y, r, n)
               \/ TransferAToken(x, y, r, n)
        PROVE  Half
    BY <2>1 DEF Supply, Withdraw, TransferAToken
  <2>2. ASSUME NEW r, NEW x, NEW y, NEW n,
               Borrow(x, y, r, n) \/ Repay(x, y, r, n)
        PROVE  Half
    BY <2>2 DEF Borrow, Repay
  <2>3. ASSUME NEW r, NEW x,
               EnableCollateral(x, r) \/ DisableCollateral(x, r)
        PROVE  Half
    BY <2>3 DEF EnableCollateral, DisableCollateral, tokens
  <2> HIDE DEF Half
  <2>4. Half
    BY <1>2, <2>1, <2>2, <2>3 DEF UserOperation
  <2> QED BY <1>1, <2>4 DEF Half
<1>3. CASE \/ PoolMaintenance \/ Administration
           \/ Environment \/ UNCHANGED vars
  <2>1. UNCHANGED tokens
    BY <1>3 DEF PoolMaintenance, UpdateReserveState,
       CollectProtocolReserves, CoverDeficit, Administration, Environment,
       UpdateReserveConfiguration, SetPaused, Tick, PriceChange, vars
  <2> QED BY <1>1, <2>1 DEF tokens
<1> QED BY <1>2, <1>3 DEF Next

(* A liquidation takes from one account, one collateral and one debt. *)
LEMMA LiquidatedIsTheCall ==
  ASSUME TypeOK, NEW l \in Users, NEW v \in Users,
         NEW c \in Reserves, NEW d \in Reserves,
         NEW n \in Nat, NEW b \in BOOLEAN,
         LiquidationCall(l, v, c, d, n, b),
         NEW u \in Users, NEW coll \in Reserves, NEW debt \in Reserves,
         liquidated(u, coll, debt)
  PROVE  u = v /\ coll = c /\ debt = d
<1> DEFINE s == settled(v, c, d, n)
<1>1. /\ scaled_balance[coll][u] \in Nat /\ scaled_debt[debt][u] \in Nat
      /\ u \in Accounts
  BY UserIsAccount DEF TypeOK
<1>2. /\ \A q \in Reserves : q # c => scaled_balance'[q] = scaled_balance[q]
      /\ \A a \in Accounts : a # v =>
           scaled_balance'[c][a] >= scaled_balance[c][a]
      /\ scaled_balance' \in [Reserves -> [Accounts -> Nat]]
  BY LiquidationShares
<1>3. s.covered \in Nat /\ s.bad_debt \in Nat
      /\ BurnDebt(v, d, s, accrued_borrow(d))
  BY LiquidationAmounts, LiquidationParts DEF settlement_ok
<1> HIDE DEF s
<1>4. /\ \A q \in Reserves : q # d => scaled_debt'[q] = scaled_debt[q]
      /\ \A a \in Accounts : a # v => scaled_debt'[d][a] = scaled_debt[d][a]
  BY <1>3, LiquidationDebt
<1>5. debt = d
  BY <1>1, <1>4 DEF liquidated
<1>6. u = v
  BY <1>1, <1>4, <1>5 DEF liquidated
<1>7. coll = c
  BY <1>1, <1>2 DEF liquidated
<1> QED BY <1>5, <1>6, <1>7

(* A step that takes from an account is the call that names it. *)
LEMMA LiquidatedByCall ==
  ASSUME TypeOK, [LiquidationNext]_vars,
         NEW u \in Users, NEW coll \in Reserves, NEW debt \in Reserves,
         liquidated(u, coll, debt)
  PROVE  \E l \in Users, n \in Nat, b \in BOOLEAN :
           LiquidationCall(l, u, coll, debt, n, b)
<1>1. Liquidate
  BY PoolNeverLiquidates DEF LiquidationNext
<1>2. PICK l, v \in Users, c, d \in Reserves, n \in Amounts, b \in BOOLEAN :
        LiquidationCall(l, v, c, d, n, b)
  BY <1>1 DEF Liquidate
<1>3. n \in Nat
  BY AmountsNat
<1>4. u = v /\ coll = c /\ debt = d
  BY <1>2, <1>3, LiquidatedIsTheCall
<1> QED BY <1>2, <1>3, <1>4

(* The rate between the amounts, taken to the shares that were burned. *)
LEMMA InRayUnits ==
  ASSUME NEW t \in Nat, NEW z \in Nat, NEW v \in Nat, NEW R \in Nat,
         NEW q \in Nat, NEW d \in Nat, NEW m \in Nat,
         NEW p \in Nat, NEW e \in Nat, NEW k \in Nat,
         t <= z * R, z * (q * d * m) <= v * (p * e * k)
  PROVE  (t * q) * d * m <= (v * R * p) * e * k
<1> DEFINE x == q * d * m
           y == p * e * k
<1>1. x \in Nat /\ y \in Nat
  BY ProductNat
<1>2. /\ (t * q) * d * m = t * x
      /\ (v * R * p) * e * k = (v * y) * R
  BY SMT
<1> HIDE DEF x, y
<1>3. t * x <= (z * R) * x
  BY <1>1, ProductNat, ProductMonotone, SMT
<1>4. (z * x) * R <= (v * y) * R
  <2>1. z * x \in Nat /\ v * y \in Nat /\ z * x <= v * y
    BY <1>1, ProductNat DEF x, y
  <2> QED BY <2>1, ProductMonotone, SMT
<1>5. (z * R) * x = (z * x) * R
  BY <1>1, SMT
<1>6. /\ t * x \in Nat /\ (z * x) * R \in Nat /\ (v * y) * R \in Nat
  BY <1>1, ProductNat
<1> QED BY <1>2, <1>3, <1>4, <1>5, <1>6

(* The bound of SeizureWithinBonus on one liquidation. *)
within_bonus(u, coll, debt) ==
  LET c == reserve'[coll].configuration
      shares == scaled_balance[coll][u] - scaled_balance'[coll][u]
      taken == ((shares - 1) * reserve'[coll].liquidity_index + 1)
                 * price[coll]
      paid == (cash'[debt] - cash[debt]) * RAY * price[debt]
  IN  taken * reserve[debt].configuration.decimals_pow
          * BASIS_POINTS_MULTIPLIER
        <= paid * c.decimals_pow
             * (BASIS_POINTS_MULTIPLIER + c.liquidation_bonus)

(* A call keeps it. *)
LEMMA CallWithinBonus ==
  ASSUME TypeOK, NEW l \in Users, NEW u \in Users,
         NEW coll \in Reserves, NEW debt \in Reserves,
         NEW n \in Nat, NEW b \in BOOLEAN,
         LiquidationCall(l, u, coll, debt, n, b),
         liquidated(u, coll, debt)
  PROVE  within_bonus(u, coll, debt)
<1> DEFINE s == settled(u, coll, debt, n)
           index == accrued_liquidity(coll)
           lost == scaled_balance[coll][u] - scaled_balance'[coll][u]
           t == (lost - 1) * index + 1
           q == price[coll]
           p == price[debt]
           d == reserve[debt].configuration.decimals_pow
           e == reserve[coll].configuration.decimals_pow
           m == BASIS_POINTS_MULTIPLIER
           k == m + reserve[coll].configuration.liquidation_bonus
<1>1. /\ coll # debt /\ Pay(l, coll, debt, s, b)
      /\ s.covered \in Nat /\ s.seized \in Nat /\ s.fee \in Nat
      /\ s.to_liquidator \in Nat
      /\ s.seized * seized_weight(coll, debt)
           <= s.covered * covered_weight(coll, debt)
  BY LiquidationParts, LiquidationAmounts DEF settlement_ok
<1>2. /\ s.seized <= cash[coll] \/ b
      /\ lost > 0 => t <= s.seized * RAY
      /\ scaled_balance'[coll][u] \in Nat /\ scaled_balance[coll][u] \in Nat
  BY LiquidationShares, UserIsAccount DEF TypeOK
<1>3. lost \in Nat /\ lost > 0
  BY <1>2 DEF liquidated
<1> HIDE DEF s
<1>4. cash'[debt] - cash[debt] = s.covered
  <2>1. cash'[debt] = cash[debt] + s.covered /\ cash[debt] \in Nat
    BY <1>1, <1>2, LiquidationFunds DEF TypeOK
  <2> QED BY <1>1, <2>1
<1>5. /\ reserve'[coll].configuration = reserve[coll].configuration
      /\ reserve'[coll].liquidity_index = index
  BY LiquidationType DEF stored_ok
<1>6. /\ q \in Nat /\ p \in Nat /\ d \in Nat /\ e \in Nat /\ m \in Nat
      /\ k \in Nat /\ RAY \in Nat /\ index \in Nat
  BY MarketType, ScaleAssumption, AccruedIndices DEF accrued_liquidity
<1>7. t \in Nat
  <2> HIDE DEF lost, index
  <2>1. lost - 1 \in Nat
    BY <1>3
  <2> QED BY <1>6, <2>1, ProductNat
<1>8. s.seized * (q * d * m) <= s.covered * (p * e * k)
  BY <1>1 DEF seized_weight, covered_weight
<1> HIDE DEF t, q, p, d, e, m, k
<1>9. (t * q) * d * m <= (s.covered * RAY * p) * e * k
  BY <1>1, <1>2, <1>3, <1>6, <1>7, <1>8, InRayUnits
<1> QED BY <1>4, <1>5, <1>9 DEF within_bonus, t, q, p, d, e, m, k

(***************************************************************************)
(* No liquidation takes shares worth more than the repaid debt and the     *)
(* bonus on it, at the prices of the call, but for the share that a        *)
(* ceiling takes: whatever the requested amount, the rounding, the         *)
(* adjustment to the collateral at hand and the way of payment             *)
(* (calculation.rs, calculate_liquidation_amounts_with_reserves;           *)
(* liquidation.rs, internal_liquidation_call).                             *)
(***************************************************************************)
THEOREM SeizureAlwaysWithinBonus == LiquidationSpec => SeizureWithinBonus
<1>1. ASSUME TypeOK, [LiquidationNext]_vars,
             NEW u \in Users, NEW coll \in Reserves, NEW debt \in Reserves,
             liquidated(u, coll, debt)
      PROVE  within_bonus(u, coll, debt)
  BY <1>1, LiquidatedByCall, CallWithinBonus
<1>2. TypeOK /\ [LiquidationNext]_vars =>
        [\A u \in Users, coll, debt \in Reserves :
           liquidated(u, coll, debt) => within_bonus(u, coll, debt)]_vars
  BY <1>1
<1> QED BY <1>2, LiquidationTypeCorrect, PTL
        DEF LiquidationSpec, SeizureWithinBonus, within_bonus

(* Account data depends on the configurations, the liquidity indices and   *)
(* the borrow indices of this instant.                                     *)
same_valuation(x, y) ==
  \A r \in Reserves :
    /\ x[r].configuration = y[r].configuration
    /\ x[r].liquidity_index = y[r].liquidity_index
    /\ current_variable_borrow_index(x[r])
         = current_variable_borrow_index(y[r])

(* Two maps of reserves that agree on those value an account alike. *)
LEMMA SameAccountData ==
  ASSUME NEW u, NEW coll \in SUBSET Reserves, NEW borr \in SUBSET Reserves,
         NEW x, NEW y, same_valuation(x, y)
  PROVE  account_data(u, coll, borr, x) = account_data(u, coll, borr, y)
<1> DEFINE weighted(rd, field) ==
             [r \in coll |-> weighted_collateral(u, r, rd,
                               rd[r].configuration[field])]
           values(rd) == [r \in coll |-> collateral_value(u, r, rd)]
           debts(rd)  == [r \in borr |-> debt_value(u, r, rd)]
<1>1. ASSUME NEW field
      PROVE  weighted(x, field) = weighted(y, field)
  <2>1. \A r \in coll :
          weighted_collateral(u, r, x, x[r].configuration[field])
            = weighted_collateral(u, r, y, y[r].configuration[field])
    BY DEF same_valuation, weighted_collateral, supplied
  <2> QED BY <2>1
<1>2. values(x) = values(y)
  <2>1. \A r \in coll : collateral_value(u, r, x) = collateral_value(u, r, y)
    BY DEF same_valuation, collateral_value, supplied
  <2> QED BY <2>1
<1>3. debts(x) = debts(y)
  <2>1. \A r \in borr : debt_value(u, r, x) = debt_value(u, r, y)
    BY DEF same_valuation, debt_value
  <2> QED BY <2>1
<1>4. /\ weighted(x, "ltv") = weighted(y, "ltv")
      /\ weighted(x, "liquidation_threshold")
           = weighted(y, "liquidation_threshold")
  BY <1>1
<1> QED BY <1>2, <1>3, <1>4 DEF account_data

(* Two reserves brought up to date in the router's hands, as it judges the *)
(* account, and as they are stored at the end.                             *)
two_accrued(coll, debt, rd) ==
  \A r \in Reserves :
    rd[r] = IF r \in {coll, debt} THEN update_state(reserve[r]) ELSE reserve[r]

(* What the router judges is valued as what it stores. *)
LEMMA JudgedAsStored ==
  ASSUME TypeOK, NEW coll \in Reserves, NEW debt \in Reserves,
         stored_ok(coll, debt), NEW rd, two_accrued(coll, debt, rd)
  PROVE  same_valuation(rd, reserve')
<1> SUFFICES ASSUME NEW r \in Reserves
             PROVE  /\ rd[r].configuration = reserve'[r].configuration
                    /\ rd[r].liquidity_index = reserve'[r].liquidity_index
                    /\ current_variable_borrow_index(rd[r])
                         = current_variable_borrow_index(reserve'[r])
  BY DEF same_valuation
<1>1. CASE r \notin {coll, debt}
  BY <1>1 DEF two_accrued, stored_ok
<1>2. CASE r \in {coll, debt}
  <2> DEFINE x == update_state(reserve[r])
  <2>1. /\ x.last_update_timestamp = now
        /\ x.configuration = reserve[r].configuration
        /\ x.liquidity_index = accrued_liquidity(r)
        /\ x.variable_borrow_index = accrued_borrow(r)
    BY UpdateStateType DEF accrued_liquidity, accrued_borrow
  <2>2. rd[r] = x
    BY <1>2 DEF two_accrued
  <2> HIDE DEF x
  <2>3. /\ reserve'[r].configuration = reserve[r].configuration
        /\ reserve'[r].last_update_timestamp = now
        /\ reserve'[r].liquidity_index = accrued_liquidity(r)
        /\ reserve'[r].variable_borrow_index = accrued_borrow(r)
    BY <1>2 DEF stored_ok
  <2>4. update_state(rd[r]) = rd[r] /\ update_state(reserve'[r]) = reserve'[r]
    BY <2>1, <2>2, <2>3 DEF update_state
  <2> QED BY <2>1, <2>2, <2>3, <2>4 DEF current_variable_borrow_index
<1> QED BY <1>1, <1>2

-----------------------------------------------------------------------------
(* When a call may repay the whole debt (liquidation.rs, the close         *)
(* factor).                                                                *)
whole_position(hf, debt_base, collateral_base) ==
  \/ debt_base < MIN_CLOSE_FACTOR_THRESHOLD
  \/ collateral_base < MIN_CLOSE_FACTOR_THRESHOLD
  \/ hf < PARTIAL_LIQUIDATION_HF

(* When it may not, the amount that passes the check is worth at most half *)
(* of the debt.                                                            *)
LEMMA CloseFactorHalves ==
  ASSUME NEW hf, NEW d \in Nat, NEW c, ~whole_position(hf, d, c)
  PROVE  /\ max_liquidatable_debt(hf, d, c) \in Nat
         /\ 2 * max_liquidatable_debt(hf, d, c) <= d
<1> DEFINE m == BASIS_POINTS_MULTIPLIER
           h == m \div 2
           x == d * h
<1>1. m \in Nat /\ m > 0 /\ h \in Nat /\ 2 * h = m
  BY ScaleAssumption
<1>2. max_liquidatable_debt(hf, d, c) = x \div m
  BY DEF whole_position, max_liquidatable_debt,
     DEFAULT_LIQUIDATION_CLOSE_FACTOR
<1> HIDE DEF m, h
<1>3. x \in Nat /\ 2 * x = d * m
  <2>1. x \in Nat
    BY <1>1, ProductNat
  <2>2. 2 * x = d * (2 * h)
    BY <1>1, SMT
  <2> QED BY <1>1, <2>1, <2>2
<1> HIDE DEF x
<1>4. x \div m \in Nat /\ (x \div m) * m <= x
  BY <1>1, <1>3, DivBounds
<1> DEFINE q == x \div m
<1>5. q \in Nat /\ q * m <= x
  BY <1>4
<1> HIDE DEF q
<1>6. (2 * q) * m <= d * m
  <2>1. (2 * q) * m = 2 * (q * m) /\ q * m \in Nat
    BY <1>1, <1>5, ProductNat, SMT
  <2> QED BY <1>3, <1>5, <2>1
<1>7. 2 * q <= d
  BY <1>1, <1>5, <1>6, SMT
<1> QED BY <1>2, <1>5, <1>7 DEF q

(* What a partial call burns, the rounding aside, is within the request.   *)
LEMMA BurnWithinRequest ==
  ASSUME TypeOK, NEW debt \in Reserves, NEW hf, NEW owing \in Nat, NEW backing,
         NEW index \in Nat, index > 0, NEW burned \in Nat, burned > 0,
         NEW covered \in Nat, NEW n \in Nat, covered <= n,
         burned <= ray_div_down(covered, index) + 1,
         ~whole_position(hf, owing, backing),
         value_in_base(debt, n) <= max_liquidatable_debt(hf, owing, backing)
  PROVE  2 * value_in_base(debt, ray_mul_down(burned - 1, index)) <= owing
<1> DEFINE f == ray_div_down(covered, index)
           b == burned - 1
           v == ray_mul_down(b, index)
           max == max_liquidatable_debt(hf, owing, backing)
<1>1. f \in Nat /\ f * index <= covered * RAY
  BY QuotientBounds
<1>2. b \in Nat /\ b <= f
  BY <1>1
<1> HIDE DEF f, b
<1>3. b * index < (covered + 1) * RAY /\ b * index \in Nat
  <2>1. b * index <= f * index
    BY <1>1, <1>2, ProductMonotone, SMT
  <2>2. (covered + 1) * RAY = covered * RAY + RAY
    BY ScaleAssumption, SMT
  <2>3. b * index \in Nat /\ f * index \in Nat /\ covered * RAY \in Nat
    BY <1>1, <1>2, ProductNat, ScaleAssumption
  <2> QED BY <1>1, <2>1, <2>2, <2>3, ScaleAssumption
<1>4. v \in Nat /\ v <= n
  <2> DEFINE x == b * index
  <2>1. x \in Nat /\ x < (covered + 1) * RAY
    BY <1>3
  <2>2. v = x \div RAY
    BY DEF ray_mul_down
  <2> HIDE DEF x, v
  <2>3. v \in Nat /\ v < covered + 1
    BY <2>1, <2>2, DivBounds, DivBelow, ScaleAssumption
  <2> QED BY <2>3
<1> HIDE DEF v
<1>5. /\ value_in_base(debt, v) <= value_in_base(debt, n)
      /\ value_in_base(debt, v) \in Nat /\ value_in_base(debt, n) \in Nat
  BY <1>4, ValueMonotone, ValueType
<1>6. max \in Nat /\ 2 * max <= owing
  BY CloseFactorHalves
<1> HIDE DEF max
<1>7. value_in_base(debt, n) <= max
  BY DEF max
<1>8. 2 * value_in_base(debt, v) <= owing
  BY <1>5, <1>6, <1>7
<1> QED BY <1>8 DEF v, b

(* The bound of CloseFactorBinds on one liquidation. *)
close_factor_kept(u, coll, debt) ==
  LET data  == account_data(u, collateral[u], borrowing[u], reserve')
      d_rd  == reserve'[debt]
      owing == value_in_base(debt, owed(debt, u, d_rd))
      burned == scaled_debt[debt][u] - scaled_debt'[debt][u]
      small(value) == value < MIN_CLOSE_FACTOR_THRESHOLD
  IN  /\ data.health_factor < WAD
      /\ \/ data.health_factor < PARTIAL_LIQUIDATION_HF
         \/ small(owing)
         \/ small(value_in_base(coll, supplied(coll, u, reserve'[coll])))
         \/ debt \notin borrowing'[u]
         \/ 2 * value_in_base(debt,
                  ray_mul_down(burned - 1, d_rd.variable_borrow_index))
              <= owing

(***************************************************************************)
(* What the router judges (rd, two reserves accrued) is what the call      *)
(* leaves in storage, so its checks are the ones CloseFactorBinds asks     *)
(* for.                                                                    *)
(***************************************************************************)
LEMMA JudgedWithinCloseFactor ==
  ASSUME TypeOK, NEW u \in Users, NEW coll \in Reserves, NEW debt \in Reserves,
         stored_ok(coll, debt), NEW rd, two_accrued(coll, debt, rd),
         NEW hf, hf = account_data(u, collateral[u], borrowing[u],
                                   rd).health_factor,
         hf < WAD, coll \in collateral[u],
         NEW n \in Nat,
         value_in_base(debt, n)
           <= max_liquidatable_debt(hf, value_in_base(debt, debt_of(u, debt)),
                value_in_base(coll, collateral_of(u, coll))),
         NEW burned \in Nat, burned > 0, NEW covered \in Nat,
         burned = scaled_debt[debt][u] - scaled_debt'[debt][u],
         debt \in borrowing'[u] =>
           /\ debt \in borrowing[u] /\ covered <= n
           /\ burned <= ray_div_down(covered, accrued_borrow(debt)) + 1
  PROVE  close_factor_kept(u, coll, debt)
<1> DEFINE index == accrued_borrow(debt)
           owing == value_in_base(debt, owed(debt, u, reserve'[debt]))
           backing ==
             value_in_base(coll, supplied(coll, u, reserve'[coll]))
<1>1. /\ u \in Accounts
      /\ collateral[u] \in SUBSET Reserves /\ borrowing[u] \in SUBSET Reserves
  BY UserIsAccount DEF TypeOK
<1>2. account_data(u, collateral[u], borrowing[u], reserve').health_factor = hf
  <2>1. same_valuation(rd, reserve')
    BY JudgedAsStored
  <2> QED BY <1>1, <2>1, SameAccountData
<1>3. /\ reserve'[debt].variable_borrow_index = index
      /\ reserve'[coll].liquidity_index = accrued_liquidity(coll)
      /\ index \in Nat /\ index > 0
  BY AccruedIndices DEF stored_ok, accrued_borrow
<1>4. /\ debt \in borrowing[u] =>
           debt_of(u, debt) = owed(debt, u, reserve'[debt])
      /\ collateral_of(u, coll) = supplied(coll, u, reserve'[coll])
  BY <1>3 DEF debt_of, collateral_of, owed, supplied, accrued_borrow,
              accrued_liquidity
<1>5. owing \in Nat
  <2>1. scaled_debt[debt][u] \in Nat
    BY <1>1 DEF TypeOK
  <2>2. owed(debt, u, reserve'[debt]) \in Nat
    BY <1>3, <2>1, RayMulType DEF owed
  <2> QED BY <2>2, ValueType
<1>6. ASSUME debt \in borrowing'[u], ~whole_position(hf, owing, backing)
      PROVE  2 * value_in_base(debt, ray_mul_down(burned - 1, index)) <= owing
  <2>1. value_in_base(debt, n) <= max_liquidatable_debt(hf, owing, backing)
    BY <1>4, <1>6
  <2>2. covered <= n /\ burned <= ray_div_down(covered, index) + 1
    BY <1>6
  <2> HIDE DEF owing, backing, index
  <2> QED BY <1>3, <1>5, <1>6, <2>1, <2>2, BurnWithinRequest
<1> HIDE DEF index
<1> QED BY <1>2, <1>3, <1>6 DEF close_factor_kept, whole_position

(* The checks of a liquidation call. *)
judged(coll, debt) ==
  [reserve EXCEPT ![coll] = update_state(reserve[coll]),
                  ![debt] = update_state(reserve[debt])]

(* A call passes the checks on the reserves that it accrued. *)
LEMMA LiquidationIsJudged ==
  ASSUME TypeOK, NEW l \in Users, NEW u \in Users,
         NEW coll \in Reserves, NEW debt \in Reserves,
         NEW n \in Nat, NEW b \in BOOLEAN,
         LiquidationCall(l, u, coll, debt, n, b)
  PROVE  LET rd == judged(coll, debt)
             hf == account_data(u, collateral[u], borrowing[u],
                                rd).health_factor
         IN  /\ two_accrued(coll, debt, rd)
             /\ hf < WAD
             /\ coll \in collateral[u]
             /\ value_in_base(debt, n)
                  <= max_liquidatable_debt(hf,
                       value_in_base(debt, debt_of(u, debt)),
                       value_in_base(coll, collateral_of(u, coll)))
<1> DEFINE rd == judged(coll, debt)
           hf == account_data(u, collateral[u], borrowing[u], rd).health_factor
<1>1. /\ hf < WAD /\ collateral_of(u, coll) > 0
      /\ value_in_base(debt, n)
           <= max_liquidatable_debt(hf, value_in_base(debt, debt_of(u, debt)),
                value_in_base(coll, collateral_of(u, coll)))
  BY DEF LiquidationCall, judged, debt_of, collateral_of
<1>2. coll \in collateral[u]
  BY <1>1 DEF collateral_of
<1>3. two_accrued(coll, debt, rd)
  BY DEF two_accrued, judged, TypeOK
<1> QED BY <1>1, <1>2, <1>3

(* A call of liquidation_call keeps the close factor. *)
LEMMA CallWithinCloseFactor ==
  ASSUME TypeOK, NEW l \in Users, NEW u \in Users,
         NEW coll \in Reserves, NEW debt \in Reserves,
         NEW n \in Nat, NEW b \in BOOLEAN,
         LiquidationCall(l, u, coll, debt, n, b),
         liquidated(u, coll, debt)
  PROVE  close_factor_kept(u, coll, debt)
<1> DEFINE s  == settled(u, coll, debt, n)
           rd == judged(coll, debt)
           hf == account_data(u, collateral[u], borrowing[u], rd).health_factor
           index  == accrued_borrow(debt)
           burned == debt_of_call_burned(u, debt, s)
<1>1. /\ two_accrued(coll, debt, rd) /\ hf < WAD /\ coll \in collateral[u]
      /\ value_in_base(debt, n)
           <= max_liquidatable_debt(hf, value_in_base(debt, debt_of(u, debt)),
                value_in_base(coll, collateral_of(u, coll)))
  BY LiquidationIsJudged
<1>2. stored_ok(coll, debt)
  BY LiquidationType
<1>3. /\ s.covered \in Nat /\ s.bad_debt \in Nat
      /\ s.debt_left = 0 \/ s.covered <= n
      /\ s.bad_debt > 0 => s.debt_left = 0
      /\ BurnDebt(u, debt, s, index)
  BY LiquidationAmounts, LiquidationParts DEF settlement_ok
<1> HIDE DEF s
<1>4. /\ burned \in Nat /\ burned <= scaled_debt[debt][u]
      /\ s.bad_debt = 0 => burned <= ray_div_down(s.covered, index) + 1
      /\ scaled_debt'[debt][u] = scaled_debt[debt][u] - burned
      /\ s.debt_left = 0 => debt \notin borrowing'[u]
  BY <1>3, LiquidationBurns, LiquidationDebt
<1>5. debt \in borrowing'[u] => debt \in borrowing[u]
  BY <1>3, UserIsAccount DEF BurnDebt, TypeOK
<1> HIDE DEF burned, rd, hf
<1>6. scaled_debt[debt][u] \in Nat
  BY UserIsAccount DEF TypeOK
<1>7. burned > 0 /\ burned = scaled_debt[debt][u] - scaled_debt'[debt][u]
  BY <1>4, <1>6 DEF liquidated
<1>8. debt \in borrowing'[u] =>
        /\ debt \in borrowing[u] /\ s.covered <= n
        /\ burned <= ray_div_down(s.covered, index) + 1
  BY <1>3, <1>4, <1>5
<1>9. hf = account_data(u, collateral[u], borrowing[u], rd).health_factor
  BY DEF hf
<1> QED BY <1>1, <1>2, <1>3, <1>4, <1>7, <1>8, <1>9, JudgedWithinCloseFactor

(***************************************************************************)
(* Every liquidation finds the account unhealthy by the data it leaves in  *)
(* storage, and repays at most half of the debt unless the health is below *)
(* the threshold for whole positions, the debt or the collateral is small, *)
(* or the debt is closed: the code checks a requested amount, the theorem  *)
(* is about what is burned (liquidation.rs, internal_liquidation_call).    *)
(***************************************************************************)
THEOREM CloseFactorAlwaysBinds == LiquidationSpec => CloseFactorBinds
<1>1. ASSUME TypeOK, [LiquidationNext]_vars,
             NEW u \in Users, NEW coll \in Reserves, NEW debt \in Reserves,
             liquidated(u, coll, debt)
      PROVE  close_factor_kept(u, coll, debt)
  BY <1>1, LiquidatedByCall, CallWithinCloseFactor
<1>2. TypeOK /\ [LiquidationNext]_vars =>
        [\A u \in Users, coll, debt \in Reserves :
           liquidated(u, coll, debt) => close_factor_kept(u, coll, debt)]_vars
  BY <1>1
<1> QED BY <1>2, LiquidationTypeCorrect, PTL
        DEF LiquidationSpec, CloseFactorBinds, close_factor_kept

(* A reserve is paid for the debt that is burned in it. *)
LEMMA PaidDebtGuards ==
  ASSUME TypeOK, TypeOK', NEW r \in Reserves, NEW u \in Accounts,
         NEW c \in Nat, NEW f \in Nat, NEW burned \in Nat,
         burn_paid(scaled_debt[r][u], burned,
                   reserve'[r].variable_borrow_index, c * RAY + f * RAY),
         cash'[r] = cash[r] + c,
         deficit'[r] = deficit[r] + f,
         total_debt_scaled'[r] = total_debt_scaled[r] - burned,
         scaled_debt'[r][u] = scaled_debt[r][u] - burned,
         total_supply_scaled'[r] = total_supply_scaled[r]
  PROVE  SurplusGuarded(r)
<1> DEFINE li == reserve'[r].liquidity_index
           bi == reserve'[r].variable_borrow_index
           held == scaled_debt[r][u]
           d == -burned
<1>1. /\ li \in Nat /\ bi \in Nat /\ RAY \in Nat /\ held \in Nat
      /\ total_debt_scaled[r] \in Nat /\ total_supply_scaled[r] \in Nat
  BY ScaleAssumption DEF TypeOK, ReserveData, Index
<1>2. /\ d \in Int /\ total_debt_scaled'[r] = total_debt_scaled[r] + d
      /\ total_supply_scaled'[r] = total_supply_scaled[r] + 0
      /\ d * bi = -(burned * bi) /\ 0 * li = 0
  BY <1>1
<1> HIDE DEF d, li, bi
<1>3. /\ surplus(r, reserve'[r]) \in Int
      /\ surplus(r, reserve[r])' = surplus(r, reserve'[r])
           + (c * RAY + d * bi + f * RAY - 0 * li)
  BY <1>2, SurplusMoves, 0 \in Int DEF li, bi
<1>4. c * RAY \in Nat /\ f * RAY \in Nat /\ burned * bi \in Nat
  BY <1>1, ProductNat
<1>5. surplus(r, reserve[r])'
        = surplus(r, reserve'[r]) + (c * RAY + f * RAY) - burned * bi
  BY <1>2, <1>3, <1>4
<1>6. \/ burned * bi <= c * RAY + f * RAY
      \/ /\ held > 0 /\ burned = held
         /\ burned * bi <= (c * RAY + f * RAY) + bi
  BY DEF burn_paid, bi
<1>7. CASE burned * bi <= c * RAY + f * RAY
  BY <1>3, <1>4, <1>5, <1>7 DEF SurplusGuarded
<1>8. CASE /\ held > 0 /\ burned = held
           /\ burned * bi <= (c * RAY + f * RAY) + bi
  <2>1. surplus(r, reserve[r])' >= surplus(r, reserve'[r]) - bi
    BY <1>1, <1>3, <1>4, <1>5, <1>8
  <2>2. emptied(scaled_debt[r], scaled_debt'[r])
    BY <1>1, <1>8 DEF emptied, held
  <2> QED BY <2>1, <2>2 DEF SurplusGuarded, bi
<1> QED BY <1>6, <1>7, <1>8

(* A reserve whose shares are redeemed: at their ceiling, or all of them   *)
(* at the rounded balance.                                                 *)
redeemed(held, shares, index, paid) ==
  \/ paid * RAY <= shares * index
  \/ shares = held /\ paid <= ray_mul(held, index)

(* A reserve that redeems shares is no poorer for it. *)
LEMMA RedeemedGuards ==
  ASSUME TypeOK, TypeOK', NEW r \in Reserves, NEW u \in Accounts,
         NEW c \in Nat, NEW shares \in Nat, shares > 0,
         redeemed(scaled_balance[r][u], shares, reserve'[r].liquidity_index, c),
         cash'[r] = cash[r] - c,
         deficit'[r] = deficit[r],
         total_debt_scaled'[r] = total_debt_scaled[r],
         total_supply_scaled'[r] = total_supply_scaled[r] - shares,
         scaled_balance'[r][u] = scaled_balance[r][u] - shares
  PROVE  SurplusGuarded(r)
<1> DEFINE li == reserve'[r].liquidity_index
           bi == reserve'[r].variable_borrow_index
           held == scaled_balance[r][u]
           m == -c
           t == -shares
<1>1. /\ li \in Nat /\ bi \in Nat /\ RAY \in Nat /\ held \in Nat
      /\ total_debt_scaled[r] \in Nat /\ total_supply_scaled[r] \in Nat
      /\ cash[r] \in Nat /\ deficit[r] \in Nat
  BY ScaleAssumption DEF TypeOK, ReserveData, Index
<1>2. /\ m \in Int /\ t \in Int /\ cash'[r] = cash[r] + m
      /\ total_supply_scaled'[r] = total_supply_scaled[r] + t
  BY <1>1
<1>3. /\ m * RAY = -(c * RAY) /\ t * li = -(shares * li)
      /\ 0 * bi = 0 /\ 0 * RAY = 0
  <2> HIDE DEF li, bi
  <2>1. (-c) * RAY = -(c * RAY) /\ (-shares) * li = -(shares * li)
    BY <1>1, SMT
  <2>2. 0 * bi = 0 /\ 0 * RAY = 0
    BY <1>1
  <2> QED BY <2>1, <2>2
<1>9. /\ total_debt_scaled'[r] = total_debt_scaled[r] + 0
      /\ deficit'[r] = deficit[r] + 0
  <2> HIDE DEF li, bi, held, m, t
  <2> QED BY <1>1
<1> HIDE DEF m, t, li, bi
<1>4. /\ surplus(r, reserve'[r]) \in Int
      /\ surplus(r, reserve[r])' = surplus(r, reserve'[r])
           + (m * RAY + 0 * bi + 0 * RAY - t * li)
  BY <1>2, <1>9, SurplusMoves, 0 \in Int DEF li, bi
<1>5. c * RAY \in Nat /\ shares * li \in Nat
  BY <1>1, ProductNat
<1>6. surplus(r, reserve[r])'
        = surplus(r, reserve'[r]) - c * RAY + shares * li
  BY <1>3, <1>4, <1>5
<1>7. CASE c * RAY <= shares * li
  BY <1>4, <1>5, <1>6, <1>7 DEF SurplusGuarded
<1>8. CASE shares = held /\ c <= ray_mul(held, li)
  <2>1. /\ ray_mul(held, li) \in Nat /\ held * li \in Nat
        /\ ray_mul(held, li) * RAY <= held * li + HALF_RAY
    BY <1>1, RayMulBounds
  <2>2. c * RAY <= ray_mul(held, li) * RAY /\ ray_mul(held, li) * RAY \in Nat
    BY <1>1, <1>8, <2>1, ProductNat, ProductMonotone
  <2>3. surplus(r, reserve[r])' >= surplus(r, reserve'[r]) - HALF_RAY
    BY <1>4, <1>5, <1>6, <1>8, <2>1, <2>2, HalfRay
  <2>4. emptied(scaled_balance[r], scaled_balance'[r])
    BY <1>1, <1>8 DEF emptied, held
  <2> QED BY <2>3, <2>4 DEF SurplusGuarded
<1> QED BY <1>7, <1>8 DEF li, redeemed

(* A call guards the surplus of both of its reserves, and of the others. *)
LEMMA LiquidationGuards ==
  ASSUME TypeOK, NEW l \in Users, NEW u \in Users,
         NEW coll \in Reserves, NEW debt \in Reserves,
         NEW n \in Nat, NEW b \in BOOLEAN,
         LiquidationCall(l, u, coll, debt, n, b),
         NEW r \in Reserves
  PROVE  SurplusGuarded(r)
<1> DEFINE s == settled(u, coll, debt, n)
           burned == debt_of_call_burned(u, debt, s)
           index  == accrued_liquidity(coll)
           shares == a_token_burned(coll, u, s.seized, index)
<1>1. /\ TypeOK' /\ u \in Accounts
      /\ reserve'[debt].variable_borrow_index = accrued_borrow(debt)
      /\ reserve'[coll].liquidity_index = index
  BY LiquidationType, UserIsAccount DEF stored_ok
<1>2. /\ coll # debt /\ Pay(l, coll, debt, s, b)
      /\ BurnDebt(u, debt, s, accrued_borrow(debt))
      /\ IF b THEN PayInATokens(l, u, coll, s, index)
              ELSE PayInUnderlying(l, u, coll, s, index)
      /\ s.covered \in Nat /\ s.seized \in Nat /\ s.fee \in Nat
      /\ s.to_liquidator \in Nat /\ s.bad_debt \in Nat
      /\ s.seized <= collateral_of(u, coll)
      /\ s.to_liquidator = s.seized - s.fee
  BY LiquidationParts, LiquidationAmounts DEF settlement_ok
<1>3. s.seized <= cash[coll] \/ b
  BY LiquidationShares
<1> HIDE DEF s
<1>4. /\ burned \in Nat
      /\ burn_paid(scaled_debt[debt][u], burned, accrued_borrow(debt),
                   s.covered * RAY + s.bad_debt * RAY)
      /\ deficit' = [deficit EXCEPT ![debt] = @ + s.bad_debt]
      /\ scaled_debt'[debt][u] = scaled_debt[debt][u] - burned
      /\ total_debt_scaled'[debt] = total_debt_scaled[debt] - burned
      /\ \A q \in Reserves : q # debt =>
           total_debt_scaled'[q] = total_debt_scaled[q]
  BY <1>2, LiquidationBurns, LiquidationDebt
<1>5. /\ cash'[debt] = cash[debt] + s.covered
      /\ cash'[coll] = IF b THEN cash[coll] ELSE cash[coll] - s.seized
      /\ \A q \in Reserves \ {coll, debt} : cash'[q] = cash[q]
  BY <1>2, <1>3, LiquidationFunds
<1>6. \A q \in Reserves : q # debt => deficit'[q] = deficit[q]
  BY <1>4 DEF TypeOK
<1>7. /\ b => total_supply_scaled' = total_supply_scaled
      /\ ~b => /\ shares \in Nat /\ shares > 0
               /\ shares < scaled_balance[coll][u] =>
                    s.seized * RAY <= shares * index
               /\ shares <= scaled_balance[coll][u]
               /\ ATokenBurn(coll, u, shares)
               /\ scaled_balance'[coll][u] = scaled_balance[coll][u] - shares
  <2>1. CASE b
    BY <1>2, <2>1, PaidInATokens
  <2>2. CASE ~b
    <3>1. /\ shares \in Nat /\ shares <= scaled_balance[coll][u]
          /\ shares < scaled_balance[coll][u] =>
               s.seized * RAY <= shares * index
      BY <1>2, ATokenShares
    <3>2. /\ ATokenBurn(coll, u, shares) /\ shares > 0
          /\ scaled_balance'[coll][u] = scaled_balance[coll][u] - shares
      BY <1>2, <2>2, PaidInUnderlying
    <3> HIDE DEF shares, index
    <3> QED BY <2>2, <3>1, <3>2
  <2> QED BY <2>1, <2>2
<1> HIDE DEF burned, shares, index
<1>8. /\ ~b => total_supply_scaled'[coll] = total_supply_scaled[coll] - shares
      /\ \A q \in Reserves : q # coll =>
           total_supply_scaled'[q] = total_supply_scaled[q]
  BY <1>7 DEF ATokenBurn, TypeOK
<1>9. CASE r = debt
  <2>1. deficit'[debt] = deficit[debt] + s.bad_debt
    BY <1>4 DEF TypeOK
  <2>2. total_supply_scaled'[debt] = total_supply_scaled[debt]
    BY <1>2, <1>8
  <2> QED BY <1>1, <1>2, <1>4, <1>5, <1>9, <2>1, <2>2, PaidDebtGuards
<1>10. CASE r = coll /\ ~b
  <2> DEFINE held == scaled_balance[coll][u]
  <2>1. held \in Nat
    BY <1>1 DEF TypeOK
  <2>2. redeemed(held, shares, index, s.seized)
    <3>1. CASE shares < held
      BY <1>7, <1>10, <3>1 DEF redeemed
    <3>2. CASE shares = held
      <4>1. \/ collateral_of(u, coll) = ray_mul(held, index)
            \/ collateral_of(u, coll) = 0
        BY DEF collateral_of, supplied, index, accrued_liquidity
      <4>2. CASE collateral_of(u, coll) = ray_mul(held, index)
        BY <1>2, <3>2, <4>2 DEF redeemed
      <4>3. CASE collateral_of(u, coll) = 0
        <5>1. s.seized = 0
          BY <1>2, <4>3
        <5>2. s.seized * RAY = 0 /\ shares * index \in Nat
          <6>1. index \in Nat
            BY AccruedIndices DEF index, accrued_liquidity
          <6> QED BY <1>7, <1>10, <5>1, <6>1, ProductNat, ScaleAssumption
        <5> QED BY <5>2 DEF redeemed
      <4> QED BY <4>1, <4>2, <4>3
    <3> QED BY <1>7, <1>10, <2>1, <3>1, <3>2
  <2>3. /\ cash'[coll] = cash[coll] - s.seized
        /\ deficit'[coll] = deficit[coll]
        /\ total_debt_scaled'[coll] = total_debt_scaled[coll]
        /\ total_supply_scaled'[coll] = total_supply_scaled[coll] - shares
        /\ scaled_balance'[coll][u] = scaled_balance[coll][u] - shares
    BY <1>2, <1>4, <1>5, <1>6, <1>7, <1>8, <1>10
  <2> QED BY <1>1, <1>2, <1>7, <1>10, <2>2, <2>3, RedeemedGuards
<1>11. CASE r # debt /\ (r # coll \/ b)
  <2>1. /\ cash'[r] = cash[r] /\ deficit'[r] = deficit[r]
        /\ total_debt_scaled'[r] = total_debt_scaled[r]
        /\ total_supply_scaled'[r] = total_supply_scaled[r]
    BY <1>4, <1>5, <1>6, <1>7, <1>8, <1>11
  <2> QED BY <1>1, <2>1, SurplusKept
<1> QED BY <1>9, <1>10, <1>11

(***************************************************************************)
(* A liquidation leaves no reserve poorer, as no other operation does: the *)
(* shares that are burned are worth what is paid out for them, and the     *)
(* debt that is burned was paid for, but for the last unit of an account   *)
(* that is emptied and for bad debt, which RoundingFavoursPool sets apart  *)
(* (liquidation.rs, internal_liquidation_call; a-token and debt-token,     *)
(* burn_scaled).                                                           *)
(***************************************************************************)
THEOREM RoundingFavoursUnderLiquidation ==
  LiquidationSpec => RoundingFavoursPool
<1>1. ASSUME TypeOK, [LiquidationNext]_vars
      PROVE  \A r \in Reserves : SurplusGuarded(r)
  <2>1. CASE [Next]_vars
    BY <1>1, <2>1, NextGuards
  <2>2. CASE Liquidate
    <3>1. PICK l, v \in Users, c, d \in Reserves, n \in Amounts, b \in BOOLEAN :
            LiquidationCall(l, v, c, d, n, b)
      BY <2>2 DEF Liquidate
    <3>2. n \in Nat
      BY AmountsNat
    <3> QED BY <1>1, <3>1, <3>2, LiquidationGuards
  <2> QED BY <1>1, <2>1, <2>2 DEF LiquidationNext
<1>2. TypeOK /\ [LiquidationNext]_vars =>
        [\A r \in Reserves : SurplusGuarded(r)]_vars
  BY <1>1
<1> QED BY <1>2, LiquidationTypeCorrect, PTL
        DEF LiquidationSpec, RoundingFavoursPool

(* The types of the variables of the two-step calls. *)
PreparedType ==
  /\ authorization \in
       [Users -> [Users -> LiquidationAuthorization \union {NoAuthorization}]]
  /\ liquidation_nonce \in Nat
  /\ router_cash \in [Reserves -> Nat]

(* The two reserves that prepare and execute accrue. *)
LEMMA AccruedPair ==
  ASSUME TypeOK, NEW coll \in Reserves, NEW debt \in Reserves
  PROVE  /\ two_accrued(coll, debt, accrued(coll, debt))
         /\ accrued(coll, debt) \in [Reserves -> ReserveData]
         /\ \A r \in Reserves :
              /\ accrued(coll, debt)[r].last_update_timestamp <= now
              /\ accrued(coll, debt)[r].configuration
                   = reserve[r].configuration
<1>1. now \in Nat /\ \A r \in Reserves :
        /\ update_state(reserve[r]) \in ReserveData
        /\ update_state(reserve[r]).last_update_timestamp = now
        /\ update_state(reserve[r]).configuration = reserve[r].configuration
        /\ reserve[r] \in ReserveData /\ reserve[r].last_update_timestamp <= now
  BY UpdateStateType DEF TypeOK
<1>2. \A r \in Reserves :
        accrued(coll, debt)[r] = IF r \in {coll, debt}
                                 THEN update_state(reserve[r]) ELSE reserve[r]
  BY DEF accrued
<1>3. two_accrued(coll, debt, accrued(coll, debt))
  BY <1>2 DEF two_accrued
<1>4. accrued(coll, debt) \in [Reserves -> ReserveData]
  BY <1>1 DEF accrued
<1>5. \A r \in Reserves :
        /\ accrued(coll, debt)[r].last_update_timestamp <= now
        /\ accrued(coll, debt)[r].configuration = reserve[r].configuration
  BY <1>1, <1>2
<1> QED BY <1>3, <1>4, <1>5

(* Preparing keeps the types: the seizure it stores is a natural. *)
LEMMA PrepareType ==
  ASSUME TypeOK, PreparedType, NEW l \in Users, NEW u \in Users,
         NEW coll \in Reserves, NEW debt \in Reserves,
         NEW n \in Nat, NEW m \in Nat,
         Prepare(l, u, coll, debt, n, m)
  PROVE  TypeOK' /\ PreparedType'
<1> DEFINE rd == accrued(coll, debt)
           owing == owed(debt, u, rd[debt])
           effective == debt_covered(rd[debt].configuration, owing, n)
           auth == authorization_for(coll, debt, effective, m)
<1>1. /\ price[coll] > 0
      /\ authorization' = [authorization EXCEPT ![l][u] = auth]
      /\ liquidation_nonce' = liquidation_nonce + 1
      /\ reserve' = rd
      /\ UNCHANGED <<environment, funds, tokens, bitmaps, deficit,
                     router_cash, executed>>
  BY DEF Prepare, prices_available
<1>2. /\ rd \in [Reserves -> ReserveData]
      /\ \A r \in Reserves : rd[r].last_update_timestamp <= now
  BY AccruedPair
<1>3. TypeOK'
  BY <1>1, <1>2 DEF TypeOK, environment, funds, tokens, bitmaps
<1>4. auth \in LiquidationAuthorization
  <2>1. u \in Accounts /\ scaled_debt[debt][u] \in Nat
    BY UserIsAccount DEF TypeOK
  <2>2. rd[debt].variable_borrow_index \in Nat
    BY <1>2 DEF ReserveData, Index
  <2>3. owing \in Nat
    BY <2>1, <2>2, RayMulType DEF owed
  <2> HIDE DEF owing
  <2>4. effective \in Nat
    BY <2>3 DEF debt_covered
  <2> HIDE DEF effective
  <2>5. collateral_to_seize(coll, debt, effective) \in Nat
    BY <1>1, <2>4, WantedBound
  <2>6. /\ price[debt] \in Nat /\ price[coll] \in Nat
        /\ now + AUTHORIZATION_TTL \in Nat /\ liquidation_nonce \in Nat
    BY TwoStepAssumption DEF TypeOK, PreparedType
  <2> QED BY <2>4, <2>5, <2>6 DEF authorization_for, LiquidationAuthorization
<1> HIDE DEF auth
<1>5. PreparedType'
  BY <1>1, <1>4 DEF PreparedType
<1> QED BY <1>3, <1>5

-----------------------------------------------------------------------------
(* Both weights are naturals. *)
LEMMA WeightsType ==
  ASSUME TypeOK, NEW coll \in Reserves, NEW debt \in Reserves
  PROVE  seized_weight(coll, debt) \in Nat /\ covered_weight(coll, debt) \in Nat
<1>1. /\ price[coll] \in Nat /\ price[debt] \in Nat
      /\ reserve[debt].configuration.decimals_pow \in Nat
      /\ reserve[coll].configuration.decimals_pow \in Nat
      /\ reserve[coll].configuration.liquidation_bonus \in Nat
      /\ BASIS_POINTS_MULTIPLIER \in Nat
  BY MarketType, ScaleAssumption
<1> QED BY <1>1, ProductNat DEF seized_weight, covered_weight

(* What an execution comes to, however the authorized amount was adjusted. *)
LEMMA ExecutionBounds ==
  ASSUME TypeOK, NEW auth \in LiquidationAuthorization,
         price[auth.collateral_asset] > 0, NEW cb \in Nat, NEW db \in Nat
  PROVE  LET x == execution(auth, cb, db)
             coll == auth.collateral_asset
             debt == auth.debt_asset
         IN  /\ x.capped \in BOOLEAN /\ x.covered \in Nat /\ x.seized \in Nat
             /\ x.seized <= cb /\ x.seized <= auth.collateral_to_seize
             /\ x.seized * seized_weight(coll, debt)
                  <= x.covered * covered_weight(coll, debt)
             /\ x.capped \/ x.covered = db \/ x.covered = auth.debt_to_cover
<1> DEFINE x == execution(auth, cb, db)
           coll == auth.collateral_asset
           debt == auth.debt_asset
           n == auth.debt_to_cover
           asked  == debt_covered(reserve[debt].configuration, db, n)
           today  == collateral_to_seize(coll, debt, asked)
           prepared == auth.collateral_to_seize
           wanted == lesser(today, prepared)
           capped == wanted > cb
           cut == (asked * cb + wanted - 1) \div wanted
           y == seized_weight(coll, debt)
           z == covered_weight(coll, debt)
<1>1. /\ coll \in Reserves /\ debt \in Reserves /\ n \in Nat
      /\ prepared \in Nat
  BY DEF LiquidationAuthorization
<1>2. asked \in Nat /\ asked \in {db, n}
  BY <1>1, AskedType
<1>3. /\ x.capped = capped /\ x.covered = (IF capped THEN cut ELSE asked)
      /\ x.seized = (IF capped THEN cb ELSE wanted)
  BY DEF execution, safe_collateral_to_seize
<1>4. y \in Nat /\ z \in Nat
  BY <1>1, WeightsType
<1> HIDE DEF x, asked, n, prepared
<1>5. today \in Nat /\ today * y <= asked * z
  BY <1>1, <1>2, WantedBound
<1> HIDE DEF y, z, coll, debt, today
<1>6. wanted \in Nat /\ wanted <= today /\ wanted <= prepared
  BY <1>1, <1>5 DEF lesser
<1> HIDE DEF wanted
<1>7. wanted * y <= asked * z
  <2>1. wanted * y <= today * y
    BY <1>4, <1>5, <1>6, ProductMonotone, SMT
  <2>2. wanted * y \in Nat /\ today * y \in Nat /\ asked * z \in Nat
    BY <1>2, <1>4, <1>5, <1>6, ProductNat
  <2> QED BY <1>5, <2>1, <2>2
<1>8. capped => /\ cut \in Nat /\ cut <= asked /\ cb * y <= cut * z
  BY <1>2, <1>4, <1>6, <1>7, CutKeepsRate
<1> HIDE DEF cut
<1>9. /\ x.capped \in BOOLEAN /\ x.covered \in Nat /\ x.seized \in Nat
      /\ x.seized <= cb /\ x.seized <= prepared
      /\ x.seized * y <= x.covered * z
      /\ x.capped \/ x.covered = asked
  <2>1. CASE capped
    <3>1. x.covered = cut /\ x.seized = cb /\ x.capped = TRUE
      BY <1>3, <2>1
    <3>2. cb <= prepared
      BY <1>1, <1>6, <2>1
    <3>3. cut \in Nat /\ cb * y <= cut * z
      BY <1>8, <2>1
    <3>4. x.seized * y <= x.covered * z
      BY <3>1, <3>3
    <3>5. x.capped \in BOOLEAN /\ (x.capped \/ x.covered = asked)
      BY <3>1
    <3>6. x.covered \in Nat /\ x.seized \in Nat /\ x.seized <= cb
          /\ x.seized <= prepared
      BY <3>1, <3>2, <3>3
    <3> QED BY <3>4, <3>5, <3>6
  <2>2. CASE ~capped
    BY <1>1, <1>2, <1>3, <1>6, <1>7, <2>2
  <2> QED BY <2>1, <2>2
<1> QED BY <1>2, <1>9 DEF x, y, z, coll, debt, n, prepared

(* What it burns: the covered part, and everything when capped.            *)
LEMMA ExecutionBurns ==
  ASSUME TypeOK, NEW u \in Users, NEW coll \in Reserves, NEW debt \in Reserves,
         NEW x, x.capped \in BOOLEAN, x.covered \in Nat, x.seized \in Nat,
         burns(u, x, coll, debt, accrued(coll, debt)).fits
  PROVE  LET b == burns(u, x, coll, debt, accrued(coll, debt))
             held  == scaled_debt[debt][u]
             index == accrued_borrow(debt)
         IN  /\ b.debt \in Nat /\ b.debt <= held
             /\ b.bad_debt \in Nat /\ b.sold \in Nat
             /\ x.capped => b.debt_left = 0
             /\ ~x.capped => /\ b.debt = debt_burned(held, x.covered, index)
                             /\ b.debt <= ray_div_down(x.covered, index) + 1
                             /\ b.debt_left = ray_mul(held - b.debt, index)
             /\ b.shares =
                  a_token_burned(coll, u, x.seized, accrued_liquidity(coll))
<1> DEFINE b == burns(u, x, coll, debt, accrued(coll, debt))
           held  == scaled_debt[debt][u]
           index == accrued_borrow(debt)
           first == debt_burned(held, x.covered, index)
           rest  == held - first
           left  == ray_mul(rest, index)
           bad   == IF x.capped THEN left ELSE 0
           second == IF bad > 0 THEN debt_burned(rest, bad, index) ELSE 0
           c_index == accrued_liquidity(coll)
           shares == a_token_burned(coll, u, x.seized, c_index)
<1>1. /\ held \in Nat /\ index \in Nat /\ index > 0 /\ index >= RAY
      /\ c_index \in Nat
  BY UserIsAccount, AccruedIndices
  DEF TypeOK, accrued_borrow, accrued_liquidity
<1>2. /\ accrued(coll, debt)[debt].variable_borrow_index = index
      /\ accrued(coll, debt)[coll].liquidity_index = c_index
  BY DEF accrued, accrued_borrow, accrued_liquidity
<1>3. /\ b.fits = (ray_div_down(x.covered, index) <= held)
      /\ b.debt = first + second /\ b.bad_debt = bad
      /\ b.debt_left = (IF x.capped THEN 0 ELSE left)
      /\ b.shares = shares
      /\ b.sold = lesser(ray_mul_down(shares, c_index), x.seized)
  BY <1>2 DEF burns, remaining
<1>4. shares \in Nat
  BY ATokenShares
<1> HIDE DEF b, held, index, c_index, shares
<1>5. first \in Nat /\ first <= held
      /\ first <= ray_div_down(x.covered, index) + 1
  BY <1>1, <1>3, OneDebtBurn DEF b
<1> HIDE DEF first
<1>6. rest \in Nat
  BY <1>1, <1>5
<1> HIDE DEF rest
<1>7. left \in Nat /\ ray_div_down(left, index) <= rest
  <2>1. CASE rest = 0
    <3>2. left = 0
      BY <1>1, <2>1, RayMulZero
    <3> HIDE DEF left
    <3>3. ray_div_down(left, index) \in Nat
          /\ ray_div_down(left, index) * index <= left * RAY
      BY <1>1, <3>2, QuotientBounds
    <3>4. left * RAY = 0
      BY <3>2, ScaleAssumption
    <3>5. ray_div_down(left, index) = 0
      BY <1>1, <3>3, <3>4, SMT
    <3> QED BY <2>1, <3>2, <3>5
  <2>2. CASE rest > 0
    BY <1>1, <1>6, <2>2, RoundTrip
  <2> QED BY <1>6, <2>1, <2>2
<1> HIDE DEF left
<1>8. bad \in Nat /\ (bad > 0 => ray_div_down(bad, index) <= rest)
  BY <1>7
<1>9. second \in Nat /\ second <= rest /\ (~x.capped => second = 0)
  <2>1. CASE bad > 0
    <3> HIDE DEF bad
    <3>1. second = debt_burned(rest, bad, index)
      BY <2>1
    <3>2. debt_burned(rest, bad, index) \in Nat
          /\ debt_burned(rest, bad, index) <= rest
      BY <1>1, <1>6, <1>8, <2>1, OneDebtBurn
    <3> QED BY <2>1, <3>1, <3>2 DEF bad
  <2>2. CASE ~(bad > 0)
    BY <1>6, <2>2
  <2> QED BY <2>1, <2>2
<1> HIDE DEF second
<1>10. b.debt \in Nat /\ b.debt <= held /\ b.bad_debt \in Nat
  BY <1>1, <1>3, <1>5, <1>6, <1>8, <1>9 DEF rest
<1>11. ~x.capped => /\ b.debt = first
                    /\ b.debt_left = ray_mul(held - b.debt, index)
  BY <1>3, <1>5, <1>9 DEF left, rest
<1>12. b.sold \in Nat
  <2>1. ray_mul_down(shares, c_index) \in Nat
    <3>1. shares * c_index \in Nat
      BY <1>1, <1>4, ProductNat
    <3> QED BY <3>1, DivBounds, ScaleAssumption DEF ray_mul_down
  <2> QED BY <1>3, <2>1 DEF lesser
<1>13. x.capped => b.debt_left = 0
  BY <1>3
<1> QED BY <1>3, <1>5, <1>10, <1>11, <1>12, <1>13
        DEF b, held, index, first, c_index, shares

(* The execution that the authorization of a pair stands for today.        *)
execution_of(l, u) ==
  LET auth == authorization[l][u]
  IN  execution(auth, collateral_of(u, auth.collateral_asset),
                debt_of(u, auth.debt_asset))

burns_of(l, u) ==
  LET auth == authorization[l][u]
      coll == auth.collateral_asset
      debt == auth.debt_asset
  IN  burns(u, execution_of(l, u), coll, debt, accrued(coll, debt))

(* An execution is made of those amounts, two burns and two accruals. *)
LEMMA ExecutionParts ==
  ASSUME TypeOK, PreparedType, NEW l \in Users, NEW u \in Users,
         NEW deadline, NEW out, Execute(l, u, deadline, out)
  PROVE  LET auth == authorization[l][u]
             coll == auth.collateral_asset
             debt == auth.debt_asset
             rd   == accrued(coll, debt)
             hf   == account_data(u, collateral[u], borrowing[u],
                                  rd).health_factor
             x    == execution_of(l, u)
             b    == burns_of(l, u)
         IN  /\ auth \in LiquidationAuthorization
             /\ coll \in Reserves /\ debt \in Reserves /\ coll # debt
             /\ price[coll] > 0
             /\ hf < WAD
             /\ value_in_base(debt, auth.debt_to_cover)
                  <= max_liquidatable_debt(hf,
                       value_in_base(debt, debt_of(u, debt)),
                       value_in_base(coll, collateral_of(u, coll)))
             /\ x.seized > 0 /\ b.fits
             /\ DebtBurn(debt, u, b.debt)
             /\ ATokenBurn(coll, u, b.shares)
             /\ ShareProceeds(l, coll, debt, x, b.sold, out)
             /\ BookExecution(u, coll, debt, b, rd)
             /\ authorization' = remove_authorization(l, u)
             /\ executed' = executed \union {auth.nonce}
             /\ UNCHANGED <<environment, liquidation_nonce>>
<1> DEFINE auth == authorization[l][u]
           coll == auth.collateral_asset
           debt == auth.debt_asset
           rd   == accrued(coll, debt)
           x    == execution_of(l, u)
           b    == burns_of(l, u)
<1>1. auth \in LiquidationAuthorization
  BY DEF Execute, may_execute, authorized, PreparedType
<1>2. coll \in Reserves /\ debt \in Reserves
  BY <1>1 DEF LiquidationAuthorization
<1>3. rd[coll] = update_state(reserve[coll])
      /\ rd[debt] = update_state(reserve[debt])
  BY <1>2 DEF accrued
<1>4. /\ (IF coll \in collateral[u] THEN supplied(coll, u, rd[coll]) ELSE 0)
           = collateral_of(u, coll)
      /\ (IF debt \in borrowing[u] THEN owed(debt, u, rd[debt]) ELSE 0)
           = debt_of(u, debt)
  BY <1>3 DEF collateral_of, debt_of
<1>5. /\ price[coll] > 0
      /\ data_at(u, rd).health_factor < WAD
      /\ within_close_factor(data_at(u, rd).health_factor, coll, debt,
           auth.debt_to_cover, collateral_of(u, coll), debt_of(u, debt))
      /\ x.seized > 0 /\ b.fits
      /\ DebtBurn(debt, u, b.debt)
      /\ ATokenBurn(coll, u, b.shares)
      /\ ShareProceeds(l, coll, debt, x, b.sold, out)
      /\ BookExecution(u, coll, debt, b, rd)
      /\ authorization' = remove_authorization(l, u)
      /\ executed' = executed \union {auth.nonce}
      /\ UNCHANGED <<environment, liquidation_nonce>>
  BY <1>4 DEF Execute, may_execute, still_unhealthy, prices_available,
     execution_of, burns_of
<1>6. coll # debt
  BY <1>5 DEF ShareProceeds
<1> QED BY <1>1, <1>2, <1>5, <1>6 DEF data_at, within_close_factor

(* Its amounts. *)
LEMMA ExecutionAmounts ==
  ASSUME TypeOK, PreparedType, NEW l \in Users, NEW u \in Users,
         NEW deadline, NEW out, Execute(l, u, deadline, out)
  PROVE  LET auth == authorization[l][u]
             coll == auth.collateral_asset
             debt == auth.debt_asset
             x    == execution_of(l, u)
             b    == burns_of(l, u)
             held == scaled_debt[debt][u]
             index == accrued_borrow(debt)
         IN  /\ x.capped \in BOOLEAN /\ x.covered \in Nat /\ x.seized \in Nat
             /\ x.seized <= collateral_of(u, coll)
             /\ x.seized <= auth.collateral_to_seize
             /\ x.seized * seized_weight(coll, debt)
                  <= x.covered * covered_weight(coll, debt)
             /\ \/ x.capped
                \/ x.covered = debt_of(u, debt)
                \/ x.covered = auth.debt_to_cover
             /\ b.debt \in Nat /\ b.debt <= held
             /\ b.bad_debt \in Nat /\ b.sold \in Nat
             /\ x.capped => b.debt_left = 0
             /\ ~x.capped => /\ b.debt = debt_burned(held, x.covered, index)
                             /\ b.debt <= ray_div_down(x.covered, index) + 1
                             /\ b.debt_left = ray_mul(held - b.debt, index)
             /\ b.shares =
                  a_token_burned(coll, u, x.seized, accrued_liquidity(coll))
<1> DEFINE auth == authorization[l][u]
           coll == auth.collateral_asset
           debt == auth.debt_asset
           x    == execution_of(l, u)
           b    == burns_of(l, u)
<1>1. /\ auth \in LiquidationAuthorization
      /\ coll \in Reserves /\ debt \in Reserves
      /\ price[coll] > 0 /\ b.fits
  BY ExecutionParts
<1>2. collateral_of(u, coll) \in Nat /\ debt_of(u, debt) \in Nat
  BY <1>1, BalancesType
<1>3. x = execution(auth, collateral_of(u, coll), debt_of(u, debt))
      /\ b = burns(u, x, coll, debt, accrued(coll, debt))
  BY DEF execution_of, burns_of
<1> HIDE DEF auth, x, b
<1>4. /\ x.capped \in BOOLEAN /\ x.covered \in Nat /\ x.seized \in Nat
      /\ x.seized <= collateral_of(u, coll)
      /\ x.seized <= auth.collateral_to_seize
      /\ x.seized * seized_weight(coll, debt)
           <= x.covered * covered_weight(coll, debt)
      /\ \/ x.capped
         \/ x.covered = debt_of(u, debt)
         \/ x.covered = auth.debt_to_cover
  BY <1>1, <1>2, <1>3, ExecutionBounds
<1> HIDE DEF coll, debt
<1>5. LET held == scaled_debt[debt][u]
          index == accrued_borrow(debt)
      IN  /\ b.debt \in Nat /\ b.debt <= held
          /\ b.bad_debt \in Nat /\ b.sold \in Nat
          /\ x.capped => b.debt_left = 0
          /\ ~x.capped => /\ b.debt = debt_burned(held, x.covered, index)
                          /\ b.debt <= ray_div_down(x.covered, index) + 1
                          /\ b.debt_left = ray_mul(held - b.debt, index)
          /\ b.shares =
               a_token_burned(coll, u, x.seized, accrued_liquidity(coll))
  BY <1>1, <1>3, <1>4, ExecutionBurns
<1> QED BY <1>4, <1>5 DEF auth, coll, debt, x, b

(* The funds after the swap: the router pays the pool what it can. *)
LEMMA ProceedsType ==
  ASSUME TypeOK, PreparedType, NEW l \in Users, NEW coll \in Reserves,
         NEW debt \in Reserves, NEW x, x.covered \in Nat, NEW sold \in Nat,
         NEW out \in Nat, ShareProceeds(l, coll, debt, x, sold, out)
  PROVE  /\ cash' \in [Reserves -> Nat]
         /\ wallet' \in [Reserves -> [Accounts -> Nat]]
         /\ router_cash' \in [Reserves -> Nat]
         /\ router_cash'[debt] = router_cash[debt] + x.covered
<1> DEFINE fee == liquidator_fee(x.covered)
           rest == out - x.covered - fee
           one == [wallet EXCEPT ![debt][Treasury] = @ + fee]
           two == [one EXCEPT ![debt][l] = wallet[debt][l] + rest]
<1>1. l \in Accounts /\ Treasury \in Accounts /\ l # Treasury
  BY UserIsAccount, PoolAssumption DEF Accounts
<1>2. /\ out >= x.covered + fee /\ cash[coll] >= sold
      /\ cash' = [cash EXCEPT ![coll] = @ - sold]
      /\ router_cash' = [router_cash EXCEPT ![debt] = @ + x.covered]
      /\ wallet' = two
  BY DEF ShareProceeds
<1>3. fee \in Nat
  <2> DEFINE p == FLASH_LOAN_PREMIUM + FLASH_LIQUIDATION_PREMIUM
             n == x.covered * p + BASIS_POINTS_MULTIPLIER - 1
  <2>1. p \in Nat
    BY LiquidationAssumption, TwoStepAssumption, ScaleAssumption
  <2> HIDE DEF p
  <2>2. n \in Nat
    <3>1. x.covered * p \in Nat
      BY <2>1, ProductNat
    <3> QED BY <3>1, ScaleAssumption
  <2>3. fee = n \div BASIS_POINTS_MULTIPLIER
    BY DEF liquidator_fee, percent_mul_up, p
  <2> HIDE DEF n, fee
  <2> QED BY <2>2, <2>3, DivBounds, ScaleAssumption
<1> HIDE DEF fee
<1>4. rest \in Nat
  BY <1>2, <1>3
<1> HIDE DEF rest
<1>5. two \in [Reserves -> [Accounts -> Nat]]
  <2>1. one \in [Reserves -> [Accounts -> Nat]]
    BY <1>1, <1>3 DEF TypeOK
  <2> HIDE DEF one
  <2> QED BY <1>1, <1>4, <2>1 DEF TypeOK
<1> HIDE DEF two
<1>6. cash[coll] - sold \in Nat
  BY <1>2 DEF TypeOK
<1>7. cash' \in [Reserves -> Nat]
  BY <1>2, <1>6 DEF TypeOK
<1>8. /\ router_cash' \in [Reserves -> Nat]
      /\ router_cash'[debt] = router_cash[debt] + x.covered
  <2>1. router_cash[debt] + x.covered \in Nat
    BY DEF PreparedType
  <2> QED BY <1>2, <2>1 DEF PreparedType
<1> QED BY <1>2, <1>5, <1>7, <1>8

(* Executing keeps the types. *)
LEMMA ExecuteType ==
  ASSUME TypeOK, PreparedType, NEW l \in Users, NEW u \in Users,
         NEW deadline, NEW out \in Nat, Execute(l, u, deadline, out)
  PROVE  LET auth == authorization[l][u]
             b    == burns_of(l, u)
         IN  /\ TypeOK' /\ PreparedType'
             /\ stored_ok(auth.collateral_asset, auth.debt_asset)
             /\ scaled_balance'[auth.collateral_asset][u]
                  = scaled_balance[auth.collateral_asset][u] - b.shares
             /\ scaled_debt'[auth.debt_asset][u]
                  = scaled_debt[auth.debt_asset][u] - b.debt
             /\ b.shares \in Nat /\ b.shares > 0
<1> DEFINE auth == authorization[l][u]
           coll == auth.collateral_asset
           debt == auth.debt_asset
           rd   == accrued(coll, debt)
           x    == execution_of(l, u)
           b    == burns_of(l, u)
<1>1. /\ auth \in LiquidationAuthorization
      /\ coll \in Reserves /\ debt \in Reserves /\ coll # debt
      /\ DebtBurn(debt, u, b.debt)
      /\ ATokenBurn(coll, u, b.shares)
      /\ ShareProceeds(l, coll, debt, x, b.sold, out)
      /\ BookExecution(u, coll, debt, b, rd)
      /\ authorization' = remove_authorization(l, u)
      /\ UNCHANGED <<environment, liquidation_nonce>>
  BY ExecutionParts
<1>2. /\ x.covered \in Nat /\ x.seized \in Nat
      /\ b.debt \in Nat /\ b.debt <= scaled_debt[debt][u]
      /\ b.bad_debt \in Nat /\ b.sold \in Nat
      /\ b.shares = a_token_burned(coll, u, x.seized, accrued_liquidity(coll))
  BY ExecutionAmounts
<1>3. u \in Accounts
  BY UserIsAccount
<1> HIDE DEF auth, coll, debt, x, b
<1>4. b.shares \in Nat /\ b.shares <= scaled_balance[coll][u] /\ b.shares > 0
  <2>1. b.shares \in Nat /\ b.shares <= scaled_balance[coll][u]
    BY <1>1, <1>2, ATokenShares
  <2>2. b.shares > 0
    BY <1>1 DEF ATokenBurn
  <2> QED BY <2>1, <2>2
<1>5. /\ scaled_balance' \in [Reserves -> [Accounts -> Nat]]
      /\ total_supply_scaled' \in [Reserves -> Nat]
      /\ scaled_debt' \in [Reserves -> [Accounts -> Nat]]
      /\ total_debt_scaled' \in [Reserves -> Nat]
  BY <1>1, <1>2, <1>3, <1>4, ATokenBurnType, DebtBurnType
<1>6. /\ scaled_balance'[coll][u] = scaled_balance[coll][u] - b.shares
      /\ scaled_debt'[debt][u] = scaled_debt[debt][u] - b.debt
  BY <1>1, <1>3 DEF ATokenBurn, DebtBurn, TypeOK
<1>7. /\ cash' \in [Reserves -> Nat]
      /\ wallet' \in [Reserves -> [Accounts -> Nat]]
      /\ router_cash' \in [Reserves -> Nat]
  BY <1>1, <1>2, ProceedsType
<1>8. /\ deficit' \in [Reserves -> Nat]
      /\ collateral' \in [Accounts -> SUBSET Reserves]
      /\ borrowing' \in [Accounts -> SUBSET Reserves]
  <2>1. /\ deficit' = [deficit EXCEPT ![debt] = @ + b.bad_debt]
        /\ collateral' = [collateral EXCEPT
             ![u] = IF b.collateral_left = 0 THEN @ \ {coll} ELSE @]
        /\ borrowing' = [borrowing EXCEPT
             ![u] = IF b.debt_left = 0 THEN @ \ {debt} ELSE @]
    BY <1>1 DEF BookExecution
  <2> QED BY <1>1, <1>2, <1>3, <2>1 DEF TypeOK
<1>9. now' = now /\ paused' = paused /\ price' = price
  BY <1>1 DEF environment
<1>10. stored_ok(coll, debt)
  <2>1. reserve' = [r \in Reserves |->
          IF r \in {coll, debt}
          THEN with_new_rates(r, rd[r], total_supply_scaled'[r],
                              total_debt_scaled'[r])
          ELSE rd[r]]
    BY <1>1 DEF BookExecution
  <2>2. \A r \in Reserves :
          rd[r] = IF r \in {coll, debt} THEN update_state(reserve[r])
                                        ELSE reserve[r]
    BY DEF accrued
  <2> DEFINE a == total_supply_scaled'[coll]
             c == total_debt_scaled'[coll]
             d == total_supply_scaled'[debt]
             e == total_debt_scaled'[debt]
  <2>3. /\ reserve'[coll] =
             with_new_rates(coll, update_state(reserve[coll]), a, c)
        /\ reserve'[debt] =
             with_new_rates(debt, update_state(reserve[debt]), d, e)
        /\ \A q \in Reserves \ {coll, debt} : reserve'[q] = reserve[q]
        /\ reserve' = [q \in Reserves |-> reserve'[q]]
    BY <1>1, <2>1, <2>2
  <2>4. a \in Nat /\ c \in Nat /\ d \in Nat /\ e \in Nat
    BY <1>1, <1>5
  <2> HIDE DEF a, c, d, e
  <2>5. two_stored(coll, debt, reserve')
    BY <2>3, <2>4 DEF two_stored
  <2> QED BY <1>1, <1>9, <2>3, <2>5, TwoReservesStored
<1>11. TypeOK'
  BY <1>5, <1>7, <1>8, <1>9, <1>10 DEF TypeOK, stored_ok
<1>12. PreparedType'
  BY <1>1, <1>7 DEF PreparedType, remove_authorization
<1> QED BY <1>4, <1>6, <1>10, <1>11, <1>12 DEF auth, coll, debt, b

(* What the argument about nonces needs beside the property itself: they   *)
(* are handed out in order, and only such were executed.                   *)
NoncesAreIssued ==
  /\ liquidation_nonce \in Nat
  /\ executed \subseteq 0 .. liquidation_nonce - 1
  /\ authorization =
       [l \in Users |-> [u \in Users |-> authorization[l][u]]]

SpentInv == NoncesAreIssued /\ AuthorizationsAreSpentOnce

-----------------------------------------------------------------------------
(* At first nothing is prepared. *)
LEMMA NothingPrepared == TwoStepInit => SpentInv
BY DEF TwoStepInit, SpentInv, NoncesAreIssued, AuthorizationsAreSpentOnce,
       authorized

(* A new authorization has a nonce nobody else has, stored or executed. *)
LEMMA PrepareKeepsNonces ==
  ASSUME SpentInv,
         NEW l \in Users, NEW u \in Users,
         NEW coll \in Reserves, NEW debt \in Reserves,
         NEW n \in Amounts, NEW m \in MinSwapOuts,
         Prepare(l, u, coll, debt, n, m)
  PROVE  SpentInv'
<1> DEFINE rd == accrued(coll, debt)
           auth == authorization_for(coll, debt,
                     debt_covered(rd[debt].configuration,
                                  owed(debt, u, rd[debt]), n), m)
<1>1. /\ authorization' = [authorization EXCEPT ![l][u] = auth]
      /\ auth.nonce = liquidation_nonce
  <2>1. authorization' = [authorization EXCEPT ![l][u] = auth]
    BY DEF Prepare
  <2>2. auth.nonce = liquidation_nonce
    BY DEF authorization_for
  <2> QED BY <2>1, <2>2
<1> HIDE DEF auth
<1>2. liquidation_nonce' = liquidation_nonce + 1 /\ executed' = executed
  BY DEF Prepare
<1>3. NoncesAreIssued'
  <2>1. /\ liquidation_nonce' \in Nat
        /\ executed' \subseteq 0 .. liquidation_nonce' - 1
    BY <1>2 DEF SpentInv, NoncesAreIssued
  <2>2. authorization' =
          [k \in Users |-> [v \in Users |-> authorization'[k][v]]]
    BY <1>1 DEF SpentInv, NoncesAreIssued
  <2> QED BY <2>1, <2>2 DEF NoncesAreIssued
<1>4. \A k, v \in Users :
        authorization'[k][v] = IF <<k, v>> = <<l, u>> THEN auth
                                                      ELSE authorization[k][v]
  BY <1>1 DEF SpentInv, NoncesAreIssued
<1>5. AuthorizationsAreSpentOnce'
  BY <1>1, <1>2, <1>4 DEF SpentInv, NoncesAreIssued,
     AuthorizationsAreSpentOnce, authorized
<1> QED BY <1>3, <1>5 DEF SpentInv

(* The executed nonce leaves the store as it enters the history. *)
LEMMA ExecuteSpendsNonce ==
  ASSUME SpentInv,
         NEW l \in Users, NEW u \in Users,
         NEW deadline, NEW out,
         Execute(l, u, deadline, out)
  PROVE  SpentInv'
<1> DEFINE spent == authorization[l][u].nonce
<1>1. /\ authorized(l, u)
      /\ authorization' = [authorization EXCEPT ![l][u] = NoAuthorization]
      /\ executed' = executed \union {spent}
      /\ liquidation_nonce' = liquidation_nonce
  BY DEF Execute, may_execute, remove_authorization
<1>2. spent \in 0 .. liquidation_nonce - 1
  BY <1>1 DEF SpentInv, AuthorizationsAreSpentOnce
<1>3. \A k, v \in Users :
        authorization'[k][v] = IF <<k, v>> = <<l, u>> THEN NoAuthorization
                                                      ELSE authorization[k][v]
  BY <1>1 DEF SpentInv, NoncesAreIssued
<1>4. NoncesAreIssued'
  <2>1. authorization' =
          [k \in Users |-> [v \in Users |-> authorization'[k][v]]]
    BY <1>1 DEF SpentInv, NoncesAreIssued
  <2> QED BY <1>1, <1>2, <2>1 DEF SpentInv, NoncesAreIssued
<1>5. AuthorizationsAreSpentOnce'
  <2> SUFFICES ASSUME NEW i \in Users, NEW a \in Users, authorized(i, a)'
               PROVE  /\ authorization'[i][a].nonce
                           \in 0 .. liquidation_nonce' - 1
                      /\ authorization'[i][a].nonce \notin executed'
                      /\ \A k, v \in Users :
                           authorized(k, v)' /\ <<k, v>> # <<i, a>> =>
                             authorization'[k][v].nonce
                               # authorization'[i][a].nonce
    BY DEF AuthorizationsAreSpentOnce, authorized
  <2>1. <<i, a>> # <<l, u>> /\ authorized(i, a)
          /\ authorization'[i][a] = authorization[i][a]
    BY <1>3 DEF authorized
  <2>2. authorization[i][a].nonce # spent
    BY <1>1, <2>1 DEF SpentInv, AuthorizationsAreSpentOnce
  <2> QED BY <1>1, <1>3, <2>1, <2>2
          DEF SpentInv, AuthorizationsAreSpentOnce, authorized
<1> QED BY <1>4, <1>5 DEF SpentInv

(* The pool's other transactions touch neither store nor counter. *)
LEMMA OthersKeepNonces ==
  ASSUME SpentInv, UNCHANGED two_step_vars
  PROVE  SpentInv'
BY DEF SpentInv, NoncesAreIssued, AuthorizationsAreSpentOnce, authorized,
       two_step_vars

(* Every step keeps the nonces. *)
LEMMA SpentStep ==
  SpentInv /\ [TwoStepNext]_<<vars, two_step_vars>> => SpentInv'
<1> SUFFICES ASSUME SpentInv, [TwoStepNext]_<<vars, two_step_vars>>
             PROVE  SpentInv'
  OBVIOUS
<1>1. CASE UNCHANGED two_step_vars
  BY <1>1, OthersKeepNonces
<1>2. CASE TwoStep
  BY <1>2, PrepareKeepsNonces, ExecuteSpendsNonce DEF TwoStep
<1> QED BY <1>1, <1>2 DEF TwoStepNext

-----------------------------------------------------------------------------
(***************************************************************************)
(* No stored authorization carries a nonce that was executed, and no two   *)
(* pairs of liquidator and borrower share one: an authorization that is    *)
(* replaced, left to expire or executed can never be executed again        *)
(* (router.rs, prepare_liquidation and execute_liquidation).               *)
(***************************************************************************)
THEOREM SpentOnlyOnce == TwoStepSpec => []AuthorizationsAreSpentOnce
<1>1. SpentInv => AuthorizationsAreSpentOnce
  BY DEF SpentInv
<1> QED BY <1>1, NothingPrepared, SpentStep, PTL DEF TwoStepSpec

(* Every input of the two-step calls is a natural. *)
LEMMA TwoStepInputs ==
  /\ \A n \in Amounts : n \in Nat
  /\ \A m \in MinSwapOuts : m \in Nat
  /\ \A out \in SwapOutputs : out \in Nat
BY AmountsNat, TwoStepAssumption

(* The initial states are typed. *)
LEMMA TwoStepInitType == TwoStepInit => TypeOK /\ PreparedType
<1>1. Init => TypeOK
  BY InitType
<1> QED BY <1>1 DEF TwoStepInit, PreparedType

(* Every step keeps the types. *)
LEMMA TwoStepType ==
  ASSUME TypeOK, PreparedType, [TwoStepNext]_<<vars, two_step_vars>>
  PROVE  TypeOK' /\ PreparedType'
<1>1. CASE [LiquidationNext]_vars /\ UNCHANGED two_step_vars
  <2>1. TypeOK'
    BY <1>1, LiquidationStepType
  <2>2. PreparedType'
    BY <1>1 DEF PreparedType, two_step_vars
  <2> QED BY <2>1, <2>2
<1>2. CASE TwoStep
  BY <1>2, TwoStepInputs, PrepareType, ExecuteType DEF TwoStep
<1> QED BY <1>1, <1>2 DEF TwoStepNext

(***************************************************************************)
(* Types are kept when two-step liquidations join (router.rs,              *)
(* prepare_liquidation and execute_liquidation).                           *)
(***************************************************************************)
THEOREM TwoStepTypeCorrect == TwoStepSpec => []TypeOK
<1>1. TypeOK /\ PreparedType /\ [TwoStepNext]_<<vars, two_step_vars>> =>
        TypeOK' /\ PreparedType'
  BY TwoStepType
<1> QED BY <1>1, TwoStepInitType, PTL DEF TwoStepSpec

(* So are the types of their own variables. *)
LEMMA PreparedAlwaysTyped == TwoStepSpec => [](TypeOK /\ PreparedType)
<1>1. TypeOK /\ PreparedType /\ [TwoStepNext]_<<vars, two_step_vars>> =>
        TypeOK' /\ PreparedType'
  BY TwoStepType
<1> QED BY <1>1, TwoStepInitType, PTL DEF TwoStepSpec

-----------------------------------------------------------------------------
(* Every step moves balances and totals together. *)
LEMMA TwoStepSums ==
  ASSUME TypeOK, PreparedType, TotalsAreSums,
         [TwoStepNext]_<<vars, two_step_vars>>
  PROVE  TotalsAreSums'
<1>1. CASE [LiquidationNext]_vars
  BY <1>1, LiquidationStepSums
<1>2. ASSUME NEW l \in Users, NEW u \in Users, NEW coll \in Reserves,
             NEW debt \in Reserves, NEW n, NEW m,
             Prepare(l, u, coll, debt, n, m)
      PROVE  TotalsAreSums'
  <2>1. UNCHANGED tokens
    BY <1>2 DEF Prepare
  <2> QED BY <2>1, TotalsBySum DEF sums_to, tokens
<1>3. ASSUME NEW l \in Users, NEW u \in Users, NEW deadline, NEW out \in Nat,
             Execute(l, u, deadline, out)
      PROVE  TotalsAreSums'
  <2> DEFINE coll == authorization[l][u].collateral_asset
             debt == authorization[l][u].debt_asset
             x    == execution_of(l, u)
             b    == burns_of(l, u)
  <2>1. /\ coll \in Reserves /\ debt \in Reserves
        /\ DebtBurn(debt, u, b.debt)
        /\ ATokenBurn(coll, u, b.shares)
    BY <1>3, ExecutionParts
  <2>2. /\ b.debt \in Nat /\ b.debt <= scaled_debt[debt][u]
        /\ x.seized \in Nat
        /\ b.shares = a_token_burned(coll, u, x.seized, accrued_liquidity(coll))
    BY <1>3, ExecutionAmounts
  <2>3. u \in Accounts
    BY UserIsAccount
  <2> HIDE DEF coll, debt, x, b
  <2>4. b.shares \in Nat /\ b.shares <= scaled_balance[coll][u]
    BY <2>1, <2>2, ATokenShares
  <2>5. /\ sums_to(total_supply_scaled, scaled_balance)
        /\ sums_to(total_debt_scaled, scaled_debt)
    BY TotalsBySum
  <2>6. /\ sums_to(total_supply_scaled', scaled_balance')
        /\ sums_to(total_debt_scaled', scaled_debt')
    BY <2>1, <2>2, <2>3, <2>4, <2>5, ATokenBurnSums, DebtBurnSums
  <2> QED BY <2>6, TotalsBySum
<1>4. CASE TwoStep
  BY <1>2, <1>3, <1>4, TwoStepInputs DEF TwoStep
<1> QED BY <1>1, <1>4 DEF TwoStepNext

(***************************************************************************)
(* The stored supplies stay the sums of the balances when two-step         *)
(* liquidations join (router.rs, execute_liquidation).                     *)
(***************************************************************************)
THEOREM SumsUnderTwoSteps == TwoStepSpec => []TotalsAreSums
<1> DEFINE Inv == TypeOK /\ PreparedType /\ TotalsAreSums
<1>1. TwoStepInit => Inv
  BY TwoStepInitType, InitSums DEF TwoStepInit
<1>2. Inv /\ [TwoStepNext]_<<vars, two_step_vars>> => Inv'
  BY TwoStepType, TwoStepSums
<1>3. Inv => TotalsAreSums
  OBVIOUS
<1> QED BY <1>1, <1>2, <1>3, PTL DEF TwoStepSpec

-----------------------------------------------------------------------------
(* The bound of ExecutionWithinBounds on one execution. *)
execution_within(l, u) ==
  LET auth    == authorization[l][u]
      coll    == auth.collateral_asset
      debt    == auth.debt_asset
      c       == reserve[coll].configuration
      shares  == scaled_balance[coll][u] - scaled_balance'[coll][u]
      taken   == (shares - 1) * reserve'[coll].liquidity_index + 1
      covered == router_cash'[debt] - router_cash[debt]
  IN  /\ taken <= auth.collateral_to_seize * RAY
      /\ taken * price[coll] * BASIS_POINTS_MULTIPLIER
             * reserve[debt].configuration.decimals_pow
           <= covered * RAY * price[debt] * c.decimals_pow
                * (BASIS_POINTS_MULTIPLIER + c.liquidation_bonus)

(* An execution keeps it. *)
LEMMA ExecuteWithinBounds ==
  ASSUME TypeOK, PreparedType, NEW l \in Users, NEW u \in Users,
         NEW deadline, NEW out \in Nat, Execute(l, u, deadline, out)
  PROVE  execution_within(l, u)
<1> DEFINE auth == authorization[l][u]
           coll == auth.collateral_asset
           debt == auth.debt_asset
           x == execution_of(l, u)
           b == burns_of(l, u)
           index == accrued_liquidity(coll)
           t == (b.shares - 1) * index + 1
           q == price[coll]
           p == price[debt]
           d == reserve[debt].configuration.decimals_pow
           e == reserve[coll].configuration.decimals_pow
           m == BASIS_POINTS_MULTIPLIER
           k == m + reserve[coll].configuration.liquidation_bonus
<1>1. /\ auth \in LiquidationAuthorization
      /\ coll \in Reserves /\ debt \in Reserves
      /\ ShareProceeds(l, coll, debt, x, b.sold, out)
  BY ExecutionParts
<1>2. /\ x.covered \in Nat /\ x.seized \in Nat /\ b.sold \in Nat
      /\ x.seized <= auth.collateral_to_seize
      /\ x.seized * seized_weight(coll, debt)
           <= x.covered * covered_weight(coll, debt)
      /\ b.shares = a_token_burned(coll, u, x.seized, index)
  BY ExecutionAmounts
<1>3. /\ stored_ok(coll, debt)
      /\ scaled_balance'[coll][u] = scaled_balance[coll][u] - b.shares
      /\ b.shares \in Nat /\ b.shares > 0
  BY ExecuteType
<1> HIDE DEF x, b
<1>4. reserve'[coll].liquidity_index = index
  BY <1>3 DEF stored_ok
<1>5. scaled_balance[coll][u] - scaled_balance'[coll][u] = b.shares
  <2>1. scaled_balance[coll][u] \in Nat
    BY <1>1, UserIsAccount DEF TypeOK
  <2> HIDE DEF coll
  <2> QED BY <1>3, <2>1
<1>6. router_cash'[debt] - router_cash[debt] = x.covered
  <2>1. router_cash[debt] \in Nat
    BY <1>1 DEF PreparedType
  <2>2. router_cash'[debt] = router_cash[debt] + x.covered
    BY <1>1, <1>2, ProceedsType
  <2> HIDE DEF debt
  <2> QED BY <1>2, <2>1, <2>2
<1>7. auth.collateral_to_seize \in Nat
  BY <1>1 DEF LiquidationAuthorization
<1> HIDE DEF auth
<1>8. /\ q \in Nat /\ p \in Nat /\ d \in Nat /\ e \in Nat /\ m \in Nat
      /\ k \in Nat /\ RAY \in Nat /\ RAY > 0 /\ index \in Nat /\ index > 0
  BY <1>1, MarketType, ScaleAssumption, AccruedIndices DEF accrued_liquidity
<1>9. x.seized * (q * d * m) <= x.covered * (p * e * k)
  BY <1>2 DEF seized_weight, covered_weight
<1>10. b.shares * index <= x.seized * RAY + index - 1
  BY <1>1, <1>2, ATokenShares
<1> HIDE DEF coll, debt, index, q, p, d, e, m, k
<1>11. t \in Nat /\ t <= x.seized * RAY
  <2>1. x.seized * RAY \in Nat
    BY <1>2, ProductNat, ScaleAssumption
  <2>2. (b.shares - 1) * index + 1 <= x.seized * RAY
    BY <1>3, <1>8, <1>10, <2>1, AllButOneShare
  <2>3. (b.shares - 1) * index \in Nat
    <3>1. b.shares - 1 \in Nat
      BY <1>3
    <3> QED BY <1>8, <3>1, ProductNat
  <2> QED BY <2>2, <2>3
<1> HIDE DEF t
<1>12. (t * q) * d * m <= (x.covered * RAY * p) * e * k
  BY <1>2, <1>8, <1>9, <1>11, InRayUnits
<1>13. (t * q) * d * m = t * q * m * d
  BY <1>8, <1>11, SMT
<1>14. t <= auth.collateral_to_seize * RAY
  <2>1. x.seized * RAY <= auth.collateral_to_seize * RAY
    BY <1>2, <1>7, <1>8, ProductMonotone
  <2>2. x.seized * RAY \in Nat /\ auth.collateral_to_seize * RAY \in Nat
    BY <1>2, <1>7, <1>8, ProductNat
  <2> QED BY <1>11, <2>1, <2>2
<1> QED BY <1>4, <1>5, <1>6, <1>12, <1>13, <1>14
        DEF execution_within, t, q, p, d, e, m, k, auth, coll, debt

(***************************************************************************)
(* An execution takes no more than its authorization froze, and no more    *)
(* than the bonus allows on what the router receives at the prices of the  *)
(* moment, though prices, indices and balances moved since it was prepared *)
(* (router.rs, execute_liquidation).                                       *)
(***************************************************************************)
THEOREM ExecutionAlwaysWithinBounds == TwoStepSpec => ExecutionWithinBounds
<1> DEFINE Spent(l, u) ==
      authorized(l, u) /\ authorization[l][u].nonce \in executed' \ executed
<1>1. ASSUME TypeOK, PreparedType, AuthorizationsAreSpentOnce,
             [TwoStepNext]_<<vars, two_step_vars>>,
             NEW l \in Users, NEW u \in Users, Spent(l, u)
      PROVE  execution_within(l, u)
  <2>1. executed' # executed
    BY <1>1
  <2>2. TwoStep
    BY <1>1, <2>1 DEF TwoStepNext, two_step_vars
  <2>3. PICK k, v \in Users, deadline \in 0 .. MaxTime, out \in SwapOutputs :
          Execute(k, v, deadline, out)
    <3>1. ASSUME NEW k, NEW v, NEW c, NEW d, NEW n, NEW m,
                 Prepare(k, v, c, d, n, m)
          PROVE  FALSE
      BY <2>1, <3>1 DEF Prepare
    <3> HIDE DEF Spent
    <3> QED BY <2>2, <3>1 DEF TwoStep
  <2>4. executed' = executed \union {authorization[k][v].nonce}
        /\ authorized(k, v)
    BY <2>3 DEF Execute, may_execute
  <2>5. k = l /\ v = u
    BY <1>1, <2>4 DEF AuthorizationsAreSpentOnce
  <2> QED BY <1>1, <2>3, <2>5, TwoStepInputs, ExecuteWithinBounds
<1>2. TypeOK /\ PreparedType /\ AuthorizationsAreSpentOnce
        /\ [TwoStepNext]_<<vars, two_step_vars>> =>
        [\A l, u \in Users : Spent(l, u) => execution_within(l, u)]_<<vars,
           two_step_vars>>
  BY <1>1
<1> QED BY <1>2, PreparedAlwaysTyped, SpentOnlyOnce, PTL
        DEF TwoStepSpec, ExecutionWithinBounds, execution_within

(* An execution that takes from the account keeps the close factor of the  *)
(* moment.                                                                 *)
LEMMA ExecutedWithinCloseFactor ==
  ASSUME TypeOK, PreparedType, NEW l \in Users, NEW u \in Users,
         NEW deadline, NEW out \in Nat, Execute(l, u, deadline, out),
         LET auth == authorization[l][u]
         IN  liquidated(u, auth.collateral_asset, auth.debt_asset)
  PROVE  LET auth == authorization[l][u]
         IN  close_factor_kept(u, auth.collateral_asset, auth.debt_asset)
<1> DEFINE auth == authorization[l][u]
           coll == auth.collateral_asset
           debt == auth.debt_asset
           rd == accrued(coll, debt)
           hf == account_data(u, collateral[u], borrowing[u], rd).health_factor
           x  == execution_of(l, u)
           b  == burns_of(l, u)
           n  == auth.debt_to_cover
           held  == scaled_debt[debt][u]
           index == accrued_borrow(debt)
<1>1. /\ auth \in LiquidationAuthorization
      /\ coll \in Reserves /\ debt \in Reserves
      /\ hf < WAD
      /\ value_in_base(debt, n)
           <= max_liquidatable_debt(hf, value_in_base(debt, debt_of(u, debt)),
                value_in_base(coll, collateral_of(u, coll)))
      /\ x.seized > 0
      /\ BookExecution(u, coll, debt, b, rd)
  BY ExecutionParts
<1>2. /\ x.capped \in BOOLEAN /\ x.covered \in Nat /\ x.seized \in Nat
      /\ x.seized <= collateral_of(u, coll)
      /\ x.capped \/ x.covered = debt_of(u, debt) \/ x.covered = n
      /\ b.debt \in Nat /\ b.debt <= held
      /\ x.capped => b.debt_left = 0
      /\ ~x.capped => /\ b.debt = debt_burned(held, x.covered, index)
                      /\ b.debt <= ray_div_down(x.covered, index) + 1
                      /\ b.debt_left = ray_mul(held - b.debt, index)
  BY ExecutionAmounts
<1>3. stored_ok(coll, debt) /\ scaled_debt'[debt][u] = held - b.debt
  BY ExecuteType
<1>4. liquidated(u, coll, debt)
  OBVIOUS
<1>5. n \in Nat
  BY <1>1 DEF LiquidationAuthorization
<1>6. two_accrued(coll, debt, rd)
  BY <1>1, AccruedPair
<1> HIDE DEF auth, coll, debt, x, b, n
<1>7. /\ u \in Accounts /\ held \in Nat
      /\ index \in Nat /\ index >= RAY
  BY <1>1, UserIsAccount, AccruedIndices DEF TypeOK, accrued_borrow
<1>8. coll \in collateral[u]
  <2>1. collateral_of(u, coll) > 0
    <3>1. collateral_of(u, coll) \in Nat
      BY <1>1, BalancesType
    <3> QED BY <1>1, <1>2, <3>1
  <2> QED BY <2>1 DEF collateral_of
<1>9. b.debt > 0 /\ b.debt = held - scaled_debt'[debt][u]
  <2>1. scaled_debt'[debt][u] < held
    BY <1>4 DEF liquidated
  <2> HIDE DEF held
  <2> QED BY <1>2, <1>3, <1>7, <2>1
<1>10. /\ debt \in borrowing'[u] => debt \in borrowing[u]
       /\ b.debt_left = 0 => debt \notin borrowing'[u]
  <2>1. borrowing' = [borrowing EXCEPT
          ![u] = IF b.debt_left = 0 THEN @ \ {debt} ELSE @]
    BY <1>1 DEF BookExecution
  <2> QED BY <1>7, <2>1 DEF TypeOK
<1>11. ASSUME debt \in borrowing'[u]
       PROVE  /\ debt \in borrowing[u] /\ x.covered <= n
              /\ b.debt <= ray_div_down(x.covered, index) + 1
  <2>1. debt \in borrowing[u] /\ b.debt_left # 0
    BY <1>10, <1>11
  <2>2. ~x.capped
    BY <1>2, <2>1
  <2>3. ASSUME x.covered = debt_of(u, debt)
        PROVE  FALSE
    <3>1. x.covered = ray_mul(held, index)
      BY <2>1, <2>3 DEF debt_of, owed, accrued_borrow
    <3>2. debt_burned(held, ray_mul(held, index), index) = held
      <4>1. scaled_debt[debt][u] > 0
        <5> HIDE DEF held
        <5>1. held > 0
          BY <1>2, <1>7, <1>9
        <5> QED BY <5>1 DEF held
      <4>2. FullRepayClearsDebt
        BY FullRepay
      <4> QED BY <1>1, <1>7, <4>1, <4>2
              DEF FullRepayClearsDebt, current_variable_borrow_index,
                  accrued_borrow
    <3>3. b.debt = held
      BY <1>2, <2>2, <3>1, <3>2
    <3>4. held - b.debt = 0
      BY <1>7, <3>3
    <3> HIDE DEF held, index
    <3>5. b.debt_left = 0
      BY <1>2, <1>7, <2>2, <3>4, RayMulZero
    <3> QED BY <2>1, <3>5
  <2>4. x.covered = n
    BY <1>2, <2>2, <2>3
  <2> QED BY <1>2, <1>5, <2>1, <2>2, <2>4
<1> HIDE DEF hf, rd
<1>12. close_factor_kept(u, coll, debt)
  <2>1. hf = account_data(u, collateral[u], borrowing[u], rd).health_factor
    BY DEF hf
  <2> QED BY <1>1, <1>2, <1>3, <1>5, <1>6, <1>8, <1>9, <1>11, <2>1,
             JudgedWithinCloseFactor
<1> QED BY <1>12 DEF auth, coll, debt

(* It takes from the account and the reserves of its authorization. *)
LEMMA ExecutedIsTheCall ==
  ASSUME TypeOK, PreparedType, NEW l \in Users, NEW v \in Users,
         NEW deadline, NEW out \in Nat, Execute(l, v, deadline, out),
         NEW u \in Users, NEW coll \in Reserves, NEW debt \in Reserves,
         liquidated(u, coll, debt)
  PROVE  /\ u = v
         /\ coll = authorization[l][v].collateral_asset
         /\ debt = authorization[l][v].debt_asset
<1> DEFINE c == authorization[l][v].collateral_asset
           d == authorization[l][v].debt_asset
           b == burns_of(l, v)
<1>1. /\ c \in Reserves /\ d \in Reserves
      /\ DebtBurn(d, v, b.debt) /\ ATokenBurn(c, v, b.shares)
  BY ExecutionParts
<1> HIDE DEF c, d, b
<1>2. /\ scaled_balance[coll][u] \in Nat /\ scaled_debt[debt][u] \in Nat
      /\ u \in Accounts
  BY UserIsAccount DEF TypeOK
<1>3. /\ \A q \in Reserves : q # d => scaled_debt'[q] = scaled_debt[q]
      /\ \A a \in Accounts : a # v => scaled_debt'[d][a] = scaled_debt[d][a]
      /\ \A q \in Reserves : q # c => scaled_balance'[q] = scaled_balance[q]
  BY <1>1 DEF DebtBurn, ATokenBurn, TypeOK
<1>4. debt = d /\ u = v /\ coll = c
  BY <1>2, <1>3 DEF liquidated
<1> QED BY <1>4 DEF c, d

(***************************************************************************)
(* The close factor binds an execution as it binds a call, at the health   *)
(* and the debt of the execution and not of the preparation (router.rs,    *)
(* execute_liquidation).                                                   *)
(***************************************************************************)
THEOREM CloseFactorBindsInTwoSteps == TwoStepSpec => CloseFactorBinds
<1>1. ASSUME TypeOK, PreparedType, [TwoStepNext]_<<vars, two_step_vars>>,
             NEW u \in Users, NEW coll \in Reserves, NEW debt \in Reserves,
             liquidated(u, coll, debt)
      PROVE  close_factor_kept(u, coll, debt)
  <2>1. CASE [LiquidationNext]_vars
    BY <1>1, <2>1, LiquidatedByCall, CallWithinCloseFactor
  <2>2. CASE TwoStep
    <3>1. ASSUME NEW l \in Users, NEW v \in Users, NEW c, NEW d, NEW n, NEW m,
                 Prepare(l, v, c, d, n, m)
          PROVE  FALSE
      <4>1. UNCHANGED tokens
        BY <3>1 DEF Prepare
      <4>2. scaled_balance[coll][u] \in Nat
        BY UserIsAccount, <1>1 DEF TypeOK
      <4> QED BY <1>1, <4>1, <4>2 DEF tokens, liquidated
    <3>2. ASSUME NEW l \in Users, NEW v \in Users,
                 NEW deadline, NEW out \in Nat, Execute(l, v, deadline, out)
          PROVE  close_factor_kept(u, coll, debt)
      BY <1>1, <3>2, ExecutedIsTheCall, ExecutedWithinCloseFactor
    <3> HIDE DEF liquidated, close_factor_kept
    <3> QED BY <2>2, <3>1, <3>2, TwoStepInputs DEF TwoStep
  <2> QED BY <1>1, <2>1, <2>2 DEF TwoStepNext
<1>2. TypeOK /\ PreparedType /\ [TwoStepNext]_<<vars, two_step_vars>> =>
        [\A u \in Users, coll, debt \in Reserves :
           liquidated(u, coll, debt) => close_factor_kept(u, coll, debt)]_vars
  BY <1>1 DEF vars
<1> QED BY <1>2, PreparedAlwaysTyped, PTL
        DEF TwoStepSpec, CloseFactorBinds, close_factor_kept

-----------------------------------------------------------------------------
(* Storing two accruals carries every reserve on.                          *)
LEMMA StoredCarriesOn ==
  ASSUME TypeOK, TypeOK', now' = now,
         NEW coll \in Reserves, NEW debt \in Reserves, stored_ok(coll, debt)
  PROVE  carried_on
<1> SUFFICES ASSUME NEW r \in Reserves
             PROVE  /\ reserve'[r].liquidity_index >= reserve[r].liquidity_index
                    /\ current_variable_borrow_index(reserve[r])'
                         = current_variable_borrow_index(reserve[r])
  BY DEF carried_on
<1>1. /\ accrued_liquidity(r) >= reserve[r].liquidity_index
      /\ reserve[r].liquidity_index \in Nat
      /\ accrued_borrow(r) = current_variable_borrow_index(reserve[r])
  BY AccruedOnce DEF accrued_liquidity, accrued_borrow, TypeOK, ReserveData,
     Index, current_variable_borrow_index
<1>2. ASSUME r \in {coll, debt}
      PROVE  /\ reserve'[r].liquidity_index >= reserve[r].liquidity_index
             /\ current_variable_borrow_index(reserve[r])'
                  = current_variable_borrow_index(reserve[r])
  <2>1. /\ reserve'[r].last_update_timestamp = now
        /\ reserve'[r].liquidity_index = accrued_liquidity(r)
        /\ reserve'[r].variable_borrow_index = accrued_borrow(r)
    BY <1>2 DEF stored_ok
  <2>2. current_variable_borrow_index(reserve[r])'
          = reserve'[r].variable_borrow_index
    BY <2>1 DEF current_variable_borrow_index, update_state
  <2> QED BY <1>1, <2>1, <2>2
<1>3. ASSUME r \notin {coll, debt}
      PROVE  /\ reserve'[r].liquidity_index >= reserve[r].liquidity_index
             /\ current_variable_borrow_index(reserve[r])'
                  = current_variable_borrow_index(reserve[r])
  <2>1. reserve'[r] = reserve[r]
    BY <1>3 DEF stored_ok
  <2>2. current_variable_borrow_index(reserve[r])'
          = current_variable_borrow_index(reserve[r])
    BY <2>1 DEF current_variable_borrow_index, update_state
  <2> QED BY <1>1, <2>1, <2>2
<1> QED BY <1>2, <1>3

(* A health factor is a natural number.                                    *)
LEMMA HealthType ==
  ASSUME TypeOK, NEW u \in Users, NEW coll \in Reserves, NEW debt \in Reserves,
         NEW rd, two_accrued(coll, debt, rd)
  PROVE  account_data(u, collateral[u], borrowing[u], rd).health_factor \in Nat
<1> DEFINE total == collateral_worth(u, collateral[u], rd)
           mean  == average_threshold(
                      collateral_weight(u, collateral[u], rd), total)
           owing == debt_worth(u, borrowing[u], rd)
           x     == (total * mean * WAD) \div BASIS_POINTS_MULTIPLIER
<1>1. collateral[u] \in SUBSET Reserves /\ borrowing[u] \in SUBSET Reserves
  BY UserIsAccount DEF TypeOK
<1>2. \A r \in Reserves : /\ rd[r] \in {reserve[r], update_state(reserve[r])}
                          /\ supplied(r, u, rd[r]) \in Nat
                          /\ rd[r].configuration = reserve[r].configuration
  BY PositionTypes, UpdateStateType DEF two_accrued
<1>3. total \in Nat /\ mean \in Nat
  BY <1>1, <1>2, AverageGrants
<1>4. owing \in Nat
  <2>1. owing = debt_worth(u, borrowing[u], reserve)
    BY <1>1, <1>2, SameDebtWorth
  <2>2. debt_worth(u, borrowing[u], reserve) \in Nat
    <3> DEFINE owed_each == [r \in borrowing[u] |-> debt_value(u, r, reserve)]
    <3>1. IsFiniteSet(borrowing[u])
      BY <1>1, PoolAssumption, FS_Subset
    <3>2. \A r \in borrowing[u] : owed_each[r] \in Nat
      BY <1>1, PositionTypes
    <3> HIDE DEF owed_each
    <3>3. SumFunctionOnSet(owed_each, borrowing[u]) \in Nat
      BY <3>1, <3>2, SumNat
    <3> QED BY <3>3 DEF debt_worth, owed_each
  <2> QED BY <2>1, <2>2
<1>5. account_data(u, collateral[u], borrowing[u], rd).health_factor
        = IF owing = 0 THEN U128_MAX ELSE x \div owing
  BY AccountData DEF calculate_health_factor
<1> HIDE DEF total, mean, owing
<1>6. x \in Nat
  <2> DEFINE y == total * mean * WAD
  <2>1. y \in Nat
    BY <1>3, ProductNat, PoolAssumption
  <2> HIDE DEF y
  <2> QED BY <2>1, DivBounds, ScaleAssumption DEF y
<1> HIDE DEF x
<1>7. owing > 0 => x \div owing \in Nat
  BY <1>4, <1>6, DivBounds
<1> QED BY <1>4, <1>5, <1>7, PoolAssumption

(* Who is found unhealthy at accrued reserves is not healthy at what a     *)
(* step that accrues them leaves.                                          *)
LEMMA FoundUnhealthy ==
  ASSUME TypeOK, NEW u \in Users, NEW coll \in Reserves, NEW debt \in Reserves,
         NEW rd, two_accrued(coll, debt, rd), stored_ok(coll, debt),
         account_data(u, collateral[u], borrowing[u], rd).health_factor < WAD
  PROVE  ~healthy_once_accrued(u)
<1> DEFINE before == account_data(u, collateral[u], borrowing[u], rd)
           after  == account_data(u, collateral[u], borrowing[u], reserve')
<1>1. collateral[u] \in SUBSET Reserves /\ borrowing[u] \in SUBSET Reserves
  BY UserIsAccount DEF TypeOK
<1>2. before = after
  BY <1>1, JudgedAsStored, SameAccountData
<1>3. before.health_factor \in Nat /\ before.health_factor < WAD /\ WAD \in Nat
  BY HealthType, PoolAssumption
<1> HIDE DEF before, after
<1>4. ~(after.health_factor >= WAD)
  BY <1>2, <1>3
<1> QED BY <1>4 DEF healthy_once_accrued, after

(* A call clears no flag but the account's.                                *)
LEMMA FlagsOfOthersKept ==
  ASSUME TypeOK, NEW l \in Users, NEW v \in Users,
         NEW coll \in Reserves, NEW debt \in Reserves,
         NEW n \in Nat, NEW b \in BOOLEAN,
         LiquidationCall(l, v, coll, debt, n, b),
         NEW u \in Users, u # v
  PROVE  collateral[u] \subseteq collateral'[u] /\ borrowing'[u] = borrowing[u]
<1> DEFINE s == settled(v, coll, debt, n)
           index == accrued_liquidity(coll)
<1>1. /\ BurnDebt(v, debt, s, accrued_borrow(debt))
      /\ IF b THEN PayInATokens(l, v, coll, s, index)
              ELSE PayInUnderlying(l, v, coll, s, index)
  BY LiquidationParts
<1> HIDE DEF s, index
<1>2. /\ u \in Accounts /\ v \in Accounts /\ l \in Accounts
      /\ Treasury \in Accounts /\ u # Treasury
      /\ collateral \in [Accounts -> SUBSET Reserves]
      /\ borrowing \in [Accounts -> SUBSET Reserves]
  BY UserIsAccount, PoolAssumption DEF Accounts, TypeOK
<1>3. borrowing'[u] = borrowing[u]
  BY <1>1, <1>2 DEF BurnDebt
<1>4. CASE ~b
  BY <1>1, <1>2, <1>3, <1>4 DEF PayInUnderlying
<1>5. CASE b
  <2> DEFINE first == debited(scaled_balance[coll], v,
                        ray_div_down(s.to_liquidator, index))[l] = 0
             given == [collateral EXCEPT
                         ![l] = IF first THEN @ \union {coll} ELSE @]
  <2>1. PICK flagged, cleared :
          collateral' = [given EXCEPT ![Treasury] = flagged, ![v] = cleared]
    BY <1>1, <1>5 DEF PayInATokens
  <2> HIDE DEF first
  <2>2. /\ given \in [Accounts -> SUBSET Reserves]
        /\ collateral[u] \subseteq given[u]
    BY <1>2
  <2> HIDE DEF given
  <2>3. collateral'[u] = given[u]
    BY <1>2, <2>1, <2>2
  <2> QED BY <1>3, <2>2, <2>3
<1> QED BY <1>4, <1>5

(* A call harms nobody who is healthy at what it leaves: it refuses such   *)
(* an account, and the others lose neither backing nor flags.              *)
LEMMA CallHarmsOnlyTheUnhealthy ==
  ASSUME TypeOK, NEW l \in Users, NEW v \in Users,
         NEW coll \in Reserves, NEW debt \in Reserves,
         NEW n \in Nat, NEW b \in BOOLEAN,
         LiquidationCall(l, v, coll, debt, n, b), same_market,
         NEW u \in Users, NEW backing \in SUBSET Reserves,
         backing = collateral[u], borrowing'[u] # {}, healthy(u),
         healthy_once_accrued(u)
  PROVE  nearly_healthy(u, backing)'
<1>1. TypeOK' /\ stored_ok(coll, debt)
  BY LiquidationType
<1>2. u # v
  <2> DEFINE rd == judged(coll, debt)
  <2>1. /\ two_accrued(coll, debt, rd)
        /\ account_data(v, collateral[v], borrowing[v], rd).health_factor < WAD
    BY LiquidationIsJudged
  <2> HIDE DEF rd
  <2>2. ~healthy_once_accrued(v)
    BY <1>1, <2>1, FoundUnhealthy
  <2> QED BY <2>2
<1>3. collateral[u] \subseteq collateral'[u] /\ borrowing'[u] = borrowing[u]
  BY <1>2, FlagsOfOthersKept
<1>4. carried_on
  <2>1. now' = now
    BY DEF same_market, environment
  <2> QED BY <1>1, <2>1, StoredCarriesOn
<1>5. /\ u \in Accounts
      /\ \A q \in Reserves : q # coll => scaled_balance'[q] = scaled_balance[q]
      /\ \A a \in Accounts : a # v =>
           scaled_balance'[coll][a] >= scaled_balance[coll][a]
  BY UserIsAccount, LiquidationShares
<1>6. \A q \in backing : scaled_balance[q][u] <= scaled_balance'[q][u]
  <2> SUFFICES ASSUME NEW q \in Reserves
               PROVE  scaled_balance[q][u] <= scaled_balance'[q][u]
    OBVIOUS
  <2>1. scaled_balance[q][u] \in Nat /\ scaled_balance'[q][u] \in Nat
    BY <1>1, <1>5 DEF TypeOK
  <2>2. CASE q = coll
    <3>1. scaled_balance'[coll][u] >= scaled_balance[coll][u]
      BY <1>2, <1>5
    <3> QED BY <2>1, <2>2, <3>1
  <2>3. CASE q # coll
    BY <1>5, <2>1, <2>3
  <2> QED BY <2>2, <2>3
<1>7. \A q \in borrowing'[u] : scaled_debt'[q][u] <= scaled_debt[q][u]
  <2> DEFINE s == settled(v, coll, debt, n)
  <2>1. /\ s.covered \in Nat /\ s.bad_debt \in Nat
        /\ BurnDebt(v, debt, s, accrued_borrow(debt))
    BY LiquidationAmounts, LiquidationParts DEF settlement_ok
  <2> HIDE DEF s
  <2>2. /\ \A q \in Reserves : q # debt => scaled_debt'[q] = scaled_debt[q]
        /\ \A a \in Accounts : a # v =>
             scaled_debt'[debt][a] = scaled_debt[debt][a]
    BY <2>1, LiquidationDebt
  <2>3. \A q \in Reserves : /\ scaled_debt'[q][u] = scaled_debt[q][u]
                            /\ scaled_debt[q][u] \in Nat
    BY <1>2, <1>5, <2>2 DEF TypeOK
  <2>4. borrowing'[u] \subseteq Reserves
    BY <1>1, <1>5 DEF TypeOK
  <2> QED BY <2>3, <2>4
<1> QED BY <1>1, <1>3, <1>4, <1>6, <1>7, Unharmed

(* Nor does an execution.                                                  *)
LEMMA ExecutionHarmsOnlyTheUnhealthy ==
  ASSUME TypeOK, PreparedType, NEW l \in Users, NEW v \in Users,
         NEW deadline, NEW out \in Nat, Execute(l, v, deadline, out),
         same_market,
         NEW u \in Users, NEW backing \in SUBSET Reserves,
         backing = collateral[u], borrowing'[u] # {}, healthy(u),
         healthy_once_accrued(u)
  PROVE  nearly_healthy(u, backing)'
<1> DEFINE coll == authorization[l][v].collateral_asset
           debt == authorization[l][v].debt_asset
           rd   == accrued(coll, debt)
           b    == burns_of(l, v)
<1>1. /\ coll \in Reserves /\ debt \in Reserves
      /\ account_data(v, collateral[v], borrowing[v], rd).health_factor < WAD
      /\ DebtBurn(debt, v, b.debt)
      /\ ATokenBurn(coll, v, b.shares)
      /\ BookExecution(v, coll, debt, b, rd)
  BY ExecutionParts
<1>2. TypeOK' /\ stored_ok(coll, debt)
  BY ExecuteType
<1>3. two_accrued(coll, debt, rd)
  BY <1>1, AccruedPair
<1> HIDE DEF coll, debt, rd, b
<1>4. u # v
  <2>1. ~healthy_once_accrued(v)
    BY <1>1, <1>2, <1>3, FoundUnhealthy
  <2> QED BY <2>1
<1>5. carried_on
  <2>1. now' = now
    BY DEF same_market, environment
  <2> QED BY <1>1, <1>2, <2>1, StoredCarriesOn
<1>6. /\ u \in Accounts /\ v \in Accounts
      /\ collateral \in [Accounts -> SUBSET Reserves]
      /\ borrowing \in [Accounts -> SUBSET Reserves]
      /\ scaled_balance \in [Reserves -> [Accounts -> Nat]]
      /\ scaled_debt \in [Reserves -> [Accounts -> Nat]]
  BY UserIsAccount DEF TypeOK
<1>7. collateral'[u] = collateral[u] /\ borrowing'[u] = borrowing[u]
  BY <1>1, <1>4, <1>6 DEF BookExecution
<1>8. \A q \in Reserves : /\ scaled_balance'[q][u] = scaled_balance[q][u]
                          /\ scaled_debt'[q][u] = scaled_debt[q][u]
                          /\ scaled_balance[q][u] \in Nat
                          /\ scaled_debt[q][u] \in Nat
  BY <1>1, <1>4, <1>6 DEF DebtBurn, ATokenBurn
<1>9. borrowing'[u] \subseteq Reserves
  BY <1>6, <1>7
<1> QED BY <1>2, <1>5, <1>7, <1>8, <1>9, Unharmed

(* A preparation accrues two reserves and leaves every position alone.     *)
LEMMA PreparationHarmsNobody ==
  ASSUME TypeOK, PreparedType, NEW l \in Users, NEW v \in Users,
         NEW coll \in Reserves, NEW debt \in Reserves,
         NEW n \in Nat, NEW m \in Nat, Prepare(l, v, coll, debt, n, m),
         same_market,
         NEW u \in Users, NEW backing \in SUBSET Reserves,
         backing = collateral[u], borrowing'[u] # {}, healthy(u)
  PROVE  nearly_healthy(u, backing)'
<1>1. TypeOK'
  BY PrepareType
<1>2. reserve' = accrued(coll, debt) /\ UNCHANGED <<tokens, bitmaps>>
  BY DEF Prepare
<1>3. carried_on
  <2>1. now' = now
    BY DEF same_market, environment
  <2>2. \A r \in Reserves : \/ reserve'[r] = reserve[r]
                            \/ reserve'[r] = update_state(reserve[r])
    BY <1>2 DEF accrued
  <2> QED BY <1>1, <2>1, <2>2, CarriedOn
<1>4. /\ UNCHANGED <<collateral, borrowing, scaled_balance, scaled_debt>>
      /\ u \in Accounts
  BY <1>2, UserIsAccount DEF tokens, bitmaps
<1>5. /\ \A q \in backing : scaled_balance[q][u] <= scaled_balance'[q][u]
      /\ \A q \in borrowing'[u] : scaled_debt'[q][u] <= scaled_debt[q][u]
  BY <1>4 DEF TypeOK
<1> QED BY <1>1, <1>3, <1>4, <1>5, Unharmed

(* Nobody who is healthy, and whose debts are all flagged, is harmed by a  *)
(* step of the pool, a liquidation or a half of one.                       *)
harmless ==
  same_market =>
    \A u \in Users, backing \in SUBSET Reserves :
      /\ backing = collateral[u]
      /\ borrowing'[u] # {} /\ debts_flagged(u)
      /\ healthy(u) /\ healthy_once_accrued(u)
      => nearly_healthy(u, backing)'

LEMMA StepIsHarmless ==
  ASSUME TypeOK, PreparedType, TwoStepNext
  PROVE  harmless
<1> SUFFICES ASSUME same_market,
                    NEW u \in Users, NEW backing \in SUBSET Reserves,
                    backing = collateral[u], borrowing'[u] # {},
                    debts_flagged(u), healthy(u), healthy_once_accrued(u)
             PROVE  nearly_healthy(u, backing)'
  BY DEF harmless
<1>1. TypeOK'
  BY TwoStepType
<1>2. CASE Next
  <2>1. SwapNext
    BY <1>2 DEF SwapNext
  <2>2. \A q \in Reserves : scaled_debt[q][u] > 0 => q \in borrowing[u]
    BY DEF debts_flagged
  <2> QED BY <1>1, <2>1, <2>2, NextKeepsHealth
<1>3. CASE Liquidate
  <2>1. PICK l, v \in Users, coll, debt \in Reserves, n \in Nat, b \in BOOLEAN :
          LiquidationCall(l, v, coll, debt, n, b)
    BY <1>3, TwoStepInputs DEF Liquidate
  <2> QED BY <2>1, CallHarmsOnlyTheUnhealthy
<1>4. CASE TwoStep
  <2>1. PICK l, v \in Users :
          \/ \E coll, debt \in Reserves, n, m \in Nat :
               Prepare(l, v, coll, debt, n, m)
          \/ \E deadline \in 0 .. MaxTime, out \in Nat :
               Execute(l, v, deadline, out)
    BY <1>4, TwoStepInputs DEF TwoStep
  <2>2. CASE \E coll, debt \in Reserves, n, m \in Nat :
               Prepare(l, v, coll, debt, n, m)
    BY <2>2, PreparationHarmsNobody
  <2>3. CASE \E deadline \in 0 .. MaxTime, out \in Nat :
               Execute(l, v, deadline, out)
    BY <2>3, ExecutionHarmsOnlyTheUnhealthy
  <2> QED BY <2>1, <2>2, <2>3
<1> QED BY <1>2, <1>3, <1>4 DEF TwoStepNext, LiquidationNext

(***************************************************************************)
(* Only an unhealthy account is harmed: whatever the pool, a liquidation   *)
(* call, a preparation or an execution does, an account that is healthy at *)
(* the stored indices and at the accrued ones comes out of the step as     *)
(* healthy but for the roundings (liquidation.rs,                          *)
(* internal_liquidation_call; router.rs, execute_liquidation).  Accounts   *)
(* with a debt whose flag a liquidation cleared are left out: it counts    *)
(* again only when they borrow.                                            *)
(***************************************************************************)
THEOREM OnlyTheUnhealthyAreEverHarmed ==
          TwoStepSpec => OnlyTheUnhealthyAreHarmed
<1>1. TypeOK /\ PreparedType /\ [TwoStepNext]_<<vars, two_step_vars>> =>
        [harmless]_vars
  BY StepIsHarmless DEF vars
<1> QED BY <1>1, PreparedAlwaysTyped, PTL
        DEF TwoStepSpec, OnlyTheUnhealthyAreHarmed, harmless

(***************************************************************************)
(* Exits stay open under liquidations, direct or in two steps: the debts   *)
(* and balances they leave, flagged or not, can be repaid and taken out    *)
(* (router.rs, repay and withdraw after execute_liquidation).              *)
(***************************************************************************)
THEOREM ExitsAdmittedUnderLiquidation == TwoStepSpec => []ExitsAdmitted
<1>1. TypeOK /\ TotalsAreSums => ExitsAdmitted
  BY RepaymentAdmitted, WithdrawalAdmitted DEF ExitsAdmitted
<1> QED BY <1>1, TwoStepTypeCorrect, SumsUnderTwoSteps, PTL

-----------------------------------------------------------------------------
(* Nothing is minted: neither token's total rises in any reserve.          *)
mints_nothing ==
  \A r \in Reserves : /\ total_supply_scaled'[r] <= total_supply_scaled[r]
                      /\ total_debt_scaled'[r] <= total_debt_scaled[r]

(* Burns only lower the totals.                                            *)
LEMMA BurnsMintNothing ==
  ASSUME TypeOK, NEW coll \in Reserves, NEW debt \in Reserves,
         NEW shares \in Nat, NEW repaid \in Nat,
         \/ total_supply_scaled' = total_supply_scaled
         \/ total_supply_scaled' =
              [total_supply_scaled EXCEPT ![coll] = @ - shares],
         total_debt_scaled' = [total_debt_scaled EXCEPT ![debt] = @ - repaid]
  PROVE  mints_nothing
<1> SUFFICES ASSUME NEW r \in Reserves
             PROVE  /\ total_supply_scaled'[r] <= total_supply_scaled[r]
                    /\ total_debt_scaled'[r] <= total_debt_scaled[r]
  BY DEF mints_nothing
<1>1. total_supply_scaled[r] \in Nat /\ total_debt_scaled[r] \in Nat
  BY DEF TypeOK
<1>2. \/ total_supply_scaled'[r] = total_supply_scaled[r]
      \/ total_supply_scaled'[r] = total_supply_scaled[r] - shares
  BY DEF TypeOK
<1>3. \/ total_debt_scaled'[r] = total_debt_scaled[r]
      \/ total_debt_scaled'[r] = total_debt_scaled[r] - repaid
  BY DEF TypeOK
<1> QED BY <1>1, <1>2, <1>3

(* A call moves aTokens or burns them, and burns debt.                     *)
LEMMA CallMintsNothing ==
  ASSUME TypeOK, NEW l \in Users, NEW u \in Users,
         NEW coll \in Reserves, NEW debt \in Reserves,
         NEW n \in Nat, NEW b \in BOOLEAN,
         LiquidationCall(l, u, coll, debt, n, b)
  PROVE  mints_nothing
<1> DEFINE s == settled(u, coll, debt, n)
           index == accrued_liquidity(coll)
           shares == a_token_burned(coll, u, s.seized, index)
           repaid == debt_of_call_burned(u, debt, s)
<1>1. /\ s.covered \in Nat /\ s.bad_debt \in Nat /\ s.seized \in Nat
      /\ BurnDebt(u, debt, s, accrued_borrow(debt))
      /\ IF b THEN PayInATokens(l, u, coll, s, index)
              ELSE PayInUnderlying(l, u, coll, s, index)
  BY LiquidationAmounts, LiquidationParts DEF settlement_ok
<1> HIDE DEF s
<1>2. repaid \in Nat /\ DebtBurn(debt, u, repaid)
  BY <1>1, LiquidationBurns
<1>3. shares \in Nat
  BY <1>1, ATokenShares
<1>4. \/ total_supply_scaled' = total_supply_scaled
      \/ total_supply_scaled' =
           [total_supply_scaled EXCEPT ![coll] = @ - shares]
  BY <1>1 DEF PayInATokens, PayInUnderlying, ATokenBurn
<1> HIDE DEF shares, repaid
<1> QED BY <1>2, <1>3, <1>4, BurnsMintNothing DEF DebtBurn

(* So does an execution.                                                   *)
LEMMA ExecutionMintsNothing ==
  ASSUME TypeOK, PreparedType, NEW l \in Users, NEW u \in Users,
         NEW deadline, NEW out \in Nat, Execute(l, u, deadline, out)
  PROVE  mints_nothing
<1> DEFINE coll == authorization[l][u].collateral_asset
           debt == authorization[l][u].debt_asset
           b    == burns_of(l, u)
<1>1. /\ coll \in Reserves /\ debt \in Reserves
      /\ DebtBurn(debt, u, b.debt) /\ ATokenBurn(coll, u, b.shares)
  BY ExecutionParts
<1>2. b.debt \in Nat /\ b.shares \in Nat
  BY ExecutionAmounts, ExecuteType
<1> HIDE DEF coll, debt, b
<1> QED BY <1>1, <1>2, BurnsMintNothing DEF DebtBurn, ATokenBurn

(* Under liquidations, too, what mints is within the caps: no liquidation, *)
(* and no half of one, mints.                                              *)
LEMMA TwoStepMintsWithinCaps ==
  ASSUME TypeOK, PreparedType, [TwoStepNext]_<<vars, two_step_vars>>,
         NEW r \in Reserves
  PROVE  /\ total_supply_scaled'[r] > total_supply_scaled[r] =>
              SupplyWithinCap(r)'
         /\ total_debt_scaled'[r] > total_debt_scaled[r] =>
              DebtWithinCaps(r)'
<1>1. CASE [Next]_vars
  BY <1>1, MintsAreWithinCaps
<1>2. ASSUME mints_nothing
      PROVE  /\ ~(total_supply_scaled'[r] > total_supply_scaled[r])
             /\ ~(total_debt_scaled'[r] > total_debt_scaled[r])
  <2>1. TypeOK'
    BY TwoStepType
  <2>2. /\ total_supply_scaled[r] \in Nat /\ total_debt_scaled[r] \in Nat
        /\ total_supply_scaled'[r] \in Nat /\ total_debt_scaled'[r] \in Nat
    BY <2>1 DEF TypeOK
  <2>3. /\ total_supply_scaled'[r] <= total_supply_scaled[r]
        /\ total_debt_scaled'[r] <= total_debt_scaled[r]
    BY <1>2 DEF mints_nothing
  <2> QED BY <2>2, <2>3
<1>3. CASE Liquidate
  <2>1. PICK l, u \in Users, coll, debt \in Reserves, n \in Nat, b \in BOOLEAN :
          LiquidationCall(l, u, coll, debt, n, b)
    BY <1>3, TwoStepInputs DEF Liquidate
  <2> QED BY <1>2, <2>1, CallMintsNothing
<1>4. CASE TwoStep
  <2>1. PICK l, u \in Users :
          \/ \E coll, debt \in Reserves, n, m \in Nat :
               Prepare(l, u, coll, debt, n, m)
          \/ \E deadline \in 0 .. MaxTime, out \in Nat :
               Execute(l, u, deadline, out)
    BY <1>4, TwoStepInputs DEF TwoStep
  <2>2. ASSUME NEW coll \in Reserves, NEW debt \in Reserves,
               NEW n \in Nat, NEW m \in Nat, Prepare(l, u, coll, debt, n, m)
        PROVE  mints_nothing
    <3>1. UNCHANGED <<total_supply_scaled, total_debt_scaled>>
      BY <2>2 DEF Prepare, tokens
    <3> QED BY <3>1 DEF mints_nothing, TypeOK
  <2>3. CASE \E deadline \in 0 .. MaxTime, out \in Nat :
               Execute(l, u, deadline, out)
    BY <1>2, <2>3, ExecutionMintsNothing
  <2> QED BY <1>2, <2>1, <2>2, <2>3
<1> QED BY <1>1, <1>3, <1>4 DEF TwoStepNext, LiquidationNext

(***************************************************************************)
(* Caps bind at the accrued index when the pool is used between direct and *)
(* two-step liquidations, which move and burn but never mint               *)
(* (validation.rs; router.rs, execute_liquidation).                        *)
(***************************************************************************)
THEOREM CapsBindUnderLiquidation == TwoStepSpec => CapsBindAtAccruedIndex
<1>1. TypeOK /\ PreparedType /\ [TwoStepNext]_<<vars, two_step_vars>> =>
        [\A r \in Reserves :
           /\ total_supply_scaled'[r] > total_supply_scaled[r] =>
                SupplyWithinCap(r)'
           /\ total_debt_scaled'[r] > total_debt_scaled[r] =>
                DebtWithinCaps(r)']_vars
  BY TwoStepMintsWithinCaps
<1> QED BY <1>1, PreparedAlwaysTyped, PTL
        DEF TwoStepSpec, CapsBindAtAccruedIndex

-----------------------------------------------------------------------------
(* When nothing is reported to be left, nothing is left.                   *)
LEMMA NothingRemains ==
  ASSUME NEW h \in Nat, NEW i \in Nat, i >= RAY, remaining(h, i) = 0
  PROVE  h = 0
<1>1. ray_mul(h, i) >= h
  BY RayMulGrows
<1>2. ray_mul(h, i) = 0
  BY DEF remaining
<1> QED BY <1>1, <1>2

(* The second burn of a capped execution takes all that the first left, as *)
(* it is asked for what the balance of the rest comes to.                  *)
LEMMA BothBurnsClear ==
  ASSUME TypeOK, NEW u \in Users, NEW coll \in Reserves, NEW debt \in Reserves,
         NEW x, x.capped \in BOOLEAN, x.covered \in Nat, x.seized \in Nat,
         burns(u, x, coll, debt, accrued(coll, debt)).fits
  PROVE  LET b == burns(u, x, coll, debt, accrued(coll, debt))
         IN  /\ b.debt_left = 0 => b.debt = scaled_debt[debt][u]
             /\ b.collateral_left = 0 => b.shares = scaled_balance[coll][u]
<1> DEFINE b == burns(u, x, coll, debt, accrued(coll, debt))
           held  == scaled_debt[debt][u]
           index == accrued_borrow(debt)
           first == debt_burned(held, x.covered, index)
           rest  == held - first
           left  == remaining(rest, index)
           bad   == IF x.capped THEN left ELSE 0
           second == IF bad > 0 THEN debt_burned(rest, bad, index) ELSE 0
           backed == scaled_balance[coll][u]
           c_index == accrued_liquidity(coll)
           shares == a_token_burned(coll, u, x.seized, c_index)
<1>1. /\ held \in Nat /\ index \in Nat /\ index >= RAY /\ index > 0
      /\ backed \in Nat /\ c_index \in Nat /\ c_index >= RAY
  BY UserIsAccount, AccruedIndices
  DEF TypeOK, accrued_borrow, accrued_liquidity
<1>2. /\ accrued(coll, debt)[debt].variable_borrow_index = index
      /\ accrued(coll, debt)[coll].liquidity_index = c_index
  BY DEF accrued, accrued_borrow, accrued_liquidity
<1>3. /\ ray_div_down(x.covered, index) <= held
      /\ b.debt = first + second
      /\ b.debt_left = (IF x.capped THEN 0 ELSE left)
      /\ b.shares = shares
      /\ b.collateral_left = remaining(backed - shares, c_index)
  BY <1>2 DEF burns
<1>4. shares \in Nat /\ shares <= backed
  BY ATokenShares
<1> HIDE DEF b, held, index, backed, c_index, shares
<1>5. first \in Nat /\ first <= held
  BY <1>1, <1>3, OneDebtBurn
<1> HIDE DEF first
<1>6. rest \in Nat /\ held = first + rest
  BY <1>1, <1>5
<1> HIDE DEF rest
<1>7. b.debt_left = 0 => b.debt = held
  <2>1. CASE rest = 0
    <3>1. left = 0
      BY <1>1, <2>1, RayMulZero DEF remaining
    <3> HIDE DEF left
    <3>2. second = 0
      BY <3>1
    <3> QED BY <1>3, <1>5, <1>6, <2>1, <3>2
  <2>2. CASE rest > 0
    <3>1. /\ left \in Nat /\ left > 0
          /\ ray_div_down(left, index) \in Nat
          /\ rest - 1 <= ray_div_down(left, index)
      BY <1>1, <1>6, <2>2, RoundTrip DEF remaining
    <3> HIDE DEF left
    <3>2. debt_burned(rest, left, index) = rest
      <4>1. rest - ray_div_down(left, index) <= 1
        BY <1>6, <3>1
      <4> QED BY <4>1 DEF debt_burned
    <3>3. x.capped => second = rest
      BY <3>1, <3>2
    <3>4. ~x.capped => b.debt_left # 0
      BY <1>3, <3>1
    <3> QED BY <1>3, <1>6, <3>3, <3>4
  <2> QED BY <1>6, <2>1, <2>2
<1>8. b.collateral_left = 0 => b.shares = backed
  <2>1. backed - shares \in Nat
    BY <1>1, <1>4
  <2>2. remaining(backed - shares, c_index) = 0 => backed - shares = 0
    BY <1>1, <2>1, NothingRemains
  <2> QED BY <1>1, <1>3, <1>4, <2>2
<1> QED BY <1>7, <1>8 DEF b, held, backed

(* What one step of an execution may do to the bits.                       *)
clears_what_is_gone ==
  \A a \in Accounts, r \in Reserves :
    /\ r \in collateral[a] \ collateral'[a] => scaled_balance'[r][a] = 0
    /\ r \in borrowing[a] \ borrowing'[a] => scaled_debt'[r][a] = 0

(* An execution clears the two bits when these are gone.                   *)
LEMMA ExecutionClears ==
  ASSUME TypeOK, PreparedType, NEW l \in Users, NEW u \in Users,
         NEW deadline, NEW out \in Nat, Execute(l, u, deadline, out)
  PROVE  clears_what_is_gone
<1> DEFINE coll == authorization[l][u].collateral_asset
           debt == authorization[l][u].debt_asset
           rd   == accrued(coll, debt)
           x    == execution_of(l, u)
           b    == burns_of(l, u)
<1>1. /\ coll \in Reserves /\ debt \in Reserves /\ b.fits
      /\ BookExecution(u, coll, debt, b, rd)
  BY ExecutionParts
<1>2. x.capped \in BOOLEAN /\ x.covered \in Nat /\ x.seized \in Nat
  BY ExecutionAmounts
<1>3. b = burns(u, x, coll, debt, rd)
  BY DEF burns_of
<1>4. /\ b.debt_left = 0 => b.debt = scaled_debt[debt][u]
      /\ b.collateral_left = 0 => b.shares = scaled_balance[coll][u]
  <2> HIDE DEF coll, debt, x, b
  <2> QED BY <1>1, <1>2, <1>3, BothBurnsClear DEF rd
<1>5. /\ scaled_balance'[coll][u] = scaled_balance[coll][u] - b.shares
      /\ scaled_debt'[debt][u] = scaled_debt[debt][u] - b.debt
  BY ExecuteType
<1> HIDE DEF coll, debt, rd, x, b
<1>6. /\ u \in Accounts
      /\ scaled_balance[coll][u] \in Nat /\ scaled_debt[debt][u] \in Nat
      /\ collateral \in [Accounts -> SUBSET Reserves]
      /\ borrowing \in [Accounts -> SUBSET Reserves]
  BY <1>1, UserIsAccount DEF TypeOK
<1>7. /\ collateral' = [collateral EXCEPT
           ![u] = IF b.collateral_left = 0 THEN @ \ {coll} ELSE @]
      /\ borrowing' = [borrowing EXCEPT
           ![u] = IF b.debt_left = 0 THEN @ \ {debt} ELSE @]
  BY <1>1 DEF BookExecution
<1>8. ASSUME NEW a \in Accounts, NEW r \in Reserves,
             r \in collateral[a] \ collateral'[a]
      PROVE  scaled_balance'[r][a] = 0
  <2>1. a = u /\ r = coll /\ b.collateral_left = 0
    BY <1>6, <1>7, <1>8
  <2> QED BY <1>4, <1>5, <1>6, <2>1
<1>9. ASSUME NEW a \in Accounts, NEW r \in Reserves,
             r \in borrowing[a] \ borrowing'[a]
      PROVE  scaled_debt'[r][a] = 0
  <2>1. a = u /\ r = debt /\ b.debt_left = 0
    BY <1>6, <1>7, <1>9
  <2> QED BY <1>4, <1>5, <1>6, <2>1
<1> QED BY <1>8, <1>9 DEF clears_what_is_gone

(***************************************************************************)
(* An execution clears the bit of a collateral or of a debt only when its  *)
(* last share or unit is burned, for every index and scale: the router     *)
(* judges what is left by a balance that rounds half up, and burns the bad *)
(* debt in a second call (router.rs, execute_liquidation; flash_loan.rs,   *)
(* the callback).                                                          *)
(***************************************************************************)
THEOREM ExecutionAlwaysClearsWhatIsGone ==
          TwoStepSpec => ExecutionClearsWhatIsGone
<1>1. ASSUME TypeOK, PreparedType, [TwoStepNext]_<<vars, two_step_vars>>,
             executed' # executed
      PROVE  clears_what_is_gone
  <2>1. CASE UNCHANGED two_step_vars
    BY <1>1, <2>1 DEF two_step_vars
  <2>2. CASE TwoStep
    <3>1. ASSUME NEW l \in Users, NEW u \in Users, NEW c, NEW d, NEW n, NEW m,
                 Prepare(l, u, c, d, n, m)
          PROVE  FALSE
      BY <1>1, <3>1 DEF Prepare
    <3>2. ASSUME NEW l \in Users, NEW u \in Users,
                 NEW deadline, NEW out \in Nat, Execute(l, u, deadline, out)
          PROVE  clears_what_is_gone
      BY <1>1, <3>2, ExecutionClears
    <3> QED BY <2>2, <3>1, <3>2, TwoStepInputs DEF TwoStep
  <2> QED BY <1>1, <2>1, <2>2 DEF TwoStepNext
<1>2. TypeOK /\ PreparedType /\ [TwoStepNext]_<<vars, two_step_vars>> =>
        [executed' # executed => clears_what_is_gone]_<<vars, two_step_vars>>
  BY <1>1
<1> QED BY <1>2, PreparedAlwaysTyped, PTL
        DEF TwoStepSpec, ExecutionClearsWhatIsGone, clears_what_is_gone

=============================================================================
