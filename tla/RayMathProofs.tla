--------------------------- MODULE RayMathProofs ---------------------------
(***************************************************************************)
(* What the fixed-point operators and the interest rate strategy return,   *)
(* for all scales and operands: ranges, rounding directions and the round  *)
(* trip of a balance through its index.  What sums over finite sets        *)
(* return, which the totals of the token contracts rest on.  And theorems  *)
(* about the strategy and the interest factors (RateWalk).                 *)
(***************************************************************************)
EXTENDS RateWalk, FiniteSets, FiniteSetsExt, FiniteSetTheorems,
        WellFoundedInduction, TLAPS

(* Floor division: its range, and the two bounds that determine it.        *)
LEMMA DivBounds ==
  ASSUME NEW a \in Nat, NEW b \in Nat, b > 0
  PROVE  /\ a \div b \in Nat
         /\ (a \div b) * b <= a
         /\ a < (a \div b) * b + b
  <1>1. a \div b \in Nat
    BY SMT
  <1>2. (a \div b) * b <= a
    BY SMT
  <1>3. a < (a \div b) * b + b
    BY SMT
  <1> QED
    BY <1>1, <1>2, <1>3

(* The quotient is the largest number whose product stays below.           *)
LEMMA DivAtLeast ==
  ASSUME NEW a \in Nat, NEW b \in Nat, b > 0, NEW x \in Nat, x * b <= a
  PROVE  x <= a \div b
  BY SMT

LEMMA DivBelow ==
  ASSUME NEW a \in Nat, NEW b \in Nat, b > 0, NEW x \in Nat, a < x * b
  PROVE  a \div b < x
  BY SMT

LEMMA ProductNat ==
  ASSUME NEW a \in Nat, NEW b \in Nat
  PROVE  a * b \in Nat
  BY SMT

LEMMA ProductMonotone ==
  ASSUME NEW a \in Nat, NEW b \in Nat, NEW c \in Nat, b <= c
  PROVE  a * b <= a * c
  BY SMT

(* Quotient and remainder are the one pair that gives the number back.     *)
LEMMA DivModUnique ==
  ASSUME NEW q \in Nat, NEW n \in Nat, NEW r \in 0 .. n - 1
  PROVE  /\ (q * n + r) \div n = q
         /\ (q * n + r) % n = r
  <1>1. n > 0 /\ q * n + r \in Nat /\ r \in Nat /\ r < n
    BY ProductNat
  <1>2. q <= (q * n + r) \div n
    BY <1>1, DivAtLeast
  <1>3. q * n + r < (q + 1) * n
    BY <1>1
  <1>4. (q * n + r) \div n < q + 1
    BY <1>1, <1>3, DivBelow
  <1>5. (q * n + r) \div n = q
    BY <1>1, <1>2, <1>4, DivBounds
  <1> DEFINE a == q * n + r
  <1>6. a = (a \div n) * n + (a % n)
    <2>1. a \in Nat
      BY <1>1
    <2> HIDE DEF a
    <2> QED BY <1>1, <2>1
  <1>7. a % n \in Nat
    <2>1. a \in Nat
      BY <1>1
    <2> HIDE DEF a
    <2> QED BY <1>1, <2>1
  <1> QED
    BY <1>1, <1>5, <1>6, <1>7

(* Every number has such a pair.                                           *)
LEMMA DivModPair ==
  ASSUME NEW a \in Nat, NEW n \in Nat, n > 0
  PROVE  /\ a \div n \in Nat /\ a % n \in 0 .. n - 1
         /\ a = (a \div n) * n + (a % n)
  BY SMT

(* Dividing twice divides by the product.                                  *)
LEMMA DivTwice ==
  ASSUME NEW a \in Nat, NEW m \in Nat, NEW n \in Nat, m > 0, n > 0
  PROVE  (a \div m) \div n = a \div (m * n)
  <1> DEFINE q == a \div m
             r == a % m
             p == q \div n
             s == q % n
  <1>1. q \in Nat /\ r \in 0 .. m - 1 /\ a = q * m + r
    BY DivModPair
  <1>2. p \in Nat /\ s \in 0 .. n - 1 /\ q = p * n + s
    <2> HIDE DEF q
    <2> QED BY <1>1, DivModPair
  <1> HIDE DEF q, r, p, s
  <1>3. a = p * (m * n) + (s * m + r)
    BY <1>1, <1>2
  <1>4. s * m + r \in 0 .. m * n - 1
    <2>1. s * m \in Nat /\ m * n \in Nat
      BY <1>2, ProductNat
    <2>2. s + 1 <= n /\ s + 1 \in Nat
      BY <1>2
    <2>3. m * (s + 1) <= m * n
      BY <2>2, ProductMonotone
    <2> QED
      BY <1>1, <1>2, <2>1, <2>3
  <1>5. a \div (m * n) = p
    <2>1. m * n \in Nat
      BY ProductNat
    <2> DEFINE k == m * n
               t == s * m + r
    <2>2. k \in Nat /\ t \in 0 .. k - 1 /\ a = p * k + t
      BY <1>3, <1>4, <2>1
    <2> HIDE DEF k, t
    <2>3. a \div k = p
      BY <1>2, <2>2, DivModUnique
    <2> QED
      BY <2>3 DEF k
  <1> QED
    BY <1>5 DEF p, q

LEMMA HalfRay ==
  /\ HALF_RAY \in Nat
  /\ 2 * HALF_RAY = RAY
  BY ScaleAssumption DEF HALF_RAY

-----------------------------------------------------------------------------
(* Every rounding variant returns a natural number.                        *)
LEMMA RayMulType ==
  ASSUME NEW a \in Nat, NEW b \in Nat
  PROVE  ray_mul(a, b) \in Nat
  <1>1. a * b + HALF_RAY \in Nat
    BY ProductNat, HalfRay
  <1> QED
    BY <1>1, DivBounds, ScaleAssumption DEF ray_mul

LEMMA RayDivTypes ==
  ASSUME NEW a \in Nat, NEW b \in Nat, b > 0
  PROVE  /\ ray_div(a, b) \in Nat
         /\ ray_div_down(a, b) \in Nat
         /\ ray_div_up(a, b) \in Nat
  <1>1. a * RAY \in Nat
    BY ProductNat, ScaleAssumption
  <1>2. a * RAY + (b \div 2) \in Nat
    BY <1>1, DivBounds
  <1>3. a * RAY + b - 1 \in Nat
    BY <1>1
  <1> QED
    BY <1>1, <1>2, <1>3, DivBounds DEF ray_div, ray_div_down, ray_div_up

(* Multiplying by a factor of at least one does not lower a value.         *)
LEMMA RayMulGrows ==
  ASSUME NEW a \in Nat, NEW f \in Nat, f >= RAY
  PROVE  ray_mul(a, f) >= a
  <1>1. a * RAY <= a * f
    BY ProductMonotone, ScaleAssumption
  <1>2. a * f + HALF_RAY \in Nat /\ a * RAY <= a * f + HALF_RAY
    BY <1>1, ProductNat, HalfRay, ScaleAssumption
  <1>3. a <= (a * f + HALF_RAY) \div RAY
    BY <1>2, DivAtLeast, ScaleAssumption
  <1>4. ray_mul(a, f) \in Nat
    BY RayMulType
  <1> QED
    BY <1>3, <1>4 DEF ray_mul

(***************************************************************************)
(* The reported value of h scaled units at index i, taken back to scaled   *)
(* units rounding down, is h or h - 1: half a unit of value is at most     *)
(* half a scaled unit when the index is at least RAY.                      *)
(***************************************************************************)
LEMMA RoundTrip ==
  ASSUME NEW h \in Nat, NEW i \in Nat, i >= RAY, h > 0
  PROVE  /\ ray_mul(h, i) \in Nat /\ ray_mul(h, i) > 0
         /\ ray_div_down(ray_mul(h, i), i) \in Nat
         /\ ray_div_down(ray_mul(h, i), i) <= h
         /\ h - 1 <= ray_div_down(ray_mul(h, i), i)
  <1> DEFINE v == ray_mul(h, i)
  <1>1. i > 0 /\ RAY > 0 /\ RAY \in Nat
    BY ScaleAssumption
  <1>2. v \in Nat
    BY RayMulType
  <1>3. v >= h
    <2>1. ray_mul(i, h) = ray_mul(h, i)
      BY DEF ray_mul
    <2>2. h * i + HALF_RAY \in Nat /\ h * RAY <= h * i + HALF_RAY
      BY <1>1, ProductMonotone, ProductNat, HalfRay
    <2> QED
      BY <1>1, <2>2, DivAtLeast DEF ray_mul
  <1>4. /\ v * RAY <= h * i + HALF_RAY
        /\ h * i + HALF_RAY < v * RAY + RAY
    <2>1. h * i + HALF_RAY \in Nat
      BY ProductNat, HalfRay
    <2> QED
      BY <1>1, <2>1, DivBounds DEF ray_mul
  <1>5. h * i \in Nat /\ v * RAY \in Nat
    BY <1>1, <1>2, ProductNat
  <1>6. v * RAY < (h + 1) * i
    <2>1. (h + 1) * i = h * i + i
      BY <1>1
    <2> QED
      BY <1>1, <1>4, <1>5, <2>1, HalfRay
  <1>7. (h - 1) * i <= v * RAY
    <2>1. (h - 1) * i = h * i - i
      BY <1>1
    <2> QED
      BY <1>1, <1>4, <1>5, <2>1, HalfRay
  <1>8. (v * RAY) \div i < h + 1
    BY <1>1, <1>5, <1>6, DivBelow
  <1>9. h - 1 <= (v * RAY) \div i
    BY <1>1, <1>5, <1>7, DivAtLeast
  <1>10. (v * RAY) \div i \in Nat
    BY <1>1, <1>5, DivBounds
  <1> HIDE DEF v
  <1> QED
    BY <1>2, <1>3, <1>8, <1>9, <1>10 DEF ray_div_down, v

(* Adding scaled units worth at most n, rounded down, raises the rounded   *)
(* value of a total by at most n.                                          *)
LEMMA RayMulAdds ==
  ASSUME NEW t \in Nat, NEW m \in Nat, NEW i \in Nat, NEW n \in Nat,
         m * i <= n * RAY
  PROVE  ray_mul(t + m, i) <= ray_mul(t, i) + n
  <1> DEFINE q == (t * i + HALF_RAY) \div RAY
  <1>1. RAY \in Nat /\ RAY > 0
    BY ScaleAssumption
  <1>2. /\ t * i \in Nat /\ m * i \in Nat /\ n * RAY \in Nat
        /\ (t + m) * i = t * i + m * i
    BY <1>1, SMT
  <1>3. t * i + HALF_RAY \in Nat /\ (t + m) * i + HALF_RAY \in Nat
    BY <1>2, HalfRay
  <1>4. q \in Nat /\ t * i + HALF_RAY < q * RAY + RAY
    BY <1>1, <1>3, DivBounds
  <1> HIDE DEF q
  <1>5. (q + n + 1) * RAY = q * RAY + n * RAY + RAY /\ q * RAY \in Nat
    BY <1>1, <1>4, SMT
  <1>6. (t + m) * i + HALF_RAY < (q + n + 1) * RAY
    BY <1>1, <1>2, <1>4, <1>5, HalfRay
  <1>7. ((t + m) * i + HALF_RAY) \div RAY < q + n + 1
    BY <1>1, <1>3, <1>4, <1>6, DivBelow
  <1>8. ((t + m) * i + HALF_RAY) \div RAY \in Nat
    BY <1>1, <1>3, DivBounds
  <1> QED
    BY <1>4, <1>7, <1>8 DEF ray_mul, q

-----------------------------------------------------------------------------
(* Interest factors never fall below one.                                  *)
LEMMA LinearInterest ==
  ASSUME NEW rate \in Nat, NEW last \in Nat, NEW current \in Nat,
         last <= current
  PROVE  /\ calculate_linear_interest(rate, last, current) \in Nat
         /\ calculate_linear_interest(rate, last, current) >= RAY
  <1>1. rate * (current - last) \in Nat
    BY ProductNat
  <1>2. (rate * (current - last)) \div SECONDS_PER_YEAR \in Nat
    BY <1>1, DivBounds, ScaleAssumption
  <1> QED
    BY <1>2, ScaleAssumption DEF calculate_linear_interest

LEMMA CompoundInterest ==
  ASSUME NEW rate \in Nat, NEW last \in Nat, NEW current \in Nat,
         last <= current
  PROVE  /\ calculate_compound_interest(rate, last, current) \in Nat
         /\ calculate_compound_interest(rate, last, current) >= RAY
  <1> DEFINE exp           == current - last
             exp_minus_one == IF exp > 0 THEN exp - 1 ELSE 0
             exp_minus_two == IF exp > 1 THEN exp - 2 ELSE 0
             power_two     == ray_mul(rate, rate)
                                \div (SECONDS_PER_YEAR * SECONDS_PER_YEAR)
             power_three   == ray_mul(power_two, rate) \div SECONDS_PER_YEAR
             first         == (rate * exp) \div SECONDS_PER_YEAR
             second        == (exp * exp_minus_one * power_two) \div 2
             third         == (exp * exp_minus_one * exp_minus_two
                                 * power_three) \div 6
  <1>1. exp \in Nat /\ exp_minus_one \in Nat /\ exp_minus_two \in Nat
    OBVIOUS
  <1>2. SECONDS_PER_YEAR \in Nat /\ SECONDS_PER_YEAR > 0
    BY ScaleAssumption
  <1>3. SECONDS_PER_YEAR * SECONDS_PER_YEAR \in Nat
        /\ SECONDS_PER_YEAR * SECONDS_PER_YEAR > 0
    BY <1>2
  <1>4. power_two \in Nat
    BY <1>3, RayMulType, DivBounds
  <1>5. power_three \in Nat
    <2> HIDE DEF power_two
    <2> QED
      BY <1>2, <1>4, RayMulType, DivBounds
  <1> HIDE DEF power_two, power_three, exp, exp_minus_one, exp_minus_two
  <1>6. first \in Nat
    BY <1>1, <1>2, ProductNat, DivBounds
  <1>7. second \in Nat
    BY <1>1, <1>4, ProductNat, DivBounds
  <1>8. third \in Nat
    BY <1>1, <1>5, ProductNat, DivBounds
  <1> HIDE DEF first, second, third
  <1>9. RAY + first + second + third \in Nat
        /\ RAY + first + second + third >= RAY
    BY <1>6, <1>7, <1>8, ScaleAssumption
  <1>10. calculate_compound_interest(rate, last, current)
           = RAY + first + second + third
    BY DEF calculate_compound_interest, first, second, third, exp,
           exp_minus_one, exp_minus_two, power_two, power_three
  <1> QED
    BY <1>9, <1>10

-----------------------------------------------------------------------------
(* The strategy returns two naturals for any amounts, validated parameters *)
(* and reserve factor.                                                     *)
LEMMA LiquidityRateType ==
  ASSUME NEW rate \in Nat, NEW utilization \in Nat,
         NEW factor \in 0 .. BASIS_POINTS_MULTIPLIER
  PROVE  liquidity_rate(rate, utilization, factor) \in Nat
  <1> DEFINE cut == (factor * RAY) \div BASIS_POINTS_MULTIPLIER
  <1>1. /\ BASIS_POINTS_MULTIPLIER \in Nat /\ BASIS_POINTS_MULTIPLIER > 0
        /\ RAY \in Nat /\ factor \in Nat
    BY ScaleAssumption
  <1>2. /\ factor * RAY \in Nat
        /\ factor * RAY < (RAY + 1) * BASIS_POINTS_MULTIPLIER
    <2>1. RAY * factor <= RAY * BASIS_POINTS_MULTIPLIER
      BY <1>1, ProductMonotone
    <2>2. (RAY + 1) * BASIS_POINTS_MULTIPLIER
            = RAY * BASIS_POINTS_MULTIPLIER + BASIS_POINTS_MULTIPLIER
      BY <1>1
    <2>3. RAY * BASIS_POINTS_MULTIPLIER \in Nat /\ factor * RAY = RAY * factor
      BY <1>1
    <2> QED
      BY <1>1, <2>1, <2>2, <2>3, ProductNat
  <1>3. cut < RAY + 1
    BY <1>1, <1>2, DivBelow
  <1>4. cut \in Nat
    BY <1>1, <1>2, DivBounds
  <1> HIDE DEF cut
  <1>5. RAY - cut \in Nat
    BY <1>1, <1>3, <1>4
  <1>6. ray_mul(ray_mul(rate, utilization), RAY - cut) \in Nat
    BY <1>5, RayMulType
  <1> QED
    BY <1>6 DEF liquidity_rate, cut

LEMMA BorrowRateType ==
  ASSUME NEW p \in InterestRateParams, validate_interest_rate_params(p),
         NEW utilization \in Nat
  PROVE  variable_borrow_rate(p, utilization) \in Nat
  <1>1. /\ RAY \in Nat
        /\ p.base_variable_borrow_rate \in Nat
        /\ p.variable_rate_slope1 \in Nat /\ p.variable_rate_slope2 \in Nat
        /\ p.optimal_utilization_rate \in Nat
        /\ p.optimal_utilization_rate > 0
        /\ p.optimal_utilization_rate < RAY
    BY ScaleAssumption DEF InterestRateParams, validate_interest_rate_params
  <1>2. slope1_component(p, utilization) \in Nat
    BY <1>1, RayDivTypes, RayMulType DEF slope1_component
  <1>3. CASE utilization > p.optimal_utilization_rate
    <2>1. /\ utilization - p.optimal_utilization_rate \in Nat
          /\ RAY - p.optimal_utilization_rate \in Nat
          /\ RAY - p.optimal_utilization_rate > 0
      BY <1>1, <1>3
    <2>2. ray_div(utilization - p.optimal_utilization_rate,
                  RAY - p.optimal_utilization_rate) \in Nat
      BY <2>1, RayDivTypes
    <2>3. slope2_component(p, utilization) \in Nat
      BY <1>1, <2>2, RayMulType DEF slope2_component
    <2> QED
      BY <1>1, <1>3, <2>3 DEF variable_borrow_rate
  <1>4. CASE ~(utilization > p.optimal_utilization_rate)
    BY <1>1, <1>2, <1>4 DEF variable_borrow_rate
  <1> QED
    BY <1>3, <1>4

LEMMA RatesType ==
  ASSUME NEW p \in InterestRateParams, validate_interest_rate_params(p),
         NEW available \in Nat, NEW debt \in Nat,
         NEW factor \in 0 .. BASIS_POINTS_MULTIPLIER
  PROVE  LET rates == calculate_interest_rates(p, available, debt, factor)
         IN  /\ rates.current_liquidity_rate \in Nat
             /\ rates.current_variable_borrow_rate \in Nat
  <1> DEFINE utilization == utilization_rate(available, debt)
  <1>1. utilization \in Nat
    BY RayDivTypes DEF utilization_rate
  <1> HIDE DEF utilization
  <1>2. variable_borrow_rate(p, utilization) \in Nat
    BY <1>1, BorrowRateType
  <1>3. liquidity_rate(variable_borrow_rate(p, utilization), utilization,
                       factor) \in Nat
    BY <1>1, <1>2, LiquidityRateType
  <1> QED
    BY <1>2, <1>3 DEF calculate_interest_rates, utilization

-----------------------------------------------------------------------------
(***************************************************************************)
(* Sums over finite sets, as FiniteSetsExt and Functions fold them:        *)
(* SumFunctionOnSet(f, S) takes the elements of S one by one in the order  *)
(* of CHOOSE.  These lemmas free it of that order.                         *)
(***************************************************************************)
first_of(s) == CHOOSE x \in s : TRUE

(* g is the sum of f over every subset of S, by the recursion of the fold. *)
SumsSubsets(f, S, g) ==
  g = [s \in SUBSET S |->
         IF s = {} THEN 0 ELSE f[first_of(s)] + g[s \ {first_of(s)}]]

(* The library's fold is the choice of such a function.                    *)
LEMMA SumDef ==
  ASSUME NEW f, NEW S
  PROVE  SumFunctionOnSet(f, S) = (CHOOSE g : SumsSubsets(f, S, g))[S]
BY DEF SumFunctionOnSet, FoldFunctionOnSet, MapThenFoldSet, SumsSubsets,
       first_of

(* Induction over finite sets, as the choice of a smallest counterexample: *)
(* a set of subsets of a finite set has an inclusion-minimal element.       *)
LEMMA SmallestSubset ==
  ASSUME NEW S, IsFiniteSet(S), NEW B, B \subseteq SUBSET S, B # {}
  PROVE  \E s \in B : \A t \in B : t \subseteq s => t = s
<1>1. IsWellFoundedOn(StrictSubsetOrdering(S), SUBSET S)
  BY FS_StrictSubsetOrderingWellFounded, FS_FiniteSubsetsOfFinite
<1>2. \E s \in B : \A t \in B : ~(<<t, s>> \in StrictSubsetOrdering(S))
  <2> DEFINE R == StrictSubsetOrdering(S)
  <2> HIDE DEF R
  <2> QED BY <1>1, WFMin DEF R
<1> QED BY <1>2 DEF StrictSubsetOrdering

(* The same for numbers.                                                   *)
LEMMA SmallestNumber ==
  ASSUME NEW B, B \subseteq Nat, B # {}
  PROVE  \E n \in B : \A m \in B : n <= m
<1> DEFINE R == OpToRel(<, Nat)
<1>1. \A m, n \in Nat : <<m, n>> \in R <=> m < n
  BY DEF OpToRel
<1>2. IsWellFoundedOn(R, Nat)
  BY NatLessThanWellFounded
<1> HIDE DEF R
<1>3. \E n \in B : \A m \in B : ~(<<m, n>> \in R)
  BY <1>2, WFMin
<1>4. PICK n \in B : \A m \in B : ~(<<m, n>> \in R)
  BY <1>3
<1>5. ASSUME NEW m \in B PROVE n <= m
  <2>1. m \in Nat /\ n \in Nat
    OBVIOUS
  <2>2. ~(m < n)
    BY <1>1, <1>4, <2>1
  <2> QED BY <2>1, <2>2
<1> QED BY <1>5

(* The recursion is well founded: subset by subset, by cardinality.        *)
LEMMA SumsExist ==
  ASSUME NEW f, NEW S, IsFiniteSet(S)
  PROVE  \E g : SumsSubsets(f, S, g)
<1> DEFINE Upto(n) == {s \in SUBSET S : Cardinality(s) <= n}
           summed(g, s) ==
             IF s = {} THEN 0 ELSE f[first_of(s)] + g[s \ {first_of(s)}]
           Solves(n, g) == g = [s \in Upto(n) |-> summed(g, s)]
           Bad == {n \in Nat : ~\E g : Solves(n, g)}
<1>1. \A s \in SUBSET S : /\ IsFiniteSet(s) /\ Cardinality(s) \in Nat
                          /\ Cardinality(s) <= Cardinality(S)
                          /\ Cardinality(s) = 0 <=> s = {}
  BY FS_Subset, FS_CardinalityType, FS_EmptySet
<1>2. \A s \in SUBSET S : s # {} =>
        /\ first_of(s) \in s /\ s \ {first_of(s)} \in SUBSET S
        /\ Cardinality(s \ {first_of(s)}) = Cardinality(s) - 1
  BY <1>1, FS_RemoveElement DEF first_of
<1>3. \E g : Solves(0, g)
  <2> DEFINE g == [s \in Upto(0) |-> 0]
  <2>1. \A s \in Upto(0) : s = {}
    BY <1>1
  <2>2. Solves(0, g)
    BY <2>1
  <2> QED BY <2>2
<1>4. ASSUME NEW n \in Nat, NEW g, Solves(n, g)
      PROVE  \E h : Solves(n + 1, h)
  <2> DEFINE h == [s \in Upto(n + 1) |-> summed(g, s)]
  <2>1. ASSUME NEW s \in Upto(n + 1), s # {}
        PROVE  g[s \ {first_of(s)}] = h[s \ {first_of(s)}]
    <3> DEFINE t == s \ {first_of(s)}
    <3>1. t \in Upto(n) /\ t \in Upto(n + 1)
      BY <1>1, <1>2, <2>1
    <3> HIDE DEF t, summed, Upto
    <3>2. g[t] = summed(g, t)
      BY <3>1, <1>4
    <3>3. h[t] = summed(g, t)
      BY <3>1
    <3> QED BY <3>2, <3>3 DEF t
  <2>2. \A s \in Upto(n + 1) : summed(g, s) = summed(h, s)
    <3> HIDE DEF h, Upto
    <3> QED BY <2>1
  <2>3. h = [s \in Upto(n + 1) |-> summed(h, s)]
    <3> HIDE DEF Upto, summed
    <3> QED BY <2>2
  <2> QED BY <2>3
<1>5. Bad = {}
  <2> SUFFICES ASSUME Bad # {} PROVE FALSE
    OBVIOUS
  <2>1. PICK n \in Bad : \A m \in Bad : n <= m
    <3> HIDE DEF Solves
    <3> QED BY SmallestNumber
  <2>2. n # 0
    <3> HIDE DEF Solves
    <3> QED BY <1>3
  <2>3. n - 1 \in Nat /\ n - 1 \notin Bad
    <3> HIDE DEF Solves
    <3> QED BY <2>1, <2>2
  <2> HIDE DEF Solves
  <2> QED BY <2>3, <1>4, <2>1
<1>6. Upto(Cardinality(S)) = SUBSET S
  BY <1>1
<1>7. \E g : Solves(Cardinality(S), g)
  <2> HIDE DEF Solves
  <2> QED BY <1>5, <1>1
<1> QED BY <1>6, <1>7 DEF SumsSubsets

(* Whatever set the recursion is run on, a subset has one sum.             *)
LEMMA SumsAgree ==
  ASSUME NEW f, NEW S, IsFiniteSet(S), NEW T, T \subseteq S,
         NEW g, SumsSubsets(f, S, g), NEW h, SumsSubsets(f, T, h)
  PROVE  g[T] = h[T]
<1> DEFINE Bad == {s \in SUBSET T : g[s] # h[s]}
<1>1. Bad = {}
  <2> SUFFICES ASSUME Bad # {} PROVE FALSE
    OBVIOUS
  <2>1. PICK s \in Bad : \A t \in Bad : t \subseteq s => t = s
    <3>1. Bad \subseteq SUBSET S
      OBVIOUS
    <3> HIDE DEF Bad
    <3> QED BY <3>1, SmallestSubset
  <2> DEFINE t == s \ {first_of(s)}
  <2>2. CASE s = {}
    BY <2>2 DEF SumsSubsets
  <2>3. CASE s # {}
    <3>1. first_of(s) \in s /\ t \in SUBSET T /\ t # s
      BY <2>3 DEF first_of
    <3>2. g[t] = h[t]
      BY <3>1, <2>1
    <3>3. g[s] = f[first_of(s)] + g[t]
      BY <2>3 DEF SumsSubsets
    <3>4. h[s] = f[first_of(s)] + h[t]
      BY <2>3 DEF SumsSubsets
    <3> QED BY <3>2, <3>3, <3>4
  <2> QED BY <2>2, <2>3
<1> QED BY <1>1

(* So the sum over any subset can be read off one function.               *)
LEMMA SumOfSubset ==
  ASSUME NEW f, NEW S, IsFiniteSet(S), NEW g, SumsSubsets(f, S, g),
         NEW T, T \subseteq S
  PROVE  SumFunctionOnSet(f, T) = g[T]
<1>1. IsFiniteSet(T)
  BY FS_Subset
<1> DEFINE h == CHOOSE h : SumsSubsets(f, T, h)
<1>2. SumsSubsets(f, T, h)
  BY <1>1, SumsExist
<1> HIDE DEF h
<1>3. g[T] = h[T]
  BY <1>2, SumsAgree
<1> QED BY <1>3, SumDef DEF h

(* A sum of naturals is a natural.                                         *)
LEMMA SumNat ==
  ASSUME NEW f, NEW S, IsFiniteSet(S), \A x \in S : f[x] \in Nat
  PROVE  SumFunctionOnSet(f, S) \in Nat
<1>1. PICK g : SumsSubsets(f, S, g)
  BY SumsExist
<1> DEFINE Bad == {s \in SUBSET S : g[s] \notin Nat}
<1>2. Bad = {}
  <2> SUFFICES ASSUME Bad # {} PROVE FALSE
    OBVIOUS
  <2>1. PICK s \in Bad : \A t \in Bad : t \subseteq s => t = s
    <3>1. Bad \subseteq SUBSET S
      OBVIOUS
    <3> HIDE DEF Bad
    <3> QED BY <3>1, SmallestSubset
  <2> DEFINE t == s \ {first_of(s)}
  <2>2. CASE s = {}
    BY <1>1, <2>2 DEF SumsSubsets
  <2>3. CASE s # {}
    <3>1. first_of(s) \in s /\ t \in SUBSET S /\ t # s
      BY <2>3 DEF first_of
    <3>2. g[t] \in Nat
      BY <3>1, <2>1
    <3>3. g[s] = f[first_of(s)] + g[t]
      BY <1>1, <2>3 DEF SumsSubsets
    <3>4. f[first_of(s)] \in Nat
      BY <3>1
    <3> HIDE DEF t
    <3> QED BY <3>2, <3>3, <3>4
  <2> QED BY <2>2, <2>3
<1>3. SumFunctionOnSet(f, S) = g[S]
  BY <1>1, SumOfSubset
<1> QED BY <1>2, <1>3

(* The sum over nothing.                                                   *)
LEMMA SumEmpty ==
  ASSUME NEW f
  PROVE  SumFunctionOnSet(f, {}) = 0
<1>1. PICK g : SumsSubsets(f, {}, g)
  BY SumsExist, FS_EmptySet
<1>2. SumFunctionOnSet(f, {}) = g[{}]
  BY <1>1, SumOfSubset, FS_EmptySet
<1> QED BY <1>1, <1>2 DEF SumsSubsets

(* The order of summation does not matter: any element may come first.    *)
LEMMA SumRemove ==
  ASSUME NEW f, NEW S, IsFiniteSet(S), \A x \in S : f[x] \in Nat,
         NEW x \in S
  PROVE  SumFunctionOnSet(f, S) = f[x] + SumFunctionOnSet(f, S \ {x})
<1>1. PICK g : SumsSubsets(f, S, g)
  BY SumsExist
<1>2. \A T \in SUBSET S : SumFunctionOnSet(f, T) = g[T]
  BY <1>1, SumOfSubset
<1>3. \A T \in SUBSET S : g[T] \in Nat
  BY <1>2, SumNat, FS_Subset
<1> DEFINE Bad == {s \in SUBSET S : \E y \in s : g[s] # f[y] + g[s \ {y}]}
<1>4. Bad = {}
  <2> SUFFICES ASSUME Bad # {} PROVE FALSE
    OBVIOUS
  <2>1. PICK s \in Bad : \A t \in Bad : t \subseteq s => t = s
    <3>1. Bad \subseteq SUBSET S
      OBVIOUS
    <3> HIDE DEF Bad
    <3> QED BY <3>1, SmallestSubset
  <2>2. PICK y \in s : g[s] # f[y] + g[s \ {y}]
    OBVIOUS
  <2> DEFINE c == first_of(s)
  <2>3. c \in s
    BY <2>2 DEF first_of
  <2>4. g[s] = f[c] + g[s \ {c}]
    BY <1>1, <2>2 DEF SumsSubsets
  <2> HIDE DEF c
  <2>5. c # y
    BY <2>2, <2>4
  <2> DEFINE both == (s \ {c}) \ {y}
  <2>6. g[s \ {c}] = f[y] + g[both]
    <3>1. s \ {c} \in SUBSET S /\ s \ {c} # s /\ s \ {c} \subseteq s
      BY <2>3
    <3>2. s \ {c} \notin Bad
      <4> HIDE DEF Bad
      <4> QED BY <2>1, <3>1
    <3>3. y \in s \ {c}
      BY <2>2, <2>5
    <3> QED BY <3>1, <3>2, <3>3
  <2>7. g[s \ {y}] = f[c] + g[both]
    <3>1. s \ {y} \in SUBSET S /\ s \ {y} # s /\ s \ {y} \subseteq s
      BY <2>2
    <3>2. s \ {y} \notin Bad
      <4> HIDE DEF Bad
      <4> QED BY <2>1, <3>1
    <3>3. c \in s \ {y}
      BY <2>3, <2>5
    <3>4. g[s \ {y}] = f[c] + g[(s \ {y}) \ {c}]
      BY <3>1, <3>2, <3>3
    <3>5. (s \ {y}) \ {c} = both
      OBVIOUS
    <3> QED BY <3>4, <3>5
  <2>8. f[c] \in Nat /\ f[y] \in Nat /\ g[both] \in Nat
    BY <1>3, <2>2, <2>3
  <2> HIDE DEF both, Bad
  <2> QED BY <2>2, <2>4, <2>6, <2>7, <2>8
<1>5. S \ {x} \in SUBSET S /\ S \in SUBSET S
  OBVIOUS
<1>6. g[S] = f[x] + g[S \ {x}]
  BY <1>4
<1> QED BY <1>2, <1>5, <1>6

(* Only the values on the set count.                                       *)
LEMMA SumSame ==
  ASSUME NEW f, NEW h, NEW S, IsFiniteSet(S), \A x \in S : f[x] = h[x]
  PROVE  SumFunctionOnSet(f, S) = SumFunctionOnSet(h, S)
<1>1. PICK g : SumsSubsets(f, S, g)
  BY SumsExist
<1>2. \A s \in SUBSET S : s # {} => first_of(s) \in S
  BY DEF first_of
<1>3. SumsSubsets(h, S, g)
  BY <1>1, <1>2 DEF SumsSubsets
<1> QED BY <1>1, <1>3, SumOfSubset

(* Changing one value changes the sum by as much.                          *)
LEMMA SumChange ==
  ASSUME NEW S, IsFiniteSet(S), NEW x \in S, NEW f, NEW h,
         \A y \in S : f[y] \in Nat /\ h[y] \in Nat,
         \A y \in S : y # x => h[y] = f[y]
  PROVE  SumFunctionOnSet(h, S) = SumFunctionOnSet(f, S) - f[x] + h[x]
<1> DEFINE T == S \ {x}
           rest(k) == SumFunctionOnSet(k, T)
<1>1. IsFiniteSet(T) /\ T \subseteq S
  BY FS_Subset
<1>2. SumFunctionOnSet(f, S) = f[x] + rest(f)
  BY SumRemove
<1>3. SumFunctionOnSet(h, S) = h[x] + rest(h)
  BY SumRemove
<1>4. rest(f) = rest(h)
  BY <1>1, SumSame
<1>5. rest(f) \in Nat
  BY <1>1, SumNat
<1> HIDE DEF rest
<1> QED BY <1>2, <1>3, <1>4, <1>5

(* What holds when a token is deployed.                                    *)
LEMMA SumOfZeros ==
  ASSUME NEW S, IsFiniteSet(S), NEW f, \A x \in S : f[x] = 0
  PROVE  SumFunctionOnSet(f, S) = 0
<1>1. PICK g : SumsSubsets(f, S, g)
  BY SumsExist
<1> DEFINE Bad == {s \in SUBSET S : g[s] # 0}
<1>2. Bad = {}
  <2> SUFFICES ASSUME Bad # {} PROVE FALSE
    OBVIOUS
  <2>1. PICK s \in Bad : \A t \in Bad : t \subseteq s => t = s
    <3>1. Bad \subseteq SUBSET S
      OBVIOUS
    <3> HIDE DEF Bad
    <3> QED BY <3>1, SmallestSubset
  <2>2. s # {}
    BY <1>1 DEF SumsSubsets
  <2>3. first_of(s) \in s /\ g[s] = f[first_of(s)] + g[s \ {first_of(s)}]
    BY <1>1, <2>2 DEF SumsSubsets, first_of
  <2>4. g[s \ {first_of(s)}] = 0
    BY <2>1, <2>3
  <2> QED BY <2>1, <2>3, <2>4
<1>3. SumFunctionOnSet(f, S) = g[S]
  BY <1>1, SumOfSubset
<1> QED BY <1>2, <1>3

(* A bound on every value is a bound on the sum.                           *)
LEMMA SumBound ==
  ASSUME NEW S, IsFiniteSet(S), NEW f, NEW h, NEW b, NEW k \in Nat,
         NEW c \in Nat,
         \A x \in S : /\ f[x] \in Nat /\ h[x] \in Nat /\ b[x] \in Nat
                      /\ h[x] <= f[x] + k * b[x] + c
  PROVE  SumFunctionOnSet(h, S) <= SumFunctionOnSet(f, S)
           + k * SumFunctionOnSet(b, S) + c * Cardinality(S)
<1> DEFINE sum(g, s) == SumFunctionOnSet(g, s)
           bounded(s) ==
             sum(h, s) <= sum(f, s) + k * sum(b, s) + c * Cardinality(s)
           Bad == {s \in SUBSET S : ~bounded(s)}
<1>1. \A s \in SUBSET S :
        /\ IsFiniteSet(s) /\ Cardinality(s) \in Nat
        /\ sum(h, s) \in Nat /\ sum(f, s) \in Nat /\ sum(b, s) \in Nat
  BY FS_Subset, FS_CardinalityType, SumNat
<1>2. Bad = {}
  <2> SUFFICES ASSUME Bad # {} PROVE FALSE
    OBVIOUS
  <2>1. PICK s \in Bad : \A t \in Bad : t \subseteq s => t = s
    <3>1. Bad \subseteq SUBSET S
      OBVIOUS
    <3> HIDE DEF Bad
    <3> QED BY <3>1, SmallestSubset
  <2>2. s # {}
    <3>1. bounded({})
      <4>1. sum(h, {}) = 0 /\ sum(f, {}) = 0 /\ sum(b, {}) = 0
        BY SumEmpty
      <4>2. Cardinality({}) = 0
        BY FS_EmptySet
      <4>3. k * 0 = 0 /\ c * 0 = 0
        OBVIOUS
      <4> HIDE DEF sum
      <4> QED BY <4>1, <4>2, <4>3
    <3> QED BY <3>1
  <2>3. PICK x \in s : TRUE
    BY <2>2
  <2> DEFINE t == s \ {x}
  <2>4. t \in SUBSET S /\ t # s /\ t \subseteq s
    BY <2>3
  <2>5. bounded(t)
    <3> HIDE DEF bounded
    <3> QED BY <2>1, <2>4
  <2>6. /\ sum(h, s) = h[x] + sum(h, t)
        /\ sum(f, s) = f[x] + sum(f, t)
        /\ sum(b, s) = b[x] + sum(b, t)
    BY <1>1, SumRemove
  <2>7. Cardinality(s) = Cardinality(t) + 1
    BY <1>1, <2>3, <2>4, FS_RemoveElement
  <2>8. /\ f[x] \in Nat /\ h[x] \in Nat /\ b[x] \in Nat
        /\ h[x] <= f[x] + k * b[x] + c
    OBVIOUS
  <2>9. ~bounded(s)
    OBVIOUS
  <2> HIDE DEF sum, t, Bad
  <2>10. /\ k * sum(b, s) = k * b[x] + k * sum(b, t)
         /\ c * Cardinality(s) = c * Cardinality(t) + c
    <3>1. \A m, p, q \in Nat : m * (p + q) = m * p + m * q
      OBVIOUS
    <3>2. k * sum(b, s) = k * b[x] + k * sum(b, t)
      BY <1>1, <2>4, <2>6, <2>8, <3>1
    <3>3. c * Cardinality(s) = c * Cardinality(t) + c * 1
      BY <1>1, <2>4, <2>7, <3>1
    <3> QED BY <3>2, <3>3
  <2>11. /\ k * sum(b, t) \in Nat /\ c * Cardinality(t) \in Nat
         /\ k * b[x] \in Nat
    BY <1>1, <2>4, <2>8, ProductNat
  <2> QED BY <1>1, <2>4, <2>5, <2>6, <2>8, <2>9, <2>10, <2>11
<1> QED BY <1>2

(* Sums grow with their values and with their range.                      *)
LEMMA SumAtLeast ==
  ASSUME NEW B, IsFiniteSet(B), NEW A, A \subseteq B,
         NEW f, NEW b, NEW h, NEW k \in Nat,
         \A x \in B : h[x] \in Nat,
         \A x \in A : /\ f[x] \in Nat /\ b[x] \in Nat
                      /\ f[x] + k * b[x] <= h[x]
  PROVE  SumFunctionOnSet(f, A) + k * SumFunctionOnSet(b, A)
           <= SumFunctionOnSet(h, B)
<1> DEFINE sum(g, s) == SumFunctionOnSet(g, s)
           bounded(s) ==
             sum(f, s \intersect A) + k * sum(b, s \intersect A) <= sum(h, s)
           Bad == {s \in SUBSET B : ~bounded(s)}
<1>1. \A s \in SUBSET B :
        /\ IsFiniteSet(s) /\ IsFiniteSet(s \intersect A)
        /\ sum(h, s) \in Nat
        /\ sum(f, s \intersect A) \in Nat /\ sum(b, s \intersect A) \in Nat
  BY FS_Subset, SumNat
<1>2. Bad = {}
  <2> SUFFICES ASSUME Bad # {} PROVE FALSE
    OBVIOUS
  <2>1. PICK s \in Bad : \A t \in Bad : t \subseteq s => t = s
    <3>1. Bad \subseteq SUBSET B
      OBVIOUS
    <3> HIDE DEF Bad
    <3> QED BY <3>1, SmallestSubset
  <2>2. s # {}
    <3>1. bounded({})
      <4>1. sum(h, {}) = 0 /\ sum(f, {}) = 0 /\ sum(b, {}) = 0
        BY SumEmpty
      <4>2. {} \intersect A = {} /\ k * 0 = 0
        OBVIOUS
      <4> HIDE DEF sum
      <4> QED BY <4>1, <4>2
    <3> QED BY <3>1
  <2>3. PICK x \in s : TRUE
    BY <2>2
  <2> DEFINE t == s \ {x}
             sa == s \intersect A
             ta == t \intersect A
  <2>4. t \in SUBSET B /\ t # s /\ t \subseteq s
    BY <2>3
  <2>5. bounded(t)
    <3> HIDE DEF bounded
    <3> QED BY <2>1, <2>4
  <2>6. ~bounded(s) /\ x \in B /\ h[x] \in Nat
    OBVIOUS
  <2>7. sum(h, s) = h[x] + sum(h, t)
    BY <1>1, SumRemove
  <2>8. /\ sum(h, s) \in Nat /\ sum(h, t) \in Nat
        /\ sum(f, sa) \in Nat /\ sum(b, sa) \in Nat
        /\ sum(f, ta) \in Nat /\ sum(b, ta) \in Nat
    BY <1>1, <2>4
  <2>9. sum(f, ta) + k * sum(b, ta) <= sum(h, t)
    BY <2>5
  <2>10. ~(sum(f, sa) + k * sum(b, sa) <= sum(h, s))
    BY <2>6
  <2>11. CASE x \in A
    <3>1. x \in sa /\ ta = sa \ {x} /\ IsFiniteSet(sa)
          /\ \A y \in sa : f[y] \in Nat /\ b[y] \in Nat
      BY <1>1, <2>11
    <3> HIDE DEF sa, ta
    <3>2. sum(f, sa) = f[x] + sum(f, ta) /\ sum(b, sa) = b[x] + sum(b, ta)
      BY <3>1, SumRemove
    <3>3. f[x] \in Nat /\ b[x] \in Nat /\ f[x] + k * b[x] <= h[x]
      BY <2>11
    <3> HIDE DEF sum, t, Bad
    <3>4. k * sum(b, sa) = k * b[x] + k * sum(b, ta)
      <4>1. \A m, p, q \in Nat : m * (p + q) = m * p + m * q
        OBVIOUS
      <4> QED BY <2>8, <3>2, <3>3, <4>1
    <3>5. k * sum(b, ta) \in Nat /\ k * b[x] \in Nat /\ k * sum(b, sa) \in Nat
      BY <2>8, <3>3, ProductNat
    <3> QED BY <2>6, <2>7, <2>8, <2>9, <2>10, <3>2, <3>3, <3>4, <3>5
  <2>12. CASE x \notin A
    <3>1. ta = sa
      BY <2>12
    <3> HIDE DEF sum, sa, ta, t, Bad
    <3>2. k * sum(b, ta) \in Nat
      BY <2>8, ProductNat
    <3> QED BY <2>6, <2>7, <2>8, <2>9, <2>10, <3>1, <3>2
  <2> QED BY <2>11, <2>12
<1>3. bounded(B)
  BY <1>2
<1>4. B \intersect A = A
  OBVIOUS
<1> QED BY <1>3, <1>4

(* The same without the second summand.                                   *)
LEMMA SumGrows ==
  ASSUME NEW B, IsFiniteSet(B), NEW A, A \subseteq B, NEW f, NEW h,
         \A x \in B : h[x] \in Nat,
         \A x \in A : f[x] \in Nat /\ f[x] <= h[x]
  PROVE  SumFunctionOnSet(f, A) <= SumFunctionOnSet(h, B)
<1>1. SumFunctionOnSet(f, A) + 0 * SumFunctionOnSet(f, A)
        <= SumFunctionOnSet(h, B)
  BY SumAtLeast, 0 \in Nat
<1>2. SumFunctionOnSet(f, A) \in Nat /\ SumFunctionOnSet(h, B) \in Nat
  BY FS_Subset, SumNat
<1> QED BY <1>1, <1>2

(* One value may exceed its bound by k, which the sum then may, too.       *)
LEMMA SumGrowsButOne ==
  ASSUME NEW B, IsFiniteSet(B), NEW A, NEW x \in A, A \ {x} \subseteq B,
         NEW f, NEW h, NEW k \in Nat,
         \A y \in B : h[y] \in Nat,
         \A y \in A : f[y] \in Nat,
         \A y \in A \ {x} : f[y] <= h[y],
         f[x] <= (IF x \in B THEN h[x] ELSE 0) + k
  PROVE  SumFunctionOnSet(f, A) <= SumFunctionOnSet(h, B) + k
<1> DEFINE sum(g, s) == SumFunctionOnSet(g, s)
           C == B \ {x}
<1>1. /\ IsFiniteSet(A) /\ IsFiniteSet(C)
      /\ C \subseteq B /\ A \ {x} \subseteq C
  <2>1. IsFiniteSet(A \ {x})
    BY FS_Subset
  <2>2. A = (A \ {x}) \union {x}
    OBVIOUS
  <2> QED BY <2>1, <2>2, FS_AddElement, FS_Subset
<1>2. sum(f, A) = f[x] + sum(f, A \ {x})
  BY <1>1, SumRemove
<1>3. sum(f, A \ {x}) <= sum(h, C)
  BY <1>1, SumGrows
<1>4. sum(h, B) = (IF x \in B THEN h[x] ELSE 0) + sum(h, C)
  <2>1. CASE x \in B
    BY <2>1, SumRemove
  <2>2. CASE x \notin B
    <3>1. C = B /\ sum(h, C) \in Nat
      BY <2>2, SumNat
    <3> QED BY <2>2, <3>1
  <2> QED BY <2>1, <2>2
<1>5. /\ sum(f, A \ {x}) \in Nat /\ sum(h, C) \in Nat
      /\ f[x] \in Nat /\ x \in B => h[x] \in Nat
  BY <1>1, FS_Subset, SumNat
<1> HIDE DEF sum
<1>6. sum(f, A) <= sum(h, B) + k
  BY <1>2, <1>3, <1>4, <1>5
<1> QED BY <1>6 DEF sum

(* A common factor.                                                        *)
LEMMA SumTimes ==
  ASSUME NEW A, IsFiniteSet(A), NEW b, NEW h, NEW k \in Nat,
         \A x \in A : b[x] \in Nat /\ h[x] = k * b[x]
  PROVE  SumFunctionOnSet(h, A) = k * SumFunctionOnSet(b, A)
<1> DEFINE zero == [x \in A |-> 0]
           sum(g) == SumFunctionOnSet(g, A)
<1>1. \A x \in A : /\ zero[x] = 0 /\ b[x] \in Nat /\ k * b[x] \in Nat
                   /\ h[x] \in Nat /\ h[x] = k * b[x]
  BY ProductNat
<1> HIDE DEF zero
<1>2. sum(zero) = 0
  BY <1>1, SumOfZeros
<1>3. sum(zero) + k * sum(b) <= sum(h)
  BY <1>1, SumAtLeast
<1>4. sum(h) <= sum(zero) + k * sum(b) + 0 * Cardinality(A)
  BY <1>1, SumBound, 0 \in Nat
<1>5. /\ sum(h) \in Nat /\ sum(b) \in Nat /\ k * sum(b) \in Nat
      /\ Cardinality(A) \in Nat
  BY <1>1, SumNat, ProductNat, FS_CardinalityType
<1> HIDE DEF sum
<1>6. sum(h) = k * sum(b)
  BY <1>2, <1>3, <1>4, <1>5
<1> QED BY <1>6 DEF sum

-----------------------------------------------------------------------------
(* Quotients, products and rates grow with their operands.                 *)
LEMMA DivMonotone ==
  ASSUME NEW a \in Nat, NEW b \in Nat, NEW c \in Nat, c > 0, a <= b
  PROVE  a \div c <= b \div c
  <1>1. a \div c \in Nat /\ (a \div c) * c <= a
    BY DivBounds
  <1>2. (a \div c) * c <= b
    BY <1>1, ProductNat
  <1> QED
    BY <1>1, <1>2, DivAtLeast

(* A quotient of a product grows with a factor.                            *)
LEMMA QuotientGrows ==
  ASSUME NEW x \in Nat, NEW y \in Nat, x <= y, NEW e \in Nat,
         NEW p \in Nat, p > 0
  PROVE  (x * e) \div p <= (y * e) \div p
<1>1. e * x <= e * y /\ e * x \in Nat /\ e * y \in Nat
  BY ProductMonotone, ProductNat
<1>2. x * e = e * x /\ y * e = e * y
  BY SMT
<1> DEFINE a == x * e
           b == y * e
<1>3. a \in Nat /\ b \in Nat /\ a <= b
  BY <1>1, <1>2
<1> HIDE DEF a, b
<1>4. a \div p <= b \div p
  BY <1>3, DivMonotone
<1> QED BY <1>4 DEF a, b

(* Parting a dividend loses less than two quotients, none at a unit.       *)
LEMMA QuotientOfSum ==
  ASSUME NEW a \in Nat, NEW b \in Nat, NEW p \in Nat, p > 0
  PROVE  (a + b) \div p <= a \div p + b \div p + (IF p = 1 THEN 0 ELSE 1)
<1> DEFINE q == a \div p
           r == b \div p
           s == (a + b) \div p
<1>1. CASE p = 1
  <2>1. q = a /\ r = b /\ s = a + b
    BY <1>1, SMT
  <2> QED BY <1>1, <2>1
<1>2. CASE p # 1
  <2>1. /\ q \in Nat /\ a < q * p + p
        /\ r \in Nat /\ b < r * p + p
    BY DivBounds
  <2>2. a + b \in Nat
    OBVIOUS
  <2>3. (q + r + 2) * p = q * p + r * p + p + p
    BY <2>1, SMT
  <2>4. q * p \in Nat /\ r * p \in Nat
    BY <2>1, ProductNat
  <2> HIDE DEF q, r
  <2>5. q + r + 2 \in Nat /\ a + b < (q + r + 2) * p
    BY <2>1, <2>3, <2>4
  <2>6. s < q + r + 2
    <3> DEFINE m == q + r + 2
    <3> HIDE DEF m
    <3> QED BY <2>2, <2>5, DivBelow DEF m
  <2>7. s \in Nat
    BY <2>2, DivBounds
  <2>8. s <= q + r + 1
    BY <2>1, <2>6, <2>7
  <2> QED BY <1>2, <2>8 DEF q, r
<1> QED BY <1>1, <1>2

(* What a factor that is k higher adds.                                    *)
LEMMA QuotientOfWeight ==
  ASSUME NEW a \in Nat, NEW w \in Nat, NEW k \in Nat, NEW p \in Nat, p > 0
  PROVE  (a * w) \div p + k * (a \div p) <= (a * (w + k)) \div p
<1> DEFINE q == (a * w) \div p
           r == a \div p
<1>1. a * w \in Nat /\ a * k \in Nat
  BY ProductNat
<1>2. q \in Nat /\ q * p <= a * w /\ r \in Nat /\ r * p <= a
  BY <1>1, DivBounds
<1>3. a * (w + k) = a * w + a * k
  BY SMT
<1>4. (q + k * r) * p = q * p + k * (r * p)
  <2> HIDE DEF q, r
  <2> QED BY <1>2, SMT
<1>5. k * (r * p) <= k * a /\ k * a = a * k
  <2>1. r * p \in Nat
    BY <1>2, ProductNat
  <2> HIDE DEF r
  <2> QED BY <1>2, <2>1, ProductMonotone, SMT
<1>6. q * p \in Nat /\ k * (r * p) \in Nat /\ k * r \in Nat
  BY <1>2, ProductNat
<1> HIDE DEF q, r
<1>7. (q + k * r) * p <= a * (w + k)
  BY <1>1, <1>2, <1>3, <1>4, <1>5, <1>6
<1> DEFINE m == q + k * r
           n == a * (w + k)
<1>8. m \in Nat /\ n \in Nat /\ m * p <= n
  BY <1>1, <1>2, <1>3, <1>6, <1>7
<1> HIDE DEF m, n
<1>9. m <= n \div p
  BY <1>8, DivAtLeast
<1> QED BY <1>9 DEF m, n, q, r

(* Products half up.                                                       *)
LEMMA RayMulMonotone ==
  ASSUME NEW a \in Nat, NEW b \in Nat, NEW c \in Nat, b <= c
  PROVE  ray_mul(a, b) <= ray_mul(a, c)
  <1>1. a * b <= a * c /\ a * b \in Nat /\ a * c \in Nat
    BY ProductMonotone, ProductNat
  <1>2. /\ a * b + HALF_RAY \in Nat /\ a * c + HALF_RAY \in Nat
        /\ a * b + HALF_RAY <= a * c + HALF_RAY
    BY <1>1, HalfRay
  <1> QED
    BY <1>2, DivMonotone, ScaleAssumption DEF ray_mul

(* Both factors of a half-up product may grow.                             *)
LEMMA RayMulBothGrow ==
  ASSUME NEW a \in Nat, NEW b \in Nat, NEW c \in Nat, NEW e \in Nat,
         a <= c, b <= e
  PROVE  ray_mul(a, b) <= ray_mul(c, e)
<1>1. ray_mul(a, b) <= ray_mul(a, e)
  BY RayMulMonotone
<1>2. ray_mul(e, a) <= ray_mul(e, c)
  BY RayMulMonotone
<1>3. ray_mul(e, a) = ray_mul(a, e) /\ ray_mul(e, c) = ray_mul(c, e)
  BY DEF ray_mul
<1>4. /\ ray_mul(a, b) \in Nat /\ ray_mul(a, e) \in Nat
      /\ ray_mul(c, e) \in Nat
  BY RayMulType
<1> QED BY <1>1, <1>2, <1>3, <1>4

(* Nothing scales to nothing.                                              *)
LEMMA RayMulZero ==
  ASSUME NEW i \in Nat
  PROVE  ray_mul(0, i) = 0
<1>1. 0 * i + HALF_RAY = HALF_RAY
  BY HalfRay
<1>2. ray_mul(0, i) = HALF_RAY \div RAY
  BY <1>1 DEF ray_mul
<1>3. HALF_RAY < 1 * RAY
  BY HalfRay, ScaleAssumption
<1>4. HALF_RAY \div RAY < 1 /\ HALF_RAY \div RAY \in Nat
  BY <1>3, HalfRay, ScaleAssumption, DivBounds, DivBelow
<1> QED BY <1>2, <1>4

(* Quotients half up.                                                      *)
LEMMA RayDivMonotone ==
  ASSUME NEW a \in Nat, NEW b \in Nat, NEW c \in Nat, c > 0, a <= b
  PROVE  ray_div(a, c) <= ray_div(b, c)
  <1>1. RAY \in Nat /\ c \div 2 \in Nat
    BY ScaleAssumption, DivBounds
  <1>2. a * RAY <= b * RAY /\ a * RAY \in Nat /\ b * RAY \in Nat
    BY <1>1, ProductNat, SMT
  <1>3. /\ a * RAY + (c \div 2) \in Nat /\ b * RAY + (c \div 2) \in Nat
        /\ a * RAY + (c \div 2) <= b * RAY + (c \div 2)
    BY <1>1, <1>2
  <1> QED
    BY <1>3, DivMonotone DEF ray_div

(* A part of something is at most one ray of it.                           *)
LEMMA RayDivOfPart ==
  ASSUME NEW a \in Nat, NEW c \in Nat, c > 0, a <= c
  PROVE  ray_div(a, c) <= RAY
  <1>1. RAY \in Nat /\ c \div 2 \in Nat /\ c \div 2 < c
    BY ScaleAssumption, DivBounds
  <1>2. a * RAY <= c * RAY /\ a * RAY \in Nat /\ c * RAY \in Nat
    BY <1>1, ProductNat, SMT
  <1>3. a * RAY + (c \div 2) < (RAY + 1) * c
    <2>1. (RAY + 1) * c = c * RAY + c
      BY <1>1, SMT
    <2> QED
      BY <1>1, <1>2, <2>1
  <1>4. (a * RAY + (c \div 2)) \div c < RAY + 1
    BY <1>1, <1>2, <1>3, DivBelow
  <1>5. (a * RAY + (c \div 2)) \div c \in Nat
    BY <1>1, <1>2, DivBounds
  <1> QED
    BY <1>1, <1>4, <1>5 DEF ray_div

(* And a product with a part of one ray at most the whole.                 *)
LEMMA RayMulByPart ==
  ASSUME NEW a \in Nat, NEW b \in Nat, b <= RAY
  PROVE  ray_mul(a, b) <= a
  <1>1. RAY \in Nat /\ RAY > 0 /\ HALF_RAY \in Nat /\ HALF_RAY < RAY
    BY ScaleAssumption, HalfRay
  <1>2. a * b <= a * RAY /\ a * b \in Nat /\ a * RAY \in Nat
    BY <1>1, ProductMonotone, ProductNat
  <1>3. a * b + HALF_RAY < (a + 1) * RAY
    <2>1. (a + 1) * RAY = a * RAY + RAY
      BY <1>1, SMT
    <2> QED
      BY <1>1, <1>2, <2>1
  <1>4. (a * b + HALF_RAY) \div RAY < a + 1
    BY <1>1, <1>2, <1>3, DivBelow
  <1>5. (a * b + HALF_RAY) \div RAY \in Nat
    BY <1>1, <1>2, DivBounds
  <1> QED
    BY <1>4, <1>5 DEF ray_mul

(* The borrow rate rises with utilization: either branch does, and at the  *)
(* kink the first has reached no more than the second starts from.         *)
LEMMA BorrowRateMonotone ==
  ASSUME NEW p \in InterestRateParams, validate_interest_rate_params(p),
         NEW u \in Nat, NEW v \in Nat, u <= v
  PROVE  variable_borrow_rate(p, u) <= variable_borrow_rate(p, v)
  <1> DEFINE kink   == p.optimal_utilization_rate
             base   == p.base_variable_borrow_rate
             slope1 == p.variable_rate_slope1
             slope2 == p.variable_rate_slope2
             first(x)  == ray_mul(slope1, ray_div(x, kink))
             second(x) == ray_mul(slope2, ray_div(x - kink, RAY - kink))
  <1>1. /\ RAY \in Nat /\ kink \in Nat /\ kink > 0 /\ kink < RAY
        /\ base \in Nat /\ slope1 \in Nat /\ slope2 \in Nat
    BY ScaleAssumption DEF InterestRateParams, validate_interest_rate_params
  <1>2. \A x \in Nat :
          variable_borrow_rate(p, x) = IF x > kink
                                       THEN base + slope1 + second(x)
                                       ELSE base + first(x)
    BY <1>1 DEF variable_borrow_rate, slope1_component, slope2_component
  <1> HIDE DEF kink, base, slope1, slope2
  <1>3. first(u) \in Nat /\ first(v) \in Nat /\ first(u) <= first(v)
    <2>1. /\ ray_div(u, kink) \in Nat /\ ray_div(v, kink) \in Nat
          /\ ray_div(u, kink) <= ray_div(v, kink)
      BY <1>1, RayDivTypes, RayDivMonotone
    <2> QED
      BY <1>1, <2>1, RayMulType, RayMulMonotone
  <1>4. ASSUME u <= kink
        PROVE  first(u) <= slope1
    <2>1. ray_div(u, kink) \in Nat /\ ray_div(u, kink) <= RAY
      BY <1>1, <1>4, RayDivTypes, RayDivOfPart
    <2> QED
      BY <1>1, <2>1, RayMulByPart
  <1>5. ASSUME NEW x \in Nat, x > kink
        PROVE  /\ x - kink \in Nat /\ RAY - kink \in Nat /\ RAY - kink > 0
               /\ ray_div(x - kink, RAY - kink) \in Nat
               /\ second(x) \in Nat
    <2>1. x - kink \in Nat /\ RAY - kink \in Nat /\ RAY - kink > 0
      BY <1>1, <1>5
    <2>2. ray_div(x - kink, RAY - kink) \in Nat
      BY <2>1, RayDivTypes
    <2> QED
      BY <1>1, <2>1, <2>2, RayMulType
  <1>6. CASE v <= kink
    <2>1. ~(u > kink) /\ ~(v > kink)
      BY <1>1, <1>6
    <2> HIDE DEF first, second
    <2> QED
      BY <1>1, <1>2, <1>3, <2>1
  <1>7. CASE v > kink /\ u <= kink
    <2>1. second(v) \in Nat /\ first(u) <= slope1 /\ ~(u > kink)
      BY <1>1, <1>4, <1>5, <1>7
    <2> HIDE DEF first, second
    <2> QED
      BY <1>1, <1>2, <1>3, <1>7, <2>1
  <1>8. CASE u > kink
    <2>1. v > kink /\ u - kink <= v - kink
      BY <1>1, <1>8
    <2>2. /\ u - kink \in Nat /\ v - kink \in Nat
          /\ RAY - kink \in Nat /\ RAY - kink > 0
          /\ ray_div(u - kink, RAY - kink) \in Nat
          /\ ray_div(v - kink, RAY - kink) \in Nat
          /\ second(u) \in Nat /\ second(v) \in Nat
      BY <1>5, <1>8, <2>1
    <2>3. ray_div(u - kink, RAY - kink) <= ray_div(v - kink, RAY - kink)
      BY <2>1, <2>2, RayDivMonotone
    <2>4. second(u) <= second(v)
      BY <1>1, <2>2, <2>3, RayMulMonotone
    <2> HIDE DEF first, second
    <2> QED
      BY <1>1, <1>2, <1>8, <2>1, <2>2, <2>4
  <1> QED
    BY <1>1, <1>6, <1>7, <1>8

(* More debt out of the same supply is more utilization.                   *)
LEMMA UtilizationMonotone ==
  ASSUME NEW a \in Nat, NEW d \in Nat, a > 0
  PROVE  utilization_rate(a, d) <= utilization_rate(a - 1, d + 1)
  <1>1. /\ (a - 1) + (d + 1) = a + d /\ a + d \in Nat /\ a + d > 0
        /\ d <= d + 1 /\ d + 1 \in Nat
    OBVIOUS
  <1>2. ray_div(d, a + d) <= ray_div(d + 1, a + d)
    BY <1>1, RayDivMonotone
  <1> QED
    BY <1>1, <1>2 DEF utilization_rate

(* What the supply earns is covered by what the debt pays, up to the half  *)
(* units of the roundings: the reserve factor only takes away, and the     *)
(* utilization is the share of the debt to within half a unit.             *)
LEMMA LiquidityCovered ==
  ASSUME NEW rate \in Nat, NEW factor \in 0 .. BASIS_POINTS_MULTIPLIER,
         NEW a \in Nat, NEW d \in Nat
  PROVE  2 * liquidity_rate(rate, utilization_rate(a, d), factor)
             * (a + d) * RAY
           <= 2 * rate * d * RAY + (a + d) * (2 * RAY + rate)
  <1> DEFINE supply == a + d
             use    == utilization_rate(a, d)
             cut    == (factor * RAY) \div BASIS_POINTS_MULTIPLIER
             gross  == ray_mul(rate, use)
             net    == ray_mul(gross, RAY - cut)
  <1>1. /\ RAY \in Nat /\ RAY > 0 /\ HALF_RAY \in Nat
        /\ 2 * HALF_RAY = RAY /\ supply \in Nat
    BY ScaleAssumption, HalfRay
  <1>2. use \in Nat
    BY <1>1, RayDivTypes DEF utilization_rate
  <1>3. 2 * (use * supply) <= 2 * (d * RAY) + supply
    <2>1. CASE supply = 0
      <3>1. d = 0 /\ use = 0
        BY <2>1 DEF utilization_rate
      <3> HIDE DEF use, supply
      <3> QED
        BY <1>1, <2>1, <3>1, SMT
    <2>2. CASE supply # 0
      <3> DEFINE half == supply \div 2
      <3>1. half \in Nat /\ half * 2 <= supply
        BY <1>1, DivBounds
      <3>2. d * RAY \in Nat
        BY <1>1, ProductNat
      <3>3. use = (d * RAY + half) \div supply
        BY <2>2 DEF utilization_rate, ray_div
      <3> HIDE DEF use, supply, half
      <3>4. use * supply <= d * RAY + half /\ use * supply \in Nat
        BY <1>1, <1>2, <2>2, <3>1, <3>2, <3>3, DivBounds, ProductNat
      <3> QED
        BY <1>1, <3>1, <3>2, <3>4
    <2> QED
      BY <2>1, <2>2
  <1>4. cut \in Nat /\ RAY - cut \in Nat /\ RAY - cut <= RAY
    <2>1. /\ BASIS_POINTS_MULTIPLIER \in Nat /\ BASIS_POINTS_MULTIPLIER > 0
          /\ factor \in Nat /\ factor <= BASIS_POINTS_MULTIPLIER
      BY ScaleAssumption
    <2>2. factor * RAY \in Nat /\ RAY * BASIS_POINTS_MULTIPLIER \in Nat
      BY <1>1, <2>1, ProductNat
    <2>3. factor * RAY <= RAY * BASIS_POINTS_MULTIPLIER
      BY <1>1, <2>1, SMT
    <2>4. (RAY + 1) * BASIS_POINTS_MULTIPLIER
            = RAY * BASIS_POINTS_MULTIPLIER + BASIS_POINTS_MULTIPLIER
      BY <1>1, <2>1, SMT
    <2>5. cut \in Nat /\ cut < RAY + 1
      BY <1>1, <2>1, <2>2, <2>3, <2>4, DivBounds, DivBelow
    <2> HIDE DEF cut
    <2> QED
      BY <1>1, <2>5
  <1> HIDE DEF cut, use, supply
  <1>5. gross \in Nat /\ 2 * (gross * RAY) <= 2 * (rate * use) + RAY
    <2>1. gross \in Nat
      BY <1>2, RayMulType
    <2>2. rate * use \in Nat /\ rate * use + HALF_RAY \in Nat
      BY <1>1, <1>2, ProductNat
    <2>3. gross * RAY <= rate * use + HALF_RAY
      BY <1>1, <2>2, DivBounds DEF ray_mul
    <2> HIDE DEF gross
    <2>4. gross * RAY \in Nat
      BY <1>1, <2>1, ProductNat
    <2> QED
      BY <1>1, <2>1, <2>2, <2>3, <2>4
  <1> HIDE DEF gross
  <1>6. net \in Nat /\ net <= gross
    BY <1>4, <1>5, RayMulType, RayMulByPart
  <1>7. net = liquidity_rate(rate, utilization_rate(a, d), factor)
    BY DEF liquidity_rate, cut, gross, use
  <1> HIDE DEF net
  <1>8. 2 * (net * RAY) <= 2 * (rate * use) + RAY
    <2>1. net * RAY <= gross * RAY /\ net * RAY \in Nat /\ gross * RAY \in Nat
      BY <1>1, <1>5, <1>6, ProductNat, SMT
    <2> QED
      BY <1>5, <2>1, <1>2, ProductNat, <1>1
  <1>9. 2 * net * supply * RAY <= 2 * (rate * use) * supply + RAY * supply
    <2>1. supply * (2 * (net * RAY)) <= supply * (2 * (rate * use) + RAY)
      <3>1. 2 * (net * RAY) \in Nat /\ 2 * (rate * use) + RAY \in Nat
        BY <1>1, <1>2, <1>6, ProductNat
      <3> QED
        BY <1>1, <1>8, <3>1, ProductMonotone
    <2>2. supply * (2 * (net * RAY)) = 2 * net * supply * RAY
      BY <1>1, <1>6, SMT
    <2>3. supply * (2 * (rate * use) + RAY)
            = 2 * (rate * use) * supply + RAY * supply
      BY <1>1, <1>2, SMT
    <2> QED
      BY <2>1, <2>2, <2>3
  <1>10. 2 * (rate * use) * supply <= 2 * rate * d * RAY + rate * supply
    <2>1. rate * (2 * (use * supply)) <= rate * (2 * (d * RAY) + supply)
      <3>1. 2 * (use * supply) \in Nat /\ 2 * (d * RAY) + supply \in Nat
        BY <1>1, <1>2, ProductNat
      <3> QED
        BY <1>3, <3>1, ProductMonotone
    <2>2. rate * (2 * (use * supply)) = 2 * (rate * use) * supply
      BY <1>1, <1>2, SMT
    <2>3. rate * (2 * (d * RAY) + supply) = 2 * rate * d * RAY + rate * supply
      BY <1>1, SMT
    <2> QED
      BY <2>1, <2>2, <2>3
  <1>11. supply * (2 * RAY + rate) = 2 * (RAY * supply) + rate * supply
    BY <1>1, SMT
  <1>12. 2 * net * supply * RAY
           <= 2 * rate * d * RAY + supply * (2 * RAY + rate)
    <2> DEFINE lhs == 2 * net * supply * RAY
               mid == 2 * (rate * use) * supply
               paid == 2 * rate * d * RAY
               rs == RAY * supply
               ts == rate * supply
    <2>1. lhs \in Nat /\ mid \in Nat /\ paid \in Nat /\ rs \in Nat /\ ts \in Nat
      BY <1>1, <1>2, <1>6, ProductNat
    <2>2. lhs <= mid + rs /\ mid <= paid + ts
      BY <1>9, <1>10
    <2> HIDE DEF lhs, mid, paid, rs, ts
    <2>3. lhs <= paid + (2 * rs + ts)
      BY <2>1, <2>2
    <2> QED
      BY <2>3, <1>11 DEF lhs, paid, rs, ts
  <1> QED
    BY <1>7, <1>12 DEF supply

-----------------------------------------------------------------------------
(***************************************************************************)
(* Compounding.  The code's factor is a polynomial in the rate; it is      *)
(* compared with the power it approximates by way of the exact polynomial, *)
(* in integers: one second multiplies by (year + rate) \div year.          *)
(***************************************************************************)
powers_of(base, p) == p = [k \in Nat |-> IF k = 0 THEN 1 ELSE base * p[k - 1]]

(* The recursion determines a function.                                    *)
LEMMA PowersExist ==
  ASSUME NEW base \in Nat
  PROVE  \E p : powers_of(base, p)
  <1> DEFINE Solves(n, g) == /\ g \in [0 .. n -> Nat] /\ g[0] = 1
                             /\ \A k \in 1 .. n : g[k] = base * g[k - 1]
             Bad == {n \in Nat : ~\E g : Solves(n, g)}
             G(n) == CHOOSE g : Solves(n, g)
             p == [n \in Nat |-> G(n)[n]]
  <1>1. Solves(0, [k \in 0 .. 0 |-> 1])
    OBVIOUS
  <1>2. ASSUME NEW n \in Nat, NEW g, Solves(n, g)
        PROVE  \E h : Solves(n + 1, h)
    <2> DEFINE h == [k \in 0 .. n + 1 |->
                       IF k = n + 1 THEN base * g[n] ELSE g[k]]
    <2>1. \A k \in 0 .. n : g[k] \in Nat /\ h[k] = g[k]
      BY <1>2
    <2>2. base * g[n] \in Nat /\ h[n + 1] = base * g[n]
      <3>1. g[n] \in Nat
        <4>1. n \in 0 .. n /\ g \in [0 .. n -> Nat]
          BY <1>2
        <4> HIDE DEF h, Solves
        <4> QED BY <4>1
      <3>2. base * g[n] \in Nat
        BY <3>1, ProductNat
      <3>3. h[n + 1] = base * g[n]
        OBVIOUS
      <3> QED
        BY <3>2, <3>3
    <2>3. h \in [0 .. n + 1 -> Nat]
      <3>1. \A k \in 0 .. n + 1 : k = n + 1 \/ k \in 0 .. n
        OBVIOUS
      <3>2. \A k \in 0 .. n + 1 : h[k] \in Nat
        <4> HIDE DEF h
        <4> QED BY <2>1, <2>2, <3>1
      <3> QED
        BY <3>2
    <2>4. h[0] = 1
      BY <1>2
    <2>5. \A k \in 1 .. n + 1 : h[k] = base * h[k - 1]
      <3>1. \A k \in 1 .. n + 1 : k = n + 1 \/ k \in 1 .. n
        OBVIOUS
      <3>2. \A k \in 1 .. n : h[k] = g[k] /\ h[k - 1] = g[k - 1]
        BY <2>1
      <3>3. h[n + 1] = base * h[n]
        BY <2>1, <2>2
      <3> HIDE DEF h
      <3> QED
        BY <1>2, <3>1, <3>2, <3>3
    <2> HIDE DEF h
    <2> QED
      BY <2>3, <2>4, <2>5
  <1>3. Bad = {}
    <2> SUFFICES ASSUME Bad # {} PROVE FALSE
      OBVIOUS
    <2> HIDE DEF Solves
    <2>1. PICK n \in Bad : \A m \in Bad : n <= m
      BY SmallestNumber
    <2>2. n # 0
      BY <1>1
    <2>3. n - 1 \in Nat /\ n - 1 \notin Bad
      BY <2>1, <2>2
    <2> QED
      BY <1>2, <2>1, <2>3
  <1>4. \A n \in Nat : Solves(n, G(n))
    <2> HIDE DEF Solves
    <2> QED
      BY <1>3
  <1>5. ASSUME NEW n \in Nat
        PROVE  \A k \in 0 .. n : G(n)[k] = G(n + 1)[k]
    <2> DEFINE g == G(n)
               h == G(n + 1)
               Apart == {k \in 0 .. n : g[k] # h[k]}
    <2>1. /\ g[0] = 1 /\ \A k \in 1 .. n : g[k] = base * g[k - 1]
          /\ h[0] = 1 /\ \A k \in 1 .. n + 1 : h[k] = base * h[k - 1]
      <3>1. Solves(n, g) /\ Solves(n + 1, h)
        <4> HIDE DEF Solves, G
        <4> QED BY <1>4
      <3> HIDE DEF G, g, h
      <3> QED
        BY <3>1
    <2> HIDE DEF G, g, h
    <2>2. Apart = {}
      <3> SUFFICES ASSUME Apart # {} PROVE FALSE
        OBVIOUS
      <3>1. PICK k \in Apart : \A m \in Apart : k <= m
        <4>1. Apart \subseteq Nat
          OBVIOUS
        <4> HIDE DEF Apart
        <4> QED BY <4>1, SmallestNumber
      <3>2. k \in 1 .. n /\ k - 1 \in 0 .. n /\ k - 1 \notin Apart
        BY <2>1, <3>1
      <3>3. k \in 1 .. n + 1 /\ g[k - 1] = h[k - 1]
        BY <3>2
      <3> QED
        BY <2>1, <3>1, <3>2, <3>3
    <2> QED
      BY <2>2 DEF g, h
  <1>6. p[0] = 1
    <2>1. Solves(0, G(0))
      <3> HIDE DEF Solves, G
      <3> QED BY <1>4
    <2> HIDE DEF G
    <2> QED
      BY <2>1
  <1>7. ASSUME NEW n \in Nat, n # 0
        PROVE  p[n] = base * p[n - 1]
    <2>1. /\ n - 1 \in Nat /\ n - 1 \in 0 .. n - 1
          /\ (n - 1) + 1 = n /\ n \in 1 .. n
      BY <1>7
    <2>2. G(n)[n] = base * G(n)[n - 1]
      <3>1. Solves(n, G(n))
        <4> HIDE DEF Solves, G
        <4> QED BY <1>4
      <3> HIDE DEF G
      <3> QED BY <2>1, <3>1
    <2>3. G(n - 1)[n - 1] = G(n)[n - 1]
      <3> HIDE DEF G
      <3> QED BY <1>5, <2>1
    <2> HIDE DEF G
    <2> QED
      BY <2>1, <2>2, <2>3
  <1>8. p = [k \in Nat |-> IF k = 0 THEN 1 ELSE base * p[k - 1]]
    <2>1. \A k \in Nat : p[k] = IF k = 0 THEN 1 ELSE base * p[k - 1]
      <3> HIDE DEF p
      <3> QED
        BY <1>6, <1>7
    <2> DEFINE q == [k \in Nat |-> IF k = 0 THEN 1 ELSE base * p[k - 1]]
    <2>2. \A k \in Nat : p[k] = q[k]
      <3> HIDE DEF p
      <3> QED
        BY <2>1
    <2> HIDE DEF G
    <2> QED
      BY <2>2
  <1> HIDE DEF p
  <1> QED
    BY <1>8 DEF powers_of

(* What the recursion says of it.                                          *)
LEMMA PowersGrow ==
  ASSUME NEW base \in Nat, NEW p, powers_of(base, p)
  PROVE  /\ p[0] = 1
         /\ \A n \in Nat : p[n] \in Nat /\ p[n + 1] = base * p[n]
  <1> DEFINE Bad == {n \in Nat : p[n] \notin Nat}
  <1>1. /\ p[0] = 1
        /\ \A n \in Nat : n # 0 => p[n] = base * p[n - 1]
    BY DEF powers_of
  <1>2. Bad = {}
    <2> SUFFICES ASSUME Bad # {} PROVE FALSE
      OBVIOUS
    <2>1. PICK n \in Bad : \A m \in Bad : n <= m
      BY SmallestNumber
    <2>2. n # 0
      BY <1>1
    <2>3. n - 1 \in Nat /\ p[n - 1] \in Nat
      BY <2>1, <2>2
    <2>4. p[n] = base * p[n - 1]
      BY <1>1, <2>2
    <2> QED
      BY <2>3, <2>4, ProductNat
  <1>3. \A n \in Nat : n + 1 \in Nat /\ n + 1 # 0 /\ (n + 1) - 1 = n
    OBVIOUS
  <1> QED
    BY <1>1, <1>2, <1>3

(* Pairs and triples of seconds.                                           *)
pairs_of(e)   == (e * (e - 1)) \div 2
triples_of(e) == (e * (e - 1) * (e - 2)) \div 6

(* A second more adds a pair for each second and a triple for each pair.   *)
LEMMA Pairs ==
  ASSUME NEW e \in Nat
  PROVE  /\ pairs_of(e) \in Nat /\ e * (e - 1) = 2 * pairs_of(e)
         /\ pairs_of(e + 1) = pairs_of(e) + e
  <1> DEFINE k == e \div 2
  <1>1. k \in Nat /\ (e = 2 * k \/ e = 2 * k + 1)
    BY SMT
  <1>2. \E m \in Nat : e * (e - 1) = 2 * m
    <2>1. CASE e = 2 * k
      <3>1. CASE k = 0
        BY <2>1, <3>1
      <3>2. CASE k # 0
        <4>1. k * (2 * k - 1) \in Nat
          BY <1>1, <3>2, ProductNat
        <4> HIDE DEF k
        <4>2. (2 * k) * (2 * k - 1) = 2 * (k * (2 * k - 1))
          BY <1>1, SMT
        <4> QED
          BY <2>1, <4>1, <4>2
      <3> QED
        BY <3>1, <3>2
    <2>2. CASE e = 2 * k + 1
      <3>1. (2 * k + 1) * k \in Nat
        BY <1>1, ProductNat
      <3> HIDE DEF k
      <3>2. (2 * k + 1) * ((2 * k + 1) - 1) = 2 * ((2 * k + 1) * k)
        BY <1>1, SMT
      <3> QED
        BY <2>2, <3>1, <3>2
    <2> QED
      BY <1>1, <2>1, <2>2
  <1>3. PICK m \in Nat : e * (e - 1) = 2 * m
    BY <1>2
  <1>4. pairs_of(e) = m
    BY <1>3 DEF pairs_of
  <1>5. (e + 1) * ((e + 1) - 1) = 2 * (m + e)
    <2>1. (e + 1) * ((e + 1) - 1) = e * (e - 1) + 2 * e
      BY SMT
    <2> QED
      BY <1>3, <2>1
  <1>6. pairs_of(e + 1) = m + e
    BY <1>5 DEF pairs_of
  <1> QED
    BY <1>3, <1>4, <1>6

(* The cube of falling factors is divisible by six.                        *)
LEMMA Triples ==
  ASSUME NEW e \in Nat
  PROVE  /\ triples_of(e) \in Nat /\ e * (e - 1) * (e - 2) = 6 * triples_of(e)
         /\ triples_of(e + 1) = triples_of(e) + pairs_of(e)
  <1> DEFINE cube(n) == n * (n - 1) * (n - 2)
             Bad == {n \in Nat : ~\E m \in Nat : cube(n) = 6 * m}
  <1>1. ASSUME NEW n \in Nat
        PROVE  cube(n + 1) = cube(n) + 6 * pairs_of(n)
    <2>1. cube(n + 1) = cube(n) + 3 * (n * (n - 1))
      BY SMT
    <2>2. n * (n - 1) = 2 * pairs_of(n) /\ pairs_of(n) \in Nat
      BY Pairs
    <2>3. cube(n) \in Int
      OBVIOUS
    <2> HIDE DEF cube
    <2> QED
      BY <2>1, <2>2, <2>3
  <1>2. Bad = {}
    <2> SUFFICES ASSUME Bad # {} PROVE FALSE
      OBVIOUS
    <2>0. Bad \subseteq Nat
      OBVIOUS
    <2>1. PICK n \in Bad : \A m \in Bad : n <= m
      <3> HIDE DEF Bad
      <3> QED BY <2>0, SmallestNumber
    <2>2. cube(0) = 6 * 0
      OBVIOUS
    <2>3. n # 0
      <3> HIDE DEF cube
      <3> QED BY <2>2
    <2>4. n - 1 \in Nat /\ (n - 1) + 1 = n /\ n - 1 \notin Bad
      <3> HIDE DEF cube
      <3> QED BY <2>1, <2>3
    <2>5. PICK m \in Nat : cube(n - 1) = 6 * m
      <3> HIDE DEF cube
      <3> QED BY <2>4
    <2> HIDE DEF cube
    <2>6. cube(n) = 6 * m + 6 * pairs_of(n - 1)
      BY <1>1, <2>4, <2>5
    <2>7. pairs_of(n - 1) \in Nat
      BY <2>4, Pairs
    <2>8. cube(n) = 6 * (m + pairs_of(n - 1)) /\ m + pairs_of(n - 1) \in Nat
      BY <2>6, <2>7
    <2> QED
      BY <2>8
  <1>3. PICK m \in Nat : cube(e) = 6 * m
    <2> HIDE DEF cube
    <2> QED BY <1>2
  <1>4. triples_of(e) = m
    BY <1>3 DEF triples_of
  <1>5. cube(e + 1) = 6 * (m + pairs_of(e)) /\ pairs_of(e) \in Nat
    <2>1. cube(e + 1) = cube(e) + 6 * pairs_of(e) /\ pairs_of(e) \in Nat
      <3> HIDE DEF cube
      <3> QED BY <1>1, Pairs
    <2> HIDE DEF cube
    <2> QED
      BY <1>3, <2>1
  <1>6. triples_of(e + 1) = m + pairs_of(e)
    <2>1. triples_of(e + 1) = cube(e + 1) \div 6
      BY DEF triples_of
    <2> HIDE DEF cube
    <2> QED
      BY <1>5, <2>1
  <1> QED
    BY <1>3, <1>4, <1>6

(***************************************************************************)
(* year^3 times the exact polynomial of e seconds.                         *)
(***************************************************************************)
taylor(year, rate, e) ==
  year * year * year + e * (year * year * rate)
    + pairs_of(e) * (year * rate * rate) + triples_of(e) * (rate * rate * rate)

(* A second more makes the polynomial grow by less than compounding does.  *)
LEMMA TaylorStep ==
  ASSUME NEW year \in Nat, NEW rate \in Nat, NEW e \in Nat
  PROVE  /\ taylor(year, rate, e) \in Nat
         /\ taylor(year, rate, e + 1) * year
              <= taylor(year, rate, e) * (year + rate)
  <1> DEFINE two   == pairs_of(e)
             three == triples_of(e)
             yyy == year * year * year
             yyr == year * year * rate
             yrr == year * rate * rate
             rrr == rate * rate * rate
  <1>1. /\ two \in Nat /\ three \in Nat /\ e + 1 \in Nat
        /\ pairs_of(e + 1) = two + e /\ triples_of(e + 1) = three + two
    BY Pairs, Triples
  <1>2. yyy \in Nat /\ yyr \in Nat /\ yrr \in Nat /\ rrr \in Nat
    BY ProductNat
  <1>3. /\ yyy * rate = yyr * year /\ yyr * rate = yrr * year
        /\ yrr * rate = rrr * year
    BY SMT
  <1>4. /\ taylor(year, rate, e) = yyy + e * yyr + two * yrr + three * rrr
        /\ taylor(year, rate, e + 1)
             = yyy + (e + 1) * yyr + (two + e) * yrr + (three + two) * rrr
    BY <1>1 DEF taylor
  <1> HIDE DEF two, three, yyy, yyr, yrr, rrr
  <1> DEFINE now == yyy + e * yyr + two * yrr + three * rrr
             add == yyr + e * yrr + two * rrr
  <1>5. now \in Nat /\ add \in Nat
    BY <1>1, <1>2, ProductNat
  <1>6. yyy + (e + 1) * yyr + (two + e) * yrr + (three + two) * rrr = now + add
    BY <1>1, <1>2, SMT
  <1>7. now * rate = add * year + three * (rrr * rate)
    <2>1. now * rate = yyy * rate + e * (yyr * rate) + two * (yrr * rate)
                         + three * (rrr * rate)
      BY <1>1, <1>2, SMT
    <2>2. add * year = yyr * year + e * (yrr * year) + two * (rrr * year)
      BY <1>1, <1>2, SMT
    <2> QED
      BY <1>3, <2>1, <2>2
  <1>8. three * (rrr * rate) \in Nat /\ add * year \in Nat /\ now * year \in Nat
    BY <1>1, <1>2, <1>5, ProductNat
  <1> HIDE DEF now, add
  <1>9. /\ (now + add) * year = now * year + add * year
        /\ now * (year + rate) = now * year + now * rate
    BY <1>5, SMT
  <1>10. (now + add) * year <= now * (year + rate)
    BY <1>7, <1>8, <1>9
  <1> QED
    BY <1>4, <1>5, <1>6, <1>10 DEF now

(* So it stays below the powers.                                           *)
LEMMA TaylorBelowPowers ==
  ASSUME NEW year \in Nat, NEW rate \in Nat,
         NEW p, powers_of(year, p), NEW q, powers_of(year + rate, q),
         NEW e \in Nat
  PROVE  taylor(year, rate, e) * p[e] <= (year * year * year) * q[e]
  <1> DEFINE cube == year * year * year
             T(n) == taylor(year, rate, n)
             Bad  == {n \in Nat : ~(T(n) * p[n] <= cube * q[n])}
  <1>1. /\ p[0] = 1 /\ \A n \in Nat : p[n] \in Nat /\ p[n + 1] = year * p[n]
        /\ q[0] = 1
        /\ \A n \in Nat : q[n] \in Nat /\ q[n + 1] = (year + rate) * q[n]
    BY PowersGrow
  <1>2. cube \in Nat /\ T(0) = cube
    <2>1. pairs_of(0) = 0 /\ triples_of(0) = 0
      BY DEF pairs_of, triples_of
    <2>2. /\ cube \in Nat /\ year * year * rate \in Nat
          /\ year * rate * rate \in Nat /\ rate * rate * rate \in Nat
      BY ProductNat
    <2>3. T(0) = cube + 0 * (year * year * rate)
                   + 0 * (year * rate * rate) + 0 * (rate * rate * rate)
      BY <2>1 DEF taylor
    <2> HIDE DEF cube, T
    <2> QED
      BY <2>2, <2>3
  <1>3. \A n \in Nat : /\ T(n) \in Nat
                       /\ T(n + 1) * year <= T(n) * (year + rate)
    BY TaylorStep
  <1> HIDE DEF cube, T
  <1>4. ASSUME NEW n \in Nat, T(n) * p[n] <= cube * q[n]
        PROVE  T(n + 1) * p[n + 1] <= cube * q[n + 1]
    <2> DEFINE t == T(n)
               u == T(n + 1)
               x == p[n]
               y == q[n]
               up == year + rate
    <2>1. /\ t \in Nat /\ u \in Nat /\ x \in Nat /\ y \in Nat /\ up \in Nat
          /\ u * year <= t * up /\ t * x <= cube * y
          /\ p[n + 1] = year * x /\ q[n + 1] = up * y
      BY <1>1, <1>3, <1>4
    <2> HIDE DEF t, u, x, y, up
    <2>2. x * (u * year) <= x * (t * up)
      BY <2>1, ProductNat, ProductMonotone
    <2>3. up * (t * x) <= up * (cube * y)
      BY <1>2, <2>1, ProductNat, ProductMonotone
    <2>4. /\ u * (year * x) = x * (u * year)
          /\ x * (t * up) = up * (t * x)
          /\ cube * (up * y) = up * (cube * y)
      BY <1>2, <2>1, SMT
    <2>5. /\ x * (u * year) \in Nat /\ x * (t * up) \in Nat
          /\ up * (cube * y) \in Nat
      BY <1>2, <2>1, ProductNat
    <2>6. u * (year * x) <= cube * (up * y)
      BY <2>2, <2>3, <2>4, <2>5
    <2> QED
      BY <2>1, <2>6 DEF u
  <1>5. T(0) * p[0] <= cube * q[0]
    BY <1>1, <1>2
  <1>6. Bad = {}
    <2> SUFFICES ASSUME Bad # {} PROVE FALSE
      OBVIOUS
    <2>1. PICK n \in Bad : \A m \in Bad : n <= m
      <3>1. Bad \subseteq Nat
        OBVIOUS
      <3> HIDE DEF Bad
      <3> QED BY <3>1, SmallestNumber
    <2>2. n # 0
      BY <1>5
    <2>3. n - 1 \in Nat /\ (n - 1) + 1 = n /\ n - 1 \notin Bad
      <3>1. n - 1 \in Nat /\ (n - 1) + 1 = n /\ ~(n <= n - 1)
        BY <2>2
      <3> HIDE DEF Bad
      <3> QED BY <2>1, <3>1
    <2>4. T(n - 1) * p[n - 1] <= cube * q[n - 1]
      BY <2>3
    <2>5. T(n) * p[n] <= cube * q[n]
      BY <1>4, <2>3, <2>4
    <2> QED
      BY <2>5
  <1> QED
    BY <1>6 DEF T, cube

(* The most that rounding the square and the cube half up can add.         *)
rounding(rate, e) ==
  pairs_of(e) + triples_of(e) * (1 + rate \div (RAY * SECONDS_PER_YEAR))

(* The factor is made of four terms.                                       *)
LEMMA CompoundTerms ==
  ASSUME NEW rate \in Nat, NEW e \in Nat
  PROVE  LET square == ray_mul(rate, rate)
                         \div (SECONDS_PER_YEAR * SECONDS_PER_YEAR)
             third  == ray_mul(square, rate) \div SECONDS_PER_YEAR
         IN  /\ square \in Nat /\ third \in Nat
             /\ calculate_compound_interest(rate, 0, e)
                  = RAY + (rate * e) \div SECONDS_PER_YEAR
                      + pairs_of(e) * square + triples_of(e) * third
  <1> DEFINE square == ray_mul(rate, rate)
                         \div (SECONDS_PER_YEAR * SECONDS_PER_YEAR)
             third  == ray_mul(square, rate) \div SECONDS_PER_YEAR
             one_less == IF e > 0 THEN e - 1 ELSE 0
             two_less == IF e > 1 THEN e - 2 ELSE 0
             S == SECONDS_PER_YEAR
  <1>1. S \in Nat /\ S > 0 /\ S * S \in Nat /\ S * S > 0
    BY ScaleAssumption, SMT
  <1>2. square \in Nat
    BY <1>1, RayMulType, DivBounds
  <1>3. third \in Nat
    <2> HIDE DEF square
    <2> QED BY <1>1, <1>2, RayMulType, DivBounds
  <1>4. calculate_compound_interest(rate, 0, e)
          = RAY + (rate * e) \div S + (e * one_less * square) \div 2
              + (e * one_less * two_less * third) \div 6
    <2>1. e - 0 = e
      OBVIOUS
    <2> QED
      BY <2>1 DEF calculate_compound_interest
  <1> HIDE DEF square, third
  <1>5. e * one_less = e * (e - 1) /\ e * one_less * two_less
          = e * (e - 1) * (e - 2)
    <2>1. CASE e = 0
      BY <2>1
    <2>2. CASE e = 1
      BY <2>2
    <2>3. CASE e > 1
      BY <2>3
    <2> QED
      BY <2>1, <2>2, <2>3
  <1> HIDE DEF one_less, two_less
  <1>6. /\ e * one_less = 2 * pairs_of(e) /\ pairs_of(e) \in Nat
        /\ e * one_less * two_less = 6 * triples_of(e) /\ triples_of(e) \in Nat
    BY <1>5, Pairs, Triples
  <1>7. (e * one_less * square) \div 2 = pairs_of(e) * square
    <2> DEFINE x == pairs_of(e) * square
    <2>1. x \in Nat /\ e * one_less * square = 2 * x
      <3>1. (2 * pairs_of(e)) * square = 2 * (pairs_of(e) * square)
        BY <1>2, <1>6, SMT
      <3> QED
        BY <1>2, <1>6, <3>1, ProductNat
    <2> HIDE DEF x
    <2>2. (2 * x) \div 2 = x
      BY <2>1
    <2> QED
      BY <2>1, <2>2 DEF x
  <1>8. (e * one_less * two_less * third) \div 6 = triples_of(e) * third
    <2> DEFINE x == triples_of(e) * third
    <2>1. x \in Nat /\ e * one_less * two_less * third = 6 * x
      <3>1. (6 * triples_of(e)) * third = 6 * (triples_of(e) * third)
        BY <1>3, <1>6, SMT
      <3> QED
        BY <1>3, <1>6, <3>1, ProductNat
    <2> HIDE DEF x
    <2>2. (6 * x) \div 6 = x
      BY <2>1
    <2> QED
      BY <2>1, <2>2 DEF x
  <1> QED
    BY <1>2, <1>3, <1>4, <1>7, <1>8 DEF square, third

(* The square, scaled by a year squared, exceeds rate^2 by at most half a  *)
(* unit before its division.                                               *)
LEMMA SquareBound ==
  ASSUME NEW rate \in Nat
  PROVE  LET S      == SECONDS_PER_YEAR
             year   == RAY * S
             square == ray_mul(rate, rate) \div (S * S)
         IN  2 * (square * (year * year))
               <= 2 * (RAY * (rate * rate)) + RAY * RAY
  <1> DEFINE S      == SECONDS_PER_YEAR
             year   == RAY * S
             product == ray_mul(rate, rate)
             square == product \div (S * S)
             rr     == rate * rate
  <1>1. /\ RAY \in Nat /\ RAY > 0 /\ HALF_RAY \in Nat /\ 2 * HALF_RAY = RAY
        /\ S \in Nat /\ S > 0 /\ S * S \in Nat /\ S * S > 0 /\ rr \in Nat
    BY ScaleAssumption, HalfRay, ProductNat, SMT
  <1> HIDE DEF S
  <1>2. product \in Nat /\ product * RAY <= rr + HALF_RAY
    <2>1. rr + HALF_RAY \in Nat
      BY <1>1
    <2>2. product = (rr + HALF_RAY) \div RAY
      BY DEF ray_mul
    <2> HIDE DEF rr, product
    <2> QED
      BY <1>1, <2>1, <2>2, DivBounds
  <1> HIDE DEF product
  <1>3. square \in Nat /\ square * (S * S) <= product
    BY <1>1, <1>2, DivBounds
  <1> HIDE DEF square, rr
  <1>4. RAY * (RAY * (square * (S * S))) <= RAY * (rr + HALF_RAY)
    <2>1. RAY * (square * (S * S)) <= RAY * product
      BY <1>1, <1>2, <1>3, ProductNat, ProductMonotone
    <2>2. RAY * product = product * RAY
      BY <1>1, <1>2, SMT
    <2>3. /\ RAY * (square * (S * S)) \in Nat /\ product * RAY \in Nat
      BY <1>1, <1>2, <1>3, ProductNat
    <2>4. RAY * (square * (S * S)) <= rr + HALF_RAY
      BY <1>1, <1>2, <2>1, <2>2, <2>3
    <2> QED
      BY <1>1, <2>3, <2>4, ProductMonotone
  <1>5. square * (year * year) = RAY * (RAY * (square * (S * S)))
    BY <1>1, <1>3, SMT
  <1>6. 2 * (RAY * (rr + HALF_RAY)) = 2 * (RAY * rr) + RAY * RAY
    <2>1. 2 * (RAY * (rr + HALF_RAY)) = 2 * (RAY * rr) + RAY * (2 * HALF_RAY)
      BY <1>1, SMT
    <2> QED
      BY <1>1, <2>1
  <1>7. /\ RAY * (RAY * (square * (S * S))) \in Nat
        /\ RAY * (rr + HALF_RAY) \in Nat /\ RAY * rr \in Nat
        /\ RAY * RAY \in Nat
    <2>1. rr + HALF_RAY \in Nat
      BY <1>1
    <2> QED
      BY <1>1, <1>3, <2>1, ProductNat
  <1>8. 2 * (square * (year * year)) <= 2 * (RAY * rr) + RAY * RAY
    <2> DEFINE a == RAY * (RAY * (square * (S * S)))
               b == RAY * (rr + HALF_RAY)
               c == RAY * rr
               d == RAY * RAY
    <2>1. /\ a \in Nat /\ b \in Nat /\ c \in Nat /\ d \in Nat
          /\ a <= b /\ 2 * b = 2 * c + d
      BY <1>4, <1>6, <1>7
    <2>2. square * (year * year) = a
      BY <1>5
    <2> HIDE DEF a, b, c, d, year
    <2>3. 2 * a <= 2 * c + d
      BY <2>1
    <2> QED
      BY <2>2, <2>3 DEF c, d
  <1> QED
    BY <1>8 DEF S, square, product, rr

(* The cube likewise.                                                      *)
LEMMA ThirdBound ==
  ASSUME NEW rate \in Nat
  PROVE  LET S      == SECONDS_PER_YEAR
             year   == RAY * S
             square == ray_mul(rate, rate) \div (S * S)
             third  == ray_mul(square, rate) \div S
         IN  third * (year * year * year)
               <= RAY * (rate * rate * rate)
                    + (1 + rate \div year) * (year * year * year)
  <1> DEFINE S       == SECONDS_PER_YEAR
             year    == RAY * S
             square  == ray_mul(rate, rate) \div (S * S)
             product == ray_mul(square, rate)
             third   == product \div S
             q       == rate \div year
             yy      == year * year
             rr      == rate * rate
  <1>1. /\ RAY \in Nat /\ RAY > 0 /\ HALF_RAY \in Nat /\ 2 * HALF_RAY = RAY
        /\ S \in Nat /\ S > 0 /\ S * S \in Nat /\ S * S > 0 /\ rr \in Nat
        /\ year \in Nat /\ year > 0 /\ yy \in Nat /\ RAY <= year
    BY ScaleAssumption, HalfRay, ProductNat, SMT
  <1>2. square \in Nat
    BY <1>1, RayMulType, DivBounds
  <1>3. 2 * (square * yy) <= 2 * (RAY * rr) + RAY * RAY
    BY SquareBound
  <1>4. q \in Nat /\ rate < q * year + year
    <2> HIDE DEF year
    <2> QED
      BY <1>1, DivBounds
  <1> HIDE DEF S, square
  <1>5. product \in Nat /\ product * RAY <= square * rate + HALF_RAY
    <2>1. square * rate + HALF_RAY \in Nat
      BY <1>1, <1>2, ProductNat
    <2>2. product = (square * rate + HALF_RAY) \div RAY
      BY DEF ray_mul
    <2> HIDE DEF product
    <2> QED
      BY <1>1, <2>1, <2>2, DivBounds
  <1> HIDE DEF product
  <1>6. third \in Nat /\ third * S <= product
    BY <1>1, <1>5, DivBounds
  <1> HIDE DEF third, q
  <1>7. 2 * (third * year) <= 2 * (square * rate) + RAY
    <2>1. RAY * (third * S) <= RAY * product
      BY <1>1, <1>5, <1>6, ProductNat, ProductMonotone
    <2>2. RAY * (third * S) = third * year /\ RAY * product = product * RAY
      BY <1>1, <1>5, <1>6, SMT
    <2>3. /\ third * year \in Nat /\ product * RAY \in Nat
          /\ square * rate \in Nat
      BY <1>1, <1>2, <1>5, <1>6, ProductNat
    <2> HIDE DEF year
    <2> QED
      BY <1>1, <1>5, <2>1, <2>2, <2>3
  <1> HIDE DEF year
  <1>8. 2 * (third * year * yy) <= 2 * (square * yy) * rate + RAY * yy
    <2>1. yy * (2 * (third * year)) <= yy * (2 * (square * rate) + RAY)
      <3>1. 2 * (third * year) \in Nat /\ 2 * (square * rate) + RAY \in Nat
        BY <1>1, <1>2, <1>6, ProductNat
      <3> HIDE DEF yy
      <3> QED
        BY <1>1, <1>7, <3>1, ProductMonotone
    <2> HIDE DEF yy
    <2>2. yy * (2 * (third * year)) = 2 * (third * year * yy)
      BY <1>1, <1>6, SMT
    <2>3. yy * (2 * (square * rate) + RAY)
            = 2 * (square * yy) * rate + RAY * yy
      BY <1>1, <1>2, SMT
    <2> QED
      BY <2>1, <2>2, <2>3
  <1>9. 2 * (square * yy) * rate <= 2 * (RAY * (rr * rate)) + RAY * RAY * rate
    <2> HIDE DEF yy, rr
    <2>1. rate * (2 * (square * yy)) <= rate * (2 * (RAY * rr) + RAY * RAY)
      <3>1. 2 * (square * yy) \in Nat /\ 2 * (RAY * rr) + RAY * RAY \in Nat
        BY <1>1, <1>2, ProductNat
      <3> QED
        BY <1>3, <3>1, ProductMonotone
    <2>2. rate * (2 * (square * yy)) = 2 * (square * yy) * rate
      BY <1>1, <1>2, SMT
    <2>3. rate * (2 * (RAY * rr) + RAY * RAY)
            = 2 * (RAY * (rr * rate)) + RAY * RAY * rate
      BY <1>1, SMT
    <2> QED
      BY <2>1, <2>2, <2>3
  <1>10. RAY * RAY * rate <= yy * (q * year + year)
    <2>1. RAY * RAY <= yy
      BY <1>1, SMT
    <2>2. RAY * RAY \in Nat /\ q * year + year \in Nat
      BY <1>1, <1>4, ProductNat
    <2> HIDE DEF yy
    <2>3. RAY * RAY * rate <= yy * rate
      BY <1>1, <2>1, <2>2, SMT
    <2>4. yy * rate <= yy * (q * year + year)
      BY <1>1, <1>4, <2>2, ProductMonotone
    <2>5. /\ RAY * RAY * rate \in Nat /\ yy * rate \in Nat
          /\ yy * (q * year + year) \in Nat
      BY <1>1, <2>2, ProductNat
    <2> QED
      BY <2>3, <2>4, <2>5
  <1>11. RAY * yy <= yy * (q * year + year)
    <2>1. q * year \in Nat
      BY <1>1, <1>4, ProductNat
    <2>2. RAY <= q * year + year /\ q * year + year \in Nat
      BY <1>1, <2>1
    <2> HIDE DEF yy
    <2>3. yy * RAY <= yy * (q * year + year)
      BY <1>1, <2>2, ProductMonotone
    <2> QED
      BY <1>1, <2>3
  <1>12. yy * (q * year + year) = (1 + q) * (year * year * year)
    BY <1>1, <1>4, SMT
  <1>13. third * year * yy = third * (year * year * year)
    BY <1>1, <1>6, SMT
  <1>14. third * (year * year * year)
           <= RAY * (rr * rate) + (1 + q) * (year * year * year)
    <2> DEFINE lhs == third * year * yy
               mid == 2 * (square * yy) * rate
               ry  == RAY * yy
               rc  == RAY * (rr * rate)
               rrr == RAY * RAY * rate
               qy  == yy * (q * year + year)
    <2>1. /\ lhs \in Nat /\ mid \in Nat /\ ry \in Nat /\ rc \in Nat
          /\ rrr \in Nat /\ qy \in Nat
      <3>1. q * year + year \in Nat
        BY <1>1, <1>4, ProductNat
      <3> HIDE DEF yy, rr
      <3> QED
        BY <1>1, <1>2, <1>6, <3>1, ProductNat
    <2>2. /\ 2 * lhs <= mid + ry /\ mid <= 2 * rc + rrr
          /\ rrr <= qy /\ ry <= qy
      BY <1>8, <1>9, <1>10, <1>11
    <2>3. qy = (1 + q) * (year * year * year)
      BY <1>12
    <2>4. lhs = third * (year * year * year)
      BY <1>13
    <2> HIDE DEF lhs, mid, ry, rc, rrr, qy
    <2>5. lhs <= rc + qy
      BY <2>1, <2>2
    <2> QED
      BY <2>3, <2>4, <2>5 DEF rc
  <1>15. RAY * (rr * rate) = RAY * (rate * rate * rate)
    OBVIOUS
  <1> QED
    BY <1>14, <1>15 DEF S, year, square, product, third, q

(* Each term, scaled by year^3, against its term of the polynomial.        *)
LEMMA CompoundBelowTaylor ==
  ASSUME NEW rate \in Nat, NEW e \in Nat
  PROVE  LET year == RAY * SECONDS_PER_YEAR
             cube == year * year * year
         IN  calculate_compound_interest(rate, 0, e) * cube
               <= RAY * taylor(year, rate, e) + rounding(rate, e) * cube
  <1> DEFINE S      == SECONDS_PER_YEAR
             year   == RAY * S
             cube   == year * year * year
             yyr    == year * year * rate
             yrr    == year * rate * rate
             rrr    == rate * rate * rate
             linear == (rate * e) \div S
             square == ray_mul(rate, rate) \div (S * S)
             third  == ray_mul(square, rate) \div S
             two    == pairs_of(e)
             three  == triples_of(e)
             q      == 1 + rate \div year
  <1>1. /\ RAY \in Nat /\ RAY > 0 /\ S \in Nat /\ S > 0
        /\ year \in Nat /\ year > 0 /\ RAY <= year
        /\ two \in Nat /\ three \in Nat
    BY ScaleAssumption, ProductNat, Pairs, Triples, SMT
  <1>2. /\ square \in Nat /\ third \in Nat
        /\ calculate_compound_interest(rate, 0, e)
             = RAY + linear + two * square + three * third
    BY CompoundTerms
  <1>3. third * cube <= RAY * rrr + q * cube
    BY ThirdBound
  <1>4. 2 * (square * (year * year)) <= 2 * (RAY * (rate * rate)) + RAY * RAY
    BY SquareBound
  <1>5. linear \in Nat /\ linear * S <= rate * e
    BY <1>1, DivBounds, ProductNat
  <1>6. q \in Nat
    BY <1>1, DivBounds
  <1> HIDE DEF linear, square, third, q, two, three, S
  <1>7. linear * cube <= RAY * (e * yyr)
    <2> DEFINE w == RAY * (year * year)
    <2>1. w \in Nat /\ linear * S \in Nat /\ rate * e \in Nat
      BY <1>1, <1>5, ProductNat
    <2>2. w * (linear * S) <= w * (rate * e)
      <3> HIDE DEF w
      <3> QED BY <1>5, <2>1, ProductMonotone
    <2>3. w * (linear * S) = linear * cube
      BY <1>1, <1>5, SMT
    <2>4. w * (rate * e) = RAY * (e * yyr)
      BY <1>1, SMT
    <2> QED
      BY <2>2, <2>3, <2>4
  <1> HIDE DEF year
  <1>8. square * cube <= RAY * yrr + cube
    <2> DEFINE yy == year * year
               rr == rate * rate
               sy == square * yy
    <2>1. yy \in Nat /\ rr \in Nat /\ sy \in Nat /\ RAY * rr \in Nat
          /\ RAY * RAY \in Nat
      BY <1>1, <1>2, ProductNat
    <2>2. RAY * RAY <= yy
      BY <1>1, SMT
    <2>3. 2 * sy <= 2 * (RAY * rr) + RAY * RAY
      BY <1>4
    <2> HIDE DEF sy, yy, rr
    <2>4. sy <= RAY * rr + yy /\ RAY * rr + yy \in Nat
      BY <2>1, <2>2, <2>3
    <2>5. year * sy <= year * (RAY * rr + yy)
      BY <1>1, <2>1, <2>4, ProductMonotone
    <2>6. year * sy = square * cube
      BY <1>1, <1>2, SMT DEF sy, yy
    <2>7. year * (RAY * rr + yy) = RAY * yrr + cube
      BY <1>1, SMT DEF rr, yy
    <2> QED
      BY <2>5, <2>6, <2>7
  <1>9. cube \in Nat /\ yyr \in Nat /\ yrr \in Nat /\ rrr \in Nat
    BY <1>1, ProductNat
  <1> HIDE DEF cube, yyr, yrr, rrr
  <1>10. two * (square * cube) <= two * (RAY * yrr + cube)
    BY <1>1, <1>2, <1>8, <1>9, ProductNat, ProductMonotone
  <1>11. three * (third * cube) <= three * (RAY * rrr + q * cube)
    BY <1>1, <1>2, <1>3, <1>6, <1>9, ProductNat, ProductMonotone
  <1>12. (RAY + linear + two * square + three * third) * cube
           = RAY * cube + linear * cube + two * (square * cube)
               + three * (third * cube)
    BY <1>1, <1>2, <1>5, <1>9, SMT
  <1>13. RAY * (cube + e * yyr + two * yrr + three * rrr)
             + (two + three * q) * cube
           = RAY * cube + RAY * (e * yyr) + two * (RAY * yrr + cube)
               + three * (RAY * rrr + q * cube)
    BY <1>1, <1>6, <1>9, SMT
  <1>14. (RAY + linear + two * square + three * third) * cube
           <= RAY * (cube + e * yyr + two * yrr + three * rrr)
                + (two + three * q) * cube
    <2> DEFINE a0 == RAY * cube
               a1 == linear * cube
               a2 == two * (square * cube)
               a3 == three * (third * cube)
               b1 == RAY * (e * yyr)
               b2 == two * (RAY * yrr + cube)
               b3 == three * (RAY * rrr + q * cube)
    <2>1. /\ a0 \in Nat /\ a1 \in Nat /\ a2 \in Nat /\ a3 \in Nat
          /\ b1 \in Nat /\ b2 \in Nat /\ b3 \in Nat
      <3>1. /\ RAY * yrr + cube \in Nat /\ RAY * rrr + q * cube \in Nat
        BY <1>1, <1>6, <1>9, ProductNat
      <3> QED
        BY <1>1, <1>2, <1>5, <1>9, <3>1, ProductNat
    <2>2. a1 <= b1 /\ a2 <= b2 /\ a3 <= b3
      BY <1>7, <1>10, <1>11
    <2> HIDE DEF a0, a1, a2, a3, b1, b2, b3
    <2>3. a0 + a1 + a2 + a3 <= a0 + b1 + b2 + b3
      BY <2>1, <2>2
    <2> QED
      BY <1>12, <1>13, <2>3 DEF a0, a1, a2, a3, b1, b2, b3
  <1>15. taylor(year, rate, e) = cube + e * yyr + two * yrr + three * rrr
    BY DEF taylor, cube, yyr, yrr, rrr, two, three
  <1>16. rounding(rate, e) = two + three * q
    BY DEF rounding, two, three, q, year, S
  <1> QED
    BY <1>2, <1>14, <1>15, <1>16 DEF cube, year, S

(* The factor lies between simple interest and the powers.                 *)
LEMMA CompoundWithin ==
  ASSUME NEW rate \in Nat, NEW e \in Nat,
         NEW p, powers_of(RAY * SECONDS_PER_YEAR, p),
         NEW q, powers_of(RAY * SECONDS_PER_YEAR + rate, q)
  PROVE  LET factor == calculate_compound_interest(rate, 0, e)
         IN  /\ factor >= calculate_linear_interest(rate, 0, e)
             /\ (factor - rounding(rate, e)) * p[e] <= RAY * q[e]
  <1> DEFINE S      == SECONDS_PER_YEAR
             year   == RAY * S
             cube   == year * year * year
             factor == calculate_compound_interest(rate, 0, e)
             units  == rounding(rate, e)
             T      == taylor(year, rate, e)
             x      == p[e]
             y      == q[e]
  <1>1. /\ RAY \in Nat /\ RAY > 0 /\ S \in Nat /\ S > 0
        /\ year \in Nat /\ year > 0 /\ cube \in Nat /\ cube > 0
    <2>1. RAY \in Nat /\ RAY > 0 /\ S \in Nat /\ S > 0
      BY ScaleAssumption
    <2> HIDE DEF S
    <2>2. year \in Nat /\ year > 0
      BY <2>1, SMT
    <2> HIDE DEF year
    <2>3. year * year \in Nat /\ year * year > 0
      BY <2>2, SMT
    <2>4. cube \in Nat /\ cube > 0
      BY <2>2, <2>3, SMT
    <2> QED
      BY <2>1, <2>2, <2>4
  <1>2. factor >= calculate_linear_interest(rate, 0, e) /\ factor \in Nat
    <2> DEFINE square == ray_mul(rate, rate) \div (S * S)
               third  == ray_mul(square, rate) \div S
               linear == (rate * e) \div S
    <2>1. /\ square \in Nat /\ third \in Nat
          /\ factor = RAY + linear + pairs_of(e) * square
                        + triples_of(e) * third
      BY CompoundTerms
    <2>2. linear \in Nat
      BY <1>1, ProductNat, DivBounds
    <2>3. calculate_linear_interest(rate, 0, e) = RAY + linear
      <3>1. e - 0 = e
        OBVIOUS
      <3> QED
        BY <3>1 DEF calculate_linear_interest
    <2> HIDE DEF square, third, linear, factor, S
    <2>4. pairs_of(e) * square \in Nat /\ triples_of(e) * third \in Nat
      BY <2>1, Pairs, Triples, ProductNat
    <2> QED
      BY <1>1, <2>1, <2>2, <2>3, <2>4
  <1>3. factor * cube <= RAY * T + units * cube
    BY CompoundBelowTaylor
  <1>4. T * x <= cube * y
    <2> HIDE DEF S
    <2> QED BY <1>1, TaylorBelowPowers DEF S
  <1>5. x \in Nat /\ y \in Nat /\ T \in Nat
    <2>1. year + rate \in Nat
      BY <1>1
    <2>2. x \in Nat
      BY <1>1, PowersGrow
    <2>3. y \in Nat
      BY <2>1, PowersGrow
    <2>4. T \in Nat
      <3> HIDE DEF year
      <3> QED BY <1>1, TaylorStep
    <2> QED
      BY <2>2, <2>3, <2>4
  <1>6. units \in Nat
    <2>1. rate \div year \in Nat
      <3> HIDE DEF year
      <3> QED BY <1>1, DivBounds
    <2>2. 1 + rate \div year \in Nat
      BY <2>1
    <2>3. pairs_of(e) \in Nat /\ triples_of(e) \in Nat
      BY Pairs, Triples
    <2>4. triples_of(e) * (1 + rate \div year) \in Nat
      <3> HIDE DEF year
      <3> QED BY <2>2, <2>3, ProductNat
    <2>5. units = pairs_of(e) + triples_of(e) * (1 + rate \div year)
      BY DEF rounding
    <2> HIDE DEF units, year
    <2> QED
      BY <2>3, <2>4, <2>5
  <1>7. /\ factor >= calculate_linear_interest(rate, 0, e)
        /\ factor \in Nat
    BY <1>2
  <1> HIDE DEF factor, units, T, x, y, cube, year, S
  <1>8. (factor - units) * x <= RAY * y
    <2>1. CASE factor <= units
      <3>1. (factor - units) * x <= 0
        BY <1>5, <1>6, <1>7, <2>1, SMT
      <3>2. RAY * y \in Nat /\ (factor - units) * x \in Int
        BY <1>1, <1>5, <1>6, <1>7, ProductNat
      <3> QED
        BY <3>1, <3>2
    <2>2. CASE factor > units
      <3> DEFINE over == factor - units
      <3>1. over \in Nat /\ factor = over + units
        BY <1>6, <1>7, <2>2
      <3> HIDE DEF over
      <3>2. over * cube <= RAY * T
        <4>1. (over + units) * cube = over * cube + units * cube
          BY <1>1, <1>6, <3>1, SMT
        <4>2. over * cube \in Nat /\ units * cube \in Nat /\ RAY * T \in Nat
          BY <1>1, <1>5, <1>6, <3>1, ProductNat
        <4> QED
          BY <1>3, <3>1, <4>1, <4>2
      <3>3. x * (over * cube) <= x * (RAY * T)
        BY <1>1, <1>5, <3>1, <3>2, ProductNat, ProductMonotone
      <3>4. RAY * (T * x) <= RAY * (cube * y)
        BY <1>1, <1>4, <1>5, ProductNat, ProductMonotone
      <3>5. /\ x * (over * cube) = (over * x) * cube
            /\ x * (RAY * T) = RAY * (T * x)
            /\ RAY * (cube * y) = (RAY * y) * cube
        BY <1>1, <1>5, <3>1, SMT
      <3> DEFINE left == over * x
                 right == RAY * y
      <3>6. left \in Nat /\ right \in Nat
        BY <1>1, <1>5, <3>1, ProductNat
      <3>7. left * cube <= right * cube
        <4>1. /\ (over * x) * cube \in Nat /\ RAY * (T * x) \in Nat
              /\ (RAY * y) * cube \in Nat
          BY <1>1, <1>5, <3>1, ProductNat
        <4> QED
          BY <3>3, <3>4, <3>5, <4>1
      <3> HIDE DEF left, right
      <3>8. left <= right
        <4> SUFFICES ASSUME right + 1 <= left PROVE FALSE
          BY <3>6
        <4>1. (right + 1) * cube <= left * cube
          BY <1>1, <3>6, SMT
        <4>2. (right + 1) * cube = right * cube + cube
          BY <1>1, <3>6, SMT
        <4>3. right * cube \in Nat /\ left * cube \in Nat
          BY <1>1, <3>6, ProductNat
        <4> QED
          BY <1>1, <3>7, <4>1, <4>2, <4>3
      <3> QED
        BY <3>8 DEF left, right, over
    <2> QED
      BY <1>6, <1>7, <2>1, <2>2
  <1> QED
    BY <1>7, <1>8 DEF factor, units, x, y

-----------------------------------------------------------------------------
(***************************************************************************)
(* Theorems on the walks of RateWalk.                                      *)
(***************************************************************************)
walk_typed ==
  /\ walk_params \in WalkParameters /\ walk_factor \in WalkFactors
  /\ walk_available \in Nat /\ walk_debt \in Nat /\ walk_elapsed \in Nat

(* The powers of a walk are those of the recursion.                        *)
LEMMA WalkPower ==
  ASSUME NEW base \in Nat
  PROVE  \E p : powers_of(base, p) /\ \A n : power(base, n) = p[n]
  <1> DEFINE p == CHOOSE p : powers_of(base, p)
  <1>1. powers_of(base, p)
    BY PowersExist
  <1>2. \A n : power(base, n) = p[n]
    BY DEF power, powers_of
  <1> HIDE DEF p
  <1> QED
    BY <1>1, <1>2

(* A walk stays typed.                                                     *)
LEMMA WalkTyped ==
  WalkSpec => []walk_typed
  <1>1. WalkInit => walk_typed
    BY WalkAssumption DEF WalkInit, walk_typed
  <1>2. walk_typed /\ [WalkNext]_walk_vars => walk_typed'
    BY DEF walk_typed, WalkNext, walk_vars, DrawOne, Second
  <1> QED
    BY <1>1, <1>2, PTL DEF WalkSpec

(* Whatever the parameters, the reserve factor and the pool, suppliers are *)
(* never promised more than borrowers pay, up to the half units of the     *)
(* three roundings (interest-rate-strategy, calculate_interest_rates).     *)
THEOREM SuppliersAreCovered ==
  WalkSpec => []RatesBalance
  <1>1. walk_typed => RatesBalance
    <2> SUFFICES ASSUME walk_typed PROVE RatesBalance
      OBVIOUS
    <2> DEFINE use  == utilization_rate(walk_available, walk_debt)
               rate == variable_borrow_rate(walk_params, use)
               net  == liquidity_rate(rate, use, walk_factor)
    <2>1. /\ walk_available \in Nat /\ walk_debt \in Nat
          /\ walk_factor \in 0 .. BASIS_POINTS_MULTIPLIER
          /\ walk_params \in InterestRateParams
          /\ validate_interest_rate_params(walk_params)
      BY WalkAssumption DEF walk_typed
    <2>2. use \in Nat
      BY <2>1, RayDivTypes DEF utilization_rate
    <2>3. rate \in Nat
      <3> HIDE DEF use
      <3> QED BY <2>1, <2>2, BorrowRateType
    <2>4. 2 * net * (walk_available + walk_debt) * RAY
            <= 2 * rate * walk_debt * RAY
                 + (walk_available + walk_debt) * (2 * RAY + rate)
      <3> HIDE DEF rate
      <3> QED BY <2>1, <2>3, LiquidityCovered
    <2>5. /\ walk_rates.current_liquidity_rate = net
          /\ walk_rates.current_variable_borrow_rate = rate
      BY DEF walk_rates, calculate_interest_rates
    <2> HIDE DEF net, rate
    <2> QED
      BY <2>4, <2>5 DEF RatesBalance
  <1> QED
    BY <1>1, WalkTyped, PTL

(* For all parameters the strategy accepts the borrow rate never falls     *)
(* when debt grows: each branch of the kink rises, and the second starts   *)
(* where the first ends (variable_borrow_rate).                            *)
THEOREM BorrowingNeverCheaper ==
  WalkSpec => BorrowRateRises
  <1>1. walk_typed /\ [WalkNext]_walk_vars =>
          [walk_debt' > walk_debt =>
             walk_rates.current_variable_borrow_rate'
               >= walk_rates.current_variable_borrow_rate]_walk_vars
    <2> SUFFICES ASSUME walk_typed, WalkNext, walk_debt' > walk_debt
                 PROVE  walk_rates.current_variable_borrow_rate'
                          >= walk_rates.current_variable_borrow_rate
      OBVIOUS
    <2>1. /\ walk_available \in Nat /\ walk_debt \in Nat
          /\ walk_params \in InterestRateParams
          /\ validate_interest_rate_params(walk_params)
      BY WalkAssumption DEF walk_typed
    <2>2. /\ walk_available > 0 /\ walk_available' = walk_available - 1
          /\ walk_debt' = walk_debt + 1
          /\ walk_params' = walk_params /\ walk_factor' = walk_factor
      BY <2>1 DEF WalkNext, DrawOne, Second
    <2> DEFINE u == utilization_rate(walk_available, walk_debt)
               v == utilization_rate(walk_available - 1, walk_debt + 1)
    <2>3. u \in Nat /\ v \in Nat
      <3>1. walk_available - 1 \in Nat /\ walk_debt + 1 \in Nat
        BY <2>1, <2>2
      <3> QED
        BY <2>1, <3>1, RayDivTypes DEF utilization_rate
    <2>4. u <= v
      BY <2>1, <2>2, UtilizationMonotone
    <2>5. /\ walk_rates.current_variable_borrow_rate
               = variable_borrow_rate(walk_params, u)
          /\ walk_rates.current_variable_borrow_rate'
               = variable_borrow_rate(walk_params, v)
      BY <2>2 DEF walk_rates, calculate_interest_rates
    <2> HIDE DEF u, v
    <2>6. /\ variable_borrow_rate(walk_params, u)
               <= variable_borrow_rate(walk_params, v)
          /\ variable_borrow_rate(walk_params, u) \in Nat
          /\ variable_borrow_rate(walk_params, v) \in Nat
      BY <2>1, <2>3, <2>4, BorrowRateMonotone, BorrowRateType
    <2> QED
      BY <2>5, <2>6
  <1> QED
    BY <1>1, WalkTyped, PTL DEF WalkSpec, BorrowRateRises

(* For every rate and any time the Taylor factor lies between simple       *)
(* interest and interest compounded every second, to within the units that *)
(* rounding its square and cube half up can add (shared/src/utils.rs,      *)
(* calculate_compound_interest).                                           *)
THEOREM CompoundingIsBounded ==
  WalkSpec => []CompoundBetweenSimpleAndExact
  <1>1. walk_typed => CompoundBetweenSimpleAndExact
    <2> SUFFICES ASSUME walk_typed
                 PROVE  CompoundBetweenSimpleAndExact
      OBVIOUS
    <2> DEFINE rate == walk_rates.current_variable_borrow_rate
               year == RAY * SECONDS_PER_YEAR
               e    == walk_elapsed
    <2>1. rate \in Nat /\ e \in Nat /\ year \in Nat /\ year + rate \in Nat
      <3>1. /\ walk_available \in Nat /\ walk_debt \in Nat /\ e \in Nat
            /\ walk_factor \in 0 .. BASIS_POINTS_MULTIPLIER
            /\ walk_params \in InterestRateParams
            /\ validate_interest_rate_params(walk_params)
        BY WalkAssumption DEF walk_typed
      <3>2. rate \in Nat
        BY <3>1, RatesType DEF walk_rates
      <3>3. year \in Nat
        BY ScaleAssumption, ProductNat
      <3> HIDE DEF rate, year
      <3> QED
        BY <3>1, <3>2, <3>3
    <2> HIDE DEF rate
    <2>2. PICK p : /\ powers_of(year, p)
                   /\ \A n : power(year, n) = p[n]
      <3> HIDE DEF year
      <3> QED BY <2>1, WalkPower
    <2>3. PICK q : /\ powers_of(year + rate, q)
                   /\ \A n : power(year + rate, n) = q[n]
      <3> HIDE DEF year
      <3> QED BY <2>1, WalkPower
    <2>4. LET factor == calculate_compound_interest(rate, 0, e)
          IN  /\ factor >= calculate_linear_interest(rate, 0, e)
              /\ (factor - rounding(rate, e)) * p[e] <= RAY * q[e]
      BY <2>1, <2>2, <2>3, CompoundWithin
    <2>5. rounding_units(rate) = rounding(rate, e)
      BY DEF rounding_units, rounding, pairs_of, triples_of
    <2> QED
      BY <2>2, <2>3, <2>4, <2>5
      DEF CompoundBetweenSimpleAndExact, rate, year
  <1> QED
    BY <1>1, WalkTyped, PTL

=============================================================================
