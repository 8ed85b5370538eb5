--------------------------- MODULE CollateralSwap ---------------------------
(***************************************************************************)
(* swap_collateral (kinetic-router/src/swap.rs): a user's collateral in    *)
(* one reserve is redeemed to the router, sold on an exchange, and what it *)
(* brought is deposited for the user in another reserve, all in one        *)
(* transaction and without paying back any debt in between.                *)
(*                                                                         *)
(* The exchange is environment: it pays any amount of SwapPayments.  A     *)
(* handler, the factory's pair and the exchange's router are three ways    *)
(* to call it that all insist on the least output asked for (shared        *)
(* dex.rs); which handlers are admitted is left out.  The treasury is      *)
(* taken to be configured.                                                 *)
(***************************************************************************)
EXTENDS LendingPool

CONSTANTS
  SWAP_PREMIUM,        \* the flash loan premium, here on what the exchange pays
  SwapPayments,        \* bound: what the exchange may pay
  MaxFunds             \* bound: on the units of each asset swaps bring in

ASSUME SwapAssumption ==
  /\ SWAP_PREMIUM \in Nat /\ SwapPayments \subseteq Nat
  /\ MaxFunds \in [Reserves -> Nat]

(* Mutation: the position is judged before the swap. *)
swap_judged_before(u, from, to, coll, shares, rd) ==
  prices_available({from, to} \union active_reserves(u))
    /\ health_data(u).health_factor >= WAD

(* The price check: a user without debt needs the new collateral's only,   *)
(* others one batch for both assets and every reserve they are active in.  *)
swap_prices_available(u, from, to, coll) ==
  prices_available(IF borrowing[u] = {} THEN {to}
                   ELSE {from, to} \union coll \union borrowing[u])

weighted_after_swap(u, coll, shares, rd) ==
  SumFunction([r \in coll |->
    weighted_value(r, ray_mul(shares[r][u], rd[r].liquidity_index),
                   rd[r].configuration.liquidation_threshold)])

debt_after_swap(u, rd) ==
  SumFunction([r \in borrowing[u] |->
    value_in_base(r, owed(r, u, update_state(rd[r])))])

(***************************************************************************)
(* validate_swap_health_factor, on the flags and balances the swap leaves: *)
(* weighted sums decide, not the average threshold, and always against     *)
(* WAD.                                                                    *)
(***************************************************************************)
validate_swap_health_factor(u, from, to, coll, shares, rd) ==
  LET debt == debt_after_swap(u, rd)
  IN  /\ swap_prices_available(u, from, to, coll)
      /\ debt > 0 =>
           ((weighted_after_swap(u, coll, shares, rd) * WAD)
              \div BASIS_POINTS_MULTIPLIER) \div debt >= WAD

(***************************************************************************)
(* U128_MAX redeems the whole balance; more than the balance is cut to it  *)
(* by the aToken, which pays no more than it burned.                       *)
(***************************************************************************)
redemption(from, u, requested, index) ==
  LET amount == IF requested = U128_MAX
                THEN ray_mul(scaled_balance[from][u], index) ELSE requested
      burned == a_token_burned(from, u, amount, index)
  IN  [amount |-> amount, burned |-> burned,
       sold   |-> lesser(ray_mul_down(burned, index), amount)]

(* What is left of the exchange's payment after the protocol's fee. *)
deposit(out, index) ==
  LET fee == percent_mul(out, SWAP_PREMIUM)
  IN  [fee    |-> fee, bought |-> out - fee,
       minted |-> ray_div_down(out - fee, index)]

may_swap(u, from, to, rd) ==
  /\ from # to /\ ~paused
  /\ has_access(from, u) /\ has_access(to, u)
  /\ is_open(rd[from].configuration)
  /\ is_open(rd[to].configuration) /\ ~rd[to].configuration.frozen

(* The reserves backing the user's debt once x has been redeemed.          *)
backing_after_swap(u, from, to, x) ==
  (collateral[u] \union {to})
    \ (IF x.burned = scaled_balance[from][u] THEN {from} ELSE {})

(* Both reserves get rates for the totals the two token calls left.        *)
StoreSwapRates(from, to, rd) ==
  reserve' = [r \in Reserves |->
    IF r \in {from, to}
    THEN with_new_rates(r, rd[r], total_supply_scaled'[r],
                        total_debt_scaled[r])
    ELSE rd[r]]

(***************************************************************************)
(* out is what the exchange pays, at least what the user insists on, which *)
(* is positive.  Neither the number of the user's reserves nor the         *)
(* smallest first deposit is looked at.                                    *)
(***************************************************************************)
SwapCollateral(u, from, to, requested, out) ==
  LET rd == [r \in Reserves |-> IF r \in {from, to}
                                THEN update_state(reserve[r])
                                ELSE reserve[r]]
      x  == redemption(from, u, requested, rd[from].liquidity_index)
      y  == deposit(out, rd[to].liquidity_index)
      coll == backing_after_swap(u, from, to, x)
  IN
  /\ requested > 0
  /\ may_swap(u, from, to, rd)
  /\ x.amount > 0 /\ x.burned > 0
  /\ cash[from] >= x.sold
  /\ out > y.fee
  /\ supply_cap_ok(to, y.bought, rd[to])
  /\ scaled_balance' = [scaled_balance EXCEPT ![from][u] = @ - x.burned,
                                              ![to][u] = @ + y.minted]
  /\ total_supply_scaled' = [total_supply_scaled EXCEPT
       ![from] = @ - x.burned, ![to] = @ + y.minted]
  /\ cash' = [cash EXCEPT ![from] = @ - x.sold, ![to] = @ + y.bought]
  /\ wallet' = [wallet EXCEPT ![to][Treasury] = @ + y.fee]
  /\ collateral' = [collateral EXCEPT ![u] = coll]
  /\ validate_swap_health_factor(u, from, to, coll, scaled_balance', rd)
  /\ StoreSwapRates(from, to, rd)
  /\ UNCHANGED <<environment, scaled_debt, total_debt_scaled, borrowing,
                 deficit>>

(* The underlying of a reserve that the pool and its users have. *)
circulating(r) == cash[r] + MapThenSumSet(LAMBDA a : wallet[r][a], Accounts)

Swap ==
  \E u \in Users, from, to \in Reserves :
    \E n \in Amounts \union {U128_MAX}, out \in SwapPayments :
      /\ circulating(to) + out <= MaxFunds[to]
      /\ SwapCollateral(u, from, to, n, out)

(* The pool's operations and the swap. *)
SwapNext == Next \/ Swap

SwapSpec == Init /\ [][SwapNext]_vars

=============================================================================
