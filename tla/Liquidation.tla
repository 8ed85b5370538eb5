---------------------------- MODULE Liquidation ----------------------------
(***************************************************************************)
(* The lending pool with liquidation_call of the kinetic-router            *)
(* (liquidation.rs, internal_liquidation_call): a third party repays part  *)
(* of an unhealthy account's debt and takes collateral at a bonus, and     *)
(* debt no collateral answers for becomes the reserve's deficit.           *)
(*                                                                         *)
(* A liquidation moves two reserves at once and calls four token           *)
(* contracts; it is one transaction, so one action.  The treasury is taken *)
(* to be configured, as in every deployment of the repository.             *)
(***************************************************************************)
EXTENDS LendingPool

CONSTANTS
  MIN_CLOSE_FACTOR_THRESHOLD, \* smaller positions may be closed at once
  MIN_LEFTOVER_BASE,          \* least value to leave on both sides
  PARTIAL_LIQUIDATION_HF,     \* below it a position may be closed at once
  FLASH_LOAN_PREMIUM,         \* the rate of the protocol's liquidation fee
  LiquidationWhitelist,       \* accounts that may liquidate, empty: everyone
  LiquidationBlacklist,       \* accounts barred from liquidating
  MaxDeficit                  \* bound: bad debt outstanding in a reserve

ASSUME LiquidationAssumption ==
  /\ MIN_CLOSE_FACTOR_THRESHOLD \in Nat \ {0}
  /\ MIN_LEFTOVER_BASE \in Nat
  /\ PARTIAL_LIQUIDATION_HF \in Nat
  /\ FLASH_LOAN_PREMIUM \in 0 .. BASIS_POINTS_MULTIPLIER
  /\ LiquidationWhitelist \subseteq Accounts
  /\ LiquidationBlacklist \subseteq Accounts
  /\ MaxDeficit \in Nat

MAX_LIQUIDATION_CLOSE_FACTOR == BASIS_POINTS_MULTIPLIER

DEFAULT_LIQUIDATION_CLOSE_FACTOR == BASIS_POINTS_MULTIPLIER \div 2

may_liquidate(a) ==
  /\ LiquidationWhitelist # {} => a \in LiquidationWhitelist
  /\ a \notin LiquidationBlacklist

(* Mutation: no close factor. *)
whole_debt(health_factor, debt_base, collateral_base) == debt_base

(* How much of the debt, in base units, one call may repay. *)
max_liquidatable_debt(health_factor, debt_base, collateral_base) ==
  LET whole == \/ debt_base < MIN_CLOSE_FACTOR_THRESHOLD
               \/ collateral_base < MIN_CLOSE_FACTOR_THRESHOLD
               \/ health_factor < PARTIAL_LIQUIDATION_HF
  IN  (debt_base * (IF whole THEN MAX_LIQUIDATION_CLOSE_FACTOR
                             ELSE DEFAULT_LIQUIDATION_CLOSE_FACTOR))
        \div BASIS_POINTS_MULTIPLIER

(* Units of asset r that a value in base units buys. *)
amount_of_base(r, base) ==
  (base * reserve[r].configuration.decimals_pow)
    \div (price[r] * ORACLE_TO_WAD)

(* A remainder below min_remaining_debt promotes the call to the whole     *)
(* debt.  Asking for more than the debt leaves a negative remainder, which *)
(* is let through.                                                         *)
debt_covered(c, debt, requested) ==
  IF debt > requested /\ ~above_min_debt(c, debt - requested)
  THEN debt
  ELSE requested

(* Mutation: the debt is valued at the price of the collateral. *)
seize_at_one_price(coll, debt, amount) ==
  LET base == value_in_base(coll, amount)
  IN  amount_of_base(coll, base
        + (base * reserve[coll].configuration.liquidation_bonus)
            \div BASIS_POINTS_MULTIPLIER)

collateral_to_seize(coll, debt, amount) ==
  LET base == value_in_base(debt, amount)
      bonus == (base * reserve[coll].configuration.liquidation_bonus)
                 \div BASIS_POINTS_MULTIPLIER
  IN  amount_of_base(coll, base + bonus)

(* The fee is a share of the repaid debt, paid in collateral. *)
protocol_fee(coll, debt, amount) ==
  ((percent_mul_up(amount, FLASH_LOAN_PREMIUM) * price[debt]
      * reserve[coll].configuration.decimals_pow)
     \div price[coll]) \div reserve[debt].configuration.decimals_pow

(***************************************************************************)
(* What one call does to the debt and to the collateral of the account,    *)
(* once the requested amount has been adjusted: promoted to the whole debt *)
(* or, when the account's balance of this collateral does not suffice, cut *)
(* to the share of the debt that the balance pays for.                     *)
(***************************************************************************)
settlement(coll, debt, collateral_balance, debt_balance, requested) ==
  LET asked   == debt_covered(reserve[debt].configuration,
                              debt_balance, requested)
      wanted  == collateral_to_seize(coll, debt, asked)
      capped  == wanted > collateral_balance
      covered == IF capped
                 THEN (asked * collateral_balance + wanted - 1) \div wanted
                 ELSE asked
      seized  == IF capped THEN collateral_balance ELSE wanted
      fee     == protocol_fee(coll, debt, covered)
  IN  [covered         |-> covered,
       seized          |-> seized,
       fee             |-> fee,
       to_liquidator   |-> seized - fee,
       bad_debt        |-> IF capped /\ debt_balance > covered
                           THEN debt_balance - covered ELSE 0,
       debt_left       |-> IF capped /\ debt_balance > covered
                           THEN 0 ELSE debt_balance - covered,
       collateral_left |-> collateral_balance - seized]

(* The amounts a call must not leave behind. *)
leftovers_ok(coll, debt, s) ==
  /\ s.debt_left > 0 =>
       above_min_debt(reserve[debt].configuration, s.debt_left)
  /\ s.debt_left > 0 /\ s.collateral_left > 0 =>
       /\ value_in_base(debt, s.debt_left) >= MIN_LEFTOVER_BASE
       /\ value_in_base(coll, s.collateral_left) >= MIN_LEFTOVER_BASE

(***************************************************************************)
(* Paying the liquidator and the treasury in underlying burns the account's*)
(* aTokens, rounded up and capped; paying in aTokens moves two amounts,    *)
(* each rounded down, and neither may vanish.                              *)
(***************************************************************************)
PayInUnderlying(liquidator, user, coll, s, index) ==
  LET burned == a_token_burned(coll, user, s.seized, index)
  IN
  /\ s.seized > 0 /\ s.seized <= cash[coll]
  /\ ATokenBurn(coll, user, burned)
  /\ collateral' = [collateral EXCEPT
       ![user] = IF s.collateral_left = 0 THEN @ \ {coll} ELSE @]

(* The rows of an aToken before and after the credit of a transfer. *)
debited(balances, from, n) == [balances EXCEPT ![from] = @ - n]

transferred(balances, from, to, n) ==
  [debited(balances, from, n) EXCEPT ![to] = @ + n]

PayInATokens(liquidator, user, coll, s, index) ==
  LET moved     == ray_div_down(s.to_liquidator, index)
      fee_moved == ray_div_down(s.fee, index)
      held      == scaled_balance[coll]
      paid      == transferred(held, user, liquidator, moved)
      is_first  == debited(held, user, moved)[liquidator] = 0
      flags     == [collateral EXCEPT ![liquidator] =
                      IF is_first THEN @ \union {coll} ELSE @]
      treasury_flagged ==
        /\ s.fee > 0 /\ held[Treasury] = 0
        /\ has_free_slot(Treasury, coll, flags)
  IN
  /\ moved > 0 /\ moved <= held[user]
  /\ s.fee > 0 => fee_moved > 0 /\ fee_moved <= paid[user]
  /\ is_first => has_free_slot(liquidator, coll, collateral)
  /\ scaled_balance' = [scaled_balance EXCEPT
       ![coll] = transferred(paid, user, Treasury, fee_moved)]
  /\ collateral' = [flags EXCEPT
       ![Treasury] = IF treasury_flagged THEN @ \union {coll} ELSE @,
       ![user]     = IF s.collateral_left = 0 THEN @ \ {coll} ELSE @]
  /\ UNCHANGED total_supply_scaled

(***************************************************************************)
(* The debt is burned in up to two calls of the debt token, each rounded   *)
(* down and each subject to the dust rule: the covered part, then the bad  *)
(* debt.                                                                   *)
(***************************************************************************)
covers(amount, held, index) == amount > 0 /\ ray_div_down(amount, index) <= held

bad_debt_burned(held, bad_debt, index) ==
  IF bad_debt > 0 THEN debt_burned(held, bad_debt, index) ELSE 0

BurnDebt(user, debt, s, index) ==
  LET held   == scaled_debt[debt][user]
      first  == debt_burned(held, s.covered, index)
      second == bad_debt_burned(held - first, s.bad_debt, index)
  IN
  /\ covers(s.covered, held, index)
  /\ s.bad_debt > 0 => covers(s.bad_debt, held - first, index)
  /\ DebtBurn(debt, user, first + second)
  /\ borrowing' = [borrowing EXCEPT
       ![user] = IF s.debt_left = 0 THEN @ \ {debt} ELSE @]
  /\ deficit' = [deficit EXCEPT ![debt] = @ + s.bad_debt]

(* The router asks for the two prices before those of the account. *)
get_asset_prices_batch(coll, debt) == prices_available({coll, debt})

validate_liquidation(coll, debt, c, d, amount) ==
  /\ ~paused /\ amount > 0
  /\ is_open(c) /\ is_open(d)
  /\ coll # debt

(* The liquidator pays the aToken first and is paid at the end.            *)
Pay(liquidator, coll, debt, s, receive_a_token) ==
  /\ wallet[debt][liquidator] >= s.covered
  /\ IF receive_a_token
     THEN /\ wallet' = [wallet EXCEPT ![debt][liquidator] = @ - s.covered]
          /\ cash' = [cash EXCEPT ![debt] = @ + s.covered]
     ELSE /\ wallet' = [wallet EXCEPT
               ![debt][liquidator] = @ - s.covered,
               ![coll][Treasury]   = @ + s.fee,
               ![coll][liquidator] = @ + s.to_liquidator]
          /\ cash' = [cash EXCEPT ![debt] = @ + s.covered,
                                  ![coll] = @ - s.seized]

(* Each reserve gets its rates from the total the token call returned and  *)
(* the other total as it stands.                                           *)
StoreRates(coll, debt, c_rd, d_rd) ==
  reserve' = [reserve EXCEPT
    ![debt] = with_new_rates(debt, d_rd, total_supply_scaled[debt],
                             total_debt_scaled'[debt]),
    ![coll] = with_new_rates(coll, c_rd, total_supply_scaled'[coll],
                             total_debt_scaled[coll])]

LiquidationCall(liquidator, user, coll, debt, requested, receive_a_token) ==
  LET c_rd == update_state(reserve[coll])
      d_rd == update_state(reserve[debt])
      data == account_data(user, collateral[user], borrowing[user],
                [reserve EXCEPT ![coll] = c_rd, ![debt] = d_rd])
      collateral_balance ==
        IF coll \in collateral[user] THEN supplied(coll, user, c_rd) ELSE 0
      debt_balance ==
        IF debt \in borrowing[user] THEN owed(debt, user, d_rd) ELSE 0
      s == settlement(coll, debt, collateral_balance, debt_balance, requested)
  IN
  /\ may_liquidate(liquidator)
  /\ get_asset_prices_batch(coll, debt)
  /\ {coll, debt} \subseteq active_reserves(user)
  /\ prices_available(active_reserves(user))
  /\ data.health_factor < WAD
  /\ validate_liquidation(coll, debt, c_rd.configuration,
                          d_rd.configuration, requested)
  /\ value_in_base(debt, requested)
       <= max_liquidatable_debt(data.health_factor,
            value_in_base(debt, debt_balance),
            value_in_base(coll, collateral_balance))
  /\ collateral_balance > 0 \* nothing to seize is refused by the tokens
  /\ FLASH_LOAN_PREMIUM > 0 => s.seized > s.fee
  /\ leftovers_ok(coll, debt, s)
  /\ Pay(liquidator, coll, debt, s, receive_a_token)
  /\ BurnDebt(user, debt, s, d_rd.variable_borrow_index)
  /\ IF receive_a_token
     THEN PayInATokens(liquidator, user, coll, s, c_rd.liquidity_index)
     ELSE PayInUnderlying(liquidator, user, coll, s, c_rd.liquidity_index)
  /\ StoreRates(coll, debt, c_rd, d_rd)
  /\ UNCHANGED environment

Liquidate ==
  \E u, v \in Users, coll, debt \in Reserves, n \in Amounts, b \in BOOLEAN :
    LiquidationCall(u, v, coll, debt, n, b) /\ deficit'[debt] <= MaxDeficit

LiquidationNext == Next \/ Liquidate

LiquidationSpec == Init /\ [][LiquidationNext]_vars

-----------------------------------------------------------------------------
(***************************************************************************)
(*                              Properties                                 *)
(***************************************************************************)

(***************************************************************************)
(* A liquidation is the only step that takes both debt and collateral off  *)
(* an account.  What it takes is worth no more than the cash the           *)
(* liquidator brought and the bonus on it, whichever way the amount was    *)
(* adjusted (promoted to the whole debt, cut to the balance at hand),      *)
(* however the liquidator was paid and whatever was written off; the burn  *)
(* of aTokens may round up by less than a share.                           *)
(***************************************************************************)
liquidated(u, coll, debt) ==
  /\ scaled_balance'[coll][u] < scaled_balance[coll][u]
  /\ scaled_debt'[debt][u] < scaled_debt[debt][u]

SeizureWithinBonus ==
  [][\A u \in Users, coll, debt \in Reserves :
       liquidated(u, coll, debt) =>
         LET c == reserve'[coll].configuration
             shares == scaled_balance[coll][u] - scaled_balance'[coll][u]
             taken == ((shares - 1) * reserve'[coll].liquidity_index + 1)
                        * price[coll]
             paid == (cash'[debt] - cash[debt]) * RAY * price[debt]
         IN  taken * reserve[debt].configuration.decimals_pow
                 * BASIS_POINTS_MULTIPLIER
               <= paid * c.decimals_pow
                    * (BASIS_POINTS_MULTIPLIER + c.liquidation_bonus)]_vars

(***************************************************************************)
(* One call settles at most half of a debt, or all of it.  The close       *)
(* factor is checked on the requested amount, which is then promoted or    *)
(* cut; whatever becomes of it, an account that loses collateral for debt  *)
(* is unhealthy at the accrued indices, and unless the position is small   *)
(* or deep under water the call clears the debt or burns no more than half *)
(* its value, up to one scaled unit.                                       *)
(***************************************************************************)
CloseFactorBinds ==
  [][\A u \in Users, coll, debt \in Reserves :
       liquidated(u, coll, debt) =>
         LET data  == account_data(u, collateral[u], borrowing[u], reserve')
             d_rd  == reserve'[debt]
             owing == value_in_base(debt, owed(debt, u, d_rd))
             burned == scaled_debt[debt][u] - scaled_debt'[debt][u]
             small(value) == value < MIN_CLOSE_FACTOR_THRESHOLD
         IN  /\ data.health_factor < WAD
             /\ \/ data.health_factor < PARTIAL_LIQUIDATION_HF
                \/ small(owing)
                \/ small(value_in_base(coll, supplied(coll, u, reserve'[coll])))
                \/ debt \notin borrowing'[u]
                \/ 2 * value_in_base(debt,
                         ray_mul_down(burned - 1, d_rd.variable_borrow_index))
                     <= owing]_vars

(***************************************************************************)
(* Whoever is healthy, at the stored indices and at those the step leaves, *)
(* stays so to within the roundings of nearly_healthy, whatever the        *)
(* account or anybody else calls: liquidations, direct or in two steps,    *)
(* take from nobody but an unhealthy account, and what they pay into a     *)
(* liquidator's own position does not harm it.  A debt without its bit,    *)
(* which only a liquidation can leave, is not valued until its owner       *)
(* borrows again; accounts that have one are left out.                     *)
(***************************************************************************)
debts_flagged(u) ==
  \A r \in Reserves : scaled_debt[r][u] > 0 => r \in borrowing[u]

healthy_once_accrued(u) ==
  account_data(u, collateral[u], borrowing[u], reserve').health_factor >= WAD

OnlyTheUnhealthyAreHarmed ==
  [][same_market =>
       \A u \in Users, backing \in SUBSET Reserves :
         /\ backing = collateral[u]
         /\ borrowing'[u] # {} /\ debts_flagged(u)
         /\ healthy(u) /\ healthy_once_accrued(u)
         => nearly_healthy(u, backing)']_vars

=============================================================================
