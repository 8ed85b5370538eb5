---------------------------- MODULE LendingPool ----------------------------
(***************************************************************************)
(* The kinetic-router together with the aToken and debt token of every     *)
(* reserve: supply, withdraw, borrow, repay, the collateral switch, aToken *)
(* transfers, the collection of protocol reserves and the coverage of a    *)
(* deficit.  One action is one transaction: a Soroban call that fails      *)
(* anywhere rolls back, so an action carries every guard of its handler,   *)
(* those of the token contracts it calls included, and all their writes.   *)
(*                                                                         *)
(* The handlers accrue interest first (update_state) and store new rates   *)
(* last (update_interest_rates_and_store); both are part of the action.    *)
(* A price of 0 stands for a price the router cannot use: missing, stale   *)
(* or refused by the oracle.                                               *)
(***************************************************************************)
EXTENDS InterestRateStrategy, FiniteSets, FiniteSetsExt

CONSTANTS
  Reserves,          \* listed underlying assets
  Users,             \* accounts that call the router
  Treasury,          \* the account that receives protocol reserves
  Configurations,    \* what the configurator may set, for each reserve
  RateParams,        \* interest rate parameters of each reserve
  Whitelist,         \* accounts listed for a reserve, empty: everyone
  Blacklist,         \* accounts barred from a reserve
  Prices,            \* what the oracle may answer per asset; 0 is "no price"
  PauseValues,       \* what the admins may set the global pause to
  InitialWallet,     \* underlying each user holds at the start
  WAD,               \* unit of health factors and base values
  ORACLE_TO_WAD,     \* conversion factor of the oracle's precision
  MIN_FIRST_DEPOSIT, \* smallest deposit that opens a position
  MAX_USER_RESERVES, \* bound on the reserves of one user
  HF_THRESHOLD,      \* health_factor_liquidation_threshold of the router
  U128_MAX,          \* the u128 sentinel: "everything", or infinitely healthy
  Amounts,           \* bound: amounts passed to a call
  MaxTime            \* bound: ledger timestamps

Accounts == Users \union {Treasury}

(***************************************************************************)
(* ReserveConfiguration, with the debt ceiling the router keeps beside it. *)
(* Caps, ceiling and minimum debt are in whole tokens, 0 meaning none.     *)
(***************************************************************************)
ReserveConfiguration ==
  [active : BOOLEAN, paused : BOOLEAN, frozen : BOOLEAN,
   borrowing_enabled : BOOLEAN,
   ltv : Nat, liquidation_threshold : Nat, liquidation_bonus : Nat,
   reserve_factor : Nat, decimals_pow : Nat \ {0},
   supply_cap : Nat, borrow_cap : Nat, debt_ceiling : Nat,
   min_remaining_debt : Nat]

validate_reserve_configuration(c) ==
  /\ c.ltv < c.liquidation_threshold
  /\ c.ltv + BASIS_POINTS_MULTIPLIER \div 200 <= c.liquidation_threshold
  /\ c.liquidation_threshold <= BASIS_POINTS_MULTIPLIER
  /\ c.liquidation_bonus <= BASIS_POINTS_MULTIPLIER
  /\ c.reserve_factor <= BASIS_POINTS_MULTIPLIER

ValidConfiguration ==
  {c \in ReserveConfiguration : validate_reserve_configuration(c)}

(* Indices start at RAY and never fall below it. *)
Index == {i \in Nat : i >= RAY}

ReserveData ==
  [configuration : ValidConfiguration,
   liquidity_index : Index, variable_borrow_index : Index,
   current_liquidity_rate : Nat, current_variable_borrow_rate : Nat,
   last_update_timestamp : Nat]

ASSUME PoolAssumption ==
  /\ IsFiniteSet(Reserves) /\ IsFiniteSet(Users)
  /\ Treasury \notin Users
  /\ DOMAIN Configurations = Reserves
  /\ \A r \in Reserves : Configurations[r] \subseteq ValidConfiguration
  /\ RateParams \in [Reserves -> InterestRateParams]
  /\ \A r \in Reserves : validate_interest_rate_params(RateParams[r])
  /\ Whitelist \in [Reserves -> SUBSET Accounts]
  /\ Blacklist \in [Reserves -> SUBSET Accounts]
  /\ DOMAIN Prices = Reserves
  /\ \A r \in Reserves : Prices[r] \subseteq Nat
  /\ PauseValues \subseteq BOOLEAN
  /\ InitialWallet \in [Reserves -> [Users -> Nat]]
  /\ WAD \in Nat \ {0} /\ ORACLE_TO_WAD \in Nat \ {0}
  /\ MIN_FIRST_DEPOSIT \in Nat /\ MAX_USER_RESERVES \in Nat
  /\ HF_THRESHOLD \in Nat
  /\ Amounts \subseteq Nat /\ MaxTime \in Nat
  /\ U128_MAX \in Nat

VARIABLES
  now,                 \* ledger timestamp
  paused,              \* the router's global pause
  price,               \* what the oracle answers for each asset
  reserve,             \* ReserveData of each asset
  cash,                \* underlying held by the aToken contract
  wallet,              \* underlying held by each account
  scaled_balance,      \* aToken: scaled balance of each account
  total_supply_scaled, \* aToken: sum kept by the contract
  scaled_debt,         \* debt token: scaled debt of each account
  total_debt_scaled,   \* debt token: sum kept by the contract
  collateral,          \* UserConfiguration: reserves used as collateral
  borrowing,           \* UserConfiguration: reserves borrowed from
  deficit              \* bad debt written off and not yet covered

tokens == <<scaled_balance, total_supply_scaled,
            scaled_debt, total_debt_scaled>>

bitmaps == <<collateral, borrowing>>

funds == <<cash, wallet>>

environment == <<now, paused, price>>

vars == <<environment, reserve, funds, tokens, bitmaps, deficit>>

TypeOK ==
  /\ now \in Nat
  /\ paused \in BOOLEAN
  /\ price \in [Reserves -> Nat]
  /\ reserve \in [Reserves -> ReserveData]
  /\ \A r \in Reserves : reserve[r].last_update_timestamp <= now
  /\ cash \in [Reserves -> Nat]
  /\ wallet \in [Reserves -> [Accounts -> Nat]]
  /\ scaled_balance \in [Reserves -> [Accounts -> Nat]]
  /\ total_supply_scaled \in [Reserves -> Nat]
  /\ scaled_debt \in [Reserves -> [Accounts -> Nat]]
  /\ total_debt_scaled \in [Reserves -> Nat]
  /\ collateral \in [Accounts -> SUBSET Reserves]
  /\ borrowing \in [Accounts -> SUBSET Reserves]
  /\ deficit \in [Reserves -> Nat]

(* One value for each reserve out of the set given for it. *)
choices(sets) ==
  {f \in [Reserves -> UNION {sets[r] : r \in Reserves}] :
     \A r \in Reserves : f[r] \in sets[r]}

(***************************************************************************)
(* A fresh deployment: reserves initialised with both indices at RAY and   *)
(* zero rates.                                                             *)
(***************************************************************************)
Init ==
  /\ now = 0
  /\ paused = FALSE
  /\ price \in choices([r \in Reserves |-> Prices[r] \ {0}])
  /\ \E configuration \in choices(Configurations) :
       reserve = [r \in Reserves |->
         [configuration |-> configuration[r],
          liquidity_index |-> RAY, variable_borrow_index |-> RAY,
          current_liquidity_rate |-> 0, current_variable_borrow_rate |-> 0,
          last_update_timestamp |-> 0]]
  /\ cash = [r \in Reserves |-> 0]
  /\ wallet = [r \in Reserves |-> [a \in Accounts |->
                 IF a \in Users THEN InitialWallet[r][a] ELSE 0]]
  /\ scaled_balance = [r \in Reserves |-> [a \in Accounts |-> 0]]
  /\ total_supply_scaled = [r \in Reserves |-> 0]
  /\ scaled_debt = [r \in Reserves |-> [a \in Accounts |-> 0]]
  /\ total_debt_scaled = [r \in Reserves |-> 0]
  /\ collateral = [a \in Accounts |-> {}]
  /\ borrowing = [a \in Accounts |-> {}]
  /\ deficit = [r \in Reserves |-> 0]

-----------------------------------------------------------------------------
(***************************************************************************)
(* Interest.  update_state moves both indices to the current timestamp and *)
(* is the identity when they are already there; the same computation       *)
(* without the store serves the read-only current indices.                 *)
(***************************************************************************)
update_state(rd) ==
  IF now = rd.last_update_timestamp
  THEN rd
  ELSE [rd EXCEPT
         !.liquidity_index = ray_mul(@,
            calculate_linear_interest(rd.current_liquidity_rate,
                                      rd.last_update_timestamp, now)),
         !.variable_borrow_index = ray_mul(@,
            calculate_compound_interest(rd.current_variable_borrow_rate,
                                        rd.last_update_timestamp, now)),
         !.last_update_timestamp = now]

(* Both indices as of this instant, for callers that store nothing. *)
current_liquidity_index(rd) == update_state(rd).liquidity_index

current_variable_borrow_index(rd) == update_state(rd).variable_borrow_index

saturating_sub(a, b) == IF a > b THEN a - b ELSE 0

(***************************************************************************)
(* update_interest_rates_and_store: the reserve data to store once the     *)
(* scaled totals are a_total and d_total.  The liquidity handed to the     *)
(* strategy is supply less debt, not the cash of the aToken contract.      *)
(***************************************************************************)
with_new_rates(r, rd, a_total, d_total) ==
  LET supply == ray_mul(a_total, rd.liquidity_index)
      debt   == ray_mul(d_total, rd.variable_borrow_index)
      rates  == calculate_interest_rates(RateParams[r],
                  saturating_sub(supply, debt), debt,
                  rd.configuration.reserve_factor)
  IN  [rd EXCEPT
        !.current_liquidity_rate = rates.current_liquidity_rate,
        !.current_variable_borrow_rate = rates.current_variable_borrow_rate]

(***************************************************************************)
(* Access lists of a reserve: an empty whitelist admits everyone.          *)
(***************************************************************************)
whitelisted(r, a) == Whitelist[r] # {} => a \in Whitelist[r]

has_access(r, a) == whitelisted(r, a) /\ a \notin Blacklist[r]

(***************************************************************************)
(* Balances as the tokens report them with an index, rounded half up.      *)
(***************************************************************************)
supplied(r, a, rd) == ray_mul(scaled_balance[r][a], rd.liquidity_index)

owed(r, a, rd) == ray_mul(scaled_debt[r][a], rd.variable_borrow_index)

(* The totals both tokens report, at the indices of rd. *)
total_supply(r, rd) == ray_mul(total_supply_scaled[r], rd.liquidity_index)

total_debt(r, rd) == ray_mul(total_debt_scaled[r], rd.variable_borrow_index)

active_reserves(a) == collateral[a] \union borrowing[a]

(***************************************************************************)
(* An account at the bound may not touch one more reserve; the check is    *)
(* made when the respective flag is not set yet.                           *)
(***************************************************************************)
has_free_slot(a, r, flags) ==
  r \notin flags[a] => Cardinality(active_reserves(a)) < MAX_USER_RESERVES

-----------------------------------------------------------------------------
(***************************************************************************)
(* Account data (calculate_user_account_data_unified).  coll and borr are  *)
(* the flags to use and rd the reserve data: collateral is valued at the   *)
(* liquidity index found in rd, debt at the borrow index of this instant.  *)
(***************************************************************************)
value_in_base(r, amount) ==
  (amount * price[r] * ORACLE_TO_WAD) \div reserve[r].configuration.decimals_pow

weighted_value(r, amount, weight) ==
  (amount * price[r] * ORACLE_TO_WAD * weight)
     \div reserve[r].configuration.decimals_pow

calculate_health_factor(collateral_base, threshold, debt_base) ==
  IF debt_base = 0
  THEN U128_MAX
  ELSE ((collateral_base * threshold * WAD) \div BASIS_POINTS_MULTIPLIER)
          \div debt_base

collateral_value(u, r, rd) == value_in_base(r, supplied(r, u, rd[r]))

weighted_collateral(u, r, rd, weight) ==
  weighted_value(r, supplied(r, u, rd[r]), weight)

debt_value(u, r, rd) ==
  value_in_base(r, ray_mul(scaled_debt[r][u],
                           current_variable_borrow_index(rd[r])))

(* The averages round apart: the threshold up, the ltv down. *)
average_threshold(sum, total) ==
  IF total = 0 THEN 0 ELSE (sum + total - 1) \div total

average_ltv(sum, total) == IF total = 0 THEN 0 ELSE sum \div total

available_borrows(coll_base, ltv, debt_base) ==
  saturating_sub((coll_base * ltv) \div BASIS_POINTS_MULTIPLIER, debt_base)

account_data(u, coll, borr, rd) ==
  LET weighted(field) ==
        SumFunction([r \in coll |-> weighted_collateral(u, r, rd,
                                      rd[r].configuration[field])])
      total      == SumFunction([r \in coll |-> collateral_value(u, r, rd)])
      debts      == SumFunction([r \in borr |-> debt_value(u, r, rd)])
      thresholds == weighted("liquidation_threshold")
      threshold  == average_threshold(thresholds, total)
  IN  [total_collateral_base         |-> total,
       total_debt_base               |-> debts,
       available_borrows_base        |->
         available_borrows(total, average_ltv(weighted("ltv"), total), debts),
       current_liquidation_threshold |-> threshold,
       weighted_threshold_sum        |-> thresholds,
       health_factor                 |->
         calculate_health_factor(total, threshold, debts)]

health_data(u) == account_data(u, collateral[u], borrowing[u], reserve)

(***************************************************************************)
(* The router asks for all prices in one batch, which fails as a whole.    *)
(***************************************************************************)
prices_available(assets) == \A r \in assets : price[r] > 0

validate_user_can_borrow(u, r, amount, rd) ==
  LET data == account_data(u, collateral[u], borrowing[u], rd)
      base == value_in_base(r, amount)
  IN  /\ prices_available(active_reserves(u) \union {r})
      /\ base <= data.available_borrows_base
      /\ calculate_health_factor(data.total_collateral_base,
                                 data.current_liquidation_threshold,
                                 data.total_debt_base + base)
           >= HF_THRESHOLD

(* Mutation: the position is judged before the withdrawal. *)
withdraw_judged_before(u, r, amount, rd) ==
  prices_available(active_reserves(u)) /\
    account_data(u, collateral[u], borrowing[u], rd).health_factor
      >= HF_THRESHOLD

(***************************************************************************)
(* The withdrawal check subtracts the amount's own contribution from the   *)
(* weighted sum instead of recomputing the position after the burn.        *)
(***************************************************************************)
validate_user_can_withdraw(u, r, amount, rd) ==
  r \in collateral[u] =>
    LET data == account_data(u, collateral[u], borrowing[u], rd)
        left == saturating_sub(data.weighted_threshold_sum,
                  weighted_value(r, amount,
                    reserve[r].configuration.liquidation_threshold))
    IN  /\ prices_available(active_reserves(u) \union {r})
        /\ data.total_debt_base > 0 =>
             ((left * WAD) \div BASIS_POINTS_MULTIPLIER)
               \div data.total_debt_base >= HF_THRESHOLD

-----------------------------------------------------------------------------
(***************************************************************************)
(* Caps, checked at the freshly accrued index.                             *)
(***************************************************************************)
within(cap, c, total) == cap > 0 => total <= cap * c.decimals_pow

(* Mutation: the cap is checked at the stored index. *)
cap_at_stored_index(r, amount, rd) ==
  within(rd.configuration.supply_cap, rd.configuration,
         ray_mul(total_supply_scaled[r], reserve[r].liquidity_index) + amount)

supply_cap_ok(r, amount, rd) ==
  within(rd.configuration.supply_cap, rd.configuration,
         total_supply(r, rd) + amount)

borrow_cap_ok(r, amount, rd) ==
  LET debt == total_debt(r, rd) + amount
      c    == rd.configuration
  IN  within(c.borrow_cap, c, debt) /\ within(c.debt_ceiling, c, debt)

(* Zero debt is fine, a little debt is not. *)
above_min_debt(c, debt) == debt >= c.min_remaining_debt * c.decimals_pow

(* Mutation: a frozen reserve is closed altogether. *)
closed_when_frozen(c) == c.active /\ ~c.paused /\ ~c.frozen

is_open(c) == c.active /\ ~c.paused

(* What each handler asks of the pool, of the reserve and of the amount.   *)
validate_withdraw(c, amount) == ~paused /\ is_open(c) /\ amount > 0

validate_repay(c, amount) == ~paused /\ is_open(c) /\ amount > 0

validate_supply(c, amount) == ~paused /\ is_open(c) /\ ~c.frozen /\ amount > 0

validate_borrow(c, amount) == validate_supply(c, amount) /\ c.borrowing_enabled

(* Mutation: the burn is not capped at the balance. *)
uncapped_burn(r, a, amount, index) == ray_div_up(amount, index)

(***************************************************************************)
(* Token contracts.  The aToken mints floor and burns ceiling, capped at   *)
(* the balance; the debt token mints ceiling and burns floor, and a        *)
(* remainder of one scaled unit is burned with the rest (L-09).            *)
(***************************************************************************)
a_token_burned(r, a, amount, index) ==
  LET ceiling == ray_div_up(amount, index)
  IN  IF ceiling > scaled_balance[r][a] THEN scaled_balance[r][a] ELSE ceiling

(* Mutation: no dust rule. *)
burn_keeping_dust(held, amount, index) == ray_div_down(amount, index)

debt_burned(held, amount, index) ==
  LET floor == ray_div_down(amount, index)
  IN  IF held - floor <= 1 THEN held ELSE floor

ATokenMint(r, a, minted) ==
  /\ scaled_balance' = [scaled_balance EXCEPT ![r][a] = @ + minted]
  /\ total_supply_scaled' = [total_supply_scaled EXCEPT ![r] = @ + minted]

ATokenBurn(r, a, burned) ==
  /\ burned > 0 /\ burned <= total_supply_scaled[r]
  /\ scaled_balance' = [scaled_balance EXCEPT ![r][a] = @ - burned]
  /\ total_supply_scaled' = [total_supply_scaled EXCEPT ![r] = @ - burned]

DebtMint(r, a, minted) ==
  /\ scaled_debt' = [scaled_debt EXCEPT ![r][a] = @ + minted]
  /\ total_debt_scaled' = [total_debt_scaled EXCEPT ![r] = @ + minted]

(* Mutation: the total forgets the burn. *)
BurnKeepingTotal(r, a, burned) ==
  /\ scaled_debt' = [scaled_debt EXCEPT ![r][a] = @ - burned]
  /\ UNCHANGED total_debt_scaled

DebtBurn(r, a, burned) ==
  /\ burned <= total_debt_scaled[r]
  /\ scaled_debt' = [scaled_debt EXCEPT ![r][a] = @ - burned]
  /\ total_debt_scaled' = [total_debt_scaled EXCEPT ![r] = @ - burned]

-----------------------------------------------------------------------------
Supply(caller, on_behalf_of, r, amount) ==
  LET rd       == update_state(reserve[r])
      c        == rd.configuration
      minted   == ray_div_down(amount, rd.liquidity_index)
      is_first == scaled_balance[r][on_behalf_of] = 0
  IN
  /\ validate_supply(c, amount)
  /\ has_access(r, caller) /\ has_access(r, on_behalf_of)
  /\ supply_cap_ok(r, amount, rd)
  /\ wallet[r][caller] >= amount
  /\ is_first => /\ amount >= MIN_FIRST_DEPOSIT
                 /\ has_free_slot(on_behalf_of, r, collateral)
                 /\ prices_available({r})
  /\ wallet' = [wallet EXCEPT ![r][caller] = @ - amount]
  /\ cash' = [cash EXCEPT ![r] = @ + amount]
  /\ ATokenMint(r, on_behalf_of, minted)
  /\ collateral' = IF is_first
                   THEN [collateral EXCEPT ![on_behalf_of] = @ \union {r}]
                   ELSE collateral
  /\ reserve' = [reserve EXCEPT ![r] =
       with_new_rates(r, rd, total_supply_scaled'[r], total_debt_scaled[r])]
  /\ UNCHANGED <<environment, scaled_debt, total_debt_scaled,
                 borrowing, deficit>>

(***************************************************************************)
(* requested = U128_MAX withdraws the whole balance.                       *)
(***************************************************************************)
Withdraw(caller, to, r, requested) ==
  LET rd      == update_state(reserve[r])
      balance == supplied(r, caller, rd)
      amount  == IF requested = U128_MAX THEN balance ELSE requested
      burned  == a_token_burned(r, caller, amount, rd.liquidity_index)
  IN
  /\ validate_withdraw(rd.configuration, requested)
  /\ has_access(r, caller) /\ has_access(r, to)
  /\ amount <= balance
  /\ amount <= total_supply(r, rd)
  /\ amount <= cash[r]
  /\ validate_user_can_withdraw(caller, r, amount,
                                [reserve EXCEPT ![r] = rd])
  /\ ATokenBurn(r, caller, burned)
  /\ cash' = [cash EXCEPT ![r] = @ - amount]
  /\ wallet' = [wallet EXCEPT ![r][to] = @ + amount]
  /\ collateral' = IF amount = balance
                   THEN [collateral EXCEPT ![caller] = @ \ {r}]
                   ELSE collateral
  /\ reserve' = [reserve EXCEPT ![r] =
       with_new_rates(r, rd, total_supply_scaled'[r], total_debt_scaled[r])]
  /\ UNCHANGED <<environment, scaled_debt, total_debt_scaled,
                 borrowing, deficit>>

Borrow(caller, on_behalf_of, r, amount) ==
  LET rd     == update_state(reserve[r])
      c      == rd.configuration
      minted == ray_div_up(amount, rd.variable_borrow_index)
  IN
  /\ validate_borrow(c, amount)
  /\ has_access(r, caller) /\ has_access(r, on_behalf_of)
  /\ borrow_cap_ok(r, amount, rd)
  /\ validate_user_can_borrow(on_behalf_of, r, amount,
                              [reserve EXCEPT ![r] = rd])
  /\ amount <= cash[r]
  /\ above_min_debt(c, ray_mul(scaled_debt[r][on_behalf_of] + minted,
                               rd.variable_borrow_index))
  /\ has_free_slot(on_behalf_of, r, borrowing)
  /\ DebtMint(r, on_behalf_of, minted)
  /\ cash' = [cash EXCEPT ![r] = @ - amount]
  /\ wallet' = [wallet EXCEPT ![r][on_behalf_of] = @ + amount]
  /\ borrowing' = [borrowing EXCEPT ![on_behalf_of] = @ \union {r}]
  /\ reserve' = [reserve EXCEPT ![r] =
       with_new_rates(r, rd, total_supply_scaled[r], total_debt_scaled'[r])]
  /\ UNCHANGED <<environment, scaled_balance, total_supply_scaled,
                 collateral, deficit>>

(***************************************************************************)
(* Anyone may repay for anyone; the borrower is only whitelist-checked.    *)
(* requested = U128_MAX repays everything and skips the dust check.        *)
(***************************************************************************)
Repay(caller, on_behalf_of, r, requested) ==
  LET rd     == update_state(reserve[r])
      c      == rd.configuration
      debt   == owed(r, on_behalf_of, rd)
      amount == IF requested > debt THEN debt ELSE requested
      burned == debt_burned(scaled_debt[r][on_behalf_of], amount,
                            rd.variable_borrow_index)
  IN
  /\ validate_repay(c, requested)
  /\ has_access(r, caller) /\ whitelisted(r, on_behalf_of)
  /\ debt > 0
  /\ amount < debt => above_min_debt(c, debt - amount)
  /\ wallet[r][caller] >= amount
  /\ ray_div_down(amount, rd.variable_borrow_index)
       <= scaled_debt[r][on_behalf_of]
  /\ wallet' = [wallet EXCEPT ![r][caller] = @ - amount]
  /\ cash' = [cash EXCEPT ![r] = @ + amount]
  /\ DebtBurn(r, on_behalf_of, burned)
  /\ borrowing' = IF amount = debt
                  THEN [borrowing EXCEPT ![on_behalf_of] = @ \ {r}]
                  ELSE borrowing
  /\ reserve' = [reserve EXCEPT ![r] =
       with_new_rates(r, rd, total_supply_scaled[r], total_debt_scaled'[r])]
  /\ UNCHANGED <<environment, scaled_balance, total_supply_scaled,
                 collateral, deficit>>

-----------------------------------------------------------------------------
(***************************************************************************)
(* set_user_use_reserve_as_coll.  Switching on needs no balance and no     *)
(* free slot; switching off is judged with the flag already cleared, and   *)
(* against WAD whatever the configured threshold.                          *)
(***************************************************************************)
EnableCollateral(u, r) ==
  /\ has_access(r, u) /\ reserve[r].configuration.active
  /\ prices_available({r})
  /\ collateral' = [collateral EXCEPT ![u] = @ \union {r}]
  /\ UNCHANGED <<environment, reserve, funds, tokens, borrowing, deficit>>

(* Mutation: the position is judged with the flag still set. *)
JudgedBeforeSwitch(u, r) ==
  /\ has_access(r, u) /\ reserve[r].configuration.active
  /\ prices_available(collateral[u] \union borrowing[u])
  /\ health_data(u).health_factor >= WAD
  /\ collateral' = [collateral EXCEPT ![u] = @ \ {r}]
  /\ UNCHANGED <<environment, reserve, funds, tokens, borrowing, deficit>>

DisableCollateral(u, r) ==
  LET kept == collateral[u] \ {r}
  IN
  /\ has_access(r, u) /\ reserve[r].configuration.active
  /\ prices_available(kept \union borrowing[u])
  /\ account_data(u, kept, borrowing[u], reserve).health_factor >= WAD
  /\ collateral' = [collateral EXCEPT ![u] = kept]
  /\ UNCHANGED <<environment, reserve, funds, tokens, borrowing, deficit>>

(* The aToken asks the router about its lists: only the recipient must be  *)
(* whitelisted, neither side blacklisted.                                  *)
may_transfer(r, from, to) ==
  whitelisted(r, to) /\ {from, to} \intersect Blacklist[r] = {}

(***************************************************************************)
(* aToken transfer_internal with the router's                              *)
(* validate_and_finalize_transfer: the scaled amount is taken at the       *)
(* current index, the sender's health is judged on the stored reserve, and *)
(* nothing is accrued.  A transfer to oneself does nothing.                *)
(***************************************************************************)
TransferAToken(from, to, r, amount) ==
  LET moved == ray_div_up(amount, current_liquidity_index(reserve[r]))
      empties == scaled_balance[r][from] = moved
  IN
  /\ from # to
  /\ may_transfer(r, from, to)
  /\ amount > 0
  /\ moved <= scaled_balance[r][from]
  /\ borrowing[from] # {} =>
       validate_user_can_withdraw(from, r, amount, reserve)
  /\ has_free_slot(to, r, collateral)
  /\ scaled_balance' = [scaled_balance EXCEPT ![r][from] = @ - moved,
                                              ![r][to]   = @ + moved]
  /\ collateral' = [collateral EXCEPT
       ![from] = IF empties THEN @ \ {r} ELSE @,
       ![to]   = @ \union {r}]
  /\ UNCHANGED <<environment, reserve, funds, total_supply_scaled,
                 scaled_debt, total_debt_scaled, borrowing, deficit>>

(* update_reserve_state: anyone may accrue a reserve; rates are kept. *)
UpdateReserveState(r) ==
  /\ reserve' = [reserve EXCEPT ![r] = update_state(@)]
  /\ UNCHANGED <<environment, funds, tokens, bitmaps, deficit>>

(* The cash beyond what suppliers could withdraw, less the uncovered       *)
(* deficit.                                                                *)
protocol_reserves(r, rd) ==
  saturating_sub(
    saturating_sub(cash[r], total_supply(r, rd) - total_debt(r, rd)),
    deficit[r])

(* collect_protocol_reserves, by the pool admin. *)
CollectProtocolReserves(r) ==
  LET rd          == update_state(reserve[r])
      collectible == protocol_reserves(r, rd)
  IN
  /\ total_debt(r, rd) <= total_supply(r, rd)
  /\ reserve' = [reserve EXCEPT ![r] = rd]
  /\ cash' = [cash EXCEPT ![r] = @ - collectible]
  /\ wallet' = [wallet EXCEPT ![r][Treasury] = @ + collectible]
  /\ UNCHANGED <<environment, tokens, bitmaps, deficit>>

(* cover_deficit: permissionless, capped at the deficit, no accrual. *)
CoverDeficit(caller, r, amount) ==
  LET cover == IF amount > deficit[r] THEN deficit[r] ELSE amount
  IN
  /\ amount > 0 /\ deficit[r] > 0
  /\ wallet[r][caller] >= cover
  /\ wallet' = [wallet EXCEPT ![r][caller] = @ - cover]
  /\ cash' = [cash EXCEPT ![r] = @ + cover]
  /\ deficit' = [deficit EXCEPT ![r] = @ - cover]
  /\ UNCHANGED <<environment, reserve, tokens, bitmaps>>

-----------------------------------------------------------------------------
(***************************************************************************)
(* The pool configurator rewrites a reserve's configuration as a whole,    *)
(* without accruing; the emergency and pool admins pause and unpause.      *)
(***************************************************************************)
UpdateReserveConfiguration(r, c) ==
  /\ reserve' = [reserve EXCEPT ![r].configuration = c]
  /\ UNCHANGED <<environment, funds, tokens, bitmaps, deficit>>

SetPaused(p) ==
  /\ paused' = p
  /\ UNCHANGED <<now, price, reserve, funds, tokens, bitmaps, deficit>>

(* The oracle's answer changes, or becomes unusable. *)
PriceChange(r, p) ==
  /\ price' = [price EXCEPT ![r] = p]
  /\ UNCHANGED <<now, paused, reserve, funds, tokens, bitmaps, deficit>>

Tick ==
  /\ now < MaxTime
  /\ now' = now + 1
  /\ UNCHANGED <<paused, price, reserve, funds, tokens, bitmaps, deficit>>

UserOperation ==
  \E r \in Reserves, u \in Users :
    \/ \E v \in Users :
         \/ \E n \in Amounts : Supply(u, v, r, n)
         \/ \E n \in Amounts \union {U128_MAX} : Withdraw(u, v, r, n)
         \/ \E n \in Amounts : Borrow(u, v, r, n)
         \/ \E n \in Amounts \union {U128_MAX} : Repay(u, v, r, n)
         \/ \E n \in Amounts : TransferAToken(u, v, r, n)
    \/ EnableCollateral(u, r)
    \/ DisableCollateral(u, r)

PoolMaintenance ==
  \E r \in Reserves :
    \/ UpdateReserveState(r)
    \/ CollectProtocolReserves(r)
    \/ \E u \in Users, n \in Amounts : CoverDeficit(u, r, n)

Administration ==
  \/ \E r \in Reserves : \E c \in Configurations[r] :
       UpdateReserveConfiguration(r, c)
  \/ \E p \in PauseValues : SetPaused(p)

Environment ==
  \/ Tick
  \/ \E r \in Reserves : \E p \in Prices[r] : PriceChange(r, p)

Next ==
  \/ UserOperation
  \/ PoolMaintenance
  \/ Administration
  \/ Environment

Spec == Init /\ [][Next]_vars

-----------------------------------------------------------------------------
(***************************************************************************)
(*                              Properties                                 *)
(***************************************************************************)

(* Whoever owes scaled debt has the borrowing bit of that reserve set, so  *)
(* the debt is counted in every health factor: the bit is cleared from the *)
(* rounded balance (operations.rs, repay) while the debt token burns       *)
(* scaled units, and the two must agree that nothing is left.              *)
DebtIsFlagged ==
  \A r \in Reserves, a \in Accounts :
    scaled_debt[r][a] > 0 => r \in borrowing[a]

(* The contracts' running totals are the sums of the balances they hold,   *)
(* for both tokens.                                                        *)
TotalsAreSums ==
  \A r \in Reserves :
    /\ total_supply_scaled[r] =
         MapThenSumSet(LAMBDA a : scaled_balance[r][a], Accounts)
    /\ total_debt_scaled[r] =
         MapThenSumSet(LAMBDA a : scaled_debt[r][a], Accounts)

(* Repaying the reported debt always goes through the debt token and       *)
(* leaves nothing: the half-up balance is positive, its floor never        *)
(* exceeds the scaled debt, and at most one scaled unit remains for the    *)
(* dust rule to burn.                                                      *)
FullRepayClearsDebt ==
  \A r \in Reserves, a \in Accounts :
    LET index == current_variable_borrow_index(reserve[r])
        held  == scaled_debt[r][a]
        debt  == ray_mul(held, index)
    IN  held > 0 => /\ debt > 0
                    /\ ray_div_down(debt, index) <= held
                    /\ debt_burned(held, debt, index) = held

(***************************************************************************)
(* What a reserve owns beyond its suppliers' claims, in exact ray units:   *)
(* cash, outstanding debt and the written-off deficit, less the scaled     *)
(* supply, all at the indices of rd.                                       *)
(***************************************************************************)
surplus(r, rd) ==
  cash[r] * RAY + total_debt_scaled[r] * rd.variable_borrow_index
    + deficit[r] * RAY - total_supply_scaled[r] * rd.liquidity_index

emptied(before, after) ==
  \E a \in Accounts : before[a] > 0 /\ after[a] = 0

(***************************************************************************)
(* No operation takes value from the suppliers of a reserve through        *)
(* rounding, interest aside: measured at the indices the step leaves       *)
(* behind, the surplus does not fall.  It may fall in three ways only:     *)
(* half a unit when the last scaled aTokens of an account are redeemed at  *)
(* the half-up balance, one scaled unit of debt when the dust rule empties *)
(* a borrower, and down to twice the deficit (less a unit of rounding)     *)
(* when the admin collects reserves.                                       *)
(***************************************************************************)
SurplusGuarded(r) ==
  LET before == surplus(r, reserve'[r])
      after  == surplus(r, reserve[r])'
  IN  \/ after >= before
      \/ /\ emptied(scaled_balance[r], scaled_balance'[r])
         /\ after >= before - HALF_RAY
      \/ /\ emptied(scaled_debt[r], scaled_debt'[r])
         /\ after >= before - reserve'[r].variable_borrow_index
      \/ /\ wallet'[r][Treasury] > wallet[r][Treasury]
         /\ after >= 2 * deficit[r] * RAY - RAY

RoundingFavoursPool == [][\A r \in Reserves : SurplusGuarded(r)]_vars

(* What both totals are worth at the accrued indices, against the caps;    *)
(* one scaled unit of debt is allowed for, since debt is rounded up.       *)
SupplyWithinCap(r) ==
  within(reserve[r].configuration.supply_cap, reserve[r].configuration,
         total_supply(r, reserve[r]))

DebtWithinCaps(r) ==
  LET c    == reserve[r].configuration
      debt == ray_mul(saturating_sub(total_debt_scaled[r], 1),
                      reserve[r].variable_borrow_index)
  IN  within(c.borrow_cap, c, debt) /\ within(c.debt_ceiling, c, debt)

(***************************************************************************)
(* Caps bind at the accrued index: a step that mints aTokens leaves the    *)
(* supply within the cap, one that mints debt leaves the debt within cap   *)
(* and ceiling (validation.rs, with the roundings of the tokens' mints).   *)
(***************************************************************************)
CapsBindAtAccruedIndex ==
  [][\A r \in Reserves :
       /\ total_supply_scaled'[r] > total_supply_scaled[r] =>
            SupplyWithinCap(r)'
       /\ total_debt_scaled'[r] > total_debt_scaled[r] =>
            DebtWithinCaps(r)']_vars

-----------------------------------------------------------------------------
healthy(u) == health_data(u).health_factor >= WAD

one_unit(index) == IF index = RAY THEN 0 ELSE ray_mul(1, index) + 1

lesser(a, b) == IF a < b THEN a ELSE b

(* Values are whole base units, each rounded down by itself.               *)
lost_to_floor(r) == IF reserve[r].configuration.decimals_pow = 1 THEN 0 ELSE 1

(* The average threshold is rounded up to a basis point, which grants      *)
(* nothing where all values are exact and all thresholds the same.         *)
granted_by_average ==
  IF \A r, q \in Reserves :
       /\ reserve[r].configuration.decimals_pow = 1
       /\ reserve[r].configuration.liquidation_threshold
            = reserve[q].configuration.liquidation_threshold
  THEN 0 ELSE 1

forgiving_weight(u, r) ==
  LET held == IF r \in collateral[u] THEN supplied(r, u, reserve[r]) ELSE 0
  IN  weighted_value(r, held + one_unit(reserve[r].liquidity_index),
        reserve[r].configuration.liquidation_threshold + granted_by_average)
        + lost_to_floor(r)

forgiving_debt(u, r) ==
  LET index == current_variable_borrow_index(reserve[r])
  IN  saturating_sub(
        value_in_base(r, saturating_sub(ray_mul(scaled_debt[r][u], index),
                                        one_unit(index))),
        lost_to_floor(r))

(***************************************************************************)
(* Healthy if one scaled unit of every asset that has accrued interest,    *)
(* one base unit of every value that is rounded and the basis point of the *)
(* average were forgiven: the most by which the position a transaction     *)
(* leaves can differ from the one the router judged.  backing are the      *)
(* reserves that backed the account before.                                *)
(***************************************************************************)
nearly_healthy(u, backing) ==
  LET weights == SumFunction([r \in collateral[u] \union backing |->
                                forgiving_weight(u, r)])
      debts   == SumFunction([r \in borrowing[u] |-> forgiving_debt(u, r)])
  IN  debts > 0 =>
        ((weights * WAD) \div BASIS_POINTS_MULTIPLIER) \div debts
          >= lesser(HF_THRESHOLD, WAD)

same_market ==
  /\ UNCHANGED environment
  /\ \A r \in Reserves : reserve'[r].configuration = reserve[r].configuration

(***************************************************************************)
(* No transaction, of the account itself or of anyone else, makes a        *)
(* healthy account liquidatable: only time, prices and configuration do.   *)
(* Borrowing and withdrawing are held to HF_THRESHOLD, the switch to WAD.  *)
(* Withdrawing is judged on a simulated position and borrowing on rounded  *)
(* values and a rounded average, which is what nearly_healthy forgives.    *)
(***************************************************************************)
HealthKept ==
  [][same_market =>
       \A u \in Users, backing \in SUBSET Reserves :
         /\ backing = collateral[u]
         /\ borrowing'[u] # {} /\ healthy(u)
         => nearly_healthy(u, backing)']_vars

(***************************************************************************)
(* An account loses the collateral bit of a reserve it still has a balance *)
(* in only by switching it off while healthy without it; every other       *)
(* clearing (withdraw, transfer) happens with an empty balance.            *)
(***************************************************************************)
CollateralBitKeptWithBalance ==
  [][\A a \in Accounts, r \in Reserves :
       r \in collateral[a] \ collateral'[a] =>
         \/ scaled_balance'[r][a] = 0
         \/ scaled_balance'[r][a] = scaled_balance[r][a] /\ healthy(a)']_vars

(***************************************************************************)
(* Nobody is locked in.  Unless the pool or the reserve is paused,         *)
(* whoever holds the funds can repay a listed borrower's debt in full, and *)
(* a debt-free supplier can withdraw everything while the aToken has the   *)
(* cash and the supplied assets have prices: neither freezing, caps,       *)
(* minimum debt nor rounding in the token contracts stands in the way.     *)
(***************************************************************************)
serviceable(r, a) ==
  LET c == reserve[r].configuration
  IN  ~paused /\ c.active /\ ~c.paused /\ has_access(r, a)

may_leave(u, r) ==
  /\ serviceable(r, u)
  /\ borrowing[u] = {} /\ scaled_balance[r][u] > 0
  /\ supplied(r, u, update_state(reserve[r])) <= cash[r]

ExitsStayOpen ==
  \A u \in Users, r \in Reserves :
    /\ /\ serviceable(r, u) /\ scaled_debt[r][u] > 0
       /\ wallet[r][u] >= owed(r, u, update_state(reserve[r]))
       => ENABLED Repay(u, u, r, U128_MAX)
    /\ may_leave(u, r) /\ prices_available(collateral[u] \union {r})
       => ENABLED Withdraw(u, u, r, U128_MAX)

=============================================================================
