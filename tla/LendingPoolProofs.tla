------------------------- MODULE LendingPoolProofs -------------------------
(***************************************************************************)
(* Theorems about the lending pool, for any set of reserves, any finite    *)
(* set of users, any scales, configurations, prices and amounts: first of  *)
(* the pool's own operations (Spec), then with collateral swaps among them *)
(* (SwapSpec).                                                             *)
(***************************************************************************)
EXTENDS CollateralSwap, RayMathProofs

(* Accruing a reserve keeps its type and configuration and brings it to    *)
(* the present.                                                            *)
LEMMA UpdateStateType ==
  ASSUME TypeOK, NEW r \in Reserves
  PROVE  /\ update_state(reserve[r]) \in ReserveData
         /\ update_state(reserve[r]).last_update_timestamp = now
         /\ update_state(reserve[r]).configuration = reserve[r].configuration
  <1> DEFINE rd == reserve[r]
  <1>1. rd \in ReserveData /\ now \in Nat /\ rd.last_update_timestamp <= now
    BY DEF TypeOK
  <1>2. CASE now = rd.last_update_timestamp
    BY <1>1, <1>2 DEF update_state
  <1>3. CASE now # rd.last_update_timestamp
    <2> DEFINE linear == calculate_linear_interest(rd.current_liquidity_rate,
                           rd.last_update_timestamp, now)
               compound == calculate_compound_interest(
                             rd.current_variable_borrow_rate,
                             rd.last_update_timestamp, now)
               li == ray_mul(rd.liquidity_index, linear)
               bi == ray_mul(rd.variable_borrow_index, compound)
    <2> HIDE DEF rd
    <2>1. /\ rd.current_liquidity_rate \in Nat
          /\ rd.current_variable_borrow_rate \in Nat
          /\ rd.last_update_timestamp \in Nat
          /\ rd.liquidity_index \in Nat /\ rd.liquidity_index >= RAY
          /\ rd.variable_borrow_index \in Nat /\ rd.variable_borrow_index >= RAY
      BY <1>1 DEF ReserveData, Index
    <2>2. linear \in Nat /\ linear >= RAY /\ compound \in Nat /\ compound >= RAY
      BY <1>1, <2>1, LinearInterest, CompoundInterest
    <2> HIDE DEF linear, compound
    <2>3. li \in Index /\ bi \in Index
      <3>1. li \in Nat /\ li >= rd.liquidity_index
        BY <2>1, <2>2, RayMulGrows, RayMulType
      <3>2. bi \in Nat /\ bi >= rd.variable_borrow_index
        BY <2>1, <2>2, RayMulGrows, RayMulType
      <3> HIDE DEF li, bi
      <3> QED
        BY <2>1, <3>1, <3>2, ScaleAssumption DEF Index
    <2>4. update_state(rd) = [rd EXCEPT !.liquidity_index = li,
                                        !.variable_borrow_index = bi,
                                        !.last_update_timestamp = now]
      BY <1>3 DEF update_state, linear, compound, rd
    <2> HIDE DEF li, bi
    <2>5. /\ update_state(rd) \in ReserveData
          /\ update_state(rd).last_update_timestamp = now
          /\ update_state(rd).configuration = rd.configuration
      BY <1>1, <2>3, <2>4 DEF ReserveData
    <2> QED
      BY <2>5 DEF rd
  <1> QED
    BY <1>2, <1>3

(* Storing new rates keeps the type and everything but the rates.          *)
LEMMA NewRatesType ==
  ASSUME NEW r \in Reserves, NEW rd \in ReserveData,
         NEW a \in Nat, NEW d \in Nat
  PROVE  /\ with_new_rates(r, rd, a, d) \in ReserveData
         /\ with_new_rates(r, rd, a, d).last_update_timestamp
              = rd.last_update_timestamp
  <1> DEFINE supply == ray_mul(a, rd.liquidity_index)
             debt   == ray_mul(d, rd.variable_borrow_index)
             free   == saturating_sub(supply, debt)
             rates  == calculate_interest_rates(RateParams[r], free, debt,
                         rd.configuration.reserve_factor)
  <1>1. supply \in Nat /\ debt \in Nat
    BY RayMulType DEF ReserveData, Index
  <1>2. free \in Nat
    BY <1>1 DEF saturating_sub
  <1>3. rd.configuration.reserve_factor \in 0 .. BASIS_POINTS_MULTIPLIER
    BY ScaleAssumption DEF ReserveData, ValidConfiguration,
       ReserveConfiguration, validate_reserve_configuration
  <1>4. /\ RateParams[r] \in InterestRateParams
        /\ validate_interest_rate_params(RateParams[r])
    BY PoolAssumption
  <1> HIDE DEF supply, debt, free
  <1>5. /\ rates.current_liquidity_rate \in Nat
        /\ rates.current_variable_borrow_rate \in Nat
    BY <1>1, <1>2, <1>3, <1>4, RatesType
  <1>6. with_new_rates(r, rd, a, d) =
          [rd EXCEPT
            !.current_liquidity_rate = rates.current_liquidity_rate,
            !.current_variable_borrow_rate = rates.current_variable_borrow_rate]
    BY DEF with_new_rates, supply, debt, free
  <1> HIDE DEF rates
  <1> QED
    BY <1>5, <1>6 DEF ReserveData

(* What every handler does with the reserve record it changed.             *)
LEMMA StoreReserveType ==
  ASSUME TypeOK, NEW r \in Reserves, NEW rd \in ReserveData,
         rd.last_update_timestamp <= now,
         reserve' = [reserve EXCEPT ![r] = rd], now' = now
  PROVE  /\ reserve' \in [Reserves -> ReserveData]
         /\ \A q \in Reserves : reserve'[q].last_update_timestamp <= now'
  BY DEF TypeOK

LEMMA AccruedType ==
  ASSUME TypeOK, NEW r \in Reserves, NEW a \in Nat, NEW d \in Nat,
         now' = now,
         reserve' = [reserve EXCEPT ![r] =
                       with_new_rates(r, update_state(reserve[r]), a, d)]
  PROVE  /\ reserve' \in [Reserves -> ReserveData]
         /\ \A q \in Reserves : reserve'[q].last_update_timestamp <= now'
  <1> DEFINE rd == with_new_rates(r, update_state(reserve[r]), a, d)
  <1>1. rd \in ReserveData /\ rd.last_update_timestamp = now
    BY UpdateStateType, NewRatesType
  <1>2. now \in Nat
    BY DEF TypeOK
  <1>3. reserve' = [reserve EXCEPT ![r] = rd]
    OBVIOUS
  <1>4. rd.last_update_timestamp <= now
    BY <1>1, <1>2
  <1> HIDE DEF rd
  <1> QED
    BY <1>1, <1>3, <1>4, StoreReserveType

-----------------------------------------------------------------------------
(* The token contracts keep balances and totals natural; burning relies on *)
(* the balance covering the burned amount.                                 *)
LEMMA ATokenMintType ==
  ASSUME TypeOK, NEW r \in Reserves, NEW a \in Accounts, NEW n \in Nat,
         ATokenMint(r, a, n)
  PROVE  /\ scaled_balance' \in [Reserves -> [Accounts -> Nat]]
         /\ total_supply_scaled' \in [Reserves -> Nat]
  BY DEF TypeOK, ATokenMint

LEMMA ATokenBurnType ==
  ASSUME TypeOK, NEW r \in Reserves, NEW a \in Accounts, NEW n \in Nat,
         n <= scaled_balance[r][a], ATokenBurn(r, a, n)
  PROVE  /\ scaled_balance' \in [Reserves -> [Accounts -> Nat]]
         /\ total_supply_scaled' \in [Reserves -> Nat]
  <1>1. scaled_balance[r][a] - n \in Nat /\ total_supply_scaled[r] - n \in Nat
    BY DEF TypeOK, ATokenBurn
  <1> QED
    BY <1>1 DEF TypeOK, ATokenBurn

LEMMA DebtMintType ==
  ASSUME TypeOK, NEW r \in Reserves, NEW a \in Accounts, NEW n \in Nat,
         DebtMint(r, a, n)
  PROVE  /\ scaled_debt' \in [Reserves -> [Accounts -> Nat]]
         /\ total_debt_scaled' \in [Reserves -> Nat]
  BY DEF TypeOK, DebtMint

LEMMA DebtBurnType ==
  ASSUME TypeOK, NEW r \in Reserves, NEW a \in Accounts, NEW n \in Nat,
         n <= scaled_debt[r][a], DebtBurn(r, a, n)
  PROVE  /\ scaled_debt' \in [Reserves -> [Accounts -> Nat]]
         /\ total_debt_scaled' \in [Reserves -> Nat]
  <1>1. scaled_debt[r][a] - n \in Nat /\ total_debt_scaled[r] - n \in Nat
    BY DEF TypeOK, DebtBurn
  <1> QED
    BY <1>1 DEF TypeOK, DebtBurn

(* Underlying moves between an account and the aToken contract.            *)
LEMMA FundsType ==
  ASSUME TypeOK, NEW r \in Reserves, NEW a \in Accounts,
         NEW w \in Nat, NEW c \in Nat,
         wallet' = [wallet EXCEPT ![r][a] = w],
         cash' = [cash EXCEPT ![r] = c]
  PROVE  /\ wallet' \in [Reserves -> [Accounts -> Nat]]
         /\ cash' \in [Reserves -> Nat]
  BY DEF TypeOK

LEMMA UserIsAccount == Users \subseteq Accounts
  BY DEF Accounts

(* The indices that the handlers divide by.                                *)
LEMMA AccruedIndices ==
  ASSUME TypeOK, NEW r \in Reserves
  PROVE  LET rd == update_state(reserve[r])
         IN  /\ rd.liquidity_index \in Nat
             /\ rd.liquidity_index > 0 /\ rd.liquidity_index >= RAY
             /\ rd.variable_borrow_index \in Nat
             /\ rd.variable_borrow_index > 0 /\ rd.variable_borrow_index >= RAY
  BY UpdateStateType, ScaleAssumption DEF ReserveData, Index

-----------------------------------------------------------------------------
(***************************************************************************)
(* Type correctness, one lemma for each action.                            *)
(***************************************************************************)
LEMMA SupplyType ==
  ASSUME TypeOK, NEW u \in Users, NEW v \in Users, NEW r \in Reserves,
         NEW n \in Nat, Supply(u, v, r, n)
  PROVE  TypeOK'
  <1> DEFINE minted == ray_div_down(n, update_state(reserve[r]).liquidity_index)
  <1>1. u \in Accounts /\ v \in Accounts
    BY UserIsAccount
  <1>2. minted \in Nat
    BY AccruedIndices, RayDivTypes
  <1>3. ATokenMint(r, v, minted)
    BY DEF Supply
  <1>4. /\ scaled_balance' \in [Reserves -> [Accounts -> Nat]]
        /\ total_supply_scaled' \in [Reserves -> Nat]
    <2> HIDE DEF minted
    <2> QED
      BY <1>1, <1>2, <1>3, ATokenMintType
  <1>5. /\ wallet' \in [Reserves -> [Accounts -> Nat]]
        /\ cash' \in [Reserves -> Nat]
    <2>1. wallet[r][u] - n \in Nat /\ cash[r] + n \in Nat
      BY <1>1 DEF TypeOK, Supply
    <2>2. /\ wallet' = [wallet EXCEPT ![r][u] = wallet[r][u] - n]
          /\ cash' = [cash EXCEPT ![r] = cash[r] + n]
      BY DEF Supply
    <2> QED
      BY <1>1, <2>1, <2>2, FundsType
  <1>6. /\ reserve' \in [Reserves -> ReserveData]
        /\ \A q \in Reserves : reserve'[q].last_update_timestamp <= now'
    <2>1. total_supply_scaled'[r] \in Nat /\ total_debt_scaled[r] \in Nat
      BY <1>4 DEF TypeOK
    <2>2. /\ now' = now
          /\ reserve' = [reserve EXCEPT ![r] =
               with_new_rates(r, update_state(reserve[r]),
                              total_supply_scaled'[r], total_debt_scaled[r])]
      BY DEF Supply, environment
    <2> QED
      BY <2>1, <2>2, AccruedType
  <1>7. collateral' \in [Accounts -> SUBSET Reserves]
    BY <1>1 DEF TypeOK, Supply
  <1>8. UNCHANGED <<now, paused, price, scaled_debt, total_debt_scaled,
                    borrowing, deficit>>
    BY DEF Supply, environment
  <1> QED
    BY <1>4, <1>5, <1>6, <1>7, <1>8 DEF TypeOK

LEMMA WithdrawType ==
  ASSUME TypeOK, NEW u \in Users, NEW v \in Users, NEW r \in Reserves,
         NEW n \in Nat, Withdraw(u, v, r, n)
  PROVE  TypeOK'
  <1> DEFINE rd      == update_state(reserve[r])
             balance == supplied(r, u, rd)
             amount  == IF n = U128_MAX THEN balance ELSE n
             burned  == a_token_burned(r, u, amount, rd.liquidity_index)
  <1>1. u \in Accounts /\ v \in Accounts
    BY UserIsAccount
  <1>2. scaled_balance[r][u] \in Nat
    BY <1>1 DEF TypeOK
  <1>3. balance \in Nat
    BY <1>2, AccruedIndices, RayMulType DEF supplied
  <1>4. amount \in Nat
    BY <1>3
  <1>5. burned \in Nat /\ burned <= scaled_balance[r][u]
    <2> HIDE DEF amount
    <2>1. ray_div_up(amount, rd.liquidity_index) \in Nat
      BY <1>4, AccruedIndices, RayDivTypes
    <2> QED
      BY <1>2, <2>1 DEF a_token_burned
  <1>6. ATokenBurn(r, u, burned) /\ amount <= cash[r]
    BY DEF Withdraw
  <1>7. /\ scaled_balance' \in [Reserves -> [Accounts -> Nat]]
        /\ total_supply_scaled' \in [Reserves -> Nat]
    <2> HIDE DEF burned
    <2> QED
      BY <1>1, <1>5, <1>6, ATokenBurnType
  <1>8. /\ wallet' \in [Reserves -> [Accounts -> Nat]]
        /\ cash' \in [Reserves -> Nat]
    <2>1. /\ wallet' = [wallet EXCEPT ![r][v] = wallet[r][v] + amount]
          /\ cash' = [cash EXCEPT ![r] = cash[r] - amount]
      BY DEF Withdraw
    <2> HIDE DEF amount
    <2>2. wallet[r][v] + amount \in Nat /\ cash[r] - amount \in Nat
      BY <1>1, <1>4, <1>6 DEF TypeOK
    <2> QED
      BY <1>1, <2>1, <2>2, FundsType
  <1>9. /\ reserve' \in [Reserves -> ReserveData]
        /\ \A q \in Reserves : reserve'[q].last_update_timestamp <= now'
    <2>1. total_supply_scaled'[r] \in Nat /\ total_debt_scaled[r] \in Nat
      BY <1>7 DEF TypeOK
    <2>2. /\ now' = now
          /\ reserve' = [reserve EXCEPT ![r] =
               with_new_rates(r, update_state(reserve[r]),
                              total_supply_scaled'[r], total_debt_scaled[r])]
      BY DEF Withdraw, environment
    <2> QED
      BY <2>1, <2>2, AccruedType
  <1>10. collateral' \in [Accounts -> SUBSET Reserves]
    BY <1>1 DEF TypeOK, Withdraw
  <1>11. UNCHANGED <<now, paused, price, scaled_debt, total_debt_scaled,
                     borrowing, deficit>>
    BY DEF Withdraw, environment
  <1> QED
    BY <1>7, <1>8, <1>9, <1>10, <1>11 DEF TypeOK

LEMMA BorrowType ==
  ASSUME TypeOK, NEW u \in Users, NEW v \in Users, NEW r \in Reserves,
         NEW n \in Nat, Borrow(u, v, r, n)
  PROVE  TypeOK'
  <1> DEFINE minted ==
        ray_div_up(n, update_state(reserve[r]).variable_borrow_index)
  <1>1. u \in Accounts /\ v \in Accounts
    BY UserIsAccount
  <1>2. minted \in Nat
    BY AccruedIndices, RayDivTypes
  <1>3. DebtMint(r, v, minted) /\ n <= cash[r]
    BY DEF Borrow
  <1>4. /\ scaled_debt' \in [Reserves -> [Accounts -> Nat]]
        /\ total_debt_scaled' \in [Reserves -> Nat]
    <2> HIDE DEF minted
    <2> QED
      BY <1>1, <1>2, <1>3, DebtMintType
  <1>5. /\ wallet' \in [Reserves -> [Accounts -> Nat]]
        /\ cash' \in [Reserves -> Nat]
    <2>1. wallet[r][v] + n \in Nat /\ cash[r] - n \in Nat
      BY <1>1, <1>3 DEF TypeOK
    <2>2. /\ wallet' = [wallet EXCEPT ![r][v] = wallet[r][v] + n]
          /\ cash' = [cash EXCEPT ![r] = cash[r] - n]
      BY DEF Borrow
    <2> QED
      BY <1>1, <2>1, <2>2, FundsType
  <1>6. /\ reserve' \in [Reserves -> ReserveData]
        /\ \A q \in Reserves : reserve'[q].last_update_timestamp <= now'
    <2>1. total_supply_scaled[r] \in Nat /\ total_debt_scaled'[r] \in Nat
      BY <1>4 DEF TypeOK
    <2>2. /\ now' = now
          /\ reserve' = [reserve EXCEPT ![r] =
               with_new_rates(r, update_state(reserve[r]),
                              total_supply_scaled[r], total_debt_scaled'[r])]
      BY DEF Borrow, environment
    <2> QED
      BY <2>1, <2>2, AccruedType
  <1>7. borrowing' \in [Accounts -> SUBSET Reserves]
    BY <1>1 DEF TypeOK, Borrow
  <1>8. UNCHANGED <<now, paused, price, scaled_balance, total_supply_scaled,
                    collateral, deficit>>
    BY DEF Borrow, environment
  <1> QED
    BY <1>4, <1>5, <1>6, <1>7, <1>8 DEF TypeOK

(* The reported debt, what is repaid of it, and what the debt token burns. *)
LEMMA RepayAmounts ==
  ASSUME TypeOK, NEW v \in Accounts, NEW r \in Reserves, NEW n \in Nat
  PROVE  LET rd     == update_state(reserve[r])
             debt   == owed(r, v, rd)
             amount == IF n > debt THEN debt ELSE n
             burned == debt_burned(scaled_debt[r][v], amount,
                                   rd.variable_borrow_index)
         IN  /\ debt \in Nat /\ amount \in Nat /\ burned \in Nat
             /\ ray_div_down(amount, rd.variable_borrow_index)
                  <= scaled_debt[r][v]
                => burned <= scaled_debt[r][v]
  <1> DEFINE rd     == update_state(reserve[r])
             debt   == owed(r, v, rd)
             amount == IF n > debt THEN debt ELSE n
             burned == debt_burned(scaled_debt[r][v], amount,
                                   rd.variable_borrow_index)
  <1>1. scaled_debt[r][v] \in Nat
    BY DEF TypeOK
  <1>2. debt \in Nat
    BY <1>1, AccruedIndices, RayMulType DEF owed
  <1> HIDE DEF debt
  <1>3. amount \in Nat
    BY <1>2
  <1> HIDE DEF amount
  <1>4. ray_div_down(amount, rd.variable_borrow_index) \in Nat
    BY <1>3, AccruedIndices, RayDivTypes
  <1>5. /\ burned \in Nat
        /\ ray_div_down(amount, rd.variable_borrow_index) <= scaled_debt[r][v]
             => burned <= scaled_debt[r][v]
    BY <1>1, <1>4 DEF debt_burned
  <1> QED
    BY <1>2, <1>3, <1>5 DEF debt, amount

LEMMA RepayType ==
  ASSUME TypeOK, NEW u \in Users, NEW v \in Users, NEW r \in Reserves,
         NEW n \in Nat, Repay(u, v, r, n)
  PROVE  TypeOK'
  <1> DEFINE rd     == update_state(reserve[r])
             debt   == owed(r, v, rd)
             amount == IF n > debt THEN debt ELSE n
             burned == debt_burned(scaled_debt[r][v], amount,
                                   rd.variable_borrow_index)
  <1>1. u \in Accounts /\ v \in Accounts
    BY UserIsAccount
  <1>2. /\ ray_div_down(amount, rd.variable_borrow_index) <= scaled_debt[r][v]
        /\ DebtBurn(r, v, burned)
        /\ amount <= wallet[r][u]
    BY DEF Repay
  <1>3. amount \in Nat /\ burned \in Nat /\ burned <= scaled_debt[r][v]
    BY <1>1, <1>2, RepayAmounts
  <1>4. /\ scaled_debt' \in [Reserves -> [Accounts -> Nat]]
        /\ total_debt_scaled' \in [Reserves -> Nat]
    <2> HIDE DEF burned
    <2> QED
      BY <1>1, <1>2, <1>3, DebtBurnType
  <1>5. /\ wallet' \in [Reserves -> [Accounts -> Nat]]
        /\ cash' \in [Reserves -> Nat]
    <2>1. /\ wallet' = [wallet EXCEPT ![r][u] = wallet[r][u] - amount]
          /\ cash' = [cash EXCEPT ![r] = cash[r] + amount]
      BY DEF Repay
    <2> HIDE DEF amount
    <2>2. wallet[r][u] - amount \in Nat /\ cash[r] + amount \in Nat
      BY <1>1, <1>2, <1>3 DEF TypeOK
    <2> QED
      BY <1>1, <2>1, <2>2, FundsType
  <1>6. /\ reserve' \in [Reserves -> ReserveData]
        /\ \A q \in Reserves : reserve'[q].last_update_timestamp <= now'
    <2>1. total_supply_scaled[r] \in Nat /\ total_debt_scaled'[r] \in Nat
      BY <1>4 DEF TypeOK
    <2>2. /\ now' = now
          /\ reserve' = [reserve EXCEPT ![r] =
               with_new_rates(r, update_state(reserve[r]),
                              total_supply_scaled[r], total_debt_scaled'[r])]
      BY DEF Repay, environment
    <2> QED
      BY <2>1, <2>2, AccruedType
  <1>7. borrowing' \in [Accounts -> SUBSET Reserves]
    BY <1>1 DEF TypeOK, Repay
  <1>8. UNCHANGED <<now, paused, price, scaled_balance, total_supply_scaled,
                    collateral, deficit>>
    BY DEF Repay, environment
  <1> QED
    BY <1>4, <1>5, <1>6, <1>7, <1>8 DEF TypeOK

LEMMA SwitchCollateralType ==
  ASSUME TypeOK, NEW u \in Users, NEW r \in Reserves,
         EnableCollateral(u, r) \/ DisableCollateral(u, r)
  PROVE  TypeOK'
  <1>1. u \in Accounts
    BY UserIsAccount
  <1>2. collateral' \in [Accounts -> SUBSET Reserves]
    <2>1. \E flags \in SUBSET Reserves :
            collateral' = [collateral EXCEPT ![u] = flags]
      <3>1. /\ collateral[u] \union {r} \in SUBSET Reserves
            /\ collateral[u] \ {r} \in SUBSET Reserves
        BY <1>1 DEF TypeOK
      <3>2. \/ collateral' = [collateral EXCEPT ![u] = collateral[u] \union {r}]
            \/ collateral' = [collateral EXCEPT ![u] = collateral[u] \ {r}]
        BY DEF EnableCollateral, DisableCollateral
      <3> QED
        BY <3>1, <3>2
    <2> QED
      BY <1>1, <2>1 DEF TypeOK
  <1>3. UNCHANGED <<now, paused, price, reserve, cash, wallet, scaled_balance,
                    total_supply_scaled, scaled_debt, total_debt_scaled,
                    borrowing, deficit>>
    BY DEF EnableCollateral, DisableCollateral, environment, funds, tokens
  <1> QED
    BY <1>2, <1>3 DEF TypeOK

LEMMA TransferATokenType ==
  ASSUME TypeOK, NEW u \in Users, NEW v \in Users, NEW r \in Reserves,
         NEW n \in Nat, TransferAToken(u, v, r, n)
  PROVE  TypeOK'
  <1> DEFINE moved == ray_div_up(n, update_state(reserve[r]).liquidity_index)
  <1>1. u \in Accounts /\ v \in Accounts
    BY UserIsAccount
  <1>2. moved \in Nat
    BY AccruedIndices, RayDivTypes
  <1>3. /\ u # v /\ moved <= scaled_balance[r][u]
        /\ scaled_balance' = [scaled_balance EXCEPT ![r][u] = @ - moved,
                                                    ![r][v] = @ + moved]
    BY DEF TransferAToken, current_liquidity_index
  <1>4. scaled_balance' \in [Reserves -> [Accounts -> Nat]]
    <2> HIDE DEF moved
    <2>1. /\ scaled_balance[r][u] - moved \in Nat
          /\ scaled_balance[r][v] + moved \in Nat
      BY <1>1, <1>2, <1>3 DEF TypeOK
    <2> QED
      BY <1>1, <1>3, <2>1 DEF TypeOK
  <1>5. collateral' \in [Accounts -> SUBSET Reserves]
    BY <1>1 DEF TypeOK, TransferAToken
  <1>6. UNCHANGED <<now, paused, price, reserve, cash, wallet,
                    total_supply_scaled, scaled_debt, total_debt_scaled,
                    borrowing, deficit>>
    BY DEF TransferAToken, environment, funds
  <1> QED
    BY <1>4, <1>5, <1>6 DEF TypeOK

LEMMA UpdateReserveStateType ==
  ASSUME TypeOK, NEW r \in Reserves, UpdateReserveState(r)
  PROVE  TypeOK'
  <1>1. /\ now' = now
        /\ reserve' = [reserve EXCEPT ![r] = update_state(reserve[r])]
    BY DEF UpdateReserveState, environment
  <1>2. update_state(reserve[r]).last_update_timestamp <= now
    BY UpdateStateType DEF TypeOK
  <1>3. /\ reserve' \in [Reserves -> ReserveData]
        /\ \A q \in Reserves : reserve'[q].last_update_timestamp <= now'
    BY <1>1, <1>2, UpdateStateType, StoreReserveType
  <1>4. UNCHANGED <<now, paused, price, cash, wallet, scaled_balance,
                    total_supply_scaled, scaled_debt, total_debt_scaled,
                    collateral, borrowing, deficit>>
    BY DEF UpdateReserveState, environment, funds, tokens, bitmaps
  <1> QED
    BY <1>3, <1>4 DEF TypeOK

LEMMA CollectProtocolReservesType ==
  ASSUME TypeOK, NEW r \in Reserves, CollectProtocolReserves(r)
  PROVE  TypeOK'
  <1> DEFINE rd     == update_state(reserve[r])
             supply == total_supply(r, rd)
             debt   == total_debt(r, rd)
             collectible == protocol_reserves(r, rd)
  <1>1. Treasury \in Accounts
    BY DEF Accounts
  <1>2. supply \in Nat /\ debt \in Nat
    BY AccruedIndices, RayMulType DEF TypeOK, total_supply, total_debt
  <1>3. debt <= supply
    BY DEF CollectProtocolReserves
  <1>4. collectible \in Nat /\ collectible <= cash[r]
    <2>1. supply - debt \in Nat /\ cash[r] \in Nat /\ deficit[r] \in Nat
      BY <1>2, <1>3 DEF TypeOK
    <2> QED
      BY <2>1 DEF protocol_reserves, saturating_sub
  <1>5. /\ wallet' = [wallet EXCEPT ![r][Treasury]
                                    = wallet[r][Treasury] + collectible]
        /\ cash' = [cash EXCEPT ![r] = cash[r] - collectible]
        /\ now' = now
        /\ reserve' = [reserve EXCEPT ![r] = rd]
    BY DEF CollectProtocolReserves, environment
  <1>6. /\ wallet' \in [Reserves -> [Accounts -> Nat]]
        /\ cash' \in [Reserves -> Nat]
    <2> HIDE DEF collectible
    <2>1. /\ wallet[r][Treasury] + collectible \in Nat
          /\ cash[r] - collectible \in Nat
      BY <1>1, <1>4 DEF TypeOK
    <2> QED
      BY <1>1, <1>5, <2>1, FundsType
  <1>7. /\ reserve' \in [Reserves -> ReserveData]
        /\ \A q \in Reserves : reserve'[q].last_update_timestamp <= now'
    <2>1. rd.last_update_timestamp <= now
      BY UpdateStateType DEF TypeOK
    <2> QED
      BY <1>5, <2>1, UpdateStateType, StoreReserveType
  <1>8. UNCHANGED <<now, paused, price, scaled_balance, total_supply_scaled,
                    scaled_debt, total_debt_scaled, collateral, borrowing,
                    deficit>>
    BY DEF CollectProtocolReserves, environment, tokens, bitmaps
  <1> QED
    BY <1>6, <1>7, <1>8 DEF TypeOK

LEMMA CoverDeficitType ==
  ASSUME TypeOK, NEW u \in Users, NEW r \in Reserves, NEW n \in Nat,
         CoverDeficit(u, r, n)
  PROVE  TypeOK'
  <1> DEFINE cover == IF n > deficit[r] THEN deficit[r] ELSE n
  <1>1. u \in Accounts
    BY UserIsAccount
  <1>2. cover \in Nat /\ cover <= deficit[r] /\ cover <= wallet[r][u]
    BY DEF TypeOK, CoverDeficit
  <1>3. /\ wallet' = [wallet EXCEPT ![r][u] = wallet[r][u] - cover]
        /\ cash' = [cash EXCEPT ![r] = cash[r] + cover]
        /\ deficit' = [deficit EXCEPT ![r] = deficit[r] - cover]
    BY DEF CoverDeficit
  <1> HIDE DEF cover
  <1>4. /\ wallet[r][u] - cover \in Nat /\ cash[r] + cover \in Nat
        /\ deficit[r] - cover \in Nat
    BY <1>1, <1>2 DEF TypeOK
  <1>5. /\ wallet' \in [Reserves -> [Accounts -> Nat]]
        /\ cash' \in [Reserves -> Nat]
    BY <1>1, <1>3, <1>4, FundsType
  <1>6. deficit' \in [Reserves -> Nat]
    BY <1>3, <1>4 DEF TypeOK
  <1>7. UNCHANGED <<now, paused, price, reserve, scaled_balance,
                    total_supply_scaled, scaled_debt, total_debt_scaled,
                    collateral, borrowing>>
    BY DEF CoverDeficit, environment, tokens, bitmaps
  <1> QED
    BY <1>5, <1>6, <1>7 DEF TypeOK

LEMMA AdministrationType ==
  ASSUME TypeOK, Administration
  PROVE  TypeOK'
  <1>1. ASSUME NEW r \in Reserves, NEW c \in Configurations[r],
               UpdateReserveConfiguration(r, c)
        PROVE  TypeOK'
    <2> DEFINE rd == [reserve[r] EXCEPT !.configuration = c]
    <2>1. c \in ValidConfiguration
      BY PoolAssumption
    <2>2. rd \in ReserveData /\ rd.last_update_timestamp <= now
      <3>1. /\ reserve[r] \in ReserveData
            /\ reserve[r].last_update_timestamp <= now
        BY DEF TypeOK
      <3> QED
        BY <2>1, <3>1 DEF ReserveData
    <2>3. /\ reserve' = [reserve EXCEPT ![r] = rd]
          /\ now' = now
      BY <1>1 DEF UpdateReserveConfiguration, environment, TypeOK
    <2> HIDE DEF rd
    <2>4. /\ reserve' \in [Reserves -> ReserveData]
          /\ \A q \in Reserves : reserve'[q].last_update_timestamp <= now'
      BY <2>2, <2>3, StoreReserveType
    <2>5. UNCHANGED <<now, paused, price, cash, wallet, scaled_balance,
                      total_supply_scaled, scaled_debt, total_debt_scaled,
                      collateral, borrowing, deficit>>
      BY <1>1 DEF UpdateReserveConfiguration, environment, funds, tokens,
                  bitmaps
    <2> QED
      BY <2>4, <2>5 DEF TypeOK
  <1>2. ASSUME NEW p \in PauseValues, SetPaused(p)
        PROVE  TypeOK'
    BY <1>2, PoolAssumption
    DEF TypeOK, SetPaused, funds, tokens, bitmaps
  <1> QED
    BY <1>1, <1>2 DEF Administration

LEMMA EnvironmentType ==
  ASSUME TypeOK, Environment
  PROVE  TypeOK'
  <1>1. ASSUME Tick
        PROVE  TypeOK'
    <2>1. /\ now' \in Nat
          /\ \A r \in Reserves : reserve[r].last_update_timestamp <= now'
      BY <1>1 DEF TypeOK, Tick, ReserveData
    <2>2. UNCHANGED <<paused, price, reserve, cash, wallet, scaled_balance,
                      total_supply_scaled, scaled_debt, total_debt_scaled,
                      collateral, borrowing, deficit>>
      BY <1>1 DEF Tick, funds, tokens, bitmaps
    <2> QED
      BY <2>1, <2>2 DEF TypeOK
  <1>2. ASSUME NEW r \in Reserves, NEW p \in Prices[r], PriceChange(r, p)
        PROVE  TypeOK'
    <2>1. p \in Nat
      BY PoolAssumption
    <2>2. price' \in [Reserves -> Nat]
      BY <1>2, <2>1 DEF TypeOK, PriceChange
    <2>3. UNCHANGED <<now, paused, reserve, cash, wallet, scaled_balance,
                      total_supply_scaled, scaled_debt, total_debt_scaled,
                      collateral, borrowing, deficit>>
      BY <1>2 DEF PriceChange, funds, tokens, bitmaps
    <2> QED
      BY <2>2, <2>3 DEF TypeOK
  <1> QED
    BY <1>1, <1>2 DEF Environment

LEMMA InitType ==
  ASSUME Init
  PROVE  TypeOK
  <1>1. price \in [Reserves -> Nat]
    <2> DEFINE sets == [r \in Reserves |-> Prices[r] \ {0}]
    <2>1. /\ price \in [Reserves -> UNION {sets[r] : r \in Reserves}]
          /\ \A r \in Reserves : price[r] \in sets[r]
      BY DEF Init, choices
    <2>2. \A r \in Reserves : price[r] \in Nat
      BY <2>1, PoolAssumption
    <2> QED
      BY <2>1, <2>2
  <1>2. /\ reserve \in [Reserves -> ReserveData]
        /\ \A r \in Reserves : reserve[r].last_update_timestamp = 0
    <2>1. PICK configuration \in choices(Configurations) :
            reserve = [r \in Reserves |->
              [configuration |-> configuration[r],
               liquidity_index |-> RAY, variable_borrow_index |-> RAY,
               current_liquidity_rate |-> 0,
               current_variable_borrow_rate |-> 0,
               last_update_timestamp |-> 0]]
      BY DEF Init
    <2>2. \A r \in Reserves : configuration[r] \in ValidConfiguration
      BY PoolAssumption DEF choices
    <2>3. RAY \in Index
      BY ScaleAssumption DEF Index
    <2> QED
      BY <2>1, <2>2, <2>3 DEF ReserveData
  <1>3. wallet \in [Reserves -> [Accounts -> Nat]]
    BY PoolAssumption DEF Init, Accounts
  <1>4. /\ now \in Nat /\ now = 0
        /\ paused \in BOOLEAN
        /\ cash \in [Reserves -> Nat]
        /\ scaled_balance \in [Reserves -> [Accounts -> Nat]]
        /\ total_supply_scaled \in [Reserves -> Nat]
        /\ scaled_debt \in [Reserves -> [Accounts -> Nat]]
        /\ total_debt_scaled \in [Reserves -> Nat]
        /\ collateral \in [Accounts -> SUBSET Reserves]
        /\ borrowing \in [Accounts -> SUBSET Reserves]
        /\ deficit \in [Reserves -> Nat]
    BY DEF Init
  <1> QED
    BY <1>1, <1>2, <1>3, <1>4 DEF TypeOK

(* The amounts a call may pass, the sentinel included, are naturals.       *)
LEMMA AmountsNat == Amounts \union {U128_MAX} \subseteq Nat
  BY PoolAssumption

LEMMA NextType ==
  ASSUME TypeOK, [Next]_vars
  PROVE  TypeOK'
  <1>1. ASSUME UserOperation
        PROVE  TypeOK'
    BY <1>1, AmountsNat, SupplyType, WithdrawType, BorrowType, RepayType,
       TransferATokenType, SwitchCollateralType DEF UserOperation
  <1>2. ASSUME PoolMaintenance
        PROVE  TypeOK'
    BY <1>2, AmountsNat, UpdateReserveStateType, CollectProtocolReservesType,
       CoverDeficitType DEF PoolMaintenance
  <1>3. ASSUME UNCHANGED vars
        PROVE  TypeOK'
    BY <1>3 DEF TypeOK, vars, environment, funds, tokens, bitmaps
  <1> QED
    BY <1>1, <1>2, <1>3, AdministrationType, EnvironmentType DEF Next

(* Every state of the pool is well typed: no balance, total, cash or       *)
(* deficit is ever driven below zero by the token contracts' subtractions  *)
(* and the router's, no index falls below RAY, and no reserve is accrued   *)
(* beyond the present (operations.rs, a-token and debt-token contract.rs,  *)
(* calculation.rs, treasury.rs).                                           *)
THEOREM TypeCorrect == Spec => []TypeOK
  <1>1. Init => TypeOK
    BY InitType
  <1>2. TypeOK /\ [Next]_vars => TypeOK'
    BY NextType
  <1> QED
    BY <1>1, <1>2, PTL DEF Spec

-----------------------------------------------------------------------------
(* In every well-typed state the debt token accepts the repayment of the   *)
(* whole reported debt and burns everything, whatever the index, by the    *)
(* round trip of the balance and the dust rule.                            *)
LEMMA FullRepay ==
  ASSUME TypeOK
  PROVE  FullRepayClearsDebt
  <1> SUFFICES ASSUME NEW r \in Reserves, NEW a \in Accounts,
                      scaled_debt[r][a] > 0
               PROVE  LET index == current_variable_borrow_index(reserve[r])
                          held  == scaled_debt[r][a]
                          debt  == ray_mul(held, index)
                      IN  /\ debt > 0
                          /\ ray_div_down(debt, index) <= held
                          /\ debt_burned(held, debt, index) = held
    BY DEF FullRepayClearsDebt
  <1> DEFINE index == current_variable_borrow_index(reserve[r])
             held  == scaled_debt[r][a]
             debt  == ray_mul(held, index)
             floor == ray_div_down(debt, index)
  <1>1. held \in Nat /\ index \in Nat /\ index >= RAY
    BY AccruedIndices DEF TypeOK, current_variable_borrow_index
  <1> HIDE DEF index, held
  <1>2. held > 0
    BY DEF held
  <1>3. /\ debt > 0 /\ floor \in Nat
        /\ floor <= held /\ held - 1 <= floor
    BY <1>1, <1>2, RoundTrip
  <1>4. held - floor <= 1
    BY <1>1, <1>3
  <1>5. debt_burned(held, debt, index) = held
    BY <1>4 DEF debt_burned
  <1> QED
    BY <1>3, <1>5 DEF index, held

(* Repaying the reported debt in full never leaves scaled debt behind, for *)
(* any index, amount and scale (debt-token contract.rs, burn_scaled).      *)
THEOREM FullRepayAlwaysClears == Spec => []FullRepayClearsDebt
  <1>1. TypeOK => FullRepayClearsDebt
    BY FullRepay
  <1> QED
    BY <1>1, TypeCorrect, PTL

-----------------------------------------------------------------------------
(* Borrowing sets the bit of the reserve it adds debt to.                  *)
LEMMA BorrowFlags ==
  ASSUME TypeOK, DebtIsFlagged, NEW u \in Users, NEW v \in Users,
         NEW r \in Reserves, NEW n \in Nat, Borrow(u, v, r, n)
  PROVE  DebtIsFlagged'
  <1>1. v \in Accounts
    BY UserIsAccount
  <1>2. \A q \in Reserves, a \in Accounts :
          q # r \/ a # v => scaled_debt'[q][a] = scaled_debt[q][a]
    BY <1>1 DEF TypeOK, Borrow, DebtMint
  <1>3. /\ \A a \in Accounts : borrowing[a] \subseteq borrowing'[a]
        /\ r \in borrowing'[v]
    BY <1>1 DEF TypeOK, Borrow
  <1> SUFFICES ASSUME NEW q \in Reserves, NEW a \in Accounts,
                      scaled_debt'[q][a] > 0
               PROVE  q \in borrowing'[a]
    BY DEF DebtIsFlagged
  <1>4. CASE q = r /\ a = v
    BY <1>3, <1>4
  <1>5. CASE q # r \/ a # v
    BY <1>2, <1>3, <1>5 DEF DebtIsFlagged
  <1> QED
    BY <1>4, <1>5

(* Repaying clears the bit exactly when the debt token burns everything.   *)
LEMMA RepayFlags ==
  ASSUME TypeOK, DebtIsFlagged, NEW u \in Users, NEW v \in Users,
         NEW r \in Reserves, NEW n \in Nat, Repay(u, v, r, n)
  PROVE  DebtIsFlagged'
  <1> DEFINE rd     == update_state(reserve[r])
             debt   == owed(r, v, rd)
             amount == IF n > debt THEN debt ELSE n
             burned == debt_burned(scaled_debt[r][v], amount,
                                   rd.variable_borrow_index)
  <1>1. v \in Accounts
    BY UserIsAccount
  <1>2. /\ ray_div_down(amount, rd.variable_borrow_index) <= scaled_debt[r][v]
        /\ scaled_debt' = [scaled_debt EXCEPT ![r][v] = @ - burned]
        /\ borrowing' = IF amount = debt
                        THEN [borrowing EXCEPT ![v] = @ \ {r}]
                        ELSE borrowing
    BY DEF Repay, DebtBurn
  <1>3. burned \in Nat /\ scaled_debt[r][v] \in Nat
    BY <1>1, RepayAmounts DEF TypeOK
  <1>4. amount = debt /\ scaled_debt[r][v] > 0 => burned = scaled_debt[r][v]
    BY <1>1, FullRepay
    DEF FullRepayClearsDebt, owed, current_variable_borrow_index
  <1> HIDE DEF debt, amount, burned
  <1>5. /\ scaled_debt'[r][v] = scaled_debt[r][v] - burned
        /\ \A q \in Reserves, a \in Accounts :
             q # r \/ a # v => scaled_debt'[q][a] = scaled_debt[q][a]
    BY <1>1, <1>2 DEF TypeOK
  <1>6. \A q \in Reserves, a \in Accounts :
          q \in borrowing[a] =>
            q \in borrowing'[a] \/ (q = r /\ a = v /\ amount = debt)
    BY <1>1, <1>2 DEF TypeOK
  <1> SUFFICES ASSUME NEW q \in Reserves, NEW a \in Accounts,
                      scaled_debt'[q][a] > 0
               PROVE  q \in borrowing'[a]
    BY DEF DebtIsFlagged
  <1>7. CASE q = r /\ a = v
    <2>1. scaled_debt[r][v] > 0 /\ burned # scaled_debt[r][v]
      BY <1>3, <1>5, <1>7
    <2>2. amount # debt
      BY <1>4, <2>1
    <2>3. r \in borrowing[v]
      BY <1>1, <2>1 DEF DebtIsFlagged
    <2> QED
      BY <1>1, <1>6, <1>7, <2>2, <2>3
  <1>8. CASE q # r \/ a # v
    BY <1>5, <1>6, <1>8 DEF DebtIsFlagged
  <1> QED
    BY <1>7, <1>8

(* No other action touches scaled debt or the borrowing bits.              *)
LEMMA DebtUntouched ==
  ASSUME DebtIsFlagged, UNCHANGED <<scaled_debt, borrowing>>
  PROVE  DebtIsFlagged'
  BY DEF DebtIsFlagged

LEMMA NextFlags ==
  ASSUME TypeOK, DebtIsFlagged, [Next]_vars
  PROVE  DebtIsFlagged'
  <1>1. ASSUME NEW r \in Reserves, NEW u \in Users, NEW v \in Users,
               NEW n \in Nat,
               \/ Supply(u, v, r, n) \/ Withdraw(u, v, r, n)
               \/ TransferAToken(u, v, r, n)
               \/ EnableCollateral(u, r) \/ DisableCollateral(u, r)
        PROVE  DebtIsFlagged'
    <2>1. UNCHANGED <<scaled_debt, borrowing>>
      BY <1>1 DEF Supply, Withdraw, TransferAToken, EnableCollateral,
                  DisableCollateral, tokens
    <2> QED
      BY <2>1, DebtUntouched
  <1>2. ASSUME UserOperation
        PROVE  DebtIsFlagged'
    <2>1. \A n \in Amounts \union {U128_MAX} : n \in Nat
      BY AmountsNat
    <2> QED
      BY <1>1, <1>2, <2>1, 0 \in Nat, BorrowFlags, RepayFlags
      DEF UserOperation
  <1>3. ASSUME PoolMaintenance
        PROVE  DebtIsFlagged'
    <2>1. UNCHANGED <<scaled_debt, borrowing>>
      BY <1>3 DEF PoolMaintenance, UpdateReserveState,
         CollectProtocolReserves, CoverDeficit, tokens, bitmaps
    <2> QED
      BY <2>1, DebtUntouched
  <1>4. ASSUME Administration \/ Environment
        PROVE  DebtIsFlagged'
    <2>1. UNCHANGED <<scaled_debt, borrowing>>
      BY <1>4 DEF Administration, Environment, UpdateReserveConfiguration,
         SetPaused, Tick, PriceChange, tokens, bitmaps
    <2> QED
      BY <2>1, DebtUntouched
  <1>5. ASSUME UNCHANGED vars
        PROVE  DebtIsFlagged'
    BY <1>5, DebtUntouched DEF vars, tokens, bitmaps
  <1> QED
    BY <1>2, <1>3, <1>4, <1>5 DEF Next

(* Without liquidations, whoever owes anything has the borrowing bit of    *)
(* the reserve set, so no debt escapes a health factor (operations.rs,     *)
(* borrow and repay, with the debt token's rounding).                      *)
THEOREM DebtAlwaysFlagged == Spec => []DebtIsFlagged
  <1> DEFINE Inv == TypeOK /\ DebtIsFlagged
  <1>1. Init => Inv
    <2>1. ASSUME Init
          PROVE  DebtIsFlagged
      BY <2>1 DEF Init, DebtIsFlagged
    <2> QED
      BY <2>1, InitType
  <1>2. Inv /\ [Next]_vars => Inv'
    BY NextType, NextFlags
  <1>3. Inv => DebtIsFlagged
    OBVIOUS
  <1> QED
    BY <1>1, <1>2, <1>3, PTL DEF Spec

-----------------------------------------------------------------------------
(* What a handler stores keeps the accrued indices and the configuration.  *)
LEMMA StoredIndices ==
  ASSUME TypeOK, NEW r \in Reserves, NEW a \in Nat, NEW d \in Nat,
         reserve' = [reserve EXCEPT ![r] =
                       with_new_rates(r, update_state(reserve[r]), a, d)]
  PROVE  /\ reserve'[r].liquidity_index
              = update_state(reserve[r]).liquidity_index
         /\ reserve'[r].variable_borrow_index
              = update_state(reserve[r]).variable_borrow_index
         /\ reserve'[r].configuration = update_state(reserve[r]).configuration
  <1> DEFINE rd == update_state(reserve[r])
  <1>1. rd \in ReserveData /\ reserve \in [Reserves -> ReserveData]
    BY UpdateStateType DEF TypeOK
  <1> HIDE DEF rd
  <1>2. /\ with_new_rates(r, rd, a, d).liquidity_index = rd.liquidity_index
        /\ with_new_rates(r, rd, a, d).variable_borrow_index
             = rd.variable_borrow_index
        /\ with_new_rates(r, rd, a, d).configuration = rd.configuration
    BY <1>1 DEF with_new_rates, ReserveData
  <1>3. reserve'[r] = with_new_rates(r, rd, a, d)
    BY <1>1 DEF rd
  <1> QED
    BY <1>2, <1>3 DEF rd

(* A cap that admits a total admits every smaller one.                     *)
LEMMA WithinSmaller ==
  ASSUME NEW c \in ReserveConfiguration, NEW cap \in Nat,
         NEW x \in Nat, NEW y \in Nat, x <= y, within(cap, c, y)
  PROVE  within(cap, c, x)
  <1>1. cap * c.decimals_pow \in Nat
    BY ProductNat DEF ReserveConfiguration
  <1> QED
    BY <1>1 DEF within

(* Minting rounds down: the new shares are worth at most the amount that   *)
(* the cap was checked with.                                               *)
LEMMA SupplyStaysWithin ==
  ASSUME TypeOK, NEW u \in Users, NEW v \in Users, NEW r \in Reserves,
         NEW n \in Nat, Supply(u, v, r, n)
  PROVE  SupplyWithinCap(r)'
  <1> DEFINE rd     == update_state(reserve[r])
             index  == rd.liquidity_index
             minted == ray_div_down(n, index)
             total  == total_supply_scaled[r]
  <1>1. /\ index \in Nat /\ index > 0 /\ RAY \in Nat
        /\ rd.configuration \in ReserveConfiguration
        /\ total \in Nat /\ v \in Accounts
    BY AccruedIndices, UpdateStateType, UserIsAccount, ScaleAssumption
    DEF TypeOK, ReserveData, ValidConfiguration
  <1>2. /\ ATokenMint(r, v, minted) /\ supply_cap_ok(r, n, rd)
        /\ reserve' = [reserve EXCEPT ![r] = with_new_rates(r, rd,
                         total_supply_scaled'[r], total_debt_scaled[r])]
    BY DEF Supply
  <1>3. minted \in Nat /\ minted * index <= n * RAY
    <2>1. n * RAY \in Nat
      BY <1>1, ProductNat
    <2> HIDE DEF index
    <2> QED
      BY <1>1, <2>1, DivBounds DEF ray_div_down
  <1> HIDE DEF minted
  <1>4. total_supply_scaled'[r] = total + minted
    BY <1>2 DEF TypeOK, ATokenMint
  <1>5. /\ reserve'[r].liquidity_index = index
        /\ reserve'[r].configuration = rd.configuration
    <2>1. total_supply_scaled'[r] \in Nat /\ total_debt_scaled[r] \in Nat
      BY <1>1, <1>3, <1>4 DEF TypeOK
    <2> QED
      BY <1>2, <2>1, StoredIndices
  <1>6. ray_mul(total + minted, index) <= ray_mul(total, index) + n
    <2> HIDE DEF index, total
    <2> QED
      BY <1>1, <1>3, RayMulAdds
  <1>7. ray_mul(total, index) \in Nat /\ ray_mul(total + minted, index) \in Nat
    <2> HIDE DEF index, total
    <2>1. total + minted \in Nat
      BY <1>1, <1>3
    <2> QED
      BY <1>1, <1>3, <2>1, RayMulType
  <1>8. within(rd.configuration.supply_cap, rd.configuration,
               ray_mul(total, index) + n)
    BY <1>2 DEF supply_cap_ok, total_supply
  <1>9. rd.configuration.supply_cap \in Nat
    BY <1>1 DEF ReserveConfiguration
  <1> HIDE DEF index, total, rd
  <1>10. within(rd.configuration.supply_cap, rd.configuration,
                ray_mul(total + minted, index))
    BY <1>1, <1>6, <1>7, <1>8, <1>9, WithinSmaller
  <1> QED
    BY <1>4, <1>5, <1>10 DEF SupplyWithinCap, total_supply

(* Minting debt rounds up by less than one scaled unit, so all but that    *)
(* unit is worth at most the amount the caps were checked with.            *)
LEMMA DebtStaysWithin ==
  ASSUME TypeOK, NEW u \in Users, NEW v \in Users, NEW r \in Reserves,
         NEW n \in Nat, Borrow(u, v, r, n)
  PROVE  DebtWithinCaps(r)'
  <1> DEFINE rd     == update_state(reserve[r])
             c      == rd.configuration
             index  == rd.variable_borrow_index
             minted == ray_div_up(n, index)
             total  == total_debt_scaled[r]
  <1>1. /\ index \in Nat /\ index > 0 /\ RAY \in Nat /\ RAY > 0
        /\ c \in ReserveConfiguration
        /\ total \in Nat /\ v \in Accounts /\ n > 0
    BY AccruedIndices, UpdateStateType, UserIsAccount, ScaleAssumption
    DEF TypeOK, ReserveData, ValidConfiguration, Borrow, validate_borrow,
        validate_supply
  <1>2. /\ DebtMint(r, v, minted) /\ borrow_cap_ok(r, n, rd)
        /\ reserve' = [reserve EXCEPT ![r] = with_new_rates(r, rd,
                         total_supply_scaled[r], total_debt_scaled'[r])]
    BY DEF Borrow
  <1>3. /\ minted \in Nat /\ minted > 0
        /\ (minted - 1) * index <= n * RAY
    <2> DEFINE a == n * RAY + index - 1
    <2>1. n * RAY \in Nat /\ n * RAY > 0
      BY <1>1, SMT
    <2> HIDE DEF index
    <2>2. a \in Nat /\ index <= a
      BY <1>1, <2>1
    <2>3. minted = a \div index
      BY DEF ray_div_up
    <2> HIDE DEF a, minted
    <2>4. minted \in Nat /\ minted * index <= a
      BY <1>1, <2>2, <2>3, DivBounds
    <2>5. 1 <= minted
      BY <1>1, <2>2, <2>3, DivAtLeast
    <2>6. (minted - 1) * index = minted * index - index
      BY <1>1, <2>4, SMT
    <2>7. (minted - 1) * index <= n * RAY
      <3>1. minted * index \in Nat
        BY <1>1, <2>4, ProductNat
      <3> QED
        BY <1>1, <2>1, <2>4, <2>6, <3>1 DEF a
    <2> QED
      BY <2>4, <2>5, <2>7
  <1> HIDE DEF minted
  <1> DEFINE most == minted - 1
  <1>4. /\ total_debt_scaled'[r] = total + minted
        /\ saturating_sub(total_debt_scaled'[r], 1) = total + most
        /\ most \in Nat
    <2>1. total_debt_scaled'[r] = total_debt_scaled[r] + minted
      BY <1>1, <1>2 DEF TypeOK, DebtMint
    <2> QED
      BY <1>1, <1>3, <2>1 DEF saturating_sub
  <1>5. /\ reserve'[r].variable_borrow_index = index
        /\ reserve'[r].configuration = c
    <2>1. total_debt_scaled'[r] \in Nat /\ total_supply_scaled[r] \in Nat
      BY <1>1, <1>3, <1>4 DEF TypeOK
    <2> QED
      BY <1>2, <2>1, StoredIndices
  <1>6. /\ ray_mul(total + most, index) <= ray_mul(total, index) + n
        /\ ray_mul(total, index) \in Nat
        /\ ray_mul(total + most, index) \in Nat
    <2>1. most * index <= n * RAY
      BY <1>3
    <2> HIDE DEF index, total, most
    <2>2. most \in Nat /\ total + most \in Nat
      BY <1>1, <1>4
    <2>3. ray_mul(total + most, index) <= ray_mul(total, index) + n
      BY <1>1, <2>1, <2>2, RayMulAdds
    <2> QED
      BY <1>1, <2>2, <2>3, RayMulType
  <1>7. /\ within(c.borrow_cap, c, ray_mul(total, index) + n)
        /\ within(c.debt_ceiling, c, ray_mul(total, index) + n)
    BY <1>2 DEF borrow_cap_ok, total_debt
  <1>8. c.borrow_cap \in Nat /\ c.debt_ceiling \in Nat
    BY <1>1 DEF ReserveConfiguration
  <1> HIDE DEF index, total, rd, c, most
  <1>9. /\ within(c.borrow_cap, c, ray_mul(total + most, index))
        /\ within(c.debt_ceiling, c, ray_mul(total + most, index))
    BY <1>1, <1>6, <1>7, <1>8, WithinSmaller
  <1> QED
    BY <1>4, <1>5, <1>9 DEF DebtWithinCaps

(* A withdrawal burns shares the caller has.                               *)
LEMMA WithdrawnShares ==
  ASSUME TypeOK, NEW u \in Users, NEW v \in Users, NEW r \in Reserves,
         NEW n \in Nat, Withdraw(u, v, r, n)
  PROVE  \E burned \in Nat : /\ burned <= scaled_balance[r][u]
                             /\ ATokenBurn(r, u, burned)
  <1> DEFINE rd      == update_state(reserve[r])
             balance == supplied(r, u, rd)
             amount  == IF n = U128_MAX THEN balance ELSE n
             burned  == a_token_burned(r, u, amount, rd.liquidity_index)
  <1>1. scaled_balance[r][u] \in Nat
    BY UserIsAccount DEF TypeOK
  <1>2. balance \in Nat
    BY <1>1, AccruedIndices, RayMulType DEF supplied
  <1>3. amount \in Nat
    BY <1>2
  <1>4. burned \in Nat /\ burned <= scaled_balance[r][u]
    <2> HIDE DEF amount
    <2>1. ray_div_up(amount, rd.liquidity_index) \in Nat
      BY <1>3, AccruedIndices, RayDivTypes
    <2> QED
      BY <1>1, <2>1 DEF a_token_burned
  <1>5. ATokenBurn(r, u, burned)
    BY DEF Withdraw
  <1> HIDE DEF burned
  <1> QED
    BY <1>4, <1>5

(* Burning only lowers a total.                                            *)
LEMMA WithdrawBurns ==
  ASSUME TypeOK, NEW u \in Users, NEW v \in Users, NEW r \in Reserves,
         NEW n \in Nat, Withdraw(u, v, r, n), NEW q \in Reserves
  PROVE  /\ total_supply_scaled'[q] <= total_supply_scaled[q]
         /\ total_debt_scaled' = total_debt_scaled
  <1>1. PICK burned \in Nat : ATokenBurn(r, u, burned)
    BY WithdrawnShares
  <1>2. total_debt_scaled' = total_debt_scaled
    BY DEF Withdraw
  <1> QED
    BY <1>1, <1>2 DEF TypeOK, ATokenBurn

LEMMA RepayBurns ==
  ASSUME TypeOK, NEW u \in Users, NEW v \in Users, NEW r \in Reserves,
         NEW n \in Nat, Repay(u, v, r, n), NEW q \in Reserves
  PROVE  /\ total_supply_scaled' = total_supply_scaled
         /\ total_debt_scaled'[q] <= total_debt_scaled[q]
  <1> DEFINE rd     == update_state(reserve[r])
             debt   == owed(r, v, rd)
             amount == IF n > debt THEN debt ELSE n
             burned == debt_burned(scaled_debt[r][v], amount,
                                   rd.variable_borrow_index)
  <1>1. burned \in Nat
    BY UserIsAccount, RepayAmounts
  <1>2. DebtBurn(r, v, burned) /\ total_supply_scaled' = total_supply_scaled
    BY DEF Repay
  <1> HIDE DEF burned
  <1> QED
    BY <1>1, <1>2 DEF TypeOK, DebtBurn

(* Only a supply mints aTokens, and only a borrowing mints debt.           *)
LEMMA MintsAreWithinCaps ==
  ASSUME TypeOK, [Next]_vars, NEW r \in Reserves
  PROVE  /\ total_supply_scaled'[r] > total_supply_scaled[r] =>
              SupplyWithinCap(r)'
         /\ total_debt_scaled'[r] > total_debt_scaled[r] =>
              DebtWithinCaps(r)'
  <1> DEFINE Goal == /\ total_supply_scaled'[r] > total_supply_scaled[r] =>
                          SupplyWithinCap(r)'
                     /\ total_debt_scaled'[r] > total_debt_scaled[r] =>
                          DebtWithinCaps(r)'
  <1>1. /\ total_supply_scaled[r] \in Nat /\ total_debt_scaled[r] \in Nat
        /\ total_supply_scaled'[r] \in Nat /\ total_debt_scaled'[r] \in Nat
    BY NextType DEF TypeOK
  <1>2. ASSUME UNCHANGED <<total_supply_scaled, total_debt_scaled>>
        PROVE  Goal
    BY <1>1, <1>2
  <1>3. ASSUME NEW q \in Reserves, NEW u \in Users, NEW v \in Users,
               NEW n \in Nat, Supply(u, v, q, n)
        PROVE  Goal
    <2>1. /\ total_debt_scaled' = total_debt_scaled
          /\ r # q => total_supply_scaled'[r] = total_supply_scaled[r]
      BY <1>3 DEF Supply, ATokenMint, TypeOK
    <2>2. SupplyWithinCap(q)'
      BY <1>3, SupplyStaysWithin
    <2> QED
      BY <1>1, <2>1, <2>2
  <1>4. ASSUME NEW q \in Reserves, NEW u \in Users, NEW v \in Users,
               NEW n \in Nat, Borrow(u, v, q, n)
        PROVE  Goal
    <2>1. /\ total_supply_scaled' = total_supply_scaled
          /\ r # q => total_debt_scaled'[r] = total_debt_scaled[r]
      BY <1>4 DEF Borrow, DebtMint, TypeOK
    <2>2. DebtWithinCaps(q)'
      BY <1>4, DebtStaysWithin
    <2> QED
      BY <1>1, <2>1, <2>2
  <1>5. ASSUME NEW q \in Reserves, NEW u \in Users, NEW v \in Users,
               NEW n \in Nat, Withdraw(u, v, q, n)
        PROVE  Goal
    BY <1>1, <1>5, WithdrawBurns
  <1>6. ASSUME NEW q \in Reserves, NEW u \in Users, NEW v \in Users,
               NEW n \in Nat, Repay(u, v, q, n)
        PROVE  Goal
    BY <1>1, <1>6, RepayBurns
  <1>7. ASSUME NEW q \in Reserves, NEW u \in Users, NEW v \in Users,
               NEW n \in Nat,
               \/ TransferAToken(u, v, q, n)
               \/ EnableCollateral(u, q) \/ DisableCollateral(u, q)
        PROVE  Goal
    <2>1. UNCHANGED <<total_supply_scaled, total_debt_scaled>>
      BY <1>7 DEF TransferAToken, EnableCollateral, DisableCollateral, tokens
    <2> QED
      BY <1>2, <2>1
  <1> SUFFICES Goal
    OBVIOUS
  <1> HIDE DEF Goal
  <1>8. CASE UserOperation
    <2>1. \A n \in Amounts \union {U128_MAX} : n \in Nat
      BY AmountsNat
    <2> QED
      BY <1>3, <1>4, <1>5, <1>6, <1>7, <1>8, <2>1, 0 \in Nat
      DEF UserOperation
  <1>9. CASE \/ PoolMaintenance \/ Administration
            \/ Environment \/ UNCHANGED vars
    <2>1. UNCHANGED <<total_supply_scaled, total_debt_scaled>>
      BY <1>9 DEF PoolMaintenance, UpdateReserveState,
         CollectProtocolReserves, CoverDeficit, Administration, Environment,
         UpdateReserveConfiguration, SetPaused, Tick, PriceChange, tokens, vars
    <2> QED
      BY <1>2, <2>1
  <1> QED
    BY <1>8, <1>9 DEF Next

(* Every mint leaves the totals within the caps, measured at the accrued   *)
(* index with the tokens' own rounding, however long the reserve was idle  *)
(* and whatever was reconfigured (validation.rs, with the mints of both    *)
(* token contracts).                                                       *)
THEOREM CapsAlwaysBind == Spec => CapsBindAtAccruedIndex
  <1>1. TypeOK /\ [Next]_vars =>
          [\A r \in Reserves :
             /\ total_supply_scaled'[r] > total_supply_scaled[r] =>
                  SupplyWithinCap(r)'
             /\ total_debt_scaled'[r] > total_debt_scaled[r] =>
                  DebtWithinCaps(r)']_vars
    BY MintsAreWithinCaps
  <1> QED
    BY <1>1, TypeCorrect, PTL DEF Spec, CapsBindAtAccruedIndex

-----------------------------------------------------------------------------
(* Where the tokens round: what a burn or mint is worth in exact ray       *)
(* units, against the amount that is paid for it.                          *)
LEMMA QuotientBounds ==
  ASSUME NEW n \in Nat, NEW i \in Nat, i > 0
  PROVE  /\ ray_div_down(n, i) \in Nat /\ ray_div_up(n, i) \in Nat
         /\ ray_div_down(n, i) * i <= n * RAY
         /\ n * RAY < ray_div_down(n, i) * i + i
         /\ n * RAY <= ray_div_up(n, i) * i
  <1> DEFINE a == n * RAY
             b == a + i - 1
             up == b \div i
  <1>1. a \in Nat
    BY ProductNat, ScaleAssumption
  <1>2. ray_div_down(n, i) = a \div i /\ ray_div_up(n, i) = up
    BY DEF ray_div_down, ray_div_up
  <1> HIDE DEF a
  <1>3. b \in Nat
    BY <1>1
  <1>4. a \div i \in Nat /\ (a \div i) * i <= a /\ a < (a \div i) * i + i
    BY <1>1, DivBounds
  <1>5. up \in Nat /\ b < up * i + i
    <2> HIDE DEF b
    <2> QED
      BY <1>3, DivBounds
  <1> HIDE DEF up
  <1>6. a <= up * i
    <2>1. up * i \in Nat
      BY <1>5, ProductNat
    <2> QED
      BY <1>1, <1>5, <2>1
  <1> QED
    BY <1>2, <1>4, <1>5, <1>6 DEF a

(* A half-up product is within half a ray of the exact one.                *)
LEMMA RayMulBounds ==
  ASSUME NEW a \in Nat, NEW b \in Nat
  PROVE  /\ ray_mul(a, b) \in Nat /\ a * b \in Nat
         /\ ray_mul(a, b) * RAY <= a * b + HALF_RAY
         /\ a * b < ray_mul(a, b) * RAY + HALF_RAY
  <1>1. a * b \in Nat /\ a * b + HALF_RAY \in Nat /\ RAY \in Nat /\ RAY > 0
    BY ProductNat, HalfRay, ScaleAssumption
  <1> DEFINE x == a * b
             q == (x + HALF_RAY) \div RAY
  <1> HIDE DEF x
  <1>2. q \in Nat /\ q * RAY <= x + HALF_RAY /\ x + HALF_RAY < q * RAY + RAY
    BY <1>1, DivBounds DEF x
  <1>3. ray_mul(a, b) = q
    BY DEF ray_mul, x
  <1> HIDE DEF q
  <1>4. q * RAY \in Nat
    BY <1>1, <1>2, ProductNat
  <1>5. x < q * RAY + HALF_RAY
    BY <1>1, <1>2, <1>4, HalfRay DEF x
  <1> QED
    BY <1>1, <1>2, <1>3, <1>5 DEF x

(* How far a step moves the surplus of a reserve, at the indices it leaves *)
(* behind, from what it moves in the four quantities the surplus is of.    *)
LEMMA SurplusMoves ==
  ASSUME TypeOK, TypeOK', NEW r \in Reserves,
         NEW c \in Int, NEW d \in Int, NEW f \in Int, NEW t \in Int,
         cash'[r] = cash[r] + c,
         total_debt_scaled'[r] = total_debt_scaled[r] + d,
         deficit'[r] = deficit[r] + f,
         total_supply_scaled'[r] = total_supply_scaled[r] + t
  PROVE  LET rd == reserve'[r]
         IN  /\ surplus(r, rd) \in Int
             /\ surplus(r, reserve[r])' =
                  surplus(r, rd) + (c * RAY + d * rd.variable_borrow_index
                                     + f * RAY - t * rd.liquidity_index)
  <1> DEFINE li == reserve'[r].liquidity_index
             bi == reserve'[r].variable_borrow_index
  <1>1. /\ li \in Nat /\ bi \in Nat /\ RAY \in Nat
        /\ cash[r] \in Nat /\ total_debt_scaled[r] \in Nat
        /\ deficit[r] \in Nat /\ total_supply_scaled[r] \in Nat
    BY ScaleAssumption DEF TypeOK, ReserveData, Index
  <1> HIDE DEF li, bi
  <1>2. /\ (cash[r] + c) * RAY = cash[r] * RAY + c * RAY
        /\ (total_debt_scaled[r] + d) * bi = total_debt_scaled[r] * bi + d * bi
        /\ (deficit[r] + f) * RAY = deficit[r] * RAY + f * RAY
        /\ (total_supply_scaled[r] + t) * li
             = total_supply_scaled[r] * li + t * li
    BY <1>1, SMT
  <1>3. /\ cash[r] * RAY \in Int /\ total_debt_scaled[r] * bi \in Int
        /\ deficit[r] * RAY \in Int /\ total_supply_scaled[r] * li \in Int
        /\ c * RAY \in Int /\ d * bi \in Int /\ f * RAY \in Int
        /\ t * li \in Int
    BY <1>1, SMT
  <1>4. /\ surplus(r, reserve'[r]) =
             cash[r] * RAY + total_debt_scaled[r] * bi + deficit[r] * RAY
               - total_supply_scaled[r] * li
        /\ surplus(r, reserve[r])' =
             (cash[r] + c) * RAY + (total_debt_scaled[r] + d) * bi
               + (deficit[r] + f) * RAY - (total_supply_scaled[r] + t) * li
    BY DEF surplus, li, bi
  <1> QED
    BY <1>2, <1>3, <1>4 DEF li, bi

(* A step that leaves the four quantities alone.                           *)
LEMMA SurplusKept ==
  ASSUME TypeOK, TypeOK', NEW r \in Reserves,
         cash'[r] = cash[r], total_debt_scaled'[r] = total_debt_scaled[r],
         deficit'[r] = deficit[r],
         total_supply_scaled'[r] = total_supply_scaled[r]
  PROVE  SurplusGuarded(r)
  <1>1. /\ cash[r] \in Nat /\ total_debt_scaled[r] \in Nat
        /\ deficit[r] \in Nat /\ total_supply_scaled[r] \in Nat
        /\ RAY \in Nat /\ reserve'[r].liquidity_index \in Nat
        /\ reserve'[r].variable_borrow_index \in Nat
    BY ScaleAssumption DEF TypeOK, ReserveData, Index
  <1>2. /\ surplus(r, reserve'[r]) \in Int
        /\ surplus(r, reserve[r])' = surplus(r, reserve'[r])
             + (0 * RAY + 0 * reserve'[r].variable_borrow_index + 0 * RAY
                  - 0 * reserve'[r].liquidity_index)
    <2>1. /\ cash'[r] = cash[r] + 0
          /\ total_debt_scaled'[r] = total_debt_scaled[r] + 0
          /\ deficit'[r] = deficit[r] + 0
          /\ total_supply_scaled'[r] = total_supply_scaled[r] + 0
      BY <1>1
    <2> QED
      BY <2>1, SurplusMoves, 0 \in Int
  <1> QED
    BY <1>1, <1>2 DEF SurplusGuarded

(* Supplying: the minted shares are worth at most what was paid.           *)
LEMMA SupplyGuards ==
  ASSUME TypeOK, TypeOK', NEW u \in Users, NEW v \in Users,
         NEW r \in Reserves, NEW n \in Nat, Supply(u, v, r, n)
  PROVE  SurplusGuarded(r)
  <1> DEFINE index  == update_state(reserve[r]).liquidity_index
             minted == ray_div_down(n, index)
             bi     == reserve'[r].variable_borrow_index
  <1>1. /\ index \in Nat /\ index > 0 /\ bi \in Nat /\ RAY \in Nat
    BY AccruedIndices, ScaleAssumption DEF TypeOK, ReserveData, Index
  <1>2. /\ minted \in Nat /\ minted * index \in Nat
        /\ minted * index <= n * RAY /\ n * RAY \in Nat
    <2> HIDE DEF index
    <2>1. minted \in Nat /\ minted * index <= n * RAY
      BY <1>1, QuotientBounds
    <2> HIDE DEF minted
    <2> QED
      BY <1>1, <2>1, ProductNat
  <1>3. reserve'[r].liquidity_index = index
    <2>1. total_supply_scaled'[r] \in Nat /\ total_debt_scaled[r] \in Nat
      BY DEF TypeOK
    <2>2. reserve' = [reserve EXCEPT ![r] = with_new_rates(r,
            update_state(reserve[r]), total_supply_scaled'[r],
            total_debt_scaled[r])]
      BY DEF Supply
    <2> QED
      BY <2>1, <2>2, StoredIndices
  <1>4. ATokenMint(r, v, minted)
    BY DEF Supply
  <1> HIDE DEF minted, index
  <1>5. /\ cash'[r] = cash[r] + n
        /\ total_debt_scaled'[r] = total_debt_scaled[r] + 0
        /\ deficit'[r] = deficit[r] + 0
        /\ total_supply_scaled'[r] = total_supply_scaled[r] + minted
    BY <1>4 DEF Supply, ATokenMint, TypeOK
  <1>6. /\ surplus(r, reserve'[r]) \in Int
        /\ surplus(r, reserve[r])' = surplus(r, reserve'[r])
             + (n * RAY + 0 * bi + 0 * RAY - minted * index)
    BY <1>2, <1>3, <1>5, SurplusMoves, 0 \in Int
  <1> HIDE DEF bi
  <1> QED
    BY <1>1, <1>2, <1>6 DEF SurplusGuarded

(* Withdrawing: the burned shares are worth at least what is paid out, or  *)
(* they are all the account had and the half-up balance is paid at most.   *)
LEMMA WithdrawGuards ==
  ASSUME TypeOK, TypeOK', NEW u \in Users, NEW v \in Users,
         NEW r \in Reserves, NEW n \in Nat, Withdraw(u, v, r, n)
  PROVE  SurplusGuarded(r)
  <1> DEFINE index   == update_state(reserve[r]).liquidity_index
             held    == scaled_balance[r][u]
             balance == ray_mul(held, index)
             amount  == IF n = U128_MAX THEN balance ELSE n
             ceiling == ray_div_up(amount, index)
             burned  == a_token_burned(r, u, amount, index)
             bi      == reserve'[r].variable_borrow_index
  <1>1. /\ index \in Nat /\ index > 0 /\ bi \in Nat /\ RAY \in Nat
        /\ u \in Accounts /\ held \in Nat
    BY AccruedIndices, ScaleAssumption, UserIsAccount
    DEF TypeOK, ReserveData, Index
  <1>2. /\ ATokenBurn(r, u, burned) /\ amount <= balance
        /\ cash' = [cash EXCEPT ![r] = @ - amount]
        /\ reserve' = [reserve EXCEPT ![r] = with_new_rates(r,
             update_state(reserve[r]), total_supply_scaled'[r],
             total_debt_scaled[r])]
        /\ UNCHANGED <<total_debt_scaled, deficit>>
    BY DEF Withdraw, supplied
  <1>3. reserve'[r].liquidity_index = index
    <2>1. total_supply_scaled'[r] \in Nat /\ total_debt_scaled[r] \in Nat
      BY DEF TypeOK
    <2> QED
      BY <1>2, <2>1, StoredIndices
  <1>4. burned = IF ceiling > held THEN held ELSE ceiling
    BY DEF a_token_burned
  <1> HIDE DEF index, held, burned, bi
  <1>5. /\ balance \in Nat /\ held * index \in Nat
        /\ balance * RAY <= held * index + HALF_RAY
    BY <1>1, RayMulBounds
  <1> HIDE DEF balance
  <1>6. amount \in Nat
    BY <1>5
  <1> HIDE DEF amount
  <1>7. ceiling \in Nat /\ amount * RAY <= ceiling * index
    BY <1>1, <1>6, QuotientBounds
  <1> HIDE DEF ceiling
  <1>8. /\ burned \in Nat /\ burned > 0
        /\ amount * RAY \in Nat /\ burned * index \in Nat
    BY <1>1, <1>2, <1>4, <1>6, <1>7, ProductNat DEF ATokenBurn
  <1>9. /\ cash'[r] = cash[r] + (-amount)
        /\ total_debt_scaled'[r] = total_debt_scaled[r] + 0
        /\ deficit'[r] = deficit[r] + 0
        /\ total_supply_scaled'[r] = total_supply_scaled[r] + (-burned)
        /\ scaled_balance'[r][u] = held - burned
    BY <1>1, <1>2, <1>6, <1>8 DEF ATokenBurn, TypeOK, held
  <1>10. /\ surplus(r, reserve'[r]) \in Int
         /\ surplus(r, reserve[r])' = surplus(r, reserve'[r])
              + ((-amount) * RAY + 0 * bi + 0 * RAY - (-burned) * index)
    <2> DEFINE c == -amount
               t == -burned
    <2>1. /\ c \in Int /\ t \in Int /\ cash'[r] = cash[r] + c
          /\ total_debt_scaled'[r] = total_debt_scaled[r] + 0
          /\ deficit'[r] = deficit[r] + 0
          /\ total_supply_scaled'[r] = total_supply_scaled[r] + t
      BY <1>6, <1>8, <1>9
    <2> HIDE DEF c, t
    <2>2. /\ surplus(r, reserve'[r]) \in Int
          /\ surplus(r, reserve[r])' = surplus(r, reserve'[r])
               + (c * RAY + 0 * bi + 0 * RAY - t * index)
      BY <1>3, <2>1, SurplusMoves, 0 \in Int DEF bi
    <2> QED
      BY <2>2 DEF c, t
  <1>11. /\ (-amount) * RAY = -(amount * RAY)
         /\ (-burned) * index = -(burned * index)
         /\ 0 * bi = 0 /\ 0 * RAY = 0
    BY <1>1, <1>6, <1>8, SMT
  <1>12. surplus(r, reserve[r])' = surplus(r, reserve'[r])
              - amount * RAY + burned * index
    BY <1>8, <1>10, <1>11
  <1>13. CASE burned = ceiling
    BY <1>7, <1>8, <1>10, <1>12, <1>13 DEF SurplusGuarded
  <1>14. CASE burned = held
    <2>1. amount * RAY <= balance * RAY /\ balance * RAY \in Nat
      BY <1>1, <1>2, <1>5, <1>6, SMT
    <2>2. surplus(r, reserve[r])' >= surplus(r, reserve'[r]) - HALF_RAY
      BY <1>5, <1>8, <1>10, <1>12, <1>14, <2>1, HalfRay
    <2>3. emptied(scaled_balance[r], scaled_balance'[r])
      BY <1>1, <1>8, <1>9, <1>14 DEF emptied, held
    <2> QED
      BY <2>2, <2>3 DEF SurplusGuarded
  <1> QED
    BY <1>4, <1>13, <1>14

(* Borrowing: the minted debt is worth at least what is paid out.          *)
LEMMA BorrowGuards ==
  ASSUME TypeOK, TypeOK', NEW u \in Users, NEW v \in Users,
         NEW r \in Reserves, NEW n \in Nat, Borrow(u, v, r, n)
  PROVE  SurplusGuarded(r)
  <1> DEFINE index  == update_state(reserve[r]).variable_borrow_index
             minted == ray_div_up(n, index)
             li     == reserve'[r].liquidity_index
  <1>1. /\ index \in Nat /\ index > 0 /\ li \in Nat /\ RAY \in Nat
    BY AccruedIndices, ScaleAssumption DEF TypeOK, ReserveData, Index
  <1>2. /\ minted \in Nat /\ minted * index \in Nat
        /\ n * RAY <= minted * index /\ n * RAY \in Nat
    <2> HIDE DEF index
    <2>1. minted \in Nat /\ n * RAY <= minted * index
      BY <1>1, QuotientBounds
    <2> HIDE DEF minted
    <2> QED
      BY <1>1, <2>1, ProductNat
  <1>3. reserve'[r].variable_borrow_index = index
    <2>1. total_supply_scaled[r] \in Nat /\ total_debt_scaled'[r] \in Nat
      BY DEF TypeOK
    <2>2. reserve' = [reserve EXCEPT ![r] = with_new_rates(r,
            update_state(reserve[r]), total_supply_scaled[r],
            total_debt_scaled'[r])]
      BY DEF Borrow
    <2> QED
      BY <2>1, <2>2, StoredIndices
  <1>4. DebtMint(r, v, minted)
    BY DEF Borrow
  <1> HIDE DEF minted, index, li
  <1> DEFINE c == -n
  <1>5. /\ c \in Int /\ cash'[r] = cash[r] + c
        /\ total_debt_scaled'[r] = total_debt_scaled[r] + minted
        /\ deficit'[r] = deficit[r] + 0
        /\ total_supply_scaled'[r] = total_supply_scaled[r] + 0
    BY <1>4 DEF Borrow, DebtMint, TypeOK
  <1>6. c * RAY = -(n * RAY) /\ 0 * RAY = 0 /\ 0 * li = 0
    BY <1>1, SMT
  <1> HIDE DEF c
  <1>7. /\ surplus(r, reserve'[r]) \in Int
        /\ surplus(r, reserve[r])' = surplus(r, reserve'[r])
             + (c * RAY + minted * index + 0 * RAY - 0 * li)
    BY <1>2, <1>3, <1>5, SurplusMoves, 0 \in Int DEF li
  <1> QED
    BY <1>2, <1>6, <1>7 DEF SurplusGuarded

(* Repaying: the burned debt is worth at most what is paid, or it is all   *)
(* the account owed and one scaled unit more than was paid for at most.    *)
LEMMA RepayGuards ==
  ASSUME TypeOK, TypeOK', NEW u \in Users, NEW v \in Users,
         NEW r \in Reserves, NEW n \in Nat, Repay(u, v, r, n)
  PROVE  SurplusGuarded(r)
  <1> DEFINE rd     == update_state(reserve[r])
             index  == rd.variable_borrow_index
             held   == scaled_debt[r][v]
             debt   == owed(r, v, rd)
             amount == IF n > debt THEN debt ELSE n
             floor  == ray_div_down(amount, index)
             burned == debt_burned(held, amount, index)
             li     == reserve'[r].liquidity_index
  <1>1. /\ index \in Nat /\ index > 0 /\ li \in Nat /\ RAY \in Nat
        /\ v \in Accounts /\ held \in Nat
    BY AccruedIndices, ScaleAssumption, UserIsAccount
    DEF TypeOK, ReserveData, Index
  <1>2. amount \in Nat /\ burned \in Nat
    BY <1>1, RepayAmounts
  <1>3. /\ DebtBurn(r, v, burned) /\ debt > 0 /\ floor <= held
        /\ cash' = [cash EXCEPT ![r] = @ + amount]
        /\ reserve' = [reserve EXCEPT ![r] = with_new_rates(r, rd,
             total_supply_scaled[r], total_debt_scaled'[r])]
        /\ UNCHANGED <<total_supply_scaled, deficit>>
    BY DEF Repay
  <1>4. reserve'[r].variable_borrow_index = index
    <2>1. total_supply_scaled[r] \in Nat /\ total_debt_scaled'[r] \in Nat
      BY DEF TypeOK
    <2> QED
      BY <1>3, <2>1, StoredIndices
  <1>5. burned = IF held - floor <= 1 THEN held ELSE floor
    BY DEF debt_burned
  <1>6. held > 0
    <2>1. debt = ray_mul(held, index)
      BY DEF owed
    <2>2. CASE held = 0
      <3> HIDE DEF index, held
      <3>1. /\ ray_mul(held, index) \in Nat
            /\ ray_mul(held, index) * RAY <= held * index + HALF_RAY
        BY <1>1, RayMulBounds
      <3>2. held * index = 0
        BY <1>1, <2>2
      <3> HIDE DEF debt
      <3> QED
        BY <1>1, <1>3, <2>1, <3>1, <3>2, HalfRay, ScaleAssumption, SMT
    <2> QED
      BY <1>1, <2>2
  <1> HIDE DEF rd, index, held, debt, amount, burned, li
  <1>7. /\ floor \in Nat /\ floor * index <= amount * RAY
        /\ amount * RAY < floor * index + index
    BY <1>1, <1>2, QuotientBounds
  <1> HIDE DEF floor
  <1>8. /\ amount * RAY \in Nat /\ burned * index \in Nat
        /\ floor * index \in Nat
    BY <1>1, <1>2, <1>7, ProductNat
  <1> DEFINE d == -burned
  <1>9. /\ d \in Int /\ cash'[r] = cash[r] + amount
        /\ total_debt_scaled'[r] = total_debt_scaled[r] + d
        /\ deficit'[r] = deficit[r] + 0
        /\ total_supply_scaled'[r] = total_supply_scaled[r] + 0
        /\ scaled_debt'[r][v] = held - burned
    BY <1>1, <1>2, <1>3 DEF DebtBurn, TypeOK, held
  <1>10. d * index = -(burned * index) /\ 0 * RAY = 0 /\ 0 * li = 0
    BY <1>1, <1>2, SMT
  <1> HIDE DEF d
  <1>11. /\ surplus(r, reserve'[r]) \in Int
         /\ surplus(r, reserve[r])' = surplus(r, reserve'[r])
              + (amount * RAY + d * index + 0 * RAY - 0 * li)
    BY <1>2, <1>4, <1>9, SurplusMoves, 0 \in Int DEF li
  <1>12. surplus(r, reserve[r])' = surplus(r, reserve'[r])
              + amount * RAY - burned * index
    BY <1>8, <1>10, <1>11
  <1>13. CASE burned = floor
    BY <1>7, <1>8, <1>11, <1>12, <1>13 DEF SurplusGuarded
  <1>14. CASE burned = held /\ held - floor <= 1
    <2>1. held * index <= floor * index + index
      <3>1. held <= floor + 1 /\ (floor + 1) * index = floor * index + index
        BY <1>1, <1>7, <1>14, SMT
      <3> QED
        BY <1>1, <1>7, <3>1, ProductMonotone, SMT
    <2>2. surplus(r, reserve[r])' >= surplus(r, reserve'[r]) - index
      BY <1>1, <1>7, <1>8, <1>11, <1>12, <1>14, <2>1
    <2>3. emptied(scaled_debt[r], scaled_debt'[r])
      BY <1>1, <1>6, <1>9, <1>14 DEF emptied, held
    <2> QED
      BY <1>4, <2>2, <2>3 DEF SurplusGuarded
  <1> QED
    BY <1>5, <1>13, <1>14

(* Collecting: what stays covers the suppliers' claims less the borrowers' *)
(* debts and once more the deficit, all as rounded totals.                 *)
LEMMA CollectGuards ==
  ASSUME TypeOK, TypeOK', NEW r \in Reserves, CollectProtocolReserves(r)
  PROVE  SurplusGuarded(r)
  <1> DEFINE rd          == update_state(reserve[r])
             li          == rd.liquidity_index
             bi          == rd.variable_borrow_index
             T           == total_supply_scaled[r]
             D           == total_debt_scaled[r]
             supply      == ray_mul(T, li)
             debt        == ray_mul(D, bi)
             collectible == protocol_reserves(r, rd)
  <1>1. /\ li \in Nat /\ bi \in Nat /\ RAY \in Nat
        /\ T \in Nat /\ D \in Nat /\ cash[r] \in Nat /\ deficit[r] \in Nat
    BY AccruedIndices, ScaleAssumption DEF TypeOK
  <1>2. /\ debt <= supply
        /\ reserve' = [reserve EXCEPT ![r] = rd]
        /\ cash' = [cash EXCEPT ![r] = @ - collectible]
        /\ wallet' = [wallet EXCEPT ![r][Treasury] = @ + collectible]
        /\ UNCHANGED <<deficit, total_supply_scaled, total_debt_scaled>>
    BY DEF CollectProtocolReserves, tokens, total_supply, total_debt
  <1>3. /\ reserve'[r].liquidity_index = li
        /\ reserve'[r].variable_borrow_index = bi
    BY <1>2 DEF TypeOK
  <1>4. collectible = saturating_sub(saturating_sub(cash[r], supply - debt),
                                     deficit[r])
    BY DEF protocol_reserves, total_supply, total_debt
  <1> HIDE DEF rd, li, bi, T, D, collectible
  <1>5. /\ supply \in Nat /\ debt \in Nat /\ T * li \in Nat /\ D * bi \in Nat
        /\ T * li < supply * RAY + HALF_RAY
        /\ debt * RAY <= D * bi + HALF_RAY
    BY <1>1, RayMulBounds
  <1> HIDE DEF supply, debt
  <1>6. /\ collectible \in Nat
        /\ collectible > 0 =>
             cash[r] - collectible = (supply - debt) + deficit[r]
    BY <1>1, <1>2, <1>4, <1>5 DEF saturating_sub
  <1>7. CASE collectible = 0
    <2>1. cash'[r] = cash[r]
      BY <1>1, <1>2, <1>7 DEF TypeOK
    <2> QED
      BY <1>2, <2>1, SurplusKept
  <1>8. CASE collectible > 0
    <2>1. wallet'[r][Treasury] > wallet[r][Treasury]
      BY <1>2, <1>6, <1>8 DEF TypeOK, Accounts
    <2>2. cash'[r] = (supply - debt) + deficit[r]
      BY <1>1, <1>2, <1>6, <1>8 DEF TypeOK
    <2>3. surplus(r, reserve[r])' =
            cash'[r] * RAY + D * bi + deficit[r] * RAY - T * li
      BY <1>2, <1>3 DEF surplus, T, D
    <2>4. /\ cash'[r] * RAY = supply * RAY - debt * RAY + deficit[r] * RAY
          /\ 2 * deficit[r] * RAY = deficit[r] * RAY + deficit[r] * RAY
      BY <1>1, <1>5, <2>2, SMT
    <2>5. /\ supply * RAY \in Nat /\ debt * RAY \in Nat
          /\ deficit[r] * RAY \in Nat
      BY <1>1, <1>5, ProductNat
    <2>6. surplus(r, reserve[r])' >= 2 * deficit[r] * RAY - RAY
      BY <1>1, <1>5, <2>3, <2>4, <2>5, HalfRay
    <2> QED
      BY <2>1, <2>6 DEF SurplusGuarded
  <1> QED
    BY <1>6, <1>7, <1>8

(* Covering a deficit turns a unit of it into a unit of cash.              *)
LEMMA CoverGuards ==
  ASSUME TypeOK, TypeOK', NEW u \in Users, NEW r \in Reserves, NEW n \in Nat,
         CoverDeficit(u, r, n)
  PROVE  SurplusGuarded(r)
  <1> DEFINE cover == IF n > deficit[r] THEN deficit[r] ELSE n
             less  == -cover
             li    == reserve'[r].liquidity_index
             bi    == reserve'[r].variable_borrow_index
  <1>1. /\ cover \in Nat /\ cover \in Int /\ less \in Int /\ RAY \in Nat
        /\ li \in Nat /\ bi \in Nat
    BY ScaleAssumption DEF TypeOK, ReserveData, Index
  <1> HIDE DEF cover
  <1>2. /\ cash' = [cash EXCEPT ![r] = @ + cover]
        /\ deficit' = [deficit EXCEPT ![r] = @ - cover]
        /\ UNCHANGED <<total_supply_scaled, total_debt_scaled>>
    BY DEF CoverDeficit, tokens, cover
  <1>3. /\ cash'[r] = cash[r] + cover
        /\ deficit'[r] = deficit[r] + less
        /\ total_debt_scaled'[r] = total_debt_scaled[r] + 0
        /\ total_supply_scaled'[r] = total_supply_scaled[r] + 0
    BY <1>1, <1>2 DEF TypeOK
  <1>4. /\ cover * RAY \in Nat /\ less * RAY = -(cover * RAY)
        /\ 0 * bi = 0 /\ 0 * li = 0
    BY <1>1, SMT
  <1> HIDE DEF less, li, bi
  <1>5. /\ surplus(r, reserve'[r]) \in Int
        /\ surplus(r, reserve[r])' = surplus(r, reserve'[r])
             + (cover * RAY + 0 * bi + less * RAY - 0 * li)
    <2>1. \A c, d, f, t \in Int :
            /\ cash'[r] = cash[r] + c
            /\ total_debt_scaled'[r] = total_debt_scaled[r] + d
            /\ deficit'[r] = deficit[r] + f
            /\ total_supply_scaled'[r] = total_supply_scaled[r] + t
            => /\ surplus(r, reserve'[r]) \in Int
               /\ surplus(r, reserve[r])' = surplus(r, reserve'[r])
                    + (c * RAY + d * bi + f * RAY - t * li)
      BY SurplusMoves DEF li, bi
    <2> QED
      BY <1>1, <1>3, <2>1, 0 \in Int
  <1> QED
    BY <1>4, <1>5 DEF SurplusGuarded

(* Each action guards the reserve it is about and leaves the others alone. *)
LEMMA NextGuards ==
  ASSUME TypeOK, [Next]_vars, NEW r \in Reserves
  PROVE  SurplusGuarded(r)
  <1>1. TypeOK'
    BY NextType
  <1>2. ASSUME UNCHANGED <<cash, total_debt_scaled, deficit,
                           total_supply_scaled>>
        PROVE  SurplusGuarded(r)
    BY <1>1, <1>2, SurplusKept
  <1>3. ASSUME NEW q \in Reserves, NEW u \in Users, NEW v \in Users,
               NEW n \in Nat,
               \/ Supply(u, v, q, n) \/ Withdraw(u, v, q, n)
               \/ Borrow(u, v, q, n) \/ Repay(u, v, q, n)
        PROVE  SurplusGuarded(r)
    <2>1. CASE r = q
      BY <1>1, <1>3, <2>1, SupplyGuards, WithdrawGuards, BorrowGuards,
         RepayGuards
    <2>2. CASE r # q
      <3>1. /\ cash'[r] = cash[r] /\ deficit'[r] = deficit[r]
            /\ total_debt_scaled'[r] = total_debt_scaled[r]
            /\ total_supply_scaled'[r] = total_supply_scaled[r]
        BY <1>3, <2>2 DEF Supply, Withdraw, Borrow, Repay, ATokenMint,
           ATokenBurn, DebtMint, DebtBurn, TypeOK
      <3> QED
        BY <1>1, <3>1, SurplusKept
    <2> QED
      BY <2>1, <2>2
  <1>4. ASSUME NEW q \in Reserves, NEW u \in Users, NEW v \in Users,
               NEW n \in Nat,
               \/ TransferAToken(u, v, q, n)
               \/ EnableCollateral(u, q) \/ DisableCollateral(u, q)
        PROVE  SurplusGuarded(r)
    <2>1. UNCHANGED <<cash, total_debt_scaled, deficit, total_supply_scaled>>
      BY <1>4 DEF TransferAToken, EnableCollateral, DisableCollateral,
         tokens, funds
    <2> QED
      BY <1>2, <2>1
  <1>5. CASE UserOperation
    <2>1. \A n \in Amounts \union {U128_MAX} : n \in Nat
      BY AmountsNat
    <2> QED
      BY <1>3, <1>4, <1>5, <2>1, 0 \in Nat DEF UserOperation
  <1>6. CASE PoolMaintenance
    <2>1. ASSUME NEW q \in Reserves,
                 \/ CollectProtocolReserves(q)
                 \/ \E u \in Users, n \in Amounts : CoverDeficit(u, q, n)
          PROVE  SurplusGuarded(r)
      <3>1. \A n \in Amounts : n \in Nat
        BY AmountsNat
      <3>2. CASE r = q
        BY <1>1, <2>1, <3>1, <3>2, CollectGuards, CoverGuards
      <3>3. CASE r # q
        <4>1. /\ cash'[r] = cash[r] /\ deficit'[r] = deficit[r]
              /\ total_debt_scaled'[r] = total_debt_scaled[r]
              /\ total_supply_scaled'[r] = total_supply_scaled[r]
          BY <2>1, <3>3 DEF CollectProtocolReserves, CoverDeficit, tokens,
             TypeOK
        <4> QED
          BY <1>1, <4>1, SurplusKept
      <3> QED
        BY <3>2, <3>3
    <2>2. ASSUME NEW q \in Reserves, UpdateReserveState(q)
          PROVE  SurplusGuarded(r)
      BY <1>2, <2>2 DEF UpdateReserveState, tokens, funds
    <2> QED
      BY <1>6, <2>1, <2>2 DEF PoolMaintenance
  <1>7. CASE Administration \/ Environment \/ UNCHANGED vars
    <2>1. UNCHANGED <<cash, total_debt_scaled, deficit, total_supply_scaled>>
      BY <1>7 DEF Administration, Environment, UpdateReserveConfiguration,
         SetPaused, Tick, PriceChange, tokens, funds, vars
    <2> QED
      BY <1>2, <2>1
  <1> QED
    BY <1>5, <1>6, <1>7 DEF Next

(* Suppliers lose nothing to rounding beyond the three exceptions the      *)
(* property names, for every scale, index and amount: each operation of    *)
(* the router pays and books in directions that favour the pool            *)
(* (operations.rs and treasury.rs with both token contracts).              *)
THEOREM RoundingAlwaysFavours == Spec => RoundingFavoursPool
  <1>1. TypeOK /\ [Next]_vars =>
          [\A r \in Reserves : SurplusGuarded(r)]_vars
    BY NextGuards
  <1> QED
    BY <1>1, TypeCorrect, PTL DEF Spec, RoundingFavoursPool

-----------------------------------------------------------------------------
(* totals[r] is what the accounts hold together of reserve r.             *)
sums_to(totals, balances) ==
  \A r \in Reserves : totals[r] = SumFunctionOnSet(balances[r], Accounts)

(* The sums run over finitely many accounts.                              *)
LEMMA AccountsFinite == IsFiniteSet(Accounts)
  BY PoolAssumption, FS_AddElement DEF Accounts

(* The property in these terms, now and after a step.                      *)
LEMMA TotalsBySum ==
  /\ TotalsAreSums <=> /\ sums_to(total_supply_scaled, scaled_balance)
                       /\ sums_to(total_debt_scaled, scaled_debt)
  /\ TotalsAreSums' <=> /\ sums_to(total_supply_scaled', scaled_balance')
                        /\ sums_to(total_debt_scaled', scaled_debt')
  BY DEF TotalsAreSums, sums_to, MapThenSumSet, SumFunctionOnSet,
         FoldFunctionOnSet, MapThenFoldSet

(* One balance of a token changes, or of one reserve among many.           *)
LEMMA BalanceInSum ==
  ASSUME NEW a \in Accounts,
         NEW before \in [Accounts -> Nat], NEW after \in [Accounts -> Nat],
         \A b \in Accounts : b # a => after[b] = before[b]
  PROVE  SumFunctionOnSet(after, Accounts)
           = SumFunctionOnSet(before, Accounts) - before[a] + after[a]
  BY AccountsFinite, SumChange

LEMMA OneBalance ==
  ASSUME NEW balances \in [Reserves -> [Accounts -> Nat]],
         NEW after \in [Reserves -> [Accounts -> Nat]],
         NEW r \in Reserves, NEW a \in Accounts,
         \A b \in Accounts : b # a => after[r][b] = balances[r][b]
  PROVE  SumFunctionOnSet(after[r], Accounts)
           = SumFunctionOnSet(balances[r], Accounts)
                - balances[r][a] + after[r][a]
  <1>1. after[r] \in [Accounts -> Nat] /\ balances[r] \in [Accounts -> Nat]
    OBVIOUS
  <1> QED
    BY <1>1, BalanceInSum

(* Minting and burning move a balance and the total alike, a transfer      *)
(* moves two balances by the same amount.                                  *)
LEMMA MintKeepsSums ==
  ASSUME NEW balances \in [Reserves -> [Accounts -> Nat]],
         NEW totals \in [Reserves -> Nat], sums_to(totals, balances),
         NEW r \in Reserves, NEW a \in Accounts, NEW n \in Nat
  PROVE  sums_to([totals EXCEPT ![r] = @ + n],
                 [balances EXCEPT ![r][a] = @ + n])
  <1> DEFINE after == [balances EXCEPT ![r][a] = @ + n]
             totals_after == [totals EXCEPT ![r] = @ + n]
  <1>1. /\ after \in [Reserves -> [Accounts -> Nat]]
        /\ after[r][a] = balances[r][a] + n
        /\ totals_after[r] = totals[r] + n
        /\ balances[r][a] \in Nat /\ totals[r] \in Nat
        /\ \A q \in Reserves : q # r => /\ after[q] = balances[q]
                                        /\ totals_after[q] = totals[q]
        /\ \A b \in Accounts : b # a => after[r][b] = balances[r][b]
    OBVIOUS
  <1> HIDE DEF after, totals_after
  <1>2. totals_after[r] = totals[r] - balances[r][a] + after[r][a]
    BY <1>1
  <1>3. SumFunctionOnSet(after[r], Accounts)
          = SumFunctionOnSet(balances[r], Accounts)
               - balances[r][a] + after[r][a]
    BY <1>1, OneBalance
  <1>4. sums_to(totals_after, after)
    BY <1>1, <1>2, <1>3 DEF sums_to
  <1> QED
    BY <1>4 DEF after, totals_after

LEMMA BurnKeepsSums ==
  ASSUME NEW balances \in [Reserves -> [Accounts -> Nat]],
         NEW totals \in [Reserves -> Nat], sums_to(totals, balances),
         NEW r \in Reserves, NEW a \in Accounts,
         NEW n \in Nat, n <= balances[r][a]
  PROVE  sums_to([totals EXCEPT ![r] = @ - n],
                 [balances EXCEPT ![r][a] = @ - n])
  <1> DEFINE after == [balances EXCEPT ![r][a] = @ - n]
             totals_after == [totals EXCEPT ![r] = @ - n]
  <1>1. /\ after \in [Reserves -> [Accounts -> Nat]]
        /\ after[r][a] = balances[r][a] - n
        /\ totals_after[r] = totals[r] - n
        /\ balances[r][a] \in Nat /\ totals[r] \in Nat
        /\ \A q \in Reserves : q # r => /\ after[q] = balances[q]
                                        /\ totals_after[q] = totals[q]
        /\ \A b \in Accounts : b # a => after[r][b] = balances[r][b]
    OBVIOUS
  <1> HIDE DEF after, totals_after
  <1>2. totals_after[r] = totals[r] - balances[r][a] + after[r][a]
    BY <1>1
  <1>3. SumFunctionOnSet(after[r], Accounts)
          = SumFunctionOnSet(balances[r], Accounts)
               - balances[r][a] + after[r][a]
    BY <1>1, OneBalance
  <1>4. sums_to(totals_after, after)
    BY <1>1, <1>2, <1>3 DEF sums_to
  <1> QED
    BY <1>4 DEF after, totals_after

LEMMA MoveKeepsSum ==
  ASSUME NEW before \in [Accounts -> Nat], NEW after \in [Accounts -> Nat],
         NEW a \in Accounts, NEW b \in Accounts, a # b, NEW n \in Nat,
         after[a] = before[a] - n, after[b] = before[b] + n,
         \A c \in Accounts \ {a, b} : after[c] = before[c]
  PROVE  SumFunctionOnSet(after, Accounts) = SumFunctionOnSet(before, Accounts)
  <1> DEFINE taken == [before EXCEPT ![a] = after[a]]
             total(f) == SumFunctionOnSet(f, Accounts)
  <1>1. /\ taken \in [Accounts -> Nat]
        /\ taken[a] = after[a] /\ taken[b] = before[b]
        /\ \A c \in Accounts : c # a => taken[c] = before[c]
        /\ \A c \in Accounts : c # b => after[c] = taken[c]
    OBVIOUS
  <1> HIDE DEF taken
  <1>2. total(taken) = total(before) - before[a] + taken[a]
    BY <1>1, BalanceInSum
  <1>3. total(after) = total(taken) - taken[b] + after[b]
    BY <1>1, BalanceInSum
  <1>4. /\ total(before) \in Nat /\ total(taken) \in Nat /\ total(after) \in Nat
        /\ before[a] \in Nat /\ before[b] \in Nat
    BY <1>1, AccountsFinite, SumNat
  <1> HIDE DEF total
  <1>5. total(after) = total(before)
    BY <1>1, <1>2, <1>3, <1>4
  <1> QED
    BY <1>5 DEF total

(* The calls of both token contracts.                                      *)
LEMMA ATokenMintSums ==
  ASSUME TypeOK, sums_to(total_supply_scaled, scaled_balance),
         NEW r \in Reserves, NEW a \in Accounts, NEW n \in Nat,
         ATokenMint(r, a, n)
  PROVE  sums_to(total_supply_scaled', scaled_balance')
  BY MintKeepsSums DEF TypeOK, ATokenMint

LEMMA ATokenBurnSums ==
  ASSUME TypeOK, sums_to(total_supply_scaled, scaled_balance),
         NEW r \in Reserves, NEW a \in Accounts, NEW n \in Nat,
         n <= scaled_balance[r][a], ATokenBurn(r, a, n)
  PROVE  sums_to(total_supply_scaled', scaled_balance')
  BY BurnKeepsSums DEF TypeOK, ATokenBurn

LEMMA DebtMintSums ==
  ASSUME TypeOK, sums_to(total_debt_scaled, scaled_debt),
         NEW r \in Reserves, NEW a \in Accounts, NEW n \in Nat,
         DebtMint(r, a, n)
  PROVE  sums_to(total_debt_scaled', scaled_debt')
  BY MintKeepsSums DEF TypeOK, DebtMint

LEMMA DebtBurnSums ==
  ASSUME TypeOK, sums_to(total_debt_scaled, scaled_debt),
         NEW r \in Reserves, NEW a \in Accounts, NEW n \in Nat,
         n <= scaled_debt[r][a], DebtBurn(r, a, n)
  PROVE  sums_to(total_debt_scaled', scaled_debt')
  BY BurnKeepsSums DEF TypeOK, DebtBurn

(* Nobody holds anything at first.                                         *)
LEMMA InitSums == Init => TotalsAreSums
  <1> SUFFICES ASSUME Init
               PROVE  TotalsAreSums
    OBVIOUS
  <1>1. ASSUME NEW r \in Reserves
        PROVE  /\ SumFunctionOnSet(scaled_balance[r], Accounts) = 0
               /\ SumFunctionOnSet(scaled_debt[r], Accounts) = 0
    <2>1. \A a \in Accounts : scaled_balance[r][a] = 0 /\ scaled_debt[r][a] = 0
      BY DEF Init
    <2> QED
      BY <2>1, AccountsFinite, SumOfZeros
  <1>2. /\ sums_to(total_supply_scaled, scaled_balance)
        /\ sums_to(total_debt_scaled, scaled_debt)
    BY <1>1 DEF sums_to, Init
  <1> QED
    BY <1>2, TotalsBySum

(* Every operation of a user goes through one of those calls; the others   *)
(* leave the tokens alone.                                                 *)
LEMMA UserOperationSums ==
  ASSUME TypeOK, TotalsAreSums, UserOperation
  PROVE  TotalsAreSums'
  <1>1. /\ sums_to(total_supply_scaled, scaled_balance)
        /\ sums_to(total_debt_scaled, scaled_debt)
    BY TotalsBySum
  <1> DEFINE Goal == /\ sums_to(total_supply_scaled', scaled_balance')
                     /\ sums_to(total_debt_scaled', scaled_debt')
  <1>2. ASSUME NEW r \in Reserves, NEW u \in Users, NEW v \in Users,
               NEW n \in Nat, Supply(u, v, r, n)
        PROVE  Goal
    <2> DEFINE minted ==
          ray_div_down(n, update_state(reserve[r]).liquidity_index)
    <2>1. v \in Accounts /\ minted \in Nat
      BY UserIsAccount, AccruedIndices, RayDivTypes
    <2>2. /\ ATokenMint(r, v, minted)
          /\ UNCHANGED <<scaled_debt, total_debt_scaled>>
      BY <1>2 DEF Supply
    <2> HIDE DEF minted
    <2> QED
      BY <1>1, <2>1, <2>2, ATokenMintSums
  <1>3. ASSUME NEW r \in Reserves, NEW u \in Users, NEW v \in Users,
               NEW n \in Nat, Withdraw(u, v, r, n)
        PROVE  Goal
    <2>1. PICK burned \in Nat : /\ burned <= scaled_balance[r][u]
                                /\ ATokenBurn(r, u, burned)
      BY <1>3, WithdrawnShares
    <2>2. u \in Accounts /\ UNCHANGED <<scaled_debt, total_debt_scaled>>
      BY <1>3, UserIsAccount DEF Withdraw
    <2> QED
      BY <1>1, <2>1, <2>2, ATokenBurnSums
  <1>4. ASSUME NEW r \in Reserves, NEW u \in Users, NEW v \in Users,
               NEW n \in Nat, Borrow(u, v, r, n)
        PROVE  Goal
    <2> DEFINE minted ==
          ray_div_up(n, update_state(reserve[r]).variable_borrow_index)
    <2>1. v \in Accounts /\ minted \in Nat
      BY UserIsAccount, AccruedIndices, RayDivTypes
    <2>2. /\ DebtMint(r, v, minted)
          /\ UNCHANGED <<scaled_balance, total_supply_scaled>>
      BY <1>4 DEF Borrow
    <2> HIDE DEF minted
    <2> QED
      BY <1>1, <2>1, <2>2, DebtMintSums
  <1>5. ASSUME NEW r \in Reserves, NEW u \in Users, NEW v \in Users,
               NEW n \in Nat, Repay(u, v, r, n)
        PROVE  Goal
    <2> DEFINE rd     == update_state(reserve[r])
               debt   == owed(r, v, rd)
               amount == IF n > debt THEN debt ELSE n
               burned == debt_burned(scaled_debt[r][v], amount,
                                     rd.variable_borrow_index)
    <2>1. /\ DebtBurn(r, v, burned)
          /\ ray_div_down(amount, rd.variable_borrow_index) <= scaled_debt[r][v]
          /\ UNCHANGED <<scaled_balance, total_supply_scaled>>
      BY <1>5 DEF Repay
    <2>2. v \in Accounts /\ burned \in Nat /\ burned <= scaled_debt[r][v]
      BY <2>1, UserIsAccount, RepayAmounts
    <2> HIDE DEF burned
    <2> QED
      BY <1>1, <2>1, <2>2, DebtBurnSums
  <1>6. ASSUME NEW r \in Reserves, NEW u \in Users, NEW v \in Users,
               NEW n \in Nat, TransferAToken(u, v, r, n)
        PROVE  Goal
    <2> DEFINE moved == ray_div_up(n, update_state(reserve[r]).liquidity_index)
    <2>1. u \in Accounts /\ v \in Accounts /\ moved \in Nat
      BY UserIsAccount, AccruedIndices, RayDivTypes
    <2>2. /\ u # v /\ moved <= scaled_balance[r][u]
          /\ scaled_balance' = [scaled_balance EXCEPT ![r][u] = @ - moved,
                                                      ![r][v] = @ + moved]
          /\ UNCHANGED <<total_supply_scaled, scaled_debt, total_debt_scaled>>
      BY <1>6 DEF TransferAToken, current_liquidity_index
    <2> HIDE DEF moved
    <2>3. scaled_balance' \in [Reserves -> [Accounts -> Nat]]
      BY <1>6, TransferATokenType DEF TypeOK
    <2>4. /\ \A q \in Reserves : q # r => scaled_balance'[q] = scaled_balance[q]
          /\ scaled_balance'[r][u] = scaled_balance[r][u] - moved
          /\ scaled_balance'[r][v] = scaled_balance[r][v] + moved
          /\ \A a \in Accounts \ {u, v} :
               scaled_balance'[r][a] = scaled_balance[r][a]
      BY <2>1, <2>2 DEF TypeOK
    <2>5. SumFunctionOnSet(scaled_balance'[r], Accounts)
            = SumFunctionOnSet(scaled_balance[r], Accounts)
      <3> DEFINE before == scaled_balance[r]
                 after  == scaled_balance'[r]
      <3>1. before \in [Accounts -> Nat] /\ after \in [Accounts -> Nat]
        BY <2>3 DEF TypeOK
      <3>2. /\ after[u] = before[u] - moved /\ after[v] = before[v] + moved
            /\ \A a \in Accounts \ {u, v} : after[a] = before[a]
        BY <2>4
      <3> HIDE DEF before, after
      <3>3. SumFunctionOnSet(after, Accounts)
              = SumFunctionOnSet(before, Accounts)
        BY <2>1, <2>2, <3>1, <3>2, MoveKeepsSum
      <3> QED
        BY <3>3 DEF before, after
    <2> QED
      BY <1>1, <2>2, <2>4, <2>5 DEF sums_to
  <1>7. ASSUME NEW r \in Reserves, NEW u \in Users,
               EnableCollateral(u, r) \/ DisableCollateral(u, r)
        PROVE  Goal
    BY <1>1, <1>7 DEF EnableCollateral, DisableCollateral, tokens
  <1> SUFFICES Goal
    BY TotalsBySum
  <1> HIDE DEF Goal
  <1>8. \A n \in Amounts \union {U128_MAX} : n \in Nat
    BY AmountsNat
  <1> QED
    BY <1>2, <1>3, <1>4, <1>5, <1>6, <1>7, <1>8, 0 \in Nat DEF UserOperation

LEMMA NextSums ==
  ASSUME TypeOK, TotalsAreSums, [Next]_vars
  PROVE  TotalsAreSums'
  <1>1. CASE UserOperation
    BY <1>1, UserOperationSums
  <1>2. CASE UNCHANGED tokens
    BY <1>2, TotalsBySum DEF sums_to, tokens
  <1>3. CASE \/ PoolMaintenance \/ Administration
             \/ Environment \/ UNCHANGED vars
    <2>1. UNCHANGED tokens
      BY <1>3 DEF PoolMaintenance, UpdateReserveState,
         CollectProtocolReserves, CoverDeficit, Administration, Environment,
         UpdateReserveConfiguration, SetPaused, Tick, PriceChange, vars
    <2> QED
      BY <1>2, <2>1
  <1> QED
    BY <1>1, <1>3 DEF Next

(***************************************************************************)
(* The totals the token contracts keep are the sums of the balances they   *)
(* hold, in every reachable state (a-token and debt-token contract.rs,     *)
(* mint_scaled, burn_scaled and transfer_internal).                        *)
(***************************************************************************)
THEOREM TotalsAlwaysSums == Spec => []TotalsAreSums
  <1> DEFINE Inv == TypeOK /\ TotalsAreSums
  <1>1. Init => Inv
    BY InitType, InitSums
  <1>2. Inv /\ [Next]_vars => Inv'
    BY NextType, NextSums
  <1>3. Inv => TotalsAreSums
    OBVIOUS
  <1> QED
    BY <1>1, <1>2, <1>3, PTL DEF Spec

(***************************************************************************)
(* Collateral swaps.  What swap_collateral does to the pool, given the     *)
(* shares burned and minted and the amounts sold, bought and kept as fee.  *)
(***************************************************************************)
swapped(u, from, to, burned, sold, bought, minted, fee) ==
  /\ from # to
  /\ burned > 0 /\ burned <= scaled_balance[from][u]
  /\ sold <= cash[from]
  /\ sold * RAY <= burned * update_state(reserve[from]).liquidity_index
  /\ minted = ray_div_down(bought, update_state(reserve[to]).liquidity_index)
  /\ supply_cap_ok(to, bought, update_state(reserve[to]))
  /\ scaled_balance' = [scaled_balance EXCEPT ![from][u] = @ - burned,
                                              ![to][u]   = @ + minted]
  /\ total_supply_scaled' = [total_supply_scaled EXCEPT
                               ![from] = @ - burned, ![to] = @ + minted]
  /\ cash' = [cash EXCEPT ![from] = @ - sold, ![to] = @ + bought]
  /\ wallet' = [wallet EXCEPT ![to][Treasury] = @ + fee]
  /\ collateral' = [collateral EXCEPT ![u] = (@ \union {to}) \
                      (IF burned = scaled_balance[from][u]
                       THEN {from} ELSE {})]
  /\ reserve' = [r \in Reserves |->
       IF r \in {from, to}
       THEN with_new_rates(r, update_state(reserve[r]),
                           total_supply_scaled'[r], total_debt_scaled[r])
       ELSE reserve[r]]
  /\ UNCHANGED <<environment, scaled_debt, total_debt_scaled, borrowing,
                 deficit>>

(* What is sold is worth at most the shares burned for it.                 *)
LEMMA SoldForShares ==
  ASSUME NEW burned \in Nat, NEW index \in Nat, NEW amount \in Nat
  PROVE  LET sold == lesser(ray_mul_down(burned, index), amount)
         IN  sold \in Nat /\ sold * RAY <= burned * index
  <1> DEFINE floor == ray_mul_down(burned, index)
             sold  == lesser(floor, amount)
  <1>1. RAY \in Nat /\ RAY > 0 /\ burned * index \in Nat
    BY ScaleAssumption, ProductNat
  <1>2. floor \in Nat /\ floor * RAY <= burned * index
    BY <1>1, DivBounds DEF ray_mul_down
  <1> HIDE DEF floor
  <1>3. sold \in Nat /\ sold <= floor
    BY <1>2 DEF lesser
  <1> HIDE DEF sold
  <1>4. sold * RAY <= floor * RAY /\ floor * RAY \in Nat /\ sold * RAY \in Nat
    BY <1>1, <1>2, <1>3, SMT
  <1> QED
    BY <1>1, <1>2, <1>3, <1>4 DEF sold, floor

(* Shares of an amount are natural numbers.                                *)
LEMMA PercentMulType ==
  ASSUME NEW value \in Nat, NEW percentage \in Nat
  PROVE  percent_mul(value, percentage) \in Nat
  <1>1. /\ BASIS_POINTS_MULTIPLIER \in Nat /\ BASIS_POINTS_MULTIPLIER > 0
        /\ HALF_BASIS_POINTS \in Nat
    BY ScaleAssumption DEF HALF_BASIS_POINTS
  <1>2. value * percentage + HALF_BASIS_POINTS \in Nat
    BY <1>1, ProductNat
  <1> QED
    BY <1>1, <1>2, DivBounds DEF percent_mul

(* What swap_collateral computes is such a swap.                           *)
LEMMA SwapAmounts ==
  ASSUME TypeOK, NEW u \in Users, NEW from \in Reserves, NEW to \in Reserves,
         NEW n \in Nat, NEW out \in Nat, SwapCollateral(u, from, to, n, out)
  PROVE  \E burned, sold, bought, minted, fee \in Nat :
           swapped(u, from, to, burned, sold, bought, minted, fee)
  <1> DEFINE from_rd == update_state(reserve[from])
             to_rd   == update_state(reserve[to])
             held    == scaled_balance[from][u]
             amount  == IF n = U128_MAX
                        THEN ray_mul(held, from_rd.liquidity_index) ELSE n
             burned  == a_token_burned(from, u, amount,
                                       from_rd.liquidity_index)
             sold    == lesser(ray_mul_down(burned, from_rd.liquidity_index),
                               amount)
             fee     == percent_mul(out, SWAP_PREMIUM)
             bought  == out - fee
             minted  == ray_div_down(bought, to_rd.liquidity_index)
  <1>1. /\ from_rd.liquidity_index \in Nat /\ from_rd.liquidity_index > 0
        /\ to_rd.liquidity_index \in Nat /\ to_rd.liquidity_index > 0
        /\ held \in Nat
    BY AccruedIndices, UserIsAccount DEF TypeOK
  <1>2. /\ from # to /\ burned > 0 /\ sold <= cash[from] /\ out > fee
        /\ supply_cap_ok(to, bought, to_rd)
        /\ scaled_balance' = [scaled_balance EXCEPT ![from][u] = @ - burned,
                                                    ![to][u]   = @ + minted]
        /\ total_supply_scaled' = [total_supply_scaled EXCEPT
                                     ![from] = @ - burned, ![to] = @ + minted]
        /\ cash' = [cash EXCEPT ![from] = @ - sold, ![to] = @ + bought]
        /\ wallet' = [wallet EXCEPT ![to][Treasury] = @ + fee]
    BY DEF SwapCollateral, may_swap, redemption, deposit
  <1>3. /\ collateral' = [collateral EXCEPT ![u] = (collateral[u] \union {to})
                            \ (IF burned = held THEN {from} ELSE {})]
        /\ reserve' = [r \in Reserves |->
             IF r \in {from, to}
             THEN with_new_rates(r, update_state(reserve[r]),
                                 total_supply_scaled'[r], total_debt_scaled[r])
             ELSE reserve[r]]
        /\ UNCHANGED <<environment, scaled_debt, total_debt_scaled, borrowing,
                       deficit>>
    <2>1. collateral' = [collateral EXCEPT ![u] = (collateral[u] \union {to})
                           \ (IF burned = held THEN {from} ELSE {})]
      BY DEF SwapCollateral, redemption, backing_after_swap
    <2>2. /\ StoreSwapRates(from, to,
               [r \in Reserves |-> IF r \in {from, to}
                                   THEN update_state(reserve[r])
                                   ELSE reserve[r]])
          /\ UNCHANGED <<environment, scaled_debt, total_debt_scaled, borrowing,
                         deficit>>
      BY DEF SwapCollateral
    <2> QED
      BY <2>1, <2>2 DEF StoreSwapRates
  <1>4. collateral' = [collateral EXCEPT ![u] = (@ \union {to})
                         \ (IF burned = held THEN {from} ELSE {})]
    BY <1>3
  <1>5. amount \in Nat
    BY <1>1, RayMulType
  <1>6. burned \in Nat /\ burned <= held
    <2> HIDE DEF amount, held, from_rd
    <2>1. ray_div_up(amount, from_rd.liquidity_index) \in Nat
      BY <1>1, <1>5, RayDivTypes
    <2> QED
      BY <1>1, <2>1 DEF a_token_burned, held
  <1>7. /\ sold \in Nat
        /\ sold * RAY <= burned * from_rd.liquidity_index
    <2> HIDE DEF burned, amount, from_rd
    <2> QED
      BY <1>1, <1>5, <1>6, SoldForShares
  <1>8. fee \in Nat
    BY SwapAssumption, PercentMulType
  <1>9. bought \in Nat
    <2> HIDE DEF fee
    <2> QED BY <1>2, <1>8
  <1>10. minted \in Nat
    <2> HIDE DEF bought, to_rd
    <2> QED BY <1>1, <1>9, RayDivTypes
  <1>11. swapped(u, from, to, burned, sold, bought, minted, fee)
    <2> HIDE DEF burned, sold, fee
    <2> QED BY <1>2, <1>3, <1>4, <1>6, <1>7 DEF swapped
  <1> HIDE DEF burned, sold, bought, minted, fee
  <1> QED
    BY <1>6, <1>7, <1>8, <1>9, <1>10, <1>11

(* No account holds more than the total, so a burn leaves it natural.      *)
LEMMA BalanceBelowTotal ==
  ASSUME TypeOK, TotalsAreSums, NEW r \in Reserves, NEW a \in Accounts
  PROVE  scaled_balance[r][a] <= total_supply_scaled[r]
  <1> DEFINE held == scaled_balance[r]
  <1>1. held \in [Accounts -> Nat]
    BY DEF TypeOK
  <1>2. total_supply_scaled[r] = SumFunctionOnSet(held, Accounts)
    BY TotalsBySum DEF sums_to
  <1> HIDE DEF held
  <1>3. SumFunctionOnSet(held, Accounts)
          = held[a] + SumFunctionOnSet(held, Accounts \ {a})
    BY <1>1, AccountsFinite, SumRemove
  <1>4. SumFunctionOnSet(held, Accounts \ {a}) \in Nat
    BY <1>1, AccountsFinite, FS_Subset, SumNat
  <1>5. held[a] <= total_supply_scaled[r]
    BY <1>1, <1>2, <1>3, <1>4
  <1> QED
    BY <1>5 DEF held

(* New rates leave indices, timestamp and configuration alone.             *)
LEMMA NewRatesKeep ==
  ASSUME NEW r, NEW rd \in ReserveData, NEW a, NEW d
  PROVE  LET new == with_new_rates(r, rd, a, d)
         IN  /\ new.configuration = rd.configuration
             /\ new.liquidity_index = rd.liquidity_index
             /\ new.variable_borrow_index = rd.variable_borrow_index
             /\ new.last_update_timestamp = rd.last_update_timestamp
  BY DEF with_new_rates, ReserveData

(* A swap keeps the types, the sums of balances among them: the burn needs *)
(* that no balance exceeds the total.                                      *)
LEMMA SwapTokens ==
  ASSUME TypeOK, TotalsAreSums, NEW u \in Users,
         NEW from \in Reserves, NEW to \in Reserves,
         NEW burned \in Nat, NEW sold \in Nat, NEW bought \in Nat,
         NEW minted \in Nat, NEW fee \in Nat,
         swapped(u, from, to, burned, sold, bought, minted, fee)
  PROVE  /\ scaled_balance' \in [Reserves -> [Accounts -> Nat]]
         /\ total_supply_scaled' \in [Reserves -> Nat]
         /\ TotalsAreSums'
  <1> DEFINE balances == [scaled_balance EXCEPT ![from][u] = @ - burned]
             totals   == [total_supply_scaled EXCEPT ![from] = @ - burned]
  <1>1. /\ u \in Accounts /\ from # to
        /\ burned <= scaled_balance[from][u]
        /\ burned <= total_supply_scaled[from]
        /\ sums_to(total_supply_scaled, scaled_balance)
        /\ sums_to(total_debt_scaled, scaled_debt)
    <2>1. u \in Accounts /\ burned <= scaled_balance[from][u]
      BY UserIsAccount DEF swapped
    <2>2. scaled_balance[from][u] <= total_supply_scaled[from]
      BY <2>1, BalanceBelowTotal
    <2> QED
      BY <2>1, <2>2, TotalsBySum DEF swapped, TypeOK
  <1>2. /\ scaled_balance[from][u] - burned \in Nat
        /\ total_supply_scaled[from] - burned \in Nat
    BY <1>1 DEF TypeOK
  <1>3. /\ balances \in [Reserves -> [Accounts -> Nat]]
        /\ totals \in [Reserves -> Nat]
    BY <1>1, <1>2 DEF TypeOK
  <1>4. sums_to(totals, balances)
    BY <1>1, BurnKeepsSums DEF TypeOK
  <1>5. /\ scaled_balance' = [balances EXCEPT ![to][u] = @ + minted]
        /\ total_supply_scaled' = [totals EXCEPT ![to] = @ + minted]
        /\ UNCHANGED <<scaled_debt, total_debt_scaled>>
    BY DEF swapped
  <1> HIDE DEF balances, totals
  <1>6. sums_to(total_supply_scaled', scaled_balance')
    BY <1>1, <1>3, <1>4, <1>5, MintKeepsSums
  <1>7. TotalsAreSums'
    BY <1>1, <1>5, <1>6, TotalsBySum
  <1>8. /\ scaled_balance' \in [Reserves -> [Accounts -> Nat]]
        /\ total_supply_scaled' \in [Reserves -> Nat]
    BY <1>1, <1>3, <1>5
  <1> QED
    BY <1>7, <1>8

(* With the sums, a swap keeps every type.                                 *)
LEMMA SwapType ==
  ASSUME TypeOK, TotalsAreSums, NEW u \in Users,
         NEW from \in Reserves, NEW to \in Reserves,
         NEW burned \in Nat, NEW sold \in Nat, NEW bought \in Nat,
         NEW minted \in Nat, NEW fee \in Nat,
         swapped(u, from, to, burned, sold, bought, minted, fee)
  PROVE  TypeOK'
  <1>1. /\ scaled_balance' \in [Reserves -> [Accounts -> Nat]]
        /\ total_supply_scaled' \in [Reserves -> Nat]
    BY SwapTokens
  <1>2. cash' \in [Reserves -> Nat]
    <2>1. cash[from] - sold \in Nat
      BY DEF TypeOK, swapped
    <2> QED
      BY <2>1 DEF TypeOK, swapped
  <1>3. wallet' \in [Reserves -> [Accounts -> Nat]]
    <2>1. Treasury \in Accounts
      BY DEF Accounts
    <2> QED
      BY <2>1 DEF TypeOK, swapped
  <1>4. collateral' \in [Accounts -> SUBSET Reserves]
    BY UserIsAccount DEF TypeOK, swapped
  <1>5. /\ reserve' \in [Reserves -> ReserveData]
        /\ \A r \in Reserves : reserve'[r].last_update_timestamp <= now'
    <2>1. ASSUME NEW r \in Reserves
          PROVE  /\ reserve'[r] \in ReserveData
                 /\ reserve'[r].last_update_timestamp <= now'
      <3> DEFINE rd == update_state(reserve[r])
                 a  == total_supply_scaled'[r]
                 d  == total_debt_scaled[r]
      <3>1. rd \in ReserveData /\ rd.last_update_timestamp = now
        BY UpdateStateType
      <3>2. a \in Nat /\ d \in Nat /\ now \in Nat /\ now' = now
        BY <1>1 DEF TypeOK, swapped, environment
      <3>3. \/ reserve'[r] = with_new_rates(r, rd, a, d)
            \/ reserve'[r] = reserve[r]
        BY DEF swapped
      <3>4. /\ with_new_rates(r, rd, a, d) \in ReserveData
            /\ with_new_rates(r, rd, a, d).last_update_timestamp = now
        <4> HIDE DEF rd, a, d
        <4>1. \A x \in Nat, y \in Nat :
                /\ with_new_rates(r, rd, x, y) \in ReserveData
                /\ with_new_rates(r, rd, x, y).last_update_timestamp
                     = rd.last_update_timestamp
          BY <3>1, NewRatesType
        <4> QED
          BY <3>1, <3>2, <4>1
      <3> HIDE DEF rd, a, d
      <3> QED
        BY <3>2, <3>3, <3>4 DEF TypeOK
    <2>2. /\ DOMAIN reserve' = Reserves
          /\ reserve' = [r \in Reserves |-> reserve'[r]]
      BY DEF swapped
    <2> QED
      BY <2>1, <2>2
  <1>6. UNCHANGED <<now, paused, price, scaled_debt, total_debt_scaled,
                    borrowing, deficit>>
    BY DEF swapped, environment
  <1> QED
    BY <1>1, <1>2, <1>3, <1>4, <1>5, <1>6 DEF TypeOK

(* Whatever swap is taken, there are shares and amounts it moves.          *)
LEMMA SwapIsSwapped ==
  ASSUME TypeOK, Swap
  PROVE  \E u \in Users, from, to \in Reserves :
           \E burned, sold, bought, minted, fee \in Nat :
             swapped(u, from, to, burned, sold, bought, minted, fee)
  <1>1. PICK u \in Users, from \in Reserves, to \in Reserves :
          \E n \in Amounts \union {U128_MAX}, out \in SwapPayments :
            SwapCollateral(u, from, to, n, out)
    BY DEF Swap
  <1>2. PICK n \in Nat, out \in Nat : SwapCollateral(u, from, to, n, out)
    BY <1>1, AmountsNat, SwapAssumption
  <1>3. \E burned, sold, bought, minted, fee \in Nat :
          swapped(u, from, to, burned, sold, bought, minted, fee)
    BY <1>2, SwapAmounts
  <1> QED
    BY <1>3

(* Types and sums hold after every step of the pool with swaps.            *)
LEMMA SwapStep ==
  ASSUME TypeOK, TotalsAreSums, [SwapNext]_vars
  PROVE  TypeOK' /\ TotalsAreSums'
  <1>1. CASE [Next]_vars
    BY <1>1, NextType, NextSums
  <1>2. CASE Swap
    <2>1. PICK u \in Users, from \in Reserves, to \in Reserves,
               burned \in Nat, sold \in Nat, bought \in Nat,
               minted \in Nat, fee \in Nat :
            swapped(u, from, to, burned, sold, bought, minted, fee)
      BY <1>2, SwapIsSwapped
    <2> QED
      BY <2>1, SwapTokens, SwapType
  <1> QED
    BY <1>1, <1>2 DEF SwapNext

(* What a swap leaves of a reserve it touched.                             *)
LEMMA SwapStores ==
  ASSUME TypeOK, TypeOK', NEW u \in Users,
         NEW from \in Reserves, NEW to \in Reserves,
         NEW burned \in Nat, NEW sold \in Nat, NEW bought \in Nat,
         NEW minted \in Nat, NEW fee \in Nat,
         swapped(u, from, to, burned, sold, bought, minted, fee),
         NEW r \in {from, to}
  PROVE  /\ reserve'[r].liquidity_index
              = update_state(reserve[r]).liquidity_index
         /\ reserve'[r].configuration = update_state(reserve[r]).configuration
  <1> DEFINE rd == update_state(reserve[r])
             a  == total_supply_scaled'[r]
             d  == total_debt_scaled[r]
  <1>1. rd \in ReserveData /\ r \in Reserves
    BY UpdateStateType
  <1>2. a \in Nat /\ d \in Nat
    BY DEF TypeOK
  <1>3. reserve'[r] = with_new_rates(r, rd, a, d)
    BY DEF swapped
  <1> HIDE DEF rd, a, d
  <1>4. \A x \in Nat, y \in Nat :
          /\ with_new_rates(r, rd, x, y).liquidity_index = rd.liquidity_index
          /\ with_new_rates(r, rd, x, y).configuration = rd.configuration
    BY <1>1, NewRatesKeep
  <1>5. /\ reserve'[r].liquidity_index = rd.liquidity_index
        /\ reserve'[r].configuration = rd.configuration
    BY <1>2, <1>3, <1>4
  <1> QED
    BY <1>5 DEF rd

(* Selling: the shares burned are worth at least what left the reserve.    *)
LEMMA SoldGuards ==
  ASSUME TypeOK, TypeOK', NEW u \in Users,
         NEW from \in Reserves, NEW to \in Reserves,
         NEW burned \in Nat, NEW sold \in Nat, NEW bought \in Nat,
         NEW minted \in Nat, NEW fee \in Nat,
         swapped(u, from, to, burned, sold, bought, minted, fee)
  PROVE  SurplusGuarded(from)
  <1> DEFINE index == update_state(reserve[from]).liquidity_index
             bi    == reserve'[from].variable_borrow_index
             c     == -sold
             t     == -burned
  <1>1. /\ index \in Nat /\ bi \in Nat /\ RAY \in Nat
        /\ reserve'[from].liquidity_index = index
        /\ sold * RAY <= burned * index
    <2>1. index \in Nat /\ RAY \in Nat /\ sold * RAY <= burned * index
      BY AccruedIndices, ScaleAssumption DEF swapped
    <2>2. bi \in Nat
      BY DEF TypeOK, ReserveData, Index
    <2>3. reserve'[from].liquidity_index = index
      BY SwapStores
    <2> QED
      BY <2>1, <2>2, <2>3
  <1> HIDE DEF index
  <1>2. /\ c \in Int /\ t \in Int
        /\ cash'[from] = cash[from] + c
        /\ total_debt_scaled'[from] = total_debt_scaled[from] + 0
        /\ deficit'[from] = deficit[from] + 0
        /\ total_supply_scaled'[from] = total_supply_scaled[from] + t
    BY DEF swapped, TypeOK
  <1>3. /\ sold * RAY \in Nat /\ burned * index \in Nat
        /\ c * RAY = -(sold * RAY) /\ t * index = -(burned * index)
        /\ 0 * bi = 0 /\ 0 * RAY = 0
    BY <1>1, SMT
  <1> HIDE DEF c, t
  <1>4. /\ surplus(from, reserve'[from]) \in Int
        /\ surplus(from, reserve[from])' = surplus(from, reserve'[from])
             + (c * RAY + 0 * bi + 0 * RAY - t * index)
    BY <1>1, <1>2, SurplusMoves, 0 \in Int
  <1> HIDE DEF bi
  <1>5. surplus(from, reserve[from])' >= surplus(from, reserve'[from])
    BY <1>1, <1>3, <1>4
  <1> QED
    BY <1>5 DEF SurplusGuarded

(* Buying: the shares minted are worth at most what came in.               *)
LEMMA BoughtGuards ==
  ASSUME TypeOK, TypeOK', NEW u \in Users,
         NEW from \in Reserves, NEW to \in Reserves,
         NEW burned \in Nat, NEW sold \in Nat, NEW bought \in Nat,
         NEW minted \in Nat, NEW fee \in Nat,
         swapped(u, from, to, burned, sold, bought, minted, fee)
  PROVE  SurplusGuarded(to)
  <1> DEFINE index == update_state(reserve[to]).liquidity_index
             bi    == reserve'[to].variable_borrow_index
  <1>1. /\ index \in Nat /\ index > 0 /\ bi \in Nat /\ RAY \in Nat
        /\ reserve'[to].liquidity_index = index
        /\ minted = ray_div_down(bought, index)
    BY AccruedIndices, ScaleAssumption, SwapStores
    DEF TypeOK, ReserveData, Index, swapped
  <1> HIDE DEF index
  <1>2. /\ cash'[to] = cash[to] + bought
        /\ total_debt_scaled'[to] = total_debt_scaled[to] + 0
        /\ deficit'[to] = deficit[to] + 0
        /\ total_supply_scaled'[to] = total_supply_scaled[to] + minted
    BY DEF swapped, TypeOK
  <1>3. minted * index <= bought * RAY
    BY <1>1, QuotientBounds
  <1>4. /\ bought * RAY \in Nat /\ minted * index \in Nat
        /\ 0 * bi = 0 /\ 0 * RAY = 0
    BY <1>1, SMT
  <1>5. /\ surplus(to, reserve'[to]) \in Int
        /\ surplus(to, reserve[to])' = surplus(to, reserve'[to])
             + (bought * RAY + 0 * bi + 0 * RAY - minted * index)
    BY <1>1, <1>2, SurplusMoves, 0 \in Int
  <1> HIDE DEF bi
  <1>6. surplus(to, reserve[to])' >= surplus(to, reserve'[to])
    BY <1>3, <1>4, <1>5
  <1> QED
    BY <1>6 DEF SurplusGuarded

(* Every step of the pool with swaps guards every reserve's surplus.       *)
LEMMA SwapGuards ==
  ASSUME TypeOK, TotalsAreSums, [SwapNext]_vars, NEW r \in Reserves
  PROVE  SurplusGuarded(r)
  <1>1. CASE [Next]_vars
    BY <1>1, NextGuards
  <1>2. CASE Swap
    <2>1. PICK u \in Users, from \in Reserves, to \in Reserves,
               burned \in Nat, sold \in Nat, bought \in Nat,
               minted \in Nat, fee \in Nat :
            swapped(u, from, to, burned, sold, bought, minted, fee)
      BY <1>2, SwapIsSwapped
    <2>2. TypeOK'
      BY SwapStep
    <2>3. CASE r = from \/ r = to
      BY <2>1, <2>2, <2>3, SoldGuards, BoughtGuards
    <2>4. CASE r # from /\ r # to
      <3>1. /\ cash'[r] = cash[r] /\ deficit'[r] = deficit[r]
            /\ total_debt_scaled'[r] = total_debt_scaled[r]
            /\ total_supply_scaled'[r] = total_supply_scaled[r]
        BY <2>1, <2>4 DEF swapped, TypeOK
      <3> QED
        BY <2>2, <3>1, SurplusKept
    <2> QED
      BY <2>3, <2>4
  <1> QED
    BY <1>1, <1>2 DEF SwapNext

(* A swap mints in one reserve, within its cap, and borrows nothing.       *)
LEMMA BoughtStaysWithin ==
  ASSUME TypeOK, TypeOK', NEW u \in Users,
         NEW from \in Reserves, NEW to \in Reserves,
         NEW burned \in Nat, NEW sold \in Nat, NEW bought \in Nat,
         NEW minted \in Nat, NEW fee \in Nat,
         swapped(u, from, to, burned, sold, bought, minted, fee)
  PROVE  SupplyWithinCap(to)'
  <1> DEFINE rd     == update_state(reserve[to])
             c      == rd.configuration
             index  == rd.liquidity_index
             total  == total_supply_scaled[to]
  <1>1. /\ index \in Nat /\ index > 0 /\ RAY \in Nat
        /\ c \in ReserveConfiguration /\ total \in Nat
    BY AccruedIndices, UpdateStateType, ScaleAssumption
    DEF TypeOK, ReserveData, ValidConfiguration
  <1>2. /\ minted = ray_div_down(bought, index)
        /\ within(c.supply_cap, c, ray_mul(total, index) + bought)
        /\ total_supply_scaled'[to] = total + minted
    BY DEF swapped, supply_cap_ok, total_supply, TypeOK
  <1>3. /\ reserve'[to].liquidity_index = index
        /\ reserve'[to].configuration = c
    BY SwapStores
  <1> HIDE DEF index, total, c, rd
  <1>4. minted * index <= bought * RAY
    BY <1>1, <1>2, QuotientBounds
  <1>5. /\ ray_mul(total + minted, index) <= ray_mul(total, index) + bought
        /\ ray_mul(total, index) \in Nat
        /\ ray_mul(total + minted, index) \in Nat
    <2>1. ray_mul(total + minted, index) <= ray_mul(total, index) + bought
      BY <1>1, <1>4, RayMulAdds
    <2>2. total + minted \in Nat
      BY <1>1
    <2> QED
      BY <1>1, <2>1, <2>2, RayMulType
  <1>6. c.supply_cap \in Nat
    BY <1>1 DEF ReserveConfiguration
  <1>7. within(c.supply_cap, c, ray_mul(total + minted, index))
    BY <1>1, <1>2, <1>5, <1>6, WithinSmaller
  <1> QED
    BY <1>2, <1>3, <1>7 DEF SupplyWithinCap, total_supply

(* Every step of the pool with swaps mints within the caps.                *)
LEMMA SwapMintsWithinCaps ==
  ASSUME TypeOK, TotalsAreSums, [SwapNext]_vars, NEW r \in Reserves
  PROVE  /\ total_supply_scaled'[r] > total_supply_scaled[r] =>
              SupplyWithinCap(r)'
         /\ total_debt_scaled'[r] > total_debt_scaled[r] =>
              DebtWithinCaps(r)'
  <1>1. CASE [Next]_vars
    BY <1>1, MintsAreWithinCaps
  <1>2. CASE Swap
    <2>1. PICK u \in Users, from \in Reserves, to \in Reserves,
               burned \in Nat, sold \in Nat, bought \in Nat,
               minted \in Nat, fee \in Nat :
            swapped(u, from, to, burned, sold, bought, minted, fee)
      BY <1>2, SwapIsSwapped
    <2>2. TypeOK'
      BY SwapStep
    <2>3. SupplyWithinCap(to)'
      BY <2>1, <2>2, BoughtStaysWithin
    <2>4. ASSUME r # to
          PROVE  total_supply_scaled'[r] <= total_supply_scaled[r]
      <3>1. /\ total_supply_scaled \in [Reserves -> Nat]
            /\ total_supply_scaled' = [total_supply_scaled EXCEPT
                                ![from] = @ - burned, ![to] = @ + minted]
        BY <2>1 DEF swapped, TypeOK
      <3>2. \/ total_supply_scaled'[r] = total_supply_scaled[r]
            \/ total_supply_scaled'[r] = total_supply_scaled[r] - burned
        BY <2>4, <3>1
      <3> QED
        BY <3>1, <3>2
    <2>5. /\ total_debt_scaled'[r] = total_debt_scaled[r]
          /\ total_supply_scaled[r] \in Nat /\ total_debt_scaled[r] \in Nat
          /\ total_supply_scaled'[r] \in Nat
      BY <2>1, <2>2 DEF swapped, TypeOK
    <2> QED
      BY <2>3, <2>4, <2>5
  <1> QED
    BY <1>1, <1>2 DEF SwapNext

-----------------------------------------------------------------------------
(* Types, sums, flags, caps and rounding with swaps among the operations   *)
(* of the pool (swap.rs with the aToken's burn and mint).                  *)
LEMMA SwapInvariant == SwapSpec => [](TypeOK /\ TotalsAreSums)
  <1> DEFINE Inv == TypeOK /\ TotalsAreSums
  <1>1. Init => Inv
    BY InitType, InitSums
  <1>2. Inv /\ [SwapNext]_vars => Inv'
    BY SwapStep
  <1>3. SwapSpec => []Inv
    BY <1>1, <1>2, PTL DEF SwapSpec
  <1> QED
    BY <1>3

(* Neither the burn in one reserve nor the mint in another of a swap takes *)
(* a balance or a total below zero (swap.rs, swap_collateral).             *)
THEOREM SwapTypeCorrect == SwapSpec => []TypeOK
  BY SwapInvariant, PTL

(* Totals stay sums of balances (swap.rs, the two token calls).            *)
THEOREM SumsUnderSwaps == SwapSpec => []TotalsAreSums
  BY SwapInvariant, PTL

(* A swap leaves debts and their bits alone, so every debt stays flagged.  *)
THEOREM DebtFlaggedUnderSwaps == SwapSpec => []DebtIsFlagged
  <1>1. Init => DebtIsFlagged
    BY DEF Init, DebtIsFlagged
  <1>2. TypeOK /\ DebtIsFlagged /\ [SwapNext]_vars => DebtIsFlagged'
    <2>1. ASSUME TypeOK, DebtIsFlagged, Swap
          PROVE  DebtIsFlagged'
      <3>1. PICK u \in Users, from \in Reserves, to \in Reserves,
                 burned \in Nat, sold \in Nat, bought \in Nat,
                 minted \in Nat, fee \in Nat :
              swapped(u, from, to, burned, sold, bought, minted, fee)
        BY <2>1, SwapIsSwapped
      <3>2. UNCHANGED <<scaled_debt, borrowing>>
        BY <3>1 DEF swapped
      <3> QED
        BY <2>1, <3>2, DebtUntouched
    <2> QED
      BY <2>1, NextFlags DEF SwapNext
  <1> QED
    BY <1>1, <1>2, SwapTypeCorrect, PTL DEF SwapSpec

(* A swap needs none of the three exceptions: what it sells is paid for in *)
(* shares, and the shares it buys are paid for in cash.                    *)
THEOREM RoundingFavoursUnderSwaps == SwapSpec => RoundingFavoursPool
  <1>1. TypeOK /\ TotalsAreSums /\ [SwapNext]_vars =>
          [\A r \in Reserves : SurplusGuarded(r)]_vars
    BY SwapGuards
  <1> QED
    BY <1>1, SwapInvariant, PTL DEF SwapSpec, RoundingFavoursPool

(* A swap respects the supply cap of the reserve it buys into, at the      *)
(* accrued index (swap.rs, with validate_supply_cap).                      *)
THEOREM CapsBindUnderSwaps == SwapSpec => CapsBindAtAccruedIndex
  <1>1. TypeOK /\ TotalsAreSums /\ [SwapNext]_vars =>
          [\A r \in Reserves :
             /\ total_supply_scaled'[r] > total_supply_scaled[r] =>
                  SupplyWithinCap(r)'
             /\ total_debt_scaled'[r] > total_debt_scaled[r] =>
                  DebtWithinCaps(r)']_vars
    BY SwapMintsWithinCaps
  <1> QED
    BY <1>1, SwapInvariant, PTL DEF SwapSpec, CapsBindAtAccruedIndex

-----------------------------------------------------------------------------
(***************************************************************************)
(* Collateral bits.  A bit lost without cause would take collateral out of *)
(* every health factor while its owner still has it.                       *)
(***************************************************************************)
bit_kept(a, r) ==
  r \in collateral[a] \ collateral'[a] =>
    \/ scaled_balance'[r][a] = 0
    \/ scaled_balance'[r][a] = scaled_balance[r][a] /\ healthy(a)'

(* The shares of a whole half-up balance are all the shares there are.     *)
LEMMA WholeBalanceBurns ==
  ASSUME NEW h \in Nat, NEW i \in Nat, i >= RAY
  PROVE  ray_div_up(ray_mul(h, i), i) >= h
  <1> DEFINE v    == ray_mul(h, i)
             ceil == ray_div_up(v, i)
  <1>1. RAY \in Nat /\ RAY > 0 /\ HALF_RAY \in Nat /\ HALF_RAY < i /\ i > 0
    BY ScaleAssumption, HalfRay
  <1>2. v \in Nat /\ h * i \in Nat /\ h * i < v * RAY + HALF_RAY
    BY RayMulBounds
  <1> HIDE DEF v
  <1>3. ceil \in Nat /\ v * RAY <= ceil * i
    BY <1>1, <1>2, QuotientBounds
  <1> HIDE DEF ceil
  <1>4. v * RAY \in Nat /\ ceil * i \in Nat
    BY <1>1, <1>2, <1>3, ProductNat
  <1>5. h * i < ceil * i + i
    BY <1>1, <1>2, <1>3, <1>4
  <1>6. h < ceil + 1
    <2> SUFFICES ASSUME ceil + 1 <= h PROVE FALSE
      BY <1>3
    <2>1. (ceil + 1) * i = ceil * i + i
      BY <1>3, SMT
    <2>2. (ceil + 1) * i <= h * i
      BY <1>1, <1>3, SMT
    <2> QED
      BY <1>2, <1>4, <1>5, <2>1, <2>2
  <1> QED
    BY <1>3, <1>6 DEF v, ceil

(* A withdrawal clears the bit when it takes the whole balance, and burns  *)
(* every share of it then.                                                 *)
LEMMA WithdrawBits ==
  ASSUME TypeOK, NEW u \in Users, NEW v \in Users, NEW q \in Reserves,
         NEW n \in Nat, Withdraw(u, v, q, n),
         NEW a \in Accounts, NEW r \in Reserves
  PROVE  bit_kept(a, r)
  <1> SUFFICES ASSUME r \in collateral[a] \ collateral'[a]
               PROVE  scaled_balance'[r][a] = 0
    BY DEF bit_kept
  <1> DEFINE index   == update_state(reserve[q]).liquidity_index
             held    == scaled_balance[q][u]
             balance == ray_mul(held, index)
             burned  == a_token_burned(q, u, balance, index)
  <1>1. /\ index \in Nat /\ index > 0 /\ index >= RAY /\ held \in Nat
        /\ u \in Accounts
    BY AccruedIndices, UserIsAccount DEF TypeOK
  <1>2. /\ a = u /\ r = q
        /\ ATokenBurn(q, u, burned)
    BY <1>1 DEF Withdraw, supplied, TypeOK
  <1>3. burned = held
    <2> HIDE DEF index, held
    <2>1. ray_div_up(balance, index) >= held /\ balance \in Nat
      BY <1>1, WholeBalanceBurns, RayMulType
    <2>2. ray_div_up(balance, index) \in Nat
      BY <1>1, <2>1, RayDivTypes
    <2> QED
      BY <1>1, <2>1, <2>2 DEF a_token_burned, held
  <1> HIDE DEF burned
  <1>4. scaled_balance'[q][u] = held - held
    BY <1>1, <1>2, <1>3 DEF ATokenBurn, TypeOK
  <1> QED
    BY <1>1, <1>2, <1>4

(* A transfer clears the sender's bit when it moves every share.           *)
LEMMA TransferBits ==
  ASSUME TypeOK, NEW u \in Users, NEW v \in Users, NEW q \in Reserves,
         NEW n \in Nat, TransferAToken(u, v, q, n),
         NEW a \in Accounts, NEW r \in Reserves
  PROVE  bit_kept(a, r)
  <1> SUFFICES ASSUME r \in collateral[a] \ collateral'[a]
               PROVE  scaled_balance'[r][a] = 0
    BY DEF bit_kept
  <1> DEFINE moved == ray_div_up(n, current_liquidity_index(reserve[q]))
  <1>1. u \in Accounts /\ v \in Accounts /\ u # v
    BY UserIsAccount DEF TransferAToken
  <1>2. /\ collateral' = [collateral EXCEPT
               ![u] = IF scaled_balance[q][u] = moved THEN @ \ {q} ELSE @,
               ![v] = @ \union {q}]
        /\ scaled_balance' = [scaled_balance EXCEPT ![q][u] = @ - moved,
                                                    ![q][v] = @ + moved]
    BY DEF TransferAToken
  <1> HIDE DEF moved
  <1>3. a = u /\ r = q /\ scaled_balance[q][u] = moved
    BY <1>1, <1>2 DEF TypeOK
  <1>4. scaled_balance'[q][u] = scaled_balance[q][u] - moved
    BY <1>1, <1>2 DEF TypeOK
  <1>5. scaled_balance[q][u] \in Nat
    BY <1>1 DEF TypeOK
  <1> QED
    BY <1>3, <1>4, <1>5

(* The switch judges the position with the bit cleared, at the prices and  *)
(* reserves it leaves behind.                                              *)
LEMMA SwitchBits ==
  ASSUME TypeOK, NEW u \in Users, NEW q \in Reserves,
         DisableCollateral(u, q), NEW a \in Accounts, NEW r \in Reserves
  PROVE  bit_kept(a, r)
  <1> SUFFICES ASSUME r \in collateral[a] \ collateral'[a]
               PROVE  scaled_balance'[r][a] = scaled_balance[r][a]
                        /\ healthy(a)'
    BY DEF bit_kept
  <1>1. /\ collateral' = [collateral EXCEPT ![u] = collateral[u] \ {q}]
        /\ account_data(u, collateral[u] \ {q}, borrowing[u],
                        reserve).health_factor >= WAD
        /\ UNCHANGED <<now, price, reserve, scaled_balance, scaled_debt,
                       borrowing>>
    BY DEF DisableCollateral, environment, tokens
  <1>2. a = u /\ collateral'[u] = collateral[u] \ {q}
    BY <1>1, UserIsAccount DEF TypeOK
  <1>3. account_data(u, collateral[u] \ {q}, borrowing[u], reserve)
          = account_data(u, collateral[u], borrowing[u], reserve)'
    <2> DEFINE weighted(coll, field) ==
                 [x \in coll |-> weighted_collateral(u, x, reserve,
                                   reserve[x].configuration[field])]
               values(coll) == [x \in coll |-> collateral_value(u, x, reserve)]
               debts(borr)  == [x \in borr |-> debt_value(u, x, reserve)]
               kept == collateral[u] \ {q}
    <2>1. kept = collateral'[u] /\ borrowing' = borrowing /\ reserve' = reserve
      BY <1>1, <1>2
    <2>2. ASSUME NEW field
          PROVE  weighted(kept, field) = weighted(collateral[u], field)'
      <3>1. \A x \in kept :
              weighted_collateral(u, x, reserve,
                                  reserve[x].configuration[field])
                = weighted_collateral(u, x, reserve,
                                      reserve[x].configuration[field])'
        BY <1>1 DEF weighted_collateral, weighted_value, supplied
      <3> QED
        BY <2>1, <3>1
    <2>3. values(kept) = values(collateral[u])'
      <3>1. \A x \in kept :
              collateral_value(u, x, reserve) = collateral_value(u, x, reserve)'
        BY <1>1 DEF collateral_value, value_in_base, supplied
      <3> QED
        BY <2>1, <3>1
    <2>4. debts(borrowing[u]) = debts(borrowing[u])'
      <3>1. \A x \in borrowing[u] :
              debt_value(u, x, reserve) = debt_value(u, x, reserve)'
        BY <1>1 DEF debt_value, value_in_base, current_variable_borrow_index,
           update_state
      <3> QED
        BY <2>1, <3>1
    <2>5. /\ weighted(kept, "ltv") = weighted(collateral[u], "ltv")'
          /\ weighted(kept, "liquidation_threshold")
               = weighted(collateral[u], "liquidation_threshold")'
      BY <2>2
    <2> QED
      BY <2>3, <2>4, <2>5 DEF account_data
  <1>4. healthy(u)'
    BY <1>1, <1>3 DEF healthy, health_data
  <1> QED
    BY <1>1, <1>2, <1>4

(* A swap clears the bit of what it sold only when it sold all of it.      *)
LEMMA SwapBits ==
  ASSUME TypeOK, NEW u \in Users,
         NEW from \in Reserves, NEW to \in Reserves,
         NEW burned \in Nat, NEW sold \in Nat, NEW bought \in Nat,
         NEW minted \in Nat, NEW fee \in Nat,
         swapped(u, from, to, burned, sold, bought, minted, fee),
         NEW a \in Accounts, NEW r \in Reserves
  PROVE  bit_kept(a, r)
  <1> SUFFICES ASSUME r \in collateral[a] \ collateral'[a]
               PROVE  scaled_balance'[r][a] = 0
    BY DEF bit_kept
  <1>1. u \in Accounts /\ from # to
    BY UserIsAccount DEF swapped
  <1>2. /\ collateral' = [collateral EXCEPT ![u] = (@ \union {to}) \
                            (IF burned = scaled_balance[from][u]
                             THEN {from} ELSE {})]
        /\ scaled_balance' = [scaled_balance EXCEPT ![from][u] = @ - burned,
                                                    ![to][u]   = @ + minted]
    BY DEF swapped
  <1>3. a = u /\ r = from /\ scaled_balance[from][u] = burned
    BY <1>1, <1>2 DEF TypeOK
  <1>4. scaled_balance'[from][u] = scaled_balance[from][u] - burned
    BY <1>1, <1>2 DEF TypeOK
  <1> QED
    BY <1>3, <1>4

(* Everything else only sets bits, or leaves them.                         *)
LEMMA UserOperationBits ==
  ASSUME TypeOK, UserOperation, NEW a \in Accounts, NEW r \in Reserves
  PROVE  bit_kept(a, r)
  <1>1. PICK q \in Reserves, u \in Users, v \in Users :
          \/ \E n \in Amounts : Supply(u, v, q, n)
          \/ \E n \in Amounts \union {U128_MAX} : Withdraw(u, v, q, n)
          \/ \E n \in Amounts : Borrow(u, v, q, n)
          \/ \E n \in Amounts \union {U128_MAX} : Repay(u, v, q, n)
          \/ \E n \in Amounts : TransferAToken(u, v, q, n)
          \/ EnableCollateral(u, q)
          \/ DisableCollateral(u, q)
    BY DEF UserOperation
  <1>2. ASSUME collateral[a] \subseteq collateral'[a]
        PROVE  bit_kept(a, r)
    BY <1>2 DEF bit_kept
  <1>3. CASE \E n \in Amounts : Supply(u, v, q, n)
    <2>1. \/ collateral' = collateral
          \/ collateral' = [collateral EXCEPT ![v] = @ \union {q}]
      BY <1>3 DEF Supply
    <2> QED
      BY <1>2, <2>1, UserIsAccount DEF TypeOK
  <1>4. CASE \E n \in Amounts \union {U128_MAX} : Withdraw(u, v, q, n)
    BY <1>4, AmountsNat, WithdrawBits
  <1>5. CASE \E n \in Amounts : Borrow(u, v, q, n)
    <2>1. collateral' = collateral
      BY <1>5 DEF Borrow
    <2> QED
      BY <1>2, <2>1
  <1>6. CASE \E n \in Amounts \union {U128_MAX} : Repay(u, v, q, n)
    <2>1. collateral' = collateral
      BY <1>6 DEF Repay
    <2> QED
      BY <1>2, <2>1
  <1>7. CASE \E n \in Amounts : TransferAToken(u, v, q, n)
    BY <1>7, AmountsNat, TransferBits
  <1>8. CASE EnableCollateral(u, q)
    <2>1. collateral' = [collateral EXCEPT ![u] = @ \union {q}]
      BY <1>8 DEF EnableCollateral
    <2> QED
      BY <1>2, <2>1, UserIsAccount DEF TypeOK
  <1>9. CASE DisableCollateral(u, q)
    BY <1>9, SwitchBits
  <1> QED
    BY <1>1, <1>3, <1>4, <1>5, <1>6, <1>7, <1>8, <1>9

(* Every step of the pool with swaps keeps every bit it should.            *)
LEMMA SwapNextBits ==
  ASSUME TypeOK, SwapNext, NEW a \in Accounts, NEW r \in Reserves
  PROVE  bit_kept(a, r)
  <1>1. CASE UserOperation
    BY <1>1, UserOperationBits
  <1>2. CASE Swap
    <2>1. PICK u \in Users, from \in Reserves, to \in Reserves,
               burned \in Nat, sold \in Nat, bought \in Nat,
               minted \in Nat, fee \in Nat :
            swapped(u, from, to, burned, sold, bought, minted, fee)
      BY <1>2, SwapIsSwapped
    <2> QED
      BY <2>1, SwapBits
  <1>3. CASE PoolMaintenance \/ Administration \/ Environment
    <2>1. collateral' = collateral
      BY <1>3 DEF PoolMaintenance, UpdateReserveState, CoverDeficit,
         CollectProtocolReserves, Administration, UpdateReserveConfiguration,
         SetPaused, Environment, Tick, PriceChange, bitmaps
    <2> QED
      BY <2>1 DEF bit_kept
  <1> QED
    BY <1>1, <1>2, <1>3 DEF SwapNext, Next

(* No operation, swaps included, drops the collateral bit of a balance its *)
(* owner still has, unless the owner switches it off and stays healthy     *)
(* (router.rs withdraw and set_user_use_reserve_as_coll, the transfer hook *)
(* validate_and_finalize_transfer, swap.rs).                               *)
THEOREM CollateralBitsKept == SwapSpec => CollateralBitKeptWithBalance
  <1>1. TypeOK /\ [SwapNext]_vars =>
          [\A a \in Accounts, r \in Reserves :
             r \in collateral[a] \ collateral'[a] =>
               \/ scaled_balance'[r][a] = 0
               \/ scaled_balance'[r][a] = scaled_balance[r][a]
                    /\ healthy(a)']_vars
    BY SwapNextBits DEF bit_kept
  <1> QED
    BY <1>1, SwapTypeCorrect, PTL DEF SwapSpec, CollateralBitKeptWithBalance

-----------------------------------------------------------------------------
(***************************************************************************)
(* What account_data sums up: what collateral is worth, what it weighs by  *)
(* its threshold, and what is owed.                                        *)
(***************************************************************************)
threshold_of(r, rd) == rd[r].configuration.liquidation_threshold

collateral_worth(u, coll, rd) ==
  SumFunctionOnSet([r \in coll |-> collateral_value(u, r, rd)], coll)

collateral_weight(u, coll, rd) ==
  SumFunctionOnSet([r \in coll |->
    weighted_collateral(u, r, rd, threshold_of(r, rd))], coll)

debt_worth(u, borr, rd) ==
  SumFunctionOnSet([r \in borr |-> debt_value(u, r, rd)], borr)

(* What account_data returns, in those sums.                               *)
LEMMA AccountData ==
  ASSUME NEW u, NEW coll, NEW borr, NEW rd
  PROVE  LET data == account_data(u, coll, borr, rd)
         IN  /\ data.total_collateral_base = collateral_worth(u, coll, rd)
             /\ data.total_debt_base = debt_worth(u, borr, rd)
             /\ data.weighted_threshold_sum = collateral_weight(u, coll, rd)
             /\ data.current_liquidation_threshold =
                  average_threshold(collateral_weight(u, coll, rd),
                                    collateral_worth(u, coll, rd))
             /\ data.health_factor =
                  calculate_health_factor(collateral_worth(u, coll, rd),
                    average_threshold(collateral_weight(u, coll, rd),
                                      collateral_worth(u, coll, rd)),
                    debt_worth(u, borr, rd))
<1>1. \A c : c["liquidation_threshold"] = c.liquidation_threshold
  OBVIOUS
<1> DEFINE weights == [r \in coll |-> weighted_collateral(u, r, rd,
                         rd[r].configuration["liquidation_threshold"])]
           expected == [r \in coll |-> weighted_collateral(u, r, rd,
                          threshold_of(r, rd))]
           values == [r \in coll |-> collateral_value(u, r, rd)]
           owing == [r \in borr |-> debt_value(u, r, rd)]
<1>2. weights = expected
  BY <1>1 DEF threshold_of
<1>3. /\ SumFunction(weights) = collateral_weight(u, coll, rd)
      /\ SumFunction(values) = collateral_worth(u, coll, rd)
      /\ SumFunction(owing) = debt_worth(u, borr, rd)
  <2>1. DOMAIN expected = coll /\ DOMAIN values = coll /\ DOMAIN owing = borr
    OBVIOUS
  <2> QED
    BY <1>2, <2>1 DEF SumFunction, collateral_weight, collateral_worth,
       debt_worth
<1> QED BY <1>3 DEF account_data

-----------------------------------------------------------------------------
(* Values and weights of amounts of one asset.                             *)
LEMMA Scales ==
  ASSUME TypeOK, NEW r \in Reserves
  PROVE  /\ price[r] * ORACLE_TO_WAD \in Nat
         /\ reserve[r].configuration.decimals_pow \in Nat
         /\ reserve[r].configuration.decimals_pow > 0
         /\ reserve[r].configuration.liquidation_threshold \in Nat
         /\ granted_by_average \in Nat /\ lost_to_floor(r) \in Nat
         /\ \A x \in Nat, w \in Nat :
              /\ value_in_base(r, x) =
                   (x * (price[r] * ORACLE_TO_WAD))
                     \div reserve[r].configuration.decimals_pow
              /\ weighted_value(r, x, w) =
                   (x * (price[r] * ORACLE_TO_WAD) * w)
                     \div reserve[r].configuration.decimals_pow
<1>1. /\ price[r] \in Nat /\ ORACLE_TO_WAD \in Nat
      /\ reserve[r].configuration \in ReserveConfiguration
  BY PoolAssumption DEF TypeOK, ReserveData, ValidConfiguration
<1>2. /\ reserve[r].configuration.decimals_pow \in Nat \ {0}
      /\ reserve[r].configuration.liquidation_threshold \in Nat
  BY <1>1 DEF ReserveConfiguration
<1>3. price[r] * ORACLE_TO_WAD \in Nat
  BY <1>1, ProductNat
<1>4. \A x \in Nat : x * price[r] * ORACLE_TO_WAD
                       = x * (price[r] * ORACLE_TO_WAD)
  <2> DEFINE q == price[r]
  <2> HIDE DEF q
  <2>1. \A x \in Nat : x * q * ORACLE_TO_WAD = x * (q * ORACLE_TO_WAD)
    BY <1>1, SMT DEF q
  <2> QED BY <2>1 DEF q
<1>5. granted_by_average \in Nat /\ lost_to_floor(r) \in Nat
  BY DEF granted_by_average, lost_to_floor
<1> QED BY <1>2, <1>3, <1>4, <1>5 DEF value_in_base, weighted_value

(* Values grow with the amount, and parting one loses at most the floor.   *)
LEMMA Values ==
  ASSUME TypeOK, NEW r \in Reserves, NEW x \in Nat, NEW y \in Nat
  PROVE  /\ value_in_base(r, x) \in Nat
         /\ x <= y => value_in_base(r, x) <= value_in_base(r, y)
         /\ value_in_base(r, x + y)
              <= value_in_base(r, x) + value_in_base(r, y) + lost_to_floor(r)
<1> DEFINE e == price[r] * ORACLE_TO_WAD
           p == reserve[r].configuration.decimals_pow
<1>1. e \in Nat /\ p \in Nat /\ p > 0
  BY Scales
<1>2. \A n \in Nat : value_in_base(r, n) = (n * e) \div p
  BY Scales, 0 \in Nat
<1>3. lost_to_floor(r) = IF p = 1 THEN 0 ELSE 1
  BY DEF lost_to_floor
<1> HIDE DEF e, p
<1>4. x * e \in Nat /\ y * e \in Nat /\ (x + y) * e = x * e + y * e
  BY <1>1, ProductNat, SMT
<1>5. value_in_base(r, x) \in Nat
  BY <1>1, <1>2, <1>4, DivBounds
<1>6. x <= y => value_in_base(r, x) <= value_in_base(r, y)
  BY <1>1, <1>2, QuotientGrows
<1>7. (x * e + y * e) \div p
        <= (x * e) \div p + (y * e) \div p + (IF p = 1 THEN 0 ELSE 1)
  <2> DEFINE a == x * e
             b == y * e
  <2>1. a \in Nat /\ b \in Nat
    BY <1>4
  <2> HIDE DEF a, b
  <2>2. (a + b) \div p <= a \div p + b \div p + (IF p = 1 THEN 0 ELSE 1)
    BY <1>1, <2>1, QuotientOfSum
  <2> QED BY <2>2 DEF a, b
<1>8. value_in_base(r, x + y) = (x * e + y * e) \div p
  <2>1. x + y \in Nat
    OBVIOUS
  <2> QED BY <1>2, <1>4, <2>1
<1> QED BY <1>2, <1>3, <1>5, <1>6, <1>7, <1>8

(* So do weighted values; a threshold that is k higher adds k values, and  *)
(* without decimals a weighted value is the weight times the value.        *)
LEMMA Weights ==
  ASSUME TypeOK, NEW r \in Reserves, NEW x \in Nat, NEW y \in Nat,
         NEW w \in Nat, NEW k \in Nat
  PROVE  /\ weighted_value(r, x, w) \in Nat
         /\ x <= y => weighted_value(r, x, w) <= weighted_value(r, y, w)
         /\ weighted_value(r, x + y, w)
              <= weighted_value(r, x, w) + weighted_value(r, y, w)
                   + lost_to_floor(r)
         /\ weighted_value(r, x, w) + k * value_in_base(r, x)
              <= weighted_value(r, x, w + k)
         /\ reserve[r].configuration.decimals_pow = 1 =>
              weighted_value(r, x, w) = w * value_in_base(r, x)
<1> DEFINE e == price[r] * ORACLE_TO_WAD
           p == reserve[r].configuration.decimals_pow
           f == e * w
<1>1. e \in Nat /\ p \in Nat /\ p > 0 /\ f \in Nat
  BY Scales, ProductNat
<1>2. \A n, m \in Nat : /\ value_in_base(r, n) = (n * e) \div p
                        /\ weighted_value(r, n, m) = (n * e * m) \div p
  BY Scales
<1>3. lost_to_floor(r) = IF p = 1 THEN 0 ELSE 1
  BY DEF lost_to_floor
<1> HIDE DEF e, p
<1>4. \A n \in Nat : n * e * w = n * f
  BY <1>1, SMT
<1>5. \A n \in Nat : weighted_value(r, n, w) = (n * f) \div p
  BY <1>2, <1>4
<1> HIDE DEF f
<1>6. x * f \in Nat /\ y * f \in Nat /\ (x + y) * f = x * f + y * f
  BY <1>1, ProductNat, SMT
<1>7. weighted_value(r, x, w) \in Nat
  BY <1>1, <1>5, <1>6, DivBounds
<1>8. x <= y => weighted_value(r, x, w) <= weighted_value(r, y, w)
  BY <1>1, <1>5, QuotientGrows
<1>9. (x * f + y * f) \div p
        <= (x * f) \div p + (y * f) \div p + (IF p = 1 THEN 0 ELSE 1)
  <2> DEFINE a == x * f
             b == y * f
  <2>1. a \in Nat /\ b \in Nat
    BY <1>6
  <2> HIDE DEF a, b
  <2>2. (a + b) \div p <= a \div p + b \div p + (IF p = 1 THEN 0 ELSE 1)
    BY <1>1, <2>1, QuotientOfSum
  <2> QED BY <2>2 DEF a, b
<1>10. weighted_value(r, x + y, w) = (x * f + y * f) \div p
  <2>1. x + y \in Nat
    OBVIOUS
  <2> QED BY <1>5, <1>6, <2>1
<1>11. weighted_value(r, x, w) + k * value_in_base(r, x)
         <= weighted_value(r, x, w + k)
  <2> DEFINE a == x * e
  <2>1. a \in Nat /\ w + k \in Nat
    BY <1>1, ProductNat
  <2>2. /\ weighted_value(r, x, w) = (a * w) \div p
        /\ weighted_value(r, x, w + k) = (a * (w + k)) \div p
        /\ value_in_base(r, x) = a \div p
    BY <1>2, <2>1
  <2> HIDE DEF a
  <2> QED BY <1>1, <2>1, <2>2, QuotientOfWeight
<1>12. p = 1 => weighted_value(r, x, w) = w * value_in_base(r, x)
  <2> DEFINE a == x * e
  <2>1. a \in Nat /\ a * w \in Nat
    BY <1>1, ProductNat
  <2>2. /\ weighted_value(r, x, w) = (a * w) \div p
        /\ value_in_base(r, x) = a \div p
    BY <1>2
  <2> HIDE DEF a
  <2>3. a \div 1 = a /\ a * w = w * a
    BY <2>1, SMT
  <2> DEFINE b == a * w
  <2>4. b \in Nat /\ b \div 1 = b
    <3>1. b \in Nat
      BY <2>1
    <3> HIDE DEF b
    <3> QED BY <3>1, SMT
  <2> QED BY <2>2, <2>3, <2>4
<1> QED BY <1>3, <1>5, <1>7, <1>8, <1>9, <1>10, <1>11, <1>12 DEF p

-----------------------------------------------------------------------------
(* The health factor of a weight and a debt, and what keeps it up.         *)
ratio(w, d) == ((w * WAD) \div BASIS_POINTS_MULTIPLIER) \div d

(* More weight against less debt is no worse a ratio.                      *)
LEMMA RatioKept ==
  ASSUME NEW w \in Nat, NEW w2 \in Nat, w <= w2, NEW d \in Nat, NEW d2 \in Nat,
         d2 <= d, d2 > 0
  PROVE  ratio(w, d) \in Nat /\ ratio(w, d) <= ratio(w2, d2)
<1>1. /\ WAD \in Nat /\ BASIS_POINTS_MULTIPLIER \in Nat
      /\ BASIS_POINTS_MULTIPLIER > 0
  BY PoolAssumption, ScaleAssumption
<1> DEFINE x == (w * WAD) \div BASIS_POINTS_MULTIPLIER
           y == (w2 * WAD) \div BASIS_POINTS_MULTIPLIER
           q == x \div d
<1>2. x <= y
  BY <1>1, QuotientGrows
<1>3. x \in Nat /\ y \in Nat
  BY <1>1, ProductNat, DivBounds
<1> HIDE DEF x, y
<1>4. q \in Nat /\ q * d <= x
  BY <1>3, DivBounds
<1> HIDE DEF q
<1>5. q * d2 <= q * d /\ q * d2 \in Nat /\ q * d \in Nat
  BY <1>4, ProductMonotone, ProductNat
<1>6. q * d2 <= y
  BY <1>2, <1>3, <1>4, <1>5
<1>7. q <= y \div d2
  BY <1>3, <1>4, <1>6, DivAtLeast
<1> QED BY <1>4, <1>7 DEF ratio, x, y, q

(* Weighing every value by the rounded-up average grants at most one basis *)
(* point of each.                                                          *)
LEMMA AverageGrants ==
  ASSUME TypeOK, NEW u \in Users, NEW coll \in SUBSET Reserves, NEW rd,
         \A r \in Reserves :
           /\ supplied(r, u, rd[r]) \in Nat
           /\ rd[r].configuration = reserve[r].configuration
  PROVE  LET sum   == collateral_weight(u, coll, rd)
             total == collateral_worth(u, coll, rd)
             mean  == average_threshold(sum, total)
         IN  /\ sum \in Nat /\ total \in Nat /\ mean \in Nat
             /\ total * mean <= sum + granted_by_average * total
<1> DEFINE values  == [r \in coll |-> collateral_value(u, r, rd)]
           weights == [r \in coll |->
                         weighted_collateral(u, r, rd, threshold_of(r, rd))]
           sum     == collateral_weight(u, coll, rd)
           total   == collateral_worth(u, coll, rd)
           mean    == average_threshold(sum, total)
           up      == sum + total - 1
<1>1. IsFiniteSet(coll)
  BY PoolAssumption, FS_Subset
<1>2. \A r \in coll :
        /\ threshold_of(r, rd) = reserve[r].configuration.liquidation_threshold
        /\ threshold_of(r, rd) \in Nat
  BY Scales DEF threshold_of
<1>3. \A r \in coll : values[r] \in Nat /\ weights[r] \in Nat
  BY <1>2, Values, Weights, 0 \in Nat DEF collateral_value, weighted_collateral
<1>4. /\ sum = SumFunctionOnSet(weights, coll)
      /\ total = SumFunctionOnSet(values, coll)
  BY DEF collateral_weight, collateral_worth
<1>5. sum \in Nat /\ total \in Nat
  BY <1>1, <1>3, <1>4, SumNat
<1>6. mean = IF total = 0 THEN 0 ELSE up \div total
  BY DEF average_threshold
<1>7. total > 0 => up \in Nat
  <2> HIDE DEF sum, total
  <2> QED BY <1>5
<1>8. mean \in Nat
  <2> HIDE DEF sum, total, up, mean
  <2> QED BY <1>5, <1>6, <1>7, DivBounds
<1>9. granted_by_average \in {0, 1}
  BY DEF granted_by_average
<1>10. ASSUME total = 0
       PROVE  total * mean <= sum + granted_by_average * total
  <2> HIDE DEF sum, total, mean
  <2>1. total * mean = 0 /\ granted_by_average * total = 0
    BY <1>8, <1>9, <1>10
  <2> QED BY <1>5, <1>8, <2>1
<1>11. ASSUME total > 0 /\ granted_by_average = 1
       PROVE  total * mean <= sum + granted_by_average * total
  <2> HIDE DEF sum, total, mean
  <2>1. mean * total <= up
    <3> HIDE DEF up
    <3> QED BY <1>5, <1>6, <1>7, <1>11, DivBounds
  <2>2. mean * total = total * mean /\ mean * total \in Nat
    BY <1>5, <1>8, ProductNat, SMT
  <2> QED BY <1>5, <1>8, <1>11, <2>1, <2>2
<1>12. ASSUME total > 0 /\ granted_by_average = 0
       PROVE  total * mean <= sum + granted_by_average * total
  <2>1. coll # {}
    <3> SUFFICES ASSUME coll = {} PROVE FALSE
      OBVIOUS
    <3>1. total = 0
      BY <1>4, SumEmpty
    <3> HIDE DEF total
    <3> QED BY <1>12, <3>1
  <2>2. PICK p \in coll : TRUE
    BY <2>1
  <2> DEFINE w == threshold_of(p, rd)
  <2>3. w \in Nat
    BY <1>2
  <2>4. \A r \in coll : weights[r] = w * values[r]
    <3> SUFFICES ASSUME NEW r \in coll
                 PROVE  weights[r] = w * values[r]
      OBVIOUS
    <3>1. /\ reserve[r].configuration.decimals_pow = 1
          /\ reserve[r].configuration.liquidation_threshold
               = reserve[p].configuration.liquidation_threshold
      BY <1>12 DEF granted_by_average
    <3>2. threshold_of(r, rd) = w
      BY <1>2, <3>1
    <3> DEFINE s == supplied(r, u, rd[r])
    <3>3. s \in Nat
      OBVIOUS
    <3> HIDE DEF s, w
    <3>4. weighted_value(r, s, w) = w * value_in_base(r, s)
      BY <2>3, <3>1, <3>3, Weights, 0 \in Nat
    <3> QED
      BY <3>2, <3>4 DEF weighted_collateral, collateral_value, s
  <2> HIDE DEF w
  <2>5. SumFunctionOnSet(weights, coll) = w * SumFunctionOnSet(values, coll)
    <3> HIDE DEF weights, values
    <3> QED BY <1>1, <1>3, <2>3, <2>4, SumTimes
  <2>6. sum = w * total
    BY <1>4, <2>5
  <2> HIDE DEF sum, total, mean
  <2>7. total - 1 \in 0 .. total - 1
    BY <1>5, <1>12
  <2>8. (w * total + (total - 1)) \div total = w
    BY <1>5, <2>3, <2>7, DivModUnique
  <2>9. up = w * total + (total - 1)
    <3>1. w * total \in Nat
      BY <1>5, <2>3, ProductNat
    <3> QED BY <1>5, <2>6, <3>1
  <2>10. mean = w
    <3> HIDE DEF up
    <3> QED BY <1>6, <1>12, <2>8, <2>9
  <2>11. total * mean = sum
    BY <1>5, <2>3, <2>6, <2>10, SMT
  <2>12. granted_by_average * total = 0
    BY <1>5, <1>12
  <2> QED BY <1>5, <2>11, <2>12
<1>13. total * mean <= sum + granted_by_average * total
  <2>1. total = 0 \/ total > 0
    <3> HIDE DEF total
    <3> QED BY <1>5
  <2> QED BY <1>9, <1>10, <1>11, <1>12, <2>1
<1> HIDE DEF sum, total, mean
<1> QED BY <1>5, <1>8, <1>13 DEF sum, total, mean

-----------------------------------------------------------------------------
(***************************************************************************)
(* The position a step leaves, valued as nearly_healthy does, against what *)
(* was there before.                                                       *)
(***************************************************************************)
forgiving_weights(u, backing) ==
  SumFunctionOnSet([r \in collateral[u] \union backing |->
                      forgiving_weight(u, r)], collateral[u] \union backing)

forgiving_debts(u) ==
  SumFunctionOnSet([r \in borrowing[u] |-> forgiving_debt(u, r)], borrowing[u])

unit_kept(r) == one_unit(reserve'[r].liquidity_index)

unit_owed(r) == one_unit(current_variable_borrow_index(reserve[r]))

(* nearly_healthy at the end of a step, in those sums.                     *)
LEMMA NearlyHealthyAfter ==
  ASSUME NEW u \in Users, NEW backing \in SUBSET Reserves,
         forgiving_debts(u)' > 0 =>
           ratio(forgiving_weights(u, backing)', forgiving_debts(u)')
             >= lesser(HF_THRESHOLD, WAD)
  PROVE  nearly_healthy(u, backing)'
<1> DEFINE weighing == [r \in collateral'[u] \union backing |->
                          forgiving_weight(u, r)']
           owing    == [r \in borrowing'[u] |-> forgiving_debt(u, r)']
<1>1. /\ DOMAIN weighing = collateral'[u] \union backing
      /\ DOMAIN owing = borrowing'[u]
  OBVIOUS
<1>2. /\ SumFunction(weighing) = forgiving_weights(u, backing)'
      /\ SumFunction(owing) = forgiving_debts(u)'
  BY <1>1 DEF SumFunction, forgiving_weights, forgiving_debts
<1>3. nearly_healthy(u, backing)' =
        (SumFunction(owing) > 0 =>
           ratio(SumFunction(weighing), SumFunction(owing))
             >= lesser(HF_THRESHOLD, WAD))
  BY DEF nearly_healthy, ratio
<1> HIDE DEF weighing, owing
<1> QED BY <1>2, <1>3

(* The scaled unit that is forgiven.                                       *)
LEMMA UnitType ==
  ASSUME NEW i \in Nat
  PROVE  one_unit(i) \in Nat
<1>1. ray_mul(1, i) \in Nat
  BY 1 \in Nat, RayMulType
<1> QED BY <1>1 DEF one_unit

(* Parting an amount loses no more weight than the floor of one value.     *)
LEMMA PartedWeight ==
  ASSUME TypeOK, NEW r \in Reserves, NEW s \in Nat, NEW x \in Nat,
         NEW y \in Nat, s <= x + y, NEW w \in Nat, NEW k \in Nat
  PROVE  weighted_value(r, s, w)
           <= weighted_value(r, x, w + k) + lost_to_floor(r)
                + weighted_value(r, y, w)
<1>1. x + y \in Nat /\ w + k \in Nat
  OBVIOUS
<1>2. weighted_value(r, s, w) <= weighted_value(r, x + y, w)
  BY <1>1, Weights
<1>3. weighted_value(r, x + y, w)
        <= weighted_value(r, x, w) + weighted_value(r, y, w)
             + lost_to_floor(r)
  BY Weights
<1>4. weighted_value(r, x, w) + k * value_in_base(r, x)
        <= weighted_value(r, x, w + k)
  BY Weights
<1>5. k * value_in_base(r, x) \in Nat
  BY Values, ProductNat
<1>6. /\ weighted_value(r, s, w) \in Nat /\ weighted_value(r, x, w) \in Nat
      /\ weighted_value(r, y, w) \in Nat
      /\ weighted_value(r, x + y, w) \in Nat
      /\ weighted_value(r, x, w + k) \in Nat
      /\ lost_to_floor(r) \in Nat
  BY <1>1, Weights, 0 \in Nat, Scales
<1> QED BY <1>2, <1>3, <1>4, <1>5, <1>6

(* What one asset weighs in the end: at least what any x not above the     *)
(* balance left and the unit forgiven weighs now.                          *)
LEMMA ForgivingWeight ==
  ASSUME TypeOK, TypeOK', same_market, NEW u \in Users, NEW r \in Reserves
  PROVE  LET held == IF r \in collateral'[u]
                     THEN supplied(r, u, reserve[r])' ELSE 0
             w    == reserve[r].configuration.liquidation_threshold
         IN  /\ held \in Nat /\ unit_kept(r) \in Nat
             /\ forgiving_weight(u, r)' \in Nat
             /\ forgiving_weight(u, r)' =
                  weighted_value(r, held + unit_kept(r),
                                 w + granted_by_average) + lost_to_floor(r)
<1> DEFINE held == IF r \in collateral'[u]
                   THEN supplied(r, u, reserve[r])' ELSE 0
           w    == reserve[r].configuration.liquidation_threshold
<1>1. /\ price' = price
      /\ \A q \in Reserves :
           reserve'[q].configuration = reserve[q].configuration
  BY DEF same_market, environment
<1>2. granted_by_average' = granted_by_average
  BY <1>1 DEF granted_by_average
<1>3. lost_to_floor(r)' = lost_to_floor(r)
  BY <1>1 DEF lost_to_floor
<1>4. u \in Accounts /\ reserve'[r].liquidity_index \in Nat
      /\ scaled_balance'[r][u] \in Nat
  BY UserIsAccount DEF TypeOK, ReserveData, Index
<1>5. held \in Nat /\ unit_kept(r) \in Nat
  BY <1>4, RayMulType, UnitType DEF supplied, unit_kept
<1>6. forgiving_weight(u, r)' =
        weighted_value(r, held + unit_kept(r), w + granted_by_average)
          + lost_to_floor(r)
  BY <1>1, <1>2, <1>3 DEF forgiving_weight, weighted_value, unit_kept
<1>7. w \in Nat /\ granted_by_average \in Nat /\ lost_to_floor(r) \in Nat
  BY Scales
<1>8. weighted_value(r, held + unit_kept(r), w + granted_by_average) \in Nat
  <2> HIDE DEF held, w
  <2>1. held + unit_kept(r) \in Nat /\ w + granted_by_average \in Nat
    BY <1>5, <1>7
  <2> QED BY <2>1, Weights, 0 \in Nat
<1>9. forgiving_weight(u, r)' \in Nat
  <2> HIDE DEF held, w
  <2> QED BY <1>6, <1>7, <1>8
<1> QED BY <1>5, <1>6, <1>9

(* What one debt is valued at in the end.                                  *)
LEMMA ForgivingDebt ==
  ASSUME TypeOK, TypeOK', same_market, NEW u \in Users, NEW r \in Reserves,
         current_variable_borrow_index(reserve[r])'
           = current_variable_borrow_index(reserve[r]),
         NEW x \in Nat, NEW y \in Nat
  PROVE  LET left == ray_mul(scaled_debt'[r][u],
                             current_variable_borrow_index(reserve[r]))
         IN  /\ left \in Nat /\ unit_owed(r) \in Nat
             /\ forgiving_debt(u, r)' \in Nat
             /\ left <= x => forgiving_debt(u, r)' <= value_in_base(r, x)
             /\ left <= x + y + unit_owed(r) =>
                  forgiving_debt(u, r)'
                    <= value_in_base(r, x) + value_in_base(r, y)
<1> DEFINE index == current_variable_borrow_index(reserve[r])
           left  == ray_mul(scaled_debt'[r][u], index)
           after == saturating_sub(left, one_unit(index))
<1>1. /\ price' = price
      /\ reserve'[r].configuration = reserve[r].configuration
  BY DEF same_market, environment
<1>2. lost_to_floor(r)' = lost_to_floor(r)
  BY <1>1 DEF lost_to_floor
<1>3. index \in Nat /\ scaled_debt'[r][u] \in Nat
  BY UserIsAccount, AccruedIndices DEF TypeOK, current_variable_borrow_index
<1>4. left \in Nat /\ one_unit(index) \in Nat
  BY <1>3, RayMulType, UnitType
<1>5. forgiving_debt(u, r)' =
        saturating_sub(value_in_base(r, after), lost_to_floor(r))
  BY <1>1, <1>2 DEF forgiving_debt, value_in_base, saturating_sub
<1> HIDE DEF left, index
<1>6. /\ after \in Nat /\ after <= left
      /\ left <= x + y + one_unit(index) => after <= x + y
  BY <1>4 DEF saturating_sub
<1> HIDE DEF after
<1>7. /\ value_in_base(r, after) \in Nat
      /\ value_in_base(r, x) \in Nat /\ value_in_base(r, y) \in Nat
      /\ lost_to_floor(r) \in Nat
  BY <1>6, Values, Scales
<1>8. forgiving_debt(u, r)' \in Nat
  BY <1>5, <1>7 DEF saturating_sub
<1>9. forgiving_debt(u, r)' <= value_in_base(r, after)
  BY <1>5, <1>7 DEF saturating_sub
<1>10. left <= x => forgiving_debt(u, r)' <= value_in_base(r, x)
  <2> SUFFICES ASSUME left <= x
               PROVE  forgiving_debt(u, r)' <= value_in_base(r, x)
    OBVIOUS
  <2>1. after <= x
    BY <1>4, <1>6
  <2>2. value_in_base(r, after) <= value_in_base(r, x)
    BY <1>6, <2>1, Values
  <2> QED BY <1>7, <1>8, <1>9, <2>2
<1>11. left <= x + y + one_unit(index) =>
         forgiving_debt(u, r)' <= value_in_base(r, x) + value_in_base(r, y)
  <2> SUFFICES ASSUME left <= x + y + one_unit(index)
               PROVE  forgiving_debt(u, r)'
                        <= value_in_base(r, x) + value_in_base(r, y)
    OBVIOUS
  <2>1. after <= x + y /\ x + y \in Nat
    BY <1>6
  <2>2. /\ value_in_base(r, after) <= value_in_base(r, x + y)
        /\ value_in_base(r, x + y) \in Nat
        /\ value_in_base(r, x + y)
             <= value_in_base(r, x) + value_in_base(r, y) + lost_to_floor(r)
    BY <1>6, <2>1, Values
  <2>3. value_in_base(r, after)
          <= value_in_base(r, x) + value_in_base(r, y) + lost_to_floor(r)
    BY <1>7, <2>2
  <2> QED BY <1>5, <1>7, <2>3 DEF saturating_sub
<1> QED BY <1>4, <1>8, <1>10, <1>11 DEF unit_owed, index, left

(* What is kept of one asset weighs no less than before.                   *)
LEMMA BalanceKept ==
  ASSUME TypeOK, TypeOK', same_market, NEW u \in Users, NEW r \in Reserves,
         r \in collateral'[u], NEW s \in Nat,
         s <= supplied(r, u, reserve[r])'
  PROVE  LET w == reserve[r].configuration.liquidation_threshold
             k == granted_by_average
         IN  /\ weighted_value(r, s, w) \in Nat /\ value_in_base(r, s) \in Nat
             /\ k * value_in_base(r, s) \in Nat
             /\ weighted_value(r, s, w) + k * value_in_base(r, s)
                  <= forgiving_weight(u, r)'
<1> DEFINE h == supplied(r, u, reserve[r])'
           w == reserve[r].configuration.liquidation_threshold
           k == granted_by_average
<1>1. w \in Nat /\ k \in Nat /\ lost_to_floor(r) \in Nat
  BY Scales
<1>2. /\ h \in Nat /\ unit_kept(r) \in Nat /\ s <= h
      /\ forgiving_weight(u, r)' =
           weighted_value(r, h + unit_kept(r), w + k) + lost_to_floor(r)
  BY ForgivingWeight
<1> HIDE DEF h, w, k
<1>3. h + unit_kept(r) \in Nat /\ s <= h + unit_kept(r) /\ w + k \in Nat
  BY <1>1, <1>2
<1>4. /\ weighted_value(r, s, w) + k * value_in_base(r, s)
           <= weighted_value(r, s, w + k)
      /\ weighted_value(r, s, w) \in Nat
  BY <1>1, Weights
<1>5. weighted_value(r, s, w + k) <= weighted_value(r, h + unit_kept(r), w + k)
  BY <1>3, Weights, 0 \in Nat
<1>6. /\ value_in_base(r, s) \in Nat
      /\ weighted_value(r, s, w + k) \in Nat
      /\ weighted_value(r, h + unit_kept(r), w + k) \in Nat
  BY <1>3, Values, Weights, 0 \in Nat
<1>7. k * value_in_base(r, s) \in Nat
  BY <1>1, <1>6, ProductNat
<1>8. weighted_value(r, s, w) + k * value_in_base(r, s)
        <= forgiving_weight(u, r)'
  BY <1>1, <1>2, <1>4, <1>5, <1>6, <1>7
<1> QED BY <1>4, <1>6, <1>7, <1>8 DEF w, k

(* Nothing that backed the account weighs less than before.                *)
LEMMA WeightKept ==
  ASSUME TypeOK, TypeOK', same_market, NEW u \in Users,
         NEW backing \in SUBSET Reserves, NEW coll \in SUBSET Reserves,
         coll \subseteq collateral'[u], NEW rd,
         \A r \in coll :
           /\ supplied(r, u, rd[r]) \in Nat
           /\ supplied(r, u, rd[r]) <= supplied(r, u, reserve[r])'
           /\ rd[r].configuration = reserve[r].configuration
  PROVE  /\ forgiving_weights(u, backing)' \in Nat
         /\ collateral_weight(u, coll, rd)
              + granted_by_average * collateral_worth(u, coll, rd)
              <= forgiving_weights(u, backing)'
<1> DEFINE B       == collateral'[u] \union backing
           after   == [r \in B |-> forgiving_weight(u, r)']
           values  == [r \in coll |-> collateral_value(u, r, rd)]
           weights == [r \in coll |->
                         weighted_collateral(u, r, rd, threshold_of(r, rd))]
<1>1. B \in SUBSET Reserves /\ coll \subseteq B
  BY UserIsAccount DEF TypeOK
<1>2. IsFiniteSet(B)
  BY <1>1, PoolAssumption, FS_Subset
<1>3. \A r \in B : after[r] \in Nat
  BY <1>1, ForgivingWeight
<1>4. granted_by_average \in Nat
  BY DEF granted_by_average
<1>5. ASSUME NEW r \in coll
      PROVE  /\ weights[r] \in Nat /\ values[r] \in Nat
             /\ weights[r] + granted_by_average * values[r] <= after[r]
  <2> DEFINE s == supplied(r, u, rd[r])
             w == reserve[r].configuration.liquidation_threshold
  <2>1. /\ r \in Reserves /\ r \in collateral'[u] /\ s \in Nat
        /\ s <= supplied(r, u, reserve[r])'
    BY <1>1
  <2>2. /\ weights[r] = weighted_value(r, s, w)
        /\ values[r] = value_in_base(r, s)
        /\ after[r] = forgiving_weight(u, r)'
    BY <1>1 DEF threshold_of, weighted_collateral, collateral_value
  <2> HIDE DEF s, after, weights, values
  <2> QED BY <2>1, <2>2, BalanceKept
<1>6. /\ forgiving_weights(u, backing)' = SumFunctionOnSet(after, B)
      /\ collateral_weight(u, coll, rd) = SumFunctionOnSet(weights, coll)
      /\ collateral_worth(u, coll, rd) = SumFunctionOnSet(values, coll)
  BY DEF forgiving_weights, collateral_weight, collateral_worth
<1> HIDE DEF after, weights, values, B
<1>7. SumFunctionOnSet(weights, coll)
        + granted_by_average * SumFunctionOnSet(values, coll)
        <= SumFunctionOnSet(after, B)
  BY <1>1, <1>2, <1>3, <1>4, <1>5, SumAtLeast
<1>8. SumFunctionOnSet(after, B) \in Nat
  BY <1>2, <1>3, SumNat
<1> QED BY <1>6, <1>7, <1>8

(* Nothing is owed in the end beyond what was owed, but for base more in   *)
(* one reserve.                                                            *)
LEMMA DebtsKept ==
  ASSUME TypeOK, TypeOK', same_market, NEW u \in Users,
         NEW borr \in SUBSET Reserves, NEW rd, NEW x \in Reserves,
         borrowing'[u] \subseteq borr \union {x}, NEW base \in Nat,
         \A r \in Reserves :
           current_variable_borrow_index(reserve[r])'
             = current_variable_borrow_index(reserve[r]),
         \A r \in borr : debt_value(u, r, rd) \in Nat,
         \A r \in borrowing'[u] \ {x} :
           forgiving_debt(u, r)' <= debt_value(u, r, rd),
         x \in borrowing'[u] =>
           forgiving_debt(u, x)'
             <= (IF x \in borr THEN debt_value(u, x, rd) ELSE 0) + base
  PROVE  /\ forgiving_debts(u)' \in Nat /\ debt_worth(u, borr, rd) \in Nat
         /\ forgiving_debts(u)' <= debt_worth(u, borr, rd) + base
<1> DEFINE A     == borrowing'[u]
           after == [r \in A |-> forgiving_debt(u, r)']
           owing == [r \in borr |-> debt_value(u, r, rd)]
<1>1. A \in SUBSET Reserves /\ A \ {x} \subseteq borr
  BY UserIsAccount DEF TypeOK
<1>2. IsFiniteSet(A) /\ IsFiniteSet(borr)
  BY <1>1, PoolAssumption, FS_Subset
<1>3. \A r \in A : after[r] \in Nat
  BY <1>1, ForgivingDebt, 0 \in Nat
<1>4. \A r \in borr : owing[r] \in Nat
  OBVIOUS
<1>5. \A r \in A \ {x} : after[r] <= owing[r]
  BY <1>1
<1>6. x \in A => after[x] <= (IF x \in borr THEN owing[x] ELSE 0) + base
  OBVIOUS
<1>7. /\ forgiving_debts(u)' = SumFunctionOnSet(after, A)
      /\ debt_worth(u, borr, rd) = SumFunctionOnSet(owing, borr)
  BY DEF forgiving_debts, debt_worth
<1> HIDE DEF after, owing, A
<1>8. /\ SumFunctionOnSet(after, A) \in Nat
      /\ SumFunctionOnSet(owing, borr) \in Nat
  BY <1>2, <1>3, <1>4, SumNat
<1>9. SumFunctionOnSet(after, A) <= SumFunctionOnSet(owing, borr) + base
  <2>1. CASE x \in A
    BY <1>1, <1>2, <1>3, <1>4, <1>5, <1>6, <2>1, SumGrowsButOne
  <2>2. CASE x \notin A
    <3>1. A \subseteq borr /\ \A r \in A : after[r] <= owing[r]
      BY <1>1, <1>5, <2>2
    <3>2. SumFunctionOnSet(after, A) <= SumFunctionOnSet(owing, borr)
      BY <1>2, <1>3, <1>4, <3>1, SumGrows
    <3> QED BY <1>8, <3>2
  <2> QED BY <2>1, <2>2
<1> QED BY <1>7, <1>8, <1>9

(* A position judged by its weight stays nearly healthy if it weighs as    *)
(* much in the end and owes no more.                                       *)
LEMMA JudgedByWeight ==
  ASSUME NEW u \in Users, NEW backing \in SUBSET Reserves,
         NEW w \in Nat, NEW d \in Nat, NEW l \in Nat,
         l >= lesser(HF_THRESHOLD, WAD),
         forgiving_weights(u, backing)' \in Nat, forgiving_debts(u)' \in Nat,
         w <= forgiving_weights(u, backing)', forgiving_debts(u)' <= d,
         d > 0 => ratio(w, d) >= l
  PROVE  nearly_healthy(u, backing)'
<1> DEFINE w2 == forgiving_weights(u, backing)'
           d2 == forgiving_debts(u)'
<1>1. lesser(HF_THRESHOLD, WAD) \in Nat
  BY PoolAssumption DEF lesser
<1>2. d2 > 0 => ratio(w2, d2) >= lesser(HF_THRESHOLD, WAD)
  <2> SUFFICES ASSUME d2 > 0
               PROVE  ratio(w2, d2) >= lesser(HF_THRESHOLD, WAD)
    OBVIOUS
  <2>1. /\ w2 \in Nat /\ d2 \in Nat /\ w <= w2 /\ d2 <= d
    OBVIOUS
  <2> HIDE DEF w2, d2
  <2>2. ratio(w, d) \in Nat /\ ratio(w, d) <= ratio(w2, d2)
    BY <2>1, RatioKept
  <2>3. ratio(w, d) >= l
    BY <2>1
  <2>4. ratio(w2, d2) \in Nat
    BY <2>1, RatioKept
  <2> QED BY <1>1, <2>2, <2>3, <2>4
<1> QED BY <1>2, NearlyHealthyAfter

(* The same for a position judged by its value and average threshold.      *)
LEMMA JudgedByAverage ==
  ASSUME TypeOK, TypeOK', same_market, NEW u \in Users,
         NEW backing \in SUBSET Reserves, NEW coll \in SUBSET Reserves,
         coll \subseteq collateral'[u], NEW rd,
         \A r \in Reserves :
           /\ supplied(r, u, rd[r]) \in Nat
           /\ rd[r].configuration = reserve[r].configuration,
         \A r \in coll : supplied(r, u, rd[r]) <= supplied(r, u, reserve[r])',
         NEW d \in Nat, NEW l \in Nat, l >= lesser(HF_THRESHOLD, WAD),
         forgiving_debts(u)' \in Nat, forgiving_debts(u)' <= d,
         calculate_health_factor(collateral_worth(u, coll, rd),
           average_threshold(collateral_weight(u, coll, rd),
                             collateral_worth(u, coll, rd)), d) >= l
  PROVE  nearly_healthy(u, backing)'
<1> DEFINE sum   == collateral_weight(u, coll, rd)
           total == collateral_worth(u, coll, rd)
           mean  == average_threshold(sum, total)
           g     == granted_by_average
           most  == forgiving_weights(u, backing)'
<1>1. /\ sum \in Nat /\ total \in Nat /\ mean \in Nat
      /\ total * mean <= sum + g * total
  BY AverageGrants
<1>2. most \in Nat /\ sum + g * total <= most
  BY WeightKept
<1>3. d > 0 => ratio(total * mean, d) >= l
  BY DEF ratio, calculate_health_factor
<1>4. g \in Nat
  BY DEF granted_by_average
<1> HIDE DEF sum, total, mean, g, most
<1>5. total * mean \in Nat /\ g * total \in Nat
  BY <1>1, <1>4, ProductNat
<1>6. total * mean <= most
  BY <1>1, <1>2, <1>5
<1> DEFINE w == total * mean
<1>7. w \in Nat /\ w <= most /\ (d > 0 => ratio(w, d) >= l)
  BY <1>3, <1>5, <1>6
<1> HIDE DEF w
<1> QED BY <1>2, <1>7, JudgedByWeight DEF most

-----------------------------------------------------------------------------
(* Accruing twice is accruing once, and lowers no index.                   *)
LEMMA AccruedOnce ==
  ASSUME TypeOK, NEW r \in Reserves
  PROVE  LET rd == update_state(reserve[r])
         IN  /\ rd.liquidity_index >= reserve[r].liquidity_index
             /\ current_variable_borrow_index(rd)
                  = current_variable_borrow_index(reserve[r])
<1> DEFINE rd   == reserve[r]
           linear == calculate_linear_interest(rd.current_liquidity_rate,
                       rd.last_update_timestamp, now)
<1>1. /\ rd \in ReserveData /\ now \in Nat /\ rd.last_update_timestamp <= now
  BY DEF TypeOK
<1>2. /\ rd.liquidity_index \in Nat /\ rd.current_liquidity_rate \in Nat
      /\ rd.last_update_timestamp \in Nat
  BY <1>1 DEF ReserveData, Index
<1>3. linear \in Nat /\ linear >= RAY
  BY <1>1, <1>2, LinearInterest
<1>4. ray_mul(rd.liquidity_index, linear) >= rd.liquidity_index
  <2> HIDE DEF linear, rd
  <2> QED BY <1>2, <1>3, RayMulGrows
<1>5. update_state(rd).liquidity_index
        = IF now = rd.last_update_timestamp THEN rd.liquidity_index
          ELSE ray_mul(rd.liquidity_index, linear)
  <2> HIDE DEF rd
  <2> QED BY <1>1 DEF update_state, ReserveData
<1>6. update_state(rd).liquidity_index >= rd.liquidity_index
  <2> HIDE DEF linear, rd
  <2> QED BY <1>2, <1>4, <1>5
<1>7. update_state(update_state(rd)) = update_state(rd)
  <2>1. update_state(rd).last_update_timestamp = now
    BY UpdateStateType
  <2> DEFINE accrued == update_state(rd)
  <2> HIDE DEF accrued
  <2>2. update_state(accrued) = accrued
    BY <2>1 DEF update_state, accrued
  <2> QED BY <2>2 DEF accrued
<1> QED BY <1>6, <1>7 DEF current_variable_borrow_index

(***************************************************************************)
(* A step carries a reserve on if it stores it as it was or accrued, with  *)
(* or without new rates: no index falls, and the debts of this instant are *)
(* what they were.                                                         *)
(***************************************************************************)
carried_on ==
  \A r \in Reserves :
    /\ reserve'[r].liquidity_index >= reserve[r].liquidity_index
    /\ current_variable_borrow_index(reserve[r])'
         = current_variable_borrow_index(reserve[r])

(* The three ways in which the handlers store a reserve.                   *)
LEMMA CarriedOn ==
  ASSUME TypeOK, TypeOK', now' = now,
         \A r \in Reserves :
           \/ reserve'[r] = reserve[r]
           \/ reserve'[r] = update_state(reserve[r])
           \/ \E a, d : reserve'[r] =
                          with_new_rates(r, update_state(reserve[r]), a, d)
  PROVE  carried_on
<1> SUFFICES ASSUME NEW r \in Reserves
             PROVE  /\ reserve'[r].liquidity_index >= reserve[r].liquidity_index
                    /\ current_variable_borrow_index(reserve[r])'
                         = current_variable_borrow_index(reserve[r])
  BY DEF carried_on
<1> DEFINE rd == update_state(reserve[r])
<1>1. /\ rd \in ReserveData /\ rd.last_update_timestamp = now
      /\ rd.liquidity_index >= reserve[r].liquidity_index
      /\ reserve[r].liquidity_index \in Nat
  BY UpdateStateType, AccruedOnce DEF TypeOK, ReserveData, Index
<1>2. current_variable_borrow_index(reserve[r]) = rd.variable_borrow_index
  BY DEF current_variable_borrow_index
<1>3. CASE reserve'[r] = reserve[r]
  <2>1. current_variable_borrow_index(reserve[r])'
          = current_variable_borrow_index(reserve[r])
    BY <1>3 DEF current_variable_borrow_index, update_state
  <2> QED BY <1>1, <1>3, <2>1
<1>4. ASSUME /\ reserve'[r].liquidity_index = rd.liquidity_index
             /\ reserve'[r].variable_borrow_index = rd.variable_borrow_index
             /\ reserve'[r].last_update_timestamp = now
      PROVE  /\ reserve'[r].liquidity_index >= reserve[r].liquidity_index
             /\ current_variable_borrow_index(reserve[r])'
                  = current_variable_borrow_index(reserve[r])
  <2>1. current_variable_borrow_index(reserve[r])'
          = reserve'[r].variable_borrow_index
    BY <1>4 DEF current_variable_borrow_index, update_state
  <2> QED BY <1>1, <1>2, <1>4, <2>1
<1>5. CASE reserve'[r] = rd
  <2> HIDE DEF rd
  <2> QED BY <1>1, <1>4, <1>5
<1>6. CASE \E a, d : reserve'[r] = with_new_rates(r, rd, a, d)
  <2>1. PICK a, d : reserve'[r] = with_new_rates(r, rd, a, d)
    BY <1>6
  <2> HIDE DEF rd
  <2>2. /\ with_new_rates(r, rd, a, d).liquidity_index = rd.liquidity_index
        /\ with_new_rates(r, rd, a, d).variable_borrow_index
             = rd.variable_borrow_index
        /\ with_new_rates(r, rd, a, d).last_update_timestamp
             = rd.last_update_timestamp
    BY <1>1, NewRatesKeep
  <2> QED BY <1>1, <1>4, <2>1, <2>2
<1> QED BY <1>3, <1>5, <1>6

(* What is supplied and owed at the stored reserves are natural numbers.   *)
LEMMA PositionTypes ==
  ASSUME TypeOK, NEW u \in Users, NEW r \in Reserves
  PROVE  /\ supplied(r, u, reserve[r]) \in Nat
         /\ supplied(r, u, update_state(reserve[r])) \in Nat
         /\ ray_mul(scaled_debt[r][u],
                    current_variable_borrow_index(reserve[r])) \in Nat
         /\ debt_value(u, r, reserve) \in Nat
<1>1. /\ u \in Accounts /\ scaled_balance[r][u] \in Nat
      /\ scaled_debt[r][u] \in Nat
      /\ reserve[r].liquidity_index \in Nat
      /\ update_state(reserve[r]).liquidity_index \in Nat
      /\ current_variable_borrow_index(reserve[r]) \in Nat
  BY UserIsAccount, AccruedIndices DEF TypeOK, ReserveData, Index,
     current_variable_borrow_index
<1>2. /\ supplied(r, u, reserve[r]) \in Nat
      /\ supplied(r, u, update_state(reserve[r])) \in Nat
      /\ ray_mul(scaled_debt[r][u],
                 current_variable_borrow_index(reserve[r])) \in Nat
  BY <1>1, RayMulType DEF supplied
<1>3. debt_value(u, r, reserve) \in Nat
  BY <1>2, Values, 0 \in Nat DEF debt_value
<1> QED BY <1>2, <1>3

(* A debt that is carried on and not added to is valued at no more.        *)
LEMMA DebtNotRaised ==
  ASSUME TypeOK, TypeOK', same_market, carried_on, NEW u \in Users,
         NEW r \in Reserves, scaled_debt'[r][u] <= scaled_debt[r][u]
  PROVE  forgiving_debt(u, r)' <= debt_value(u, r, reserve)
<1> DEFINE index == current_variable_borrow_index(reserve[r])
           left  == ray_mul(scaled_debt'[r][u], index)
           debt  == ray_mul(scaled_debt[r][u], index)
<1>1. /\ scaled_debt[r][u] \in Nat /\ scaled_debt'[r][u] \in Nat
      /\ index \in Nat
  BY UserIsAccount, AccruedIndices DEF TypeOK, current_variable_borrow_index
<1>2. left <= debt
  <2> HIDE DEF index
  <2> QED BY <1>1, RayMulBothGrow
<1>3. debt \in Nat /\ index' = index
  BY PositionTypes DEF carried_on
<1>4. left <= debt => forgiving_debt(u, r)' <= value_in_base(r, debt)
  BY <1>3, ForgivingDebt, 0 \in Nat
<1> QED BY <1>2, <1>4 DEF debt_value

(* And so is the sum of them.                                              *)
LEMMA DebtsNotRaised ==
  ASSUME TypeOK, TypeOK', same_market, carried_on, NEW u \in Users,
         borrowing'[u] # {}, borrowing'[u] \subseteq borrowing[u],
         \A r \in borrowing'[u] : scaled_debt'[r][u] <= scaled_debt[r][u]
  PROVE  LET d == debt_worth(u, borrowing[u], reserve)
         IN  forgiving_debts(u)' \in Nat /\ d \in Nat
               /\ forgiving_debts(u)' <= d
<1>1. u \in Accounts /\ borrowing[u] \in SUBSET Reserves
  BY UserIsAccount DEF TypeOK
<1>2. PICK x \in borrowing'[u] : TRUE
  OBVIOUS
<1> DEFINE d    == debt_worth(u, borrowing[u], reserve)
           zero == 0
<1>3. /\ \A r \in borrowing[u] : debt_value(u, r, reserve) \in Nat
      /\ \A r \in borrowing'[u] :
           forgiving_debt(u, r)' <= debt_value(u, r, reserve)
  BY <1>1, PositionTypes, DebtNotRaised
<1>4. \A r \in Reserves : current_variable_borrow_index(reserve[r])'
                            = current_variable_borrow_index(reserve[r])
  BY DEF carried_on
<1>5. /\ x \in Reserves /\ x \in borrowing[u]
      /\ debt_value(u, x, reserve) \in Nat
      /\ borrowing'[u] \subseteq borrowing[u] \union {x}
  BY <1>1, <1>2, <1>3
<1>6. forgiving_debt(u, x)'
        <= (IF x \in borrowing[u] THEN debt_value(u, x, reserve) ELSE 0) + zero
  BY <1>2, <1>3, <1>5
<1>7. zero \in Nat
  OBVIOUS
<1> HIDE DEF zero
<1>8. /\ forgiving_debts(u)' \in Nat /\ d \in Nat
      /\ forgiving_debts(u)' <= d + zero
  BY <1>1, <1>3, <1>4, <1>5, <1>6, <1>7, DebtsKept
<1> HIDE DEF d
<1>9. forgiving_debts(u)' <= d
  BY <1>8 DEF zero
<1> QED BY <1>8, <1>9 DEF d

(* Accounts whose position a step does not lower: whoever would be healthy *)
(* by some of the collateral kept is nearly healthy in the end.            *)
LEMMA StaysHealthy ==
  ASSUME TypeOK, TypeOK', same_market, carried_on, NEW u \in Users,
         NEW backing \in SUBSET Reserves, NEW coll \in SUBSET Reserves,
         coll \subseteq collateral'[u],
         account_data(u, coll, borrowing[u], reserve).health_factor >= WAD,
         \A r \in coll : scaled_balance[r][u] <= scaled_balance'[r][u],
         borrowing'[u] # {}, borrowing'[u] \subseteq borrowing[u],
         \A r \in borrowing'[u] : scaled_debt'[r][u] <= scaled_debt[r][u]
  PROVE  nearly_healthy(u, backing)'
<1>1. u \in Accounts /\ borrowing[u] \in SUBSET Reserves
  BY UserIsAccount DEF TypeOK
<1>2. \A r \in Reserves : supplied(r, u, reserve[r]) \in Nat
  BY PositionTypes
<1>3. ASSUME NEW r \in coll
      PROVE  supplied(r, u, reserve[r]) <= supplied(r, u, reserve[r])'
  <2>1. /\ reserve[r].liquidity_index \in Nat
        /\ reserve'[r].liquidity_index \in Nat
        /\ reserve[r].liquidity_index <= reserve'[r].liquidity_index
        /\ scaled_balance[r][u] \in Nat /\ scaled_balance'[r][u] \in Nat
        /\ scaled_balance[r][u] <= scaled_balance'[r][u]
    BY <1>1 DEF TypeOK, ReserveData, Index, carried_on
  <2> QED BY <2>1, RayMulBothGrow DEF supplied
<1> DEFINE d == debt_worth(u, borrowing[u], reserve)
<1>5. forgiving_debts(u)' \in Nat /\ d \in Nat /\ forgiving_debts(u)' <= d
  BY DebtsNotRaised
<1>6. calculate_health_factor(collateral_worth(u, coll, reserve),
        average_threshold(collateral_weight(u, coll, reserve),
                          collateral_worth(u, coll, reserve)), d) >= WAD
  BY AccountData
<1>7. WAD \in Nat /\ WAD >= lesser(HF_THRESHOLD, WAD)
  BY PoolAssumption DEF lesser
<1> HIDE DEF d
<1> QED BY <1>2, <1>3, <1>5, <1>6, <1>7, JudgedByAverage

-----------------------------------------------------------------------------
(* Shares taken out for n at an index not below j take at most n and one   *)
(* scaled unit off the balance reported at j.                              *)
LEMMA SharesTaken ==
  ASSUME NEW h \in Nat, NEW b \in Nat, NEW n \in Nat, b <= h,
         NEW j \in Nat, NEW i \in Nat, j >= RAY, i >= j,
         b <= ray_div_up(n, i)
  PROVE  ray_mul(h, j) <= ray_mul(h - b, j) + n + one_unit(j)
<1>1. RAY \in Nat /\ RAY > 0 /\ i > 0 /\ HALF_RAY \in Nat /\ HALF_RAY <= RAY
  BY ScaleAssumption, HalfRay
<1> DEFINE a == n * RAY
           e == a + i - 1
           c == e \div i
<1>2. a \in Nat /\ ray_div_up(n, i) = c
  BY <1>1, ProductNat DEF ray_div_up
<1> HIDE DEF a
<1>3. e \in Nat
  BY <1>1, <1>2
<1>4. c \in Nat /\ c * i <= a + i - 1 /\ b <= c
  <2>1. c \in Nat /\ c * i <= e
    <3> HIDE DEF e
    <3> QED BY <1>1, <1>3, DivBounds
  <2> QED BY <1>2, <2>1
<1> HIDE DEF c, e
<1>5. b > 0 => b * j <= a + j - 1
  <2> SUFFICES ASSUME b > 0 PROVE b * j <= a + j - 1
    OBVIOUS
  <2> DEFINE p == b - 1
  <2>1. p \in Nat /\ p <= c - 1 /\ c - 1 \in Nat
    BY <1>4
  <2> DEFINE q == c - 1
  <2>2. q * i = c * i - i /\ c * i \in Nat
    BY <1>4, SMT
  <2>3. p \in Nat /\ q \in Nat /\ p <= q /\ q * i <= a - 1
    BY <1>2, <1>4, <2>1, <2>2
  <2>4. b * j = p * j + j
    BY SMT
  <2> HIDE DEF p, q
  <2>5. p * j <= p * i /\ i * p <= i * q
    BY <2>3, ProductMonotone
  <2>6. i * p = p * i /\ i * q = q * i /\ p * j \in Nat /\ p * i \in Nat
    BY <2>3, ProductNat, SMT
  <2>7. q * i \in Nat
    BY <2>3, ProductNat
  <2> QED BY <1>2, <2>3, <2>4, <2>5, <2>6, <2>7
<1>6. (h - b) + b = h /\ h - b \in Nat
  OBVIOUS
<1>7. CASE j = RAY
  <2>1. b * j <= n * RAY
    <3>1. b > 0 => b <= n
      <4> SUFFICES ASSUME b > 0, n + 1 <= b PROVE FALSE
        OBVIOUS
      <4>1. RAY * (n + 1) <= RAY * b
        BY <1>1, ProductMonotone
      <4>2. RAY * (n + 1) = a + RAY /\ RAY * b = b * RAY
        BY <1>1, SMT DEF a
      <4> QED BY <1>1, <1>2, <1>5, <1>7, <4>1, <4>2
    <3>2. b <= n
      BY <3>1
    <3>3. RAY * b <= RAY * n
      BY <1>1, <3>2, ProductMonotone
    <3> QED BY <1>1, <1>7, <3>3, SMT
  <2>2. ray_mul((h - b) + b, j) <= ray_mul(h - b, j) + n
    BY <1>6, <2>1, RayMulAdds
  <2>3. one_unit(j) = 0
    BY <1>7 DEF one_unit
  <2>4. ray_mul(h - b, j) \in Nat /\ ray_mul(h, j) \in Nat
    BY <1>6, RayMulType
  <2> QED BY <1>6, <2>2, <2>3, <2>4
<1>8. CASE j # RAY
  <2> DEFINE u1 == ray_mul(1, j)
             m  == n + u1 + 1
  <2>1. u1 \in Nat /\ 1 * j < u1 * RAY + HALF_RAY
    BY 1 \in Nat, RayMulBounds
  <2>2. one_unit(j) = u1 + 1
    BY <1>8 DEF one_unit
  <2> HIDE DEF u1
  <2>3. m * RAY = a + u1 * RAY + RAY /\ m \in Nat /\ u1 * RAY \in Nat
    BY <1>1, <2>1, ProductNat, SMT DEF a
  <2>4. b * j <= m * RAY
    <3>1. CASE b > 0
      <4> HIDE DEF m
      <4>1. b * j \in Nat
        BY ProductNat
      <4> QED BY <1>1, <1>2, <1>5, <2>1, <2>3, <3>1, <4>1
    <3>2. CASE b = 0
      <4> HIDE DEF m
      <4>1. b * j = 0 /\ m * RAY \in Nat
        BY <1>1, <2>3, <3>2, ProductNat
      <4> QED BY <4>1
    <3> QED BY <3>1, <3>2
  <2> HIDE DEF m
  <2>5. ray_mul((h - b) + b, j) <= ray_mul(h - b, j) + m
    BY <1>6, <2>3, <2>4, RayMulAdds
  <2>6. ray_mul(h - b, j) \in Nat /\ ray_mul(h, j) \in Nat
    BY <1>6, RayMulType
  <2> QED BY <1>6, <2>1, <2>2, <2>5, <2>6 DEF m
<1> QED BY <1>7, <1>8

(* A position judged with n taken out of one reserve weighs, in the end,   *)
(* at least what was left.                                                 *)
LEMMA WeightKeptButOne ==
  ASSUME TypeOK, TypeOK', same_market, NEW u \in Users,
         NEW backing \in SUBSET Reserves, NEW rd, NEW x \in backing,
         NEW n \in Nat, backing \ {x} \subseteq collateral'[u],
         \A r \in backing :
           /\ supplied(r, u, rd[r]) \in Nat
           /\ rd[r].configuration = reserve[r].configuration,
         \A r \in backing \ {x} :
           supplied(r, u, rd[r]) <= supplied(r, u, reserve[r])',
         supplied(x, u, rd[x])
           <= (IF x \in collateral'[u] THEN supplied(x, u, reserve[x])' ELSE 0)
                + unit_kept(x) + n
  PROVE  LET k == weighted_value(x, n,
                    reserve[x].configuration.liquidation_threshold)
         IN  /\ forgiving_weights(u, backing)' \in Nat /\ k \in Nat
             /\ collateral_weight(u, backing, rd) \in Nat
             /\ collateral_weight(u, backing, rd)
                  <= forgiving_weights(u, backing)' + k
<1> DEFINE B       == collateral'[u] \union backing
           after   == [r \in B |-> forgiving_weight(u, r)']
           weights == [r \in backing |->
                         weighted_collateral(u, r, rd, threshold_of(r, rd))]
           k       == weighted_value(x, n,
                        reserve[x].configuration.liquidation_threshold)
           g       == granted_by_average
<1>1. B \in SUBSET Reserves /\ backing \subseteq B /\ x \in B
      /\ IsFiniteSet(backing)
  BY UserIsAccount, PoolAssumption, FS_Subset DEF TypeOK
<1>2. IsFiniteSet(B)
  BY <1>1, PoolAssumption, FS_Subset
<1>3. \A r \in B : after[r] \in Nat
  BY <1>1, ForgivingWeight
<1>4. g \in Nat
  BY DEF granted_by_average
<1>5. \A r \in backing :
        /\ r \in Reserves /\ lost_to_floor(r) \in Nat
        /\ reserve[r].configuration.liquidation_threshold \in Nat
        /\ threshold_of(r, rd) = reserve[r].configuration.liquidation_threshold
        /\ weights[r] = weighted_value(r, supplied(r, u, rd[r]),
                          reserve[r].configuration.liquidation_threshold)
        /\ weights[r] \in Nat
  BY Scales, Weights, 0 \in Nat DEF threshold_of, weighted_collateral
<1>6. k \in Nat
  BY <1>5, Weights, 0 \in Nat
<1>7. ASSUME NEW r \in backing, NEW y \in Nat,
             LET held == IF r \in collateral'[u]
                         THEN supplied(r, u, reserve[r])' ELSE 0
             IN  supplied(r, u, rd[r]) <= held + unit_kept(r) + y
      PROVE  weights[r] <= after[r]
               + weighted_value(r, y,
                   reserve[r].configuration.liquidation_threshold)
  <2> DEFINE held == IF r \in collateral'[u]
                     THEN supplied(r, u, reserve[r])' ELSE 0
             s    == supplied(r, u, rd[r])
             w    == reserve[r].configuration.liquidation_threshold
             m    == held + unit_kept(r)
  <2>1. /\ held \in Nat /\ unit_kept(r) \in Nat
        /\ forgiving_weight(u, r)' =
             weighted_value(r, held + unit_kept(r), w + g) + lost_to_floor(r)
    BY <1>5, ForgivingWeight
  <2>2. /\ after[r] = forgiving_weight(u, r)'
        /\ weights[r] = weighted_value(r, s, w)
    BY <1>1, <1>5
  <2>3. s \in Nat /\ w \in Nat /\ r \in Reserves
    BY <1>5
  <2>4. s <= held + unit_kept(r) + y
    BY <1>7
  <2> HIDE DEF held, s, w, after, weights, g
  <2>5. m \in Nat /\ s <= m + y
    BY <2>1, <2>4
  <2> HIDE DEF m
  <2>6. weighted_value(r, s, w)
          <= weighted_value(r, m, w + g) + lost_to_floor(r)
               + weighted_value(r, y, w)
    BY <1>4, <2>3, <2>5, PartedWeight
  <2>7. weights[r] <= after[r] + weighted_value(r, y, w)
    BY <2>1, <2>2, <2>6 DEF m
  <2> QED BY <2>7 DEF w
<1>8. \A r \in backing \ {x} : weights[r] <= after[r]
  <2> SUFFICES ASSUME NEW r \in backing \ {x} PROVE weights[r] <= after[r]
    OBVIOUS
  <2> DEFINE s == supplied(r, u, rd[r])
             w == reserve[r].configuration.liquidation_threshold
  <2>1. /\ r \in Reserves /\ r \in collateral'[u] /\ s \in Nat
        /\ s <= supplied(r, u, reserve[r])'
        /\ weights[r] = weighted_value(r, s, w)
        /\ after[r] = forgiving_weight(u, r)' /\ after[r] \in Nat
    BY <1>1, <1>3, <1>5
  <2>2. /\ weighted_value(r, s, w) + g * value_in_base(r, s)
             <= forgiving_weight(u, r)'
        /\ weighted_value(r, s, w) \in Nat
        /\ g * value_in_base(r, s) \in Nat
    BY <2>1, BalanceKept
  <2> HIDE DEF s, w, g, after, weights
  <2> QED BY <2>1, <2>2
<1>9. weights[x] <= (IF x \in B THEN after[x] ELSE 0) + k
  BY <1>1, <1>7
<1>10. /\ forgiving_weights(u, backing)' = SumFunctionOnSet(after, B)
       /\ collateral_weight(u, backing, rd) = SumFunctionOnSet(weights, backing)
  BY DEF forgiving_weights, collateral_weight
<1>11. \A r \in backing : weights[r] \in Nat
  BY <1>5
<1> HIDE DEF after, weights, B, k
<1>12. /\ SumFunctionOnSet(after, B) \in Nat
       /\ SumFunctionOnSet(weights, backing) \in Nat
  BY <1>1, <1>2, <1>3, <1>11, SumNat
<1>13. backing \ {x} \subseteq B
  BY <1>1
<1>14. SumFunctionOnSet(weights, backing) <= SumFunctionOnSet(after, B) + k
  BY <1>2, <1>3, <1>6, <1>8, <1>9, <1>11, <1>13, SumGrowsButOne
<1> QED BY <1>6, <1>10, <1>12, <1>14 DEF k

-----------------------------------------------------------------------------
(* Debts valued with a reserve accrued or not are the same.                *)
LEMMA SameDebtWorth ==
  ASSUME TypeOK, NEW u \in Users, NEW borr \in SUBSET Reserves, NEW rd,
         \A r \in Reserves : rd[r] \in {reserve[r], update_state(reserve[r])}
  PROVE  debt_worth(u, borr, rd) = debt_worth(u, borr, reserve)
<1>1. \A r \in borr : debt_value(u, r, rd) = debt_value(u, r, reserve)
  BY AccruedOnce DEF debt_value
<1>2. [r \in borr |-> debt_value(u, r, rd)]
        = [r \in borr |-> debt_value(u, r, reserve)]
  BY <1>1
<1> QED BY <1>2 DEF debt_worth

(***************************************************************************)
(* Whoever passes validate_user_can_withdraw for n of a reserve x that     *)
(* backs the account, and then loses no more than n and one scaled unit of *)
(* x and nothing else, is nearly healthy.                                  *)
(***************************************************************************)
LEMMA JudgedWithdrawal ==
  ASSUME TypeOK, TypeOK', same_market, carried_on, NEW u \in Users,
         NEW backing \in SUBSET Reserves, backing = collateral[u], NEW rd,
         \A r \in Reserves : rd[r] \in {reserve[r], update_state(reserve[r])},
         NEW x \in backing, NEW n \in Nat,
         validate_user_can_withdraw(u, x, n, rd),
         backing \ {x} \subseteq collateral'[u],
         \A r \in backing \ {x} :
           supplied(r, u, rd[r]) <= supplied(r, u, reserve[r])',
         supplied(x, u, rd[x])
           <= (IF x \in collateral'[u] THEN supplied(x, u, reserve[x])' ELSE 0)
                + unit_kept(x) + n,
         borrowing'[u] # {}, UNCHANGED <<borrowing, scaled_debt>>
  PROVE  nearly_healthy(u, backing)'
<1> DEFINE sum  == collateral_weight(u, backing, rd)
           d    == debt_worth(u, borrowing[u], reserve)
           k    == weighted_value(x, n,
                     reserve[x].configuration.liquidation_threshold)
           left == saturating_sub(sum, k)
           most == forgiving_weights(u, backing)'
<1>1. borrowing[u] \in SUBSET Reserves /\ u \in Accounts
  BY UserIsAccount DEF TypeOK
<1>2. forgiving_debts(u)' \in Nat /\ d \in Nat /\ forgiving_debts(u)' <= d
  <2>1. \A r \in borrowing'[u] : scaled_debt'[r][u] <= scaled_debt[r][u]
    BY <1>1 DEF TypeOK
  <2> QED BY <2>1, DebtsNotRaised
<1>3. \A r \in backing : /\ supplied(r, u, rd[r]) \in Nat
                         /\ rd[r].configuration = reserve[r].configuration
  BY PositionTypes, UpdateStateType
<1>4. /\ most \in Nat /\ k \in Nat /\ sum \in Nat /\ sum <= most + k
  BY <1>3, WeightKeptButOne, SMTT(60)
<1>5. /\ account_data(u, collateral[u], borrowing[u], rd).total_debt_base = d
      /\ account_data(u, collateral[u], borrowing[u],
                      rd).weighted_threshold_sum = sum
  BY <1>1, AccountData, SameDebtWorth
<1>6. d > 0 => ratio(left, d) >= HF_THRESHOLD
  BY <1>5 DEF validate_user_can_withdraw, ratio
<1>7. HF_THRESHOLD \in Nat /\ HF_THRESHOLD >= lesser(HF_THRESHOLD, WAD)
  BY PoolAssumption DEF lesser
<1> HIDE DEF sum, d, k, most
<1>8. left \in Nat /\ left <= most
  BY <1>4 DEF saturating_sub
<1> HIDE DEF left
<1> QED BY <1>2, <1>4, <1>6, <1>7, <1>8, JudgedByWeight DEF most

(* What the handlers that accrue one reserve store.                        *)
LEMMA StoredOnce ==
  ASSUME TypeOK, TypeOK', now' = now, NEW r \in Reserves, NEW a, NEW d,
         reserve' = [reserve EXCEPT ![r] =
                       with_new_rates(r, update_state(reserve[r]), a, d)]
  PROVE  /\ carried_on
         /\ reserve'[r].liquidity_index
              = update_state(reserve[r]).liquidity_index
         /\ \A q \in Reserves \ {r} : reserve'[q] = reserve[q]
<1>1. /\ reserve \in [Reserves -> ReserveData]
      /\ update_state(reserve[r]) \in ReserveData
  BY UpdateStateType DEF TypeOK
<1>2. /\ reserve'[r] = with_new_rates(r, update_state(reserve[r]), a, d)
      /\ \A q \in Reserves \ {r} : reserve'[q] = reserve[q]
  BY <1>1
<1>3. \A q \in Reserves :
        \/ reserve'[q] = reserve[q]
        \/ \E x, y : reserve'[q] =
                       with_new_rates(q, update_state(reserve[q]), x, y)
  BY <1>2
<1>4. carried_on
  BY <1>3, CarriedOn
<1>5. with_new_rates(r, update_state(reserve[r]), a, d).liquidity_index
        = update_state(reserve[r]).liquidity_index
  BY <1>1, NewRatesKeep
<1> QED BY <1>2, <1>4, <1>5

(* Whoever a step neither takes collateral from nor lends to.              *)
LEMMA Unharmed ==
  ASSUME TypeOK, TypeOK', same_market, carried_on, NEW u \in Users,
         NEW backing \in SUBSET Reserves, backing = collateral[u],
         borrowing'[u] # {}, healthy(u), backing \subseteq collateral'[u],
         \A r \in backing : scaled_balance[r][u] <= scaled_balance'[r][u],
         borrowing'[u] \subseteq borrowing[u],
         \A r \in borrowing'[u] : scaled_debt'[r][u] <= scaled_debt[r][u]
  PROVE  nearly_healthy(u, backing)'
BY StaysHealthy DEF healthy, health_data

(* A supply raises one balance.                                            *)
LEMMA SupplyKeepsHealth ==
  ASSUME TypeOK, TypeOK', same_market, NEW v \in Users, NEW w \in Users,
         NEW r \in Reserves, NEW n \in Nat, Supply(v, w, r, n),
         NEW u \in Users, NEW backing \in SUBSET Reserves,
         backing = collateral[u], borrowing'[u] # {}, healthy(u)
  PROVE  nearly_healthy(u, backing)'
<1> DEFINE minted == ray_div_down(n, update_state(reserve[r]).liquidity_index)
<1>1. minted \in Nat
  BY AccruedIndices, RayDivTypes
<1>2. /\ now' = now /\ UNCHANGED <<borrowing, scaled_debt>>
      /\ scaled_balance' = [scaled_balance EXCEPT ![r][w] = @ + minted]
      /\ \/ collateral' = collateral
         \/ collateral' = [collateral EXCEPT ![w] = @ \union {r}]
      /\ reserve' = [reserve EXCEPT ![r] =
           with_new_rates(r, update_state(reserve[r]),
                          total_supply_scaled'[r], total_debt_scaled[r])]
  BY DEF Supply, ATokenMint, environment
<1> HIDE DEF minted
<1>3. carried_on
  BY <1>2, StoredOnce
<1>4. u \in Accounts /\ w \in Accounts
  BY UserIsAccount
<1>5. \A q \in Reserves : scaled_balance[q][u] <= scaled_balance'[q][u]
  BY <1>1, <1>2, <1>4 DEF TypeOK
<1>6. collateral[u] \subseteq collateral'[u]
  <2>1. \/ collateral' = collateral
        \/ collateral' = [collateral EXCEPT ![w] = @ \union {r}]
    BY <1>2
  <2>2. collateral \in [Accounts -> SUBSET Reserves]
    BY DEF TypeOK
  <2> QED BY <1>4, <2>1, <2>2
<1>7. \A q \in borrowing'[u] : scaled_debt'[q][u] <= scaled_debt[q][u]
  BY <1>2, <1>4 DEF TypeOK
<1> QED BY <1>2, <1>3, <1>5, <1>6, <1>7, Unharmed

(* A withdrawal lowers one balance, by no more than was judged, and clears *)
(* the bit only when all of it is taken.                                   *)
LEMMA WithdrawKeepsHealth ==
  ASSUME TypeOK, TypeOK', same_market, NEW v \in Users, NEW w \in Users,
         NEW r \in Reserves, NEW n \in Nat, Withdraw(v, w, r, n),
         NEW u \in Users, NEW backing \in SUBSET Reserves,
         backing = collateral[u], borrowing'[u] # {}, healthy(u)
  PROVE  nearly_healthy(u, backing)'
<1> DEFINE rd      == update_state(reserve[r])
           stored  == [reserve EXCEPT ![r] = rd]
           index   == rd.liquidity_index
           held    == scaled_balance[r][v]
           balance == supplied(r, v, rd)
           amount  == IF n = U128_MAX THEN balance ELSE n
           burned  == a_token_burned(r, v, amount, index)
<1>1. /\ index \in Nat /\ index > 0 /\ index >= RAY /\ held \in Nat
      /\ u \in Accounts /\ v \in Accounts /\ balance \in Nat
  BY AccruedIndices, UserIsAccount, PositionTypes DEF TypeOK
<1>2. /\ now' = now /\ UNCHANGED <<borrowing, scaled_debt>>
      /\ amount <= balance
      /\ validate_user_can_withdraw(v, r, amount, stored)
      /\ scaled_balance' = [scaled_balance EXCEPT ![r][v] = @ - burned]
      /\ collateral' = IF amount = balance
                       THEN [collateral EXCEPT ![v] = @ \ {r}] ELSE collateral
      /\ reserve' = [reserve EXCEPT ![r] =
           with_new_rates(r, rd, total_supply_scaled'[r], total_debt_scaled[r])]
  BY DEF Withdraw, ATokenBurn, environment
<1>3. /\ carried_on /\ reserve'[r].liquidity_index = index
      /\ \A q \in Reserves \ {r} : reserve'[q] = reserve[q]
  BY <1>2, StoredOnce
<1>4. amount \in Nat
  BY <1>1
<1>5. /\ burned \in Nat /\ burned <= held
      /\ burned <= ray_div_up(amount, index)
  <2> HIDE DEF amount, held, index
  <2>1. ray_div_up(amount, index) \in Nat
    BY <1>1, <1>4, RayDivTypes
  <2> QED BY <1>1, <2>1 DEF a_token_burned, held
<1>6. \A q \in borrowing'[u] : scaled_debt'[q][u] <= scaled_debt[q][u]
  BY <1>1, <1>2 DEF TypeOK
<1>7. CASE u # v \/ r \notin backing
  <2> HIDE DEF burned, amount, balance
  <2>1. backing \subseteq collateral'[u]
    BY <1>1, <1>2, <1>7 DEF TypeOK
  <2>2. \A q \in backing : scaled_balance[q][u] <= scaled_balance'[q][u]
    BY <1>1, <1>2, <1>7 DEF TypeOK
  <2> QED BY <1>2, <1>3, <1>6, <2>1, <2>2, Unharmed
<1>8. CASE u = v /\ r \in backing
  <2>1. /\ \A q \in Reserves :
             stored[q] \in {reserve[q], update_state(reserve[q])}
        /\ stored[r] = rd
        /\ \A q \in Reserves \ {r} : stored[q] = reserve[q]
    BY DEF TypeOK
  <2>2. backing \ {r} \subseteq collateral'[u]
    <3> HIDE DEF burned, amount, balance
    <3> QED BY <1>1, <1>2 DEF TypeOK
  <2>3. /\ scaled_balance'[r][v] = held - burned
        /\ \A q \in Reserves \ {r} : scaled_balance'[q] = scaled_balance[q]
    <3> HIDE DEF burned
    <3> QED BY <1>1, <1>2 DEF TypeOK
  <2>4. ASSUME NEW q \in backing \ {r}
        PROVE  supplied(q, u, stored[q]) <= supplied(q, u, reserve[q])'
    <3>1. supplied(q, u, stored[q]) = supplied(q, u, reserve[q])'
      BY <1>3, <2>1, <2>3 DEF supplied
    <3>2. supplied(q, u, stored[q]) \in Nat
      BY <2>1, PositionTypes
    <3> QED BY <3>1, <3>2
  <2>5. supplied(r, u, stored[r])
          <= (IF r \in collateral'[u] THEN supplied(r, u, reserve[r])' ELSE 0)
               + unit_kept(r) + amount
    <3> DEFINE after == supplied(r, u, reserve[r])'
    <3>1. supplied(r, u, stored[r]) = balance
      BY <1>8, <2>1
    <3>2. unit_kept(r) = one_unit(index) /\ one_unit(index) \in Nat
      BY <1>1, <1>3, UnitType DEF unit_kept
    <3>3. /\ balance = ray_mul(held, index)
          /\ after = ray_mul(held - burned, index)
      BY <1>3, <1>8, <2>3 DEF supplied
    <3>4. balance <= after + amount + one_unit(index)
      <4> HIDE DEF held, index, burned, amount, balance, after
      <4>1. index >= index
        BY <1>1
      <4> QED BY <1>1, <1>4, <1>5, <3>3, <4>1, SharesTaken
    <3>5. after \in Nat
      <4> HIDE DEF held, index, burned, after
      <4>1. held - burned \in Nat
        BY <1>1, <1>5
      <4> QED BY <1>1, <3>3, <4>1, RayMulType
    <3>6. r \notin collateral'[u] => amount = balance
      <4> HIDE DEF burned, amount, balance
      <4> QED BY <1>1, <1>2, <1>8
    <3> HIDE DEF held, index, burned, amount, balance, after
    <3>7. balance <= (IF r \in collateral'[u] THEN after ELSE 0)
                       + one_unit(index) + amount
      BY <1>1, <1>4, <3>2, <3>4, <3>5, <3>6
    <3> QED BY <3>1, <3>2, <3>7 DEF after
  <2> HIDE DEF stored, amount
  <2>6. validate_user_can_withdraw(u, r, amount, stored)
    BY <1>2, <1>8
  <2> QED
    BY <1>2, <1>3, <1>4, <1>8, <2>1, <2>2, <2>4, <2>5, <2>6, JudgedWithdrawal
<1> QED BY <1>7, <1>8

(* An amount of nothing is worth nothing.                                  *)
LEMMA NoValue ==
  ASSUME TypeOK, NEW r \in Reserves
  PROVE  value_in_base(r, 0) = 0
<1> DEFINE e == price[r] * ORACLE_TO_WAD
           p == reserve[r].configuration.decimals_pow
<1>1. /\ e \in Nat /\ p \in Nat /\ p > 0
      /\ value_in_base(r, 0) = (0 * e) \div p
  BY Scales, 0 \in Nat
<1> HIDE DEF e, p
<1>2. 0 * e = 0
  BY <1>1
<1>3. 0 \div p = 0
  BY <1>1, SMT
<1> QED BY <1>1, <1>2, <1>3

(* A borrowing raises one debt, by no more than was judged; a first debt   *)
(* in a reserve was nothing before, since every debt is flagged.           *)
LEMMA BorrowKeepsHealth ==
  ASSUME TypeOK, TypeOK', same_market,
         NEW v \in Users, NEW w \in Users,
         NEW r \in Reserves, NEW n \in Nat, Borrow(v, w, r, n),
         NEW u \in Users, NEW backing \in SUBSET Reserves,
         backing = collateral[u], borrowing'[u] # {}, healthy(u),
         \A q \in Reserves : scaled_debt[q][u] > 0 => q \in borrowing[u]
  PROVE  nearly_healthy(u, backing)'
<1> DEFINE rd     == update_state(reserve[r])
           stored == [reserve EXCEPT ![r] = rd]
           index  == rd.variable_borrow_index
           held   == scaled_debt[r][w]
           minted == ray_div_up(n, index)
           base   == value_in_base(r, n)
           data   == account_data(w, collateral[w], borrowing[w], stored)
<1>1. /\ index \in Nat /\ index > 0 /\ index >= RAY /\ held \in Nat
      /\ u \in Accounts /\ w \in Accounts
  BY AccruedIndices, UserIsAccount DEF TypeOK
<1>2. /\ now' = now /\ UNCHANGED <<collateral, scaled_balance>>
      /\ calculate_health_factor(data.total_collateral_base,
           data.current_liquidation_threshold, data.total_debt_base + base)
             >= HF_THRESHOLD
      /\ scaled_debt' = [scaled_debt EXCEPT ![r][w] = @ + minted]
      /\ borrowing' = [borrowing EXCEPT ![w] = @ \union {r}]
      /\ reserve' = [reserve EXCEPT ![r] =
           with_new_rates(r, rd, total_supply_scaled[r], total_debt_scaled'[r])]
  BY DEF Borrow, DebtMint, validate_user_can_borrow, environment
<1>3. /\ carried_on
      /\ reserve'[r].liquidity_index = rd.liquidity_index
      /\ \A q \in Reserves \ {r} : reserve'[q] = reserve[q]
  BY <1>2, StoredOnce
<1>4. minted \in Nat
  BY <1>1, RayDivTypes
<1>5. CASE u # w
  <2> HIDE DEF minted, data, base
  <2>1. /\ borrowing'[u] \subseteq borrowing[u]
        /\ \A q \in Reserves : scaled_debt'[q][u] = scaled_debt[q][u]
    BY <1>1, <1>2, <1>5 DEF TypeOK
  <2>2. /\ \A q \in borrowing'[u] : scaled_debt'[q][u] <= scaled_debt[q][u]
        /\ \A q \in backing : scaled_balance[q][u] <= scaled_balance'[q][u]
    BY <1>1, <1>2, <2>1 DEF TypeOK
  <2> QED BY <1>2, <1>3, <2>1, <2>2, Unharmed
<1>6. CASE u = w
  <2>1. /\ \A q \in Reserves :
             stored[q] \in {reserve[q], update_state(reserve[q])}
        /\ stored[r] = rd
        /\ \A q \in Reserves \ {r} : stored[q] = reserve[q]
    BY DEF TypeOK
  <2>2. \A q \in Reserves :
          /\ supplied(q, u, stored[q]) \in Nat
          /\ stored[q].configuration = reserve[q].configuration
    BY <2>1, PositionTypes, UpdateStateType
  <2>3. \A q \in backing :
          supplied(q, u, stored[q]) <= supplied(q, u, reserve[q])'
    <3>1. \A q \in backing :
            supplied(q, u, stored[q]) = supplied(q, u, reserve[q])'
      BY <1>2, <1>3, <2>1 DEF supplied
    <3> QED BY <2>2, <3>1
  <2> DEFINE debt == debt_worth(u, borrowing[u], reserve)
             owes == ray_mul(held, index)
             left == ray_mul(scaled_debt'[r][u],
                             current_variable_borrow_index(reserve[r]))
  <2>4. /\ base \in Nat /\ borrowing[u] \in SUBSET Reserves
        /\ borrowing'[u] = borrowing[u] \union {r}
        /\ scaled_debt'[r][u] = held + minted
        /\ \A q \in Reserves \ {r} : scaled_debt'[q][u] = scaled_debt[q][u]
    <3>1. base \in Nat
      BY Values, 0 \in Nat
    <3> HIDE DEF minted, base, data
    <3> QED BY <1>1, <1>2, <1>6, <3>1 DEF TypeOK
  <2>5. current_variable_borrow_index(reserve[r]) = index
    BY DEF current_variable_borrow_index
  <2>6. left <= owes + n + unit_owed(r) /\ owes \in Nat /\ unit_owed(r) \in Nat
    <3> HIDE DEF held, index, minted
    <3>1. held + minted \in Nat /\ minted <= held + minted
          /\ (held + minted) - minted = held /\ index >= index
      BY <1>1, <1>4
    <3>2. ray_mul(held + minted, index)
            <= ray_mul((held + minted) - minted, index) + n + one_unit(index)
      BY <1>1, <1>4, <3>1, SharesTaken DEF minted
    <3>3. ray_mul(held, index) \in Nat /\ one_unit(index) \in Nat
      BY <1>1, RayMulType, UnitType
    <3> QED BY <2>4, <2>5, <3>1, <3>2, <3>3 DEF unit_owed
  <2>7. forgiving_debt(u, r)' <= value_in_base(r, owes) + base
    <3>1. carried_on /\ left <= owes + n + unit_owed(r) /\ owes \in Nat
      BY <1>3, <2>6
    <3> HIDE DEF owes
    <3>2. current_variable_borrow_index(reserve[r])'
            = current_variable_borrow_index(reserve[r])
      BY <3>1 DEF carried_on
    <3> QED BY <3>1, <3>2, ForgivingDebt
  <2>8. forgiving_debt(u, r)'
          <= (IF r \in borrowing[u] THEN debt_value(u, r, reserve) ELSE 0)
               + base
    <3>1. CASE r \in borrowing[u]
      <4>1. debt_value(u, r, reserve) = value_in_base(r, owes)
        BY <1>6, <2>5 DEF debt_value
      <4> QED BY <2>7, <3>1, <4>1
    <3>2. CASE r \notin borrowing[u]
      <4>1. held = 0
        BY <1>1, <1>6, <3>2
      <4>2. owes = 0
        BY <1>1, <4>1, RayMulZero
      <4>3. value_in_base(r, owes) = 0
        BY <4>2, NoValue
      <4> QED BY <2>7, <3>2, <4>3
    <3> QED BY <3>1, <3>2
  <2>9. /\ forgiving_debts(u)' \in Nat /\ debt \in Nat
        /\ forgiving_debts(u)' <= debt + base
    <3>1. \A q \in Reserves : current_variable_borrow_index(reserve[q])'
                                = current_variable_borrow_index(reserve[q])
      BY <1>3 DEF carried_on
    <3>2. \A q \in borrowing[u] : debt_value(u, q, reserve) \in Nat
      BY <2>4, PositionTypes
    <3>3. ASSUME NEW q \in borrowing'[u] \ {r}
          PROVE  forgiving_debt(u, q)' <= debt_value(u, q, reserve)
      <4>1. q \in Reserves /\ scaled_debt'[q][u] <= scaled_debt[q][u]
        BY <1>1, <2>4 DEF TypeOK
      <4> QED BY <1>3, <4>1, DebtNotRaised
    <3>4. borrowing'[u] \subseteq borrowing[u] \union {r}
      BY <2>4
    <3> HIDE DEF base
    <3> QED BY <2>4, <2>8, <3>1, <3>2, <3>3, <3>4, DebtsKept
  <2>10. calculate_health_factor(collateral_worth(u, backing, stored),
           average_threshold(collateral_weight(u, backing, stored),
                             collateral_worth(u, backing, stored)),
           debt + base) >= HF_THRESHOLD
    <3>1. debt_worth(u, borrowing[u], stored) = debt
      BY <2>1, <2>4, SameDebtWorth
    <3>2. /\ data.total_collateral_base = collateral_worth(u, backing, stored)
          /\ data.current_liquidation_threshold =
               average_threshold(collateral_weight(u, backing, stored),
                                 collateral_worth(u, backing, stored))
          /\ data.total_debt_base = debt
      <4> HIDE DEF stored
      <4> QED BY <1>6, <3>1, AccountData
    <3> HIDE DEF data, stored, debt, base
    <3> QED BY <1>2, <3>2
  <2>11. /\ HF_THRESHOLD \in Nat /\ HF_THRESHOLD >= lesser(HF_THRESHOLD, WAD)
         /\ backing \subseteq collateral'[u]
    BY PoolAssumption, <1>2 DEF lesser
  <2> DEFINE d == debt + base
  <2>12. d \in Nat /\ forgiving_debts(u)' \in Nat /\ forgiving_debts(u)' <= d
    <3> HIDE DEF debt, base
    <3> QED BY <2>4, <2>9
  <2>13. calculate_health_factor(collateral_worth(u, backing, stored),
           average_threshold(collateral_weight(u, backing, stored),
                             collateral_worth(u, backing, stored)), d)
             >= HF_THRESHOLD
    BY <2>10
  <2> HIDE DEF d, stored
  <2> QED BY <2>2, <2>3, <2>11, <2>12, <2>13, JudgedByAverage
<1> QED BY <1>5, <1>6

(* A repayment lowers one debt.                                            *)
LEMMA RepayKeepsHealth ==
  ASSUME TypeOK, TypeOK', same_market, NEW v \in Users, NEW w \in Users,
         NEW r \in Reserves, NEW n \in Nat, Repay(v, w, r, n),
         NEW u \in Users, NEW backing \in SUBSET Reserves,
         backing = collateral[u], borrowing'[u] # {}, healthy(u)
  PROVE  nearly_healthy(u, backing)'
<1> DEFINE rd     == update_state(reserve[r])
           debt   == owed(r, w, rd)
           amount == IF n > debt THEN debt ELSE n
           burned == debt_burned(scaled_debt[r][w], amount,
                                 rd.variable_borrow_index)
<1>1. u \in Accounts /\ w \in Accounts /\ burned \in Nat
  BY UserIsAccount, RepayAmounts
<1>2. /\ now' = now /\ UNCHANGED <<collateral, scaled_balance>>
      /\ scaled_debt' = [scaled_debt EXCEPT ![r][w] = @ - burned]
      /\ borrowing' = IF amount = debt
                      THEN [borrowing EXCEPT ![w] = @ \ {r}] ELSE borrowing
      /\ reserve' = [reserve EXCEPT ![r] =
           with_new_rates(r, rd, total_supply_scaled[r], total_debt_scaled'[r])]
  BY DEF Repay, DebtBurn, environment
<1>3. carried_on
  BY <1>2, StoredOnce
<1> HIDE DEF burned, amount, debt
<1>4. borrowing'[u] \subseteq borrowing[u]
  BY <1>1, <1>2 DEF TypeOK
<1>5. \A q \in Reserves : scaled_debt'[q][u] <= scaled_debt[q][u]
  BY <1>1, <1>2 DEF TypeOK
<1>6. /\ \A q \in borrowing'[u] : scaled_debt'[q][u] <= scaled_debt[q][u]
      /\ \A q \in backing : scaled_balance[q][u] <= scaled_balance'[q][u]
  BY <1>1, <1>2, <1>5 DEF TypeOK
<1> QED BY <1>2, <1>3, <1>4, <1>6, Unharmed

(* Nothing but the market and the flags may have moved.                    *)
LEMMA ReservesUntouched ==
  ASSUME TypeOK, TypeOK', UNCHANGED <<now, reserve>>
  PROVE  carried_on
  BY CarriedOn

(* The switch: on adds to the backing, off was judged without the asset.   *)
LEMMA SwitchKeepsHealth ==
  ASSUME TypeOK, TypeOK', same_market, NEW v \in Users, NEW r \in Reserves,
         EnableCollateral(v, r) \/ DisableCollateral(v, r),
         NEW u \in Users, NEW backing \in SUBSET Reserves,
         backing = collateral[u], borrowing'[u] # {}, healthy(u)
  PROVE  nearly_healthy(u, backing)'
<1>1. /\ UNCHANGED <<now, reserve, scaled_balance, scaled_debt, borrowing>>
      /\ \/ collateral' = [collateral EXCEPT ![v] = @ \union {r}]
         \/ /\ collateral' = [collateral EXCEPT ![v] = @ \ {r}]
            /\ account_data(v, collateral[v] \ {r}, borrowing[v],
                            reserve).health_factor >= WAD
  BY DEF EnableCollateral, DisableCollateral, environment, tokens
<1>2. carried_on
  BY <1>1, ReservesUntouched
<1>3. u \in Accounts /\ v \in Accounts
  BY UserIsAccount
<1>4. \A q \in Reserves : /\ scaled_balance[q][u] <= scaled_balance'[q][u]
                          /\ scaled_debt'[q][u] <= scaled_debt[q][u]
  BY <1>1, <1>3 DEF TypeOK
<1>5. borrowing'[u] \subseteq borrowing[u] /\ borrowing'[u] \in SUBSET Reserves
  BY <1>1, <1>3 DEF TypeOK
<1>6. CASE backing \subseteq collateral'[u]
  BY <1>2, <1>4, <1>5, <1>6, Unharmed
<1>7. CASE ~(backing \subseteq collateral'[u])
  <2> DEFINE kept == collateral[u] \ {r}
  <2>1. collateral \in [Accounts -> SUBSET Reserves]
    BY DEF TypeOK
  <2>2. /\ u = v /\ collateral'[u] = kept
        /\ account_data(u, kept, borrowing[u], reserve).health_factor >= WAD
    BY <1>1, <1>3, <1>7, <2>1
  <2>3. kept \in SUBSET Reserves
    BY <1>3, <2>1
  <2> HIDE DEF kept
  <2> QED BY <1>2, <1>4, <1>5, <2>2, <2>3, StaysHealthy
<1> QED BY <1>6, <1>7

(* A transfer takes from the sender no more than was judged on the stored  *)
(* reserve: the shares are counted at the current index, which is no less. *)
LEMMA TransferKeepsHealth ==
  ASSUME TypeOK, TypeOK', same_market, NEW v \in Users, NEW w \in Users,
         NEW r \in Reserves, NEW n \in Nat, TransferAToken(v, w, r, n),
         NEW u \in Users, NEW backing \in SUBSET Reserves,
         backing = collateral[u], borrowing'[u] # {}, healthy(u)
  PROVE  nearly_healthy(u, backing)'
<1> DEFINE index == current_liquidity_index(reserve[r])
           low   == reserve[r].liquidity_index
           held  == scaled_balance[r][v]
           moved == ray_div_up(n, index)
<1>1. /\ u \in Accounts /\ v \in Accounts /\ w \in Accounts /\ v # w
      /\ index \in Nat /\ index > 0 /\ held \in Nat
      /\ low \in Nat /\ low >= RAY /\ index >= low
  BY UserIsAccount, AccruedIndices, AccruedOnce DEF TransferAToken, TypeOK,
     current_liquidity_index, ReserveData, Index
<1>2. /\ UNCHANGED <<now, reserve, scaled_debt, borrowing>>
      /\ moved <= held
      /\ borrowing[v] # {} => validate_user_can_withdraw(v, r, n, reserve)
      /\ scaled_balance' = [scaled_balance EXCEPT ![r][v] = @ - moved,
                                                  ![r][w] = @ + moved]
      /\ collateral' = [collateral EXCEPT
           ![v] = IF held = moved THEN @ \ {r} ELSE @,
           ![w] = @ \union {r}]
  BY DEF TransferAToken, environment
<1>3. carried_on
  BY <1>2, ReservesUntouched
<1>4. moved \in Nat
  BY <1>1, RayDivTypes
<1> HIDE DEF moved, index
<1>5. \A q \in Reserves : scaled_debt'[q][u] <= scaled_debt[q][u]
  BY <1>1, <1>2 DEF TypeOK
<1>6. borrowing'[u] \subseteq borrowing[u] /\ borrowing'[u] \in SUBSET Reserves
  BY <1>1, <1>2 DEF TypeOK
<1>7. /\ scaled_balance \in [Reserves -> [Accounts -> Nat]]
      /\ collateral \in [Accounts -> SUBSET Reserves]
  BY DEF TypeOK
<1>8. CASE u # v \/ r \notin backing
  <2>1. backing \subseteq collateral'[u]
    BY <1>1, <1>2, <1>7, <1>8
  <2>2. \A q \in backing : scaled_balance[q][u] <= scaled_balance'[q][u]
    BY <1>1, <1>2, <1>4, <1>7, <1>8
  <2> QED BY <1>3, <1>5, <1>6, <2>1, <2>2, Unharmed
<1>9. CASE u = v /\ r \in backing
  <2>1. validate_user_can_withdraw(u, r, n, reserve)
    BY <1>2, <1>6, <1>9
  <2>2. backing \ {r} \subseteq collateral'[u]
    BY <1>1, <1>2, <1>7
  <2>3. /\ scaled_balance'[r][v] = held - moved
        /\ \A q \in Reserves \ {r} : scaled_balance'[q] = scaled_balance[q]
        /\ r \in collateral'[v] <=> held # moved
    BY <1>1, <1>2, <1>7, <1>9
  <2>4. ASSUME NEW q \in backing \ {r}
        PROVE  supplied(q, u, reserve[q]) <= supplied(q, u, reserve[q])'
    <3>1. supplied(q, u, reserve[q]) = supplied(q, u, reserve[q])'
      BY <1>2, <2>3 DEF supplied
    <3>2. supplied(q, u, reserve[q]) \in Nat
      BY PositionTypes
    <3> QED BY <3>1, <3>2
  <2>5. supplied(r, u, reserve[r])
          <= (IF r \in collateral'[u] THEN supplied(r, u, reserve[r])' ELSE 0)
               + unit_kept(r) + n
    <3> DEFINE before == supplied(r, u, reserve[r])
               after  == supplied(r, u, reserve[r])'
    <3>1. unit_kept(r) = one_unit(low) /\ one_unit(low) \in Nat
      BY <1>1, <1>2, UnitType DEF unit_kept
    <3>2. before = ray_mul(held, low) /\ after = ray_mul(held - moved, low)
      BY <1>2, <1>9, <2>3 DEF supplied
    <3>3. held - moved \in Nat
      BY <1>1, <1>2, <1>4
    <3>4. after \in Nat /\ before \in Nat
      <4> HIDE DEF held, low, before, after
      <4> QED BY <1>1, <3>2, <3>3, RayMulType
    <3>5. before <= after + n + one_unit(low)
      <4>1. moved <= ray_div_up(n, index)
        BY <1>4 DEF moved
      <4> HIDE DEF held, low, before, after
      <4> QED BY <1>1, <1>2, <1>4, <3>2, <4>1, SharesTaken
    <3>6. r \notin collateral'[u] => after = 0
      <4> SUFFICES ASSUME r \notin collateral'[u] PROVE after = 0
        OBVIOUS
      <4>1. held - moved = 0
        BY <1>1, <1>9, <2>3
      <4>2. ray_mul(0, low) = 0
        BY <1>1, RayMulZero
      <4> HIDE DEF held, low, after
      <4> QED BY <3>2, <4>1, <4>2
    <3> HIDE DEF before, after, low
    <3>7. before <= (IF r \in collateral'[u] THEN after ELSE 0)
                      + one_unit(low) + n
      BY <3>1, <3>4, <3>5, <3>6
    <3> QED BY <3>1, <3>7 DEF before, after
  <2>6. UNCHANGED <<borrowing, scaled_debt>>
    BY <1>2
  <2>7. \A q \in Reserves :
          reserve[q] \in {reserve[q], update_state(reserve[q])}
    OBVIOUS
  <2> QED
    BY <1>3, <1>9, <2>1, <2>2, <2>4, <2>5, <2>6, <2>7, JudgedWithdrawal
<1> QED BY <1>8, <1>9

(* Maintenance accrues or moves cash; positions stay what they are.        *)
LEMMA PositionsUntouched ==
  ASSUME TypeOK, TypeOK', same_market,
         PoolMaintenance \/ Administration \/ Environment,
         NEW u \in Users, NEW backing \in SUBSET Reserves,
         backing = collateral[u], borrowing'[u] # {}, healthy(u)
  PROVE  nearly_healthy(u, backing)'
<1>1. UNCHANGED <<now, tokens, bitmaps>>
  BY DEF PoolMaintenance, UpdateReserveState, CollectProtocolReserves,
     CoverDeficit, Administration, UpdateReserveConfiguration, SetPaused,
     Environment, Tick, PriceChange, environment, same_market
<1>2. carried_on
  <2>1. CASE reserve' = reserve
    BY <1>1, <2>1, ReservesUntouched
  <2>2. ASSUME NEW r \in Reserves,
               reserve' = [reserve EXCEPT ![r] = update_state(@)]
        PROVE  carried_on
    <3>1. reserve \in [Reserves -> ReserveData]
      BY DEF TypeOK
    <3>2. \A q \in Reserves : \/ reserve'[q] = reserve[q]
                              \/ reserve'[q] = update_state(reserve[q])
      BY <2>2, <3>1
    <3> QED BY <1>1, <3>2, CarriedOn
  <2>3. ASSUME NEW r \in Reserves, NEW c,
               reserve' = [reserve EXCEPT ![r].configuration = c]
        PROVE  carried_on
    <3>1. reserve \in [Reserves -> ReserveData]
      BY DEF TypeOK
    <3>2. reserve'[r].configuration = reserve[r].configuration
      BY DEF same_market
    <3>3. reserve'[r].configuration = c
      BY <2>3, <3>1 DEF ReserveData
    <3>4. [reserve[r] EXCEPT !.configuration = c] = reserve[r]
      BY <3>1, <3>2, <3>3 DEF ReserveData
    <3>5. \A q \in Reserves : reserve'[q] = reserve[q]
      BY <2>3, <3>1, <3>4
    <3> QED BY <1>1, <3>5, CarriedOn
  <2>4. CASE PoolMaintenance
    BY <2>1, <2>2, <2>4 DEF PoolMaintenance, UpdateReserveState,
       CollectProtocolReserves, CoverDeficit
  <2>5. CASE Administration
    BY <2>1, <2>3, <2>5 DEF Administration, UpdateReserveConfiguration,
       SetPaused
  <2>6. CASE Environment
    BY <2>1, <2>6 DEF Environment, Tick, PriceChange
  <2> QED BY <2>4, <2>5, <2>6
<1>3. /\ UNCHANGED <<collateral, borrowing, scaled_balance, scaled_debt>>
      /\ u \in Accounts
  BY <1>1, UserIsAccount DEF tokens, bitmaps
<1>4. /\ \A q \in backing : scaled_balance[q][u] <= scaled_balance'[q][u]
      /\ \A q \in borrowing'[u] : scaled_debt'[q][u] <= scaled_debt[q][u]
  BY <1>3 DEF TypeOK
<1> QED BY <1>2, <1>3, <1>4, Unharmed

(* A swap is judged on the very position it leaves.                        *)
LEMMA SwapKeepsHealth ==
  ASSUME TypeOK, TypeOK', same_market, Swap,
         NEW u \in Users, NEW backing \in SUBSET Reserves,
         backing = collateral[u], borrowing'[u] # {}, healthy(u)
  PROVE  nearly_healthy(u, backing)'
<1>1. PICK v \in Users, from \in Reserves, to \in Reserves, n \in Nat,
           out \in Nat : SwapCollateral(v, from, to, n, out)
  BY AmountsNat, SwapAssumption DEF Swap
<1>2. PICK burned \in Nat, sold \in Nat, bought \in Nat, minted \in Nat,
           fee \in Nat : swapped(v, from, to, burned, sold, bought, minted, fee)
  BY <1>1, SwapAmounts
<1>3. /\ now' = now /\ UNCHANGED <<borrowing, scaled_debt>>
      /\ scaled_balance' = [scaled_balance EXCEPT ![from][v] = @ - burned,
                                                  ![to][v]   = @ + minted]
      /\ collateral' = [collateral EXCEPT ![v] = (@ \union {to}) \
                          (IF burned = scaled_balance[from][v]
                           THEN {from} ELSE {})]
      /\ \A r \in Reserves :
           \/ reserve'[r] = reserve[r]
           \/ \E a, d : reserve'[r] =
                          with_new_rates(r, update_state(reserve[r]), a, d)
  BY <1>2 DEF swapped, environment
<1>4. carried_on
  BY <1>3, CarriedOn
<1>5. /\ u \in Accounts /\ v \in Accounts
      /\ scaled_balance \in [Reserves -> [Accounts -> Nat]]
      /\ collateral \in [Accounts -> SUBSET Reserves]
      /\ borrowing \in [Accounts -> SUBSET Reserves]
  BY UserIsAccount DEF TypeOK
<1>6. \A q \in borrowing'[u] : scaled_debt'[q][u] <= scaled_debt[q][u]
  BY <1>3, <1>5 DEF TypeOK
<1>7. CASE u # v
  <2>1. /\ collateral'[u] = collateral[u]
        /\ \A q \in Reserves : scaled_balance'[q][u] = scaled_balance[q][u]
    BY <1>3, <1>5, <1>7
  <2>2. \A q \in backing : scaled_balance[q][u] <= scaled_balance'[q][u]
    BY <1>5, <2>1
  <2> QED BY <1>3, <1>4, <1>6, <2>1, <2>2, Unharmed
<1>8. CASE u = v
  <2> DEFINE rd == [r \in Reserves |-> IF r \in {from, to}
                                       THEN update_state(reserve[r])
                                       ELSE reserve[r]]
             coll    == collateral'[u]
             weights == [r \in coll |->
               weighted_value(r, ray_mul(scaled_balance'[r][u],
                                         rd[r].liquidity_index),
                              rd[r].configuration.liquidation_threshold)]
             debts   == [r \in borrowing[u] |->
               value_in_base(r, owed(r, u, update_state(rd[r])))]
             B       == collateral'[u] \union backing
             after   == [r \in B |-> forgiving_weight(u, r)']
  <2>1. validate_swap_health_factor(u, from, to, coll, scaled_balance', rd)
    <3>1. PICK x, c : /\ collateral' = [collateral EXCEPT ![v] = c]
                      /\ c = backing_after_swap(v, from, to, x)
                      /\ validate_swap_health_factor(v, from, to, c,
                           scaled_balance', rd)
      BY <1>1 DEF SwapCollateral
    <3> QED BY <1>5, <1>8, <3>1
  <2>2. /\ weighted_after_swap(u, coll, scaled_balance', rd)
             = SumFunctionOnSet(weights, coll)
        /\ debt_after_swap(u, rd) = SumFunctionOnSet(debts, borrowing[u])
    <3>1. DOMAIN weights = coll /\ DOMAIN debts = borrowing[u]
      OBVIOUS
    <3> QED BY <3>1 DEF weighted_after_swap, debt_after_swap, SumFunction
  <2> DEFINE w == SumFunctionOnSet(weights, coll)
             d == debt_worth(u, borrowing[u], reserve)
  <2>3. \A r \in Reserves : /\ rd[r] \in {reserve[r], update_state(reserve[r])}
                            /\ rd[r].configuration = reserve[r].configuration
    BY UpdateStateType
  <2>4. SumFunctionOnSet(debts, borrowing[u]) = d
    <3>1. borrowing[u] \in SUBSET Reserves
      BY <1>5
    <3>2. debt_worth(u, borrowing[u], rd) = d
      BY <2>3, <3>1, SameDebtWorth
    <3>3. debts = [r \in borrowing[u] |-> debt_value(u, r, rd)]
      BY DEF debt_value, owed, current_variable_borrow_index
    <3> QED BY <3>2, <3>3 DEF debt_worth
  <2>5. d > 0 => ratio(w, d) >= WAD
    <3> HIDE DEF rd, weights, debts, coll, d
    <3>1. debt_after_swap(u, rd) > 0 =>
            ratio(weighted_after_swap(u, coll, scaled_balance', rd),
                  debt_after_swap(u, rd)) >= WAD
      BY <2>1 DEF validate_swap_health_factor, ratio
    <3> QED BY <2>2, <2>4, <3>1
  <2>6. forgiving_debts(u)' \in Nat /\ d \in Nat /\ forgiving_debts(u)' <= d
    BY <1>3, <1>4, <1>5, <1>6, DebtsNotRaised
  <2>7. coll \in SUBSET Reserves /\ B \in SUBSET Reserves /\ coll \subseteq B
        /\ IsFiniteSet(coll) /\ IsFiniteSet(B)
    <3>1. coll \in SUBSET Reserves
      BY <1>5 DEF TypeOK
    <3> QED BY <3>1, PoolAssumption, FS_Subset
  <2>8. \A r \in B : after[r] \in Nat
    BY <2>7, ForgivingWeight
  <2>9. ASSUME NEW r \in coll
        PROVE  weights[r] \in Nat /\ weights[r] <= after[r]
    <3> DEFINE s == supplied(r, u, reserve[r])'
               t == reserve[r].configuration.liquidation_threshold
    <3>1. r \in Reserves /\ r \in collateral'[u] /\ r \in B
      BY <2>7
    <3>2. reserve'[r].liquidity_index = rd[r].liquidity_index
      <4>1. ASSUME r \in {from, to}
            PROVE  reserve'[r].liquidity_index
                     = update_state(reserve[r]).liquidity_index
        <5> HIDE DEF rd, coll, B, weights, debts, after
        <5> QED BY <1>2, <4>1, SwapStores
      <4>2. r \notin {from, to} => reserve'[r] = reserve[r]
        <5> HIDE DEF rd, coll, B, weights, debts, after
        <5> QED BY <1>2, <3>1 DEF swapped
      <4> QED BY <3>1, <4>1, <4>2
    <3>3. weights[r] = weighted_value(r, s, t)
      BY <2>3, <3>1, <3>2 DEF supplied
    <3>4. s \in Nat
      BY <3>1, ForgivingWeight
    <3>5. after[r] = forgiving_weight(u, r)' /\ after[r] \in Nat
      BY <2>8, <3>1
    <3> HIDE DEF after, weights
    <3>6. /\ weighted_value(r, s, t) \in Nat
          /\ granted_by_average * value_in_base(r, s) \in Nat
          /\ weighted_value(r, s, t) + granted_by_average * value_in_base(r, s)
               <= forgiving_weight(u, r)'
      <4> DEFINE h == s
      <4>1. h \in Nat /\ h <= supplied(r, u, reserve[r])'
        BY <3>4
      <4> HIDE DEF h
      <4>2. /\ weighted_value(r, h, t) \in Nat
            /\ granted_by_average * value_in_base(r, h) \in Nat
            /\ weighted_value(r, h, t)
                 + granted_by_average * value_in_base(r, h)
                 <= forgiving_weight(u, r)'
        BY <3>1, <4>1, BalanceKept
      <4> QED BY <4>2 DEF h
    <3> HIDE DEF s, t
    <3> QED BY <3>3, <3>5, <3>6
  <2>10. forgiving_weights(u, backing)' = SumFunctionOnSet(after, B)
    BY DEF forgiving_weights
  <2> HIDE DEF after, B, weights, coll, d
  <2>11. /\ w \in Nat /\ SumFunctionOnSet(after, B) \in Nat
         /\ w <= SumFunctionOnSet(after, B)
    <3>1. \A r \in coll : weights[r] \in Nat /\ weights[r] <= after[r]
      BY <2>9
    <3> QED BY <2>7, <2>8, <3>1, SumNat, SumGrows
  <2>12. WAD \in Nat /\ WAD >= lesser(HF_THRESHOLD, WAD)
    BY PoolAssumption DEF lesser
  <2> HIDE DEF w
  <2> QED BY <2>5, <2>6, <2>10, <2>11, <2>12, JudgedByWeight
<1> QED BY <1>7, <1>8

(* Every step of the pool, swaps among them.                               *)
LEMMA NextKeepsHealth ==
  ASSUME TypeOK, TypeOK', SwapNext, same_market,
         NEW u \in Users, NEW backing \in SUBSET Reserves,
         backing = collateral[u], borrowing'[u] # {}, healthy(u),
         \A q \in Reserves : scaled_debt[q][u] > 0 => q \in borrowing[u]
  PROVE  nearly_healthy(u, backing)'
<1>1. CASE UserOperation
  <2>1. PICK r \in Reserves, v \in Users, w \in Users :
          \/ \E n \in Amounts : Supply(v, w, r, n)
          \/ \E n \in Amounts \union {U128_MAX} : Withdraw(v, w, r, n)
          \/ \E n \in Amounts : Borrow(v, w, r, n)
          \/ \E n \in Amounts \union {U128_MAX} : Repay(v, w, r, n)
          \/ \E n \in Amounts : TransferAToken(v, w, r, n)
          \/ EnableCollateral(v, r)
          \/ DisableCollateral(v, r)
    BY <1>1 DEF UserOperation
  <2>2. CASE \E n \in Amounts : Supply(v, w, r, n)
    BY <2>2, AmountsNat, SupplyKeepsHealth
  <2>3. CASE \E n \in Amounts \union {U128_MAX} : Withdraw(v, w, r, n)
    BY <2>3, AmountsNat, WithdrawKeepsHealth
  <2>4. CASE \E n \in Amounts : Borrow(v, w, r, n)
    BY <2>4, AmountsNat, BorrowKeepsHealth
  <2>5. CASE \E n \in Amounts \union {U128_MAX} : Repay(v, w, r, n)
    BY <2>5, AmountsNat, RepayKeepsHealth
  <2>6. CASE \E n \in Amounts : TransferAToken(v, w, r, n)
    BY <2>6, AmountsNat, TransferKeepsHealth
  <2>7. CASE EnableCollateral(v, r) \/ DisableCollateral(v, r)
    BY <2>7, SwitchKeepsHealth
  <2> QED BY <2>1, <2>2, <2>3, <2>4, <2>5, <2>6, <2>7
<1>2. CASE PoolMaintenance \/ Administration \/ Environment
  BY <1>2, PositionsUntouched
<1>3. CASE Swap
  BY <1>3, SwapKeepsHealth
<1> QED BY <1>1, <1>2, <1>3 DEF SwapNext, Next

(***************************************************************************)
(* No transaction, swaps included, makes a healthy account liquidatable:   *)
(* the simulated withdrawal, the borrowing judged at rounded values, the   *)
(* switch and the swap (validation.rs, the transfer hook, router.rs,       *)
(* swap.rs) leave a position that is healthy but for one scaled unit of    *)
(* each accrued asset, one base unit of each rounded value and one basis   *)
(* point of the average, whatever the scales and the number of assets.     *)
(***************************************************************************)
THEOREM HealthAlwaysKept == SwapSpec => HealthKept
<1>1. TypeOK /\ TypeOK' /\ DebtIsFlagged /\ [SwapNext]_vars =>
        [same_market =>
           \A u \in Users, backing \in SUBSET Reserves :
             /\ backing = collateral[u]
             /\ borrowing'[u] # {} /\ healthy(u)
             => nearly_healthy(u, backing)']_vars
  BY NextKeepsHealth, UserIsAccount DEF DebtIsFlagged
<1> QED
  BY <1>1, SwapTypeCorrect, DebtFlaggedUnderSwaps, PTL DEF SwapSpec, HealthKept

-----------------------------------------------------------------------------
(***************************************************************************)
(* Leaving the pool.  ExitsStayOpen speaks of ENABLED, which is out of the *)
(* provers' reach; what a Repay and a Withdraw of everything ask of a      *)
(* state is stated here guard by guard, and two lemmas show that nothing   *)
(* else stands between such a state and the step.                          *)
(***************************************************************************)
repay_admitted(u, r) ==
  LET rd   == update_state(reserve[r])
      debt == owed(r, u, rd)
  IN  /\ validate_repay(rd.configuration, U128_MAX)
      /\ has_access(r, u) /\ whitelisted(r, u)
      /\ debt > 0 /\ debt <= U128_MAX
      /\ wallet[r][u] >= debt
      /\ ray_div_down(debt, rd.variable_borrow_index) <= scaled_debt[r][u]
      /\ debt_burned(scaled_debt[r][u], debt, rd.variable_borrow_index)
           = scaled_debt[r][u]
      /\ scaled_debt[r][u] <= total_debt_scaled[r]

withdraw_admitted(u, r) ==
  LET rd      == update_state(reserve[r])
      balance == supplied(r, u, rd)
      burned  == a_token_burned(r, u, balance, rd.liquidity_index)
  IN  /\ validate_withdraw(rd.configuration, U128_MAX)
      /\ has_access(r, u)
      /\ balance <= total_supply(r, rd) /\ balance <= cash[r]
      /\ validate_user_can_withdraw(u, r, balance, [reserve EXCEPT ![r] = rd])
      /\ burned > 0 /\ burned <= total_supply_scaled[r]

(* What the two transactions do to the state, all of it.                   *)
repaid_in_full(u, r) ==
  LET rd   == update_state(reserve[r])
      debt == owed(r, u, rd)
      held == scaled_debt[r][u]
  IN  /\ wallet' = [wallet EXCEPT ![r][u] = @ - debt]
      /\ cash' = [cash EXCEPT ![r] = @ + debt]
      /\ scaled_debt' = [scaled_debt EXCEPT ![r][u] = @ - held]
      /\ total_debt_scaled' = [total_debt_scaled EXCEPT ![r] = @ - held]
      /\ borrowing' = [borrowing EXCEPT ![u] = @ \ {r}]
      /\ reserve' = [reserve EXCEPT ![r] =
           with_new_rates(r, rd, total_supply_scaled[r],
                          [total_debt_scaled EXCEPT ![r] = @ - held][r])]
      /\ UNCHANGED <<environment, scaled_balance, total_supply_scaled,
                     collateral, deficit>>

withdrawn_in_full(u, r) ==
  LET rd      == update_state(reserve[r])
      balance == supplied(r, u, rd)
      burned  == a_token_burned(r, u, balance, rd.liquidity_index)
  IN  /\ scaled_balance' = [scaled_balance EXCEPT ![r][u] = @ - burned]
      /\ total_supply_scaled' = [total_supply_scaled EXCEPT ![r] = @ - burned]
      /\ cash' = [cash EXCEPT ![r] = @ - balance]
      /\ wallet' = [wallet EXCEPT ![r][u] = @ + balance]
      /\ collateral' = [collateral EXCEPT ![u] = @ \ {r}]
      /\ reserve' = [reserve EXCEPT ![r] =
           with_new_rates(r, rd,
                          [total_supply_scaled EXCEPT ![r] = @ - burned][r],
                          total_debt_scaled[r])]
      /\ UNCHANGED <<environment, scaled_debt, total_debt_scaled,
                     borrowing, deficit>>

(* An admitted repayment is a step: its effects are those of Repay.        *)
LEMMA AdmittedRepaySteps ==
  ASSUME TypeOK, NEW u \in Users, NEW r \in Reserves,
         repay_admitted(u, r), repaid_in_full(u, r)
  PROVE  Repay(u, u, r, U128_MAX)
<1> DEFINE rd     == update_state(reserve[r])
           index  == rd.variable_borrow_index
           held   == scaled_debt[r][u]
           debt   == owed(r, u, rd)
           amount == IF U128_MAX > debt THEN debt ELSE U128_MAX
<1>1. debt \in Nat /\ U128_MAX \in Nat
  <2>1. index \in Nat /\ held \in Nat
    BY AccruedIndices, UserIsAccount DEF TypeOK
  <2> QED BY <2>1, RayMulType, PoolAssumption DEF owed
<1>2. amount = debt
  BY <1>1 DEF repay_admitted
<1>3. ~(debt < debt)
  BY <1>1
<1>4. DebtBurn(r, u, debt_burned(held, amount, index))
  BY <1>2 DEF repay_admitted, repaid_in_full, DebtBurn
<1>5. total_debt_scaled'[r] = [total_debt_scaled EXCEPT ![r] = @ - held][r]
  BY DEF repaid_in_full
<1> QED BY <1>2, <1>3, <1>4, <1>5 DEF Repay, repay_admitted, repaid_in_full

(* So is an admitted withdrawal.                                           *)
LEMMA AdmittedWithdrawSteps ==
  ASSUME TypeOK, NEW u \in Users, NEW r \in Reserves,
         withdraw_admitted(u, r), withdrawn_in_full(u, r)
  PROVE  Withdraw(u, u, r, U128_MAX)
<1> DEFINE rd      == update_state(reserve[r])
           balance == supplied(r, u, rd)
           burned  == a_token_burned(r, u, balance, rd.liquidity_index)
<1>1. balance \in Nat
  BY PositionTypes
<1>2. ATokenBurn(r, u, burned)
  BY DEF withdraw_admitted, withdrawn_in_full, ATokenBurn
<1>3. balance <= balance
  BY <1>1
<1>4. total_supply_scaled'[r]
        = [total_supply_scaled EXCEPT ![r] = @ - burned][r]
  BY DEF withdrawn_in_full
<1> QED BY <1>2, <1>3, <1>4
        DEF Withdraw, withdraw_admitted, withdrawn_in_full

(* No debt exceeds the total of its token.                                 *)
LEMMA DebtBelowTotal ==
  ASSUME TypeOK, TotalsAreSums, NEW r \in Reserves, NEW a \in Accounts
  PROVE  scaled_debt[r][a] <= total_debt_scaled[r]
<1> DEFINE held == scaled_debt[r]
<1>1. held \in [Accounts -> Nat]
  BY DEF TypeOK
<1>2. total_debt_scaled[r] = SumFunctionOnSet(held, Accounts)
  BY TotalsBySum DEF sums_to
<1> HIDE DEF held
<1>3. SumFunctionOnSet(held, Accounts)
        = held[a] + SumFunctionOnSet(held, Accounts \ {a})
  BY <1>1, AccountsFinite, SumRemove
<1>4. SumFunctionOnSet(held, Accounts \ {a}) \in Nat
  BY <1>1, AccountsFinite, FS_Subset, SumNat
<1>5. held[a] \in Nat
  BY <1>1
<1>6. held[a] <= total_debt_scaled[r]
  BY <1>2, <1>3, <1>4, <1>5
<1> QED BY <1>6 DEF held

(***************************************************************************)
(* Whoever owes something, has it in hand and is served can repay all of   *)
(* it; whoever owes nothing and is served can take out all of a balance    *)
(* that the reserve has in cash, once the supplied assets have prices.     *)
(* Amounts are within the width of the program's integers.                 *)
(***************************************************************************)
ExitsAdmitted ==
  \A u \in Users, r \in Reserves :
    LET rd == update_state(reserve[r])
    IN  /\ /\ serviceable(r, u) /\ scaled_debt[r][u] > 0
           /\ owed(r, u, rd) <= U128_MAX
           /\ wallet[r][u] >= owed(r, u, rd)
           => repay_admitted(u, r)
        /\ /\ may_leave(u, r) /\ prices_available(collateral[u] \union {r})
           /\ supplied(r, u, rd) <= U128_MAX
           => withdraw_admitted(u, r)

(* The dust rule burns all of a debt that is repaid in full, and no burn   *)
(* exceeds its total.                                                      *)
LEMMA RepaymentAdmitted ==
  ASSUME TypeOK, TotalsAreSums, NEW u \in Users, NEW r \in Reserves,
         serviceable(r, u), scaled_debt[r][u] > 0,
         owed(r, u, update_state(reserve[r])) <= U128_MAX,
         wallet[r][u] >= owed(r, u, update_state(reserve[r]))
  PROVE  repay_admitted(u, r)
<1> DEFINE rd    == update_state(reserve[r])
           debt  == owed(r, u, rd)
           held  == scaled_debt[r][u]
           index == rd.variable_borrow_index
<1>1. u \in Accounts
  BY UserIsAccount
<1>2. /\ debt > 0 /\ ray_div_down(debt, index) <= held
      /\ debt_burned(held, debt, index) = held
  BY <1>1, FullRepay
     DEF FullRepayClearsDebt, current_variable_borrow_index, owed
<1>3. held <= total_debt_scaled[r]
  BY <1>1, DebtBelowTotal
<1>4. debt \in Nat /\ U128_MAX \in Nat
  <2>1. index \in Nat /\ held \in Nat
    BY <1>1, AccruedIndices DEF TypeOK
  <2> QED BY <2>1, RayMulType, PoolAssumption DEF owed
<1>5. U128_MAX > 0
  <2> HIDE DEF debt
  <2>1. debt <= U128_MAX
    BY DEF debt
  <2> QED BY <1>2, <1>4, <2>1
<1>6. /\ validate_repay(rd.configuration, U128_MAX)
      /\ has_access(r, u) /\ whitelisted(r, u)
  <2>1. rd.configuration = reserve[r].configuration
    BY UpdateStateType
  <2> QED BY <1>5, <2>1
          DEF serviceable, validate_repay, is_open, has_access
<1> QED BY <1>2, <1>3, <1>6 DEF repay_admitted

(* Nobody's balance exceeds the supply, and without debts the check of the *)
(* position asks for prices only.                                          *)
LEMMA WithdrawalAdmitted ==
  ASSUME TypeOK, TotalsAreSums, NEW u \in Users, NEW r \in Reserves,
         may_leave(u, r), prices_available(collateral[u] \union {r}),
         supplied(r, u, update_state(reserve[r])) <= U128_MAX
  PROVE  withdraw_admitted(u, r)
<1> DEFINE rd      == update_state(reserve[r])
           index   == rd.liquidity_index
           held    == scaled_balance[r][u]
           balance == supplied(r, u, rd)
           burned  == a_token_burned(r, u, balance, index)
           stored  == [reserve EXCEPT ![r] = rd]
<1>1. /\ u \in Accounts /\ held \in Nat /\ held > 0
      /\ total_supply_scaled[r] \in Nat
      /\ index \in Nat /\ index >= RAY /\ index > 0
      /\ held <= total_supply_scaled[r]
  BY UserIsAccount, AccruedIndices, BalanceBelowTotal DEF TypeOK, may_leave
<1>2. balance \in Nat /\ balance > 0
  <2>1. balance \in Nat
    BY PositionTypes
  <2>2. ray_mul(held, index) >= held
    BY <1>1, RayMulGrows
  <2>3. balance = ray_mul(held, index)
    BY DEF supplied
  <2> HIDE DEF held, index, balance
  <2> QED BY <1>1, <2>1, <2>2, <2>3
<1>3. balance <= total_supply(r, rd)
  <2>1. ray_mul(held, index) <= ray_mul(total_supply_scaled[r], index)
    BY <1>1, RayMulBothGrow
  <2> QED BY <2>1 DEF supplied, total_supply
<1>4. burned > 0 /\ burned <= total_supply_scaled[r]
  <2>1. burned = IF ray_div_up(balance, index) > held
                 THEN held ELSE ray_div_up(balance, index)
    BY DEF a_token_burned
  <2>2. ray_div_up(balance, index) \in Nat
    BY <1>1, <1>2, RayDivTypes
  <2>3. ray_div_up(balance, index) >= 1
    <3> HIDE DEF balance, index
    <3>1. balance * RAY >= 1 /\ balance * RAY \in Nat
      <4>1. 1 * RAY <= balance * RAY /\ balance * RAY \in Nat
        BY <1>2, ProductMonotone, ProductNat, ScaleAssumption
      <4>2. 1 * RAY = RAY /\ RAY >= 1 /\ RAY \in Nat
        BY ScaleAssumption
      <4> QED BY <4>1, <4>2
    <3>2. 1 * index <= balance * RAY + index - 1
          /\ balance * RAY + index - 1 \in Nat
      BY <1>1, <3>1
    <3>3. 1 <= (balance * RAY + index - 1) \div index
      BY <1>1, <3>2, DivAtLeast
    <3>4. (balance * RAY + index - 1) \div index \in Nat
      BY <1>1, <3>2, DivBounds
    <3> QED BY <3>3, <3>4 DEF ray_div_up
  <2> HIDE DEF burned, balance, index, held
  <2> QED BY <1>1, <2>1, <2>2, <2>3
<1>5. validate_user_can_withdraw(u, r, balance, stored)
  <2>1. active_reserves(u) \union {r} = collateral[u] \union {r}
    BY DEF active_reserves, may_leave
  <2>2. account_data(u, collateral[u], borrowing[u], stored).total_debt_base
          = 0
    <3>1. borrowing[u] = {}
      BY DEF may_leave
    <3>2. debt_worth(u, {}, stored) = 0
      <4> DEFINE owing == [q \in {} |-> debt_value(u, q, stored)]
      <4>1. SumFunctionOnSet(owing, {}) = 0
        BY SumEmpty
      <4> QED BY <4>1 DEF debt_worth
    <3>3. account_data(u, collateral[u], {}, stored).total_debt_base
            = debt_worth(u, {}, stored)
      BY AccountData
    <3> QED BY <3>1, <3>2, <3>3
  <2>3. ~(0 > 0)
    OBVIOUS
  <2> HIDE DEF balance, stored
  <2> QED BY <2>1, <2>2, <2>3 DEF validate_user_can_withdraw
<1>6. validate_withdraw(rd.configuration, U128_MAX) /\ has_access(r, u)
  <2>1. rd.configuration = reserve[r].configuration
    BY UpdateStateType
  <2>2. U128_MAX > 0
    <3> HIDE DEF balance
    <3>1. balance <= U128_MAX /\ U128_MAX \in Nat
      BY PoolAssumption DEF balance
    <3> QED BY <1>2, <3>1
  <2> QED BY <2>1, <2>2 DEF may_leave, serviceable, validate_withdraw, is_open
<1>7. balance <= cash[r]
  BY DEF may_leave
<1> HIDE DEF balance, burned, stored
<1> QED BY <1>3, <1>4, <1>5, <1>6, <1>7
        DEF withdraw_admitted, balance, burned, stored

(***************************************************************************)
(* Exits stay open in every state of the pool: freezing, caps, minimum     *)
(* debt and the roundings of the tokens never stand in the way of a        *)
(* repayment or of a withdrawal in full (router.rs, repay and withdraw).   *)
(***************************************************************************)
THEOREM ExitsAlwaysAdmitted == SwapSpec => []ExitsAdmitted
<1>1. TypeOK /\ TotalsAreSums => ExitsAdmitted
  BY RepaymentAdmitted, WithdrawalAdmitted DEF ExitsAdmitted
<1> QED BY <1>1, SwapInvariant, PTL

=============================================================================
