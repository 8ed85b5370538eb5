------------------------- MODULE TwoStepLiquidation -------------------------
(***************************************************************************)
(* Liquidation in two transactions (router.rs, prepare_liquidation and     *)
(* execute_liquidation): the first one judges the account and stores an    *)
(* authorization; the second, minutes and other transactions later, judges *)
(* it again, flash-borrows the debt asset to the router, sells the         *)
(* collateral on an exchange inside the callback (flash_loan.rs) and       *)
(* shares out what it brought.                                             *)
(*                                                                         *)
(* The exchange is environment: it pays any of the amounts in SwapOutputs, *)
(* and trades no asset for itself.  Its handler and its whitelist, and the *)
(* encoding of the callback's parameters, are left out.                    *)
(***************************************************************************)
EXTENDS Liquidation

CONSTANTS
  LIQUIDATION_PRICE_TOLERANCE, \* how far prices may move, in basis points
  MIN_SWAP_OUTPUT,             \* least share of the oracle value, in bps
  FLASH_LIQUIDATION_PREMIUM,   \* surcharge on the flash loan premium
  AUTHORIZATION_TTL,           \* 600 seconds
  FlashLoanEnabled,            \* reserves with flash loans enabled
  SwapOutputs,                 \* bound: what the exchange may pay
  MinSwapOuts,                 \* bound: what a liquidator may insist on
  MaxNonce,                    \* bound: authorizations issued
  NoAuthorization

ASSUME TwoStepAssumption ==
  /\ LIQUIDATION_PRICE_TOLERANCE \in 0 .. BASIS_POINTS_MULTIPLIER
  /\ MIN_SWAP_OUTPUT \in 0 .. BASIS_POINTS_MULTIPLIER
  /\ FLASH_LIQUIDATION_PREMIUM \in Nat
  /\ AUTHORIZATION_TTL \in Nat
  /\ FlashLoanEnabled \subseteq Reserves
  /\ SwapOutputs \subseteq Nat /\ MinSwapOuts \subseteq Nat
  /\ MaxNonce \in Nat

VARIABLES
  authorization,     \* LIQUIDATION_AUTH, by liquidator and user
  liquidation_nonce, \* LIQUIDATION_AUTH_NONCE
  router_cash,       \* underlying held by the router itself
  executed           \* history: nonces of the executed authorizations

two_step_vars == <<authorization, liquidation_nonce, router_cash, executed>>

LiquidationAuthorization ==
  [debt_asset : Reserves, collateral_asset : Reserves, debt_to_cover : Nat,
   collateral_to_seize : Nat, min_swap_out : Nat, debt_price : Nat,
   collateral_price : Nat, expires_at : Nat, nonce : Nat]

authorized(l, u) == authorization[l][u] # NoAuthorization

(* Two reserves accrued to this instant, the others as stored. *)
accrued(coll, debt) ==
  [r \in Reserves |-> IF r \in {coll, debt} THEN update_state(reserve[r])
                                            ELSE reserve[r]]

data_at(u, rd) == account_data(u, collateral[u], borrowing[u], rd)

within_close_factor(hf, coll, debt, amount, coll_balance, debt_balance) ==
  value_in_base(debt, amount)
    <= max_liquidatable_debt(hf, value_in_base(debt, debt_balance),
                             value_in_base(coll, coll_balance))

-----------------------------------------------------------------------------
(***************************************************************************)
(* What prepare_liquidation writes down, from reserves accrued to now.     *)
(***************************************************************************)
authorization_for(coll, debt, effective, min_out) ==
  [debt_asset |-> debt, collateral_asset |-> coll,
   debt_to_cover |-> effective,
   collateral_to_seize |-> collateral_to_seize(coll, debt, effective),
   min_swap_out |-> min_out,
   debt_price |-> price[debt], collateral_price |-> price[coll],
   expires_at |-> now + AUTHORIZATION_TTL, nonce |-> liquidation_nonce]

(***************************************************************************)
(* prepare_liquidation: health is judged on the stored reserves, before    *)
(* they are accrued, and the balances are the tokens', whatever the flags  *)
(* of the account say.  A new authorization replaces the pair's old one.   *)
(***************************************************************************)
Prepare(l, u, coll, debt, requested, min_out) ==
  LET rd           == accrued(coll, debt)
      data         == data_at(u, reserve)
      debt_balance == owed(debt, u, rd[debt])
      coll_balance == supplied(coll, u, rd[coll])
      auth         == authorization_for(coll, debt,
                        debt_covered(rd[debt].configuration, debt_balance,
                                     requested), min_out)
  IN
  /\ ~paused /\ may_liquidate(l)
  /\ prices_available(active_reserves(u) \union {coll, debt})
  /\ data.total_debt_base > 0
  /\ data.health_factor < WAD
  /\ is_open(rd[coll].configuration) /\ is_open(rd[debt].configuration)
  /\ within_close_factor(data.health_factor, coll, debt, requested,
                         coll_balance, debt_balance)
  /\ auth.debt_to_cover > 0 /\ auth.collateral_to_seize > 0
  /\ authorization' = [authorization EXCEPT ![l][u] = auth]
  /\ liquidation_nonce' = liquidation_nonce + 1
  /\ reserve' = rd
  /\ UNCHANGED <<environment, funds, tokens, bitmaps, deficit,
                 router_cash, executed>>

-----------------------------------------------------------------------------
(***************************************************************************)
(* What the execution of auth does to the account, before the tokens round *)
(* it: the debt is adjusted again, and the collateral is the lesser of     *)
(* what today's prices and what the prepared amount give.                  *)
(***************************************************************************)
(* Mutation: today's prices alone decide. *)
seizure_of_today(auth, coll, debt, asked) ==
  collateral_to_seize(coll, debt, asked)

safe_collateral_to_seize(auth, coll, debt, asked) ==
  lesser(collateral_to_seize(coll, debt, asked), auth.collateral_to_seize)

execution(auth, coll_balance, debt_balance) ==
  LET coll    == auth.collateral_asset
      debt    == auth.debt_asset
      asked   == debt_covered(reserve[debt].configuration, debt_balance,
                              auth.debt_to_cover)
      wanted  == safe_collateral_to_seize(auth, coll, debt, asked)
      capped  == wanted > coll_balance
  IN  [capped  |-> capped,
       covered |-> IF capped
                   THEN (asked * coll_balance + wanted - 1) \div wanted
                   ELSE asked,
       seized  |-> IF capped THEN coll_balance ELSE wanted,
       min_out |-> IF capped
                   THEN (auth.min_swap_out * coll_balance) \div wanted
                   ELSE auth.min_swap_out]

price_within_tolerance(prepared, current) ==
  LET bound(factor) == (prepared * factor) \div BASIS_POINTS_MULTIPLIER
  IN  /\ bound(BASIS_POINTS_MULTIPLIER - LIQUIDATION_PRICE_TOLERANCE) <= current
      /\ current <= bound(BASIS_POINTS_MULTIPLIER + LIQUIDATION_PRICE_TOLERANCE)

(* Least output for the sold collateral at oracle prices. *)
oracle_min_out(coll, debt, sold) ==
  (((sold * price[coll] * reserve[debt].configuration.decimals_pow
       * MIN_SWAP_OUTPUT) \div price[debt])
    \div reserve[coll].configuration.decimals_pow)
   \div BASIS_POINTS_MULTIPLIER

liquidator_fee(covered) ==
  percent_mul_up(covered, FLASH_LOAN_PREMIUM + FLASH_LIQUIDATION_PREMIUM)

(* Mutation: the health found by the preparation is relied on. *)
unhealthy_when_prepared(u, rd) == TRUE

still_unhealthy(u, rd) == data_at(u, rd).health_factor < WAD

(* Mutation: the authorization is left in place. *)
keep_authorization(l, u) == authorization

remove_authorization(l, u) ==
  [authorization EXCEPT ![l][u] = NoAuthorization]

(* What execute_liquidation takes shares for that are left after a burn. *)
remaining(shares, index) == ray_mul(shares, index)

(***************************************************************************)
(* The account after the callback: the debt token burns the covered part   *)
(* and, when the cap took all of the collateral, the remainder as bad      *)
(* debt; the aToken burns the seized part and pays no more than it burned. *)
(***************************************************************************)
burns(u, x, coll, debt, rd) ==
  LET held     == scaled_debt[debt][u]
      d_index  == rd[debt].variable_borrow_index
      c_index  == rd[coll].liquidity_index
      first    == debt_burned(held, x.covered, d_index)
      bad_debt == IF x.capped THEN remaining(held - first, d_index) ELSE 0
      second   == IF bad_debt > 0
                  THEN debt_burned(held - first, bad_debt, d_index) ELSE 0
      shares   == a_token_burned(coll, u, x.seized, c_index)
  IN  [debt            |-> first + second,
       bad_debt        |-> bad_debt,
       fits            |-> ray_div_down(x.covered, d_index) <= held,
       debt_left       |-> IF x.capped THEN 0
                           ELSE remaining(held - first, d_index),
       shares          |-> shares,
       sold            |-> lesser(ray_mul_down(shares, c_index), x.seized),
       collateral_left |->
         remaining(scaled_balance[coll][u] - shares, c_index)]

(* The authorization still stands, and the world it was prepared in.       *)
may_execute(l, u, deadline) ==
  LET auth == authorization[l][u]
      coll == auth.collateral_asset
      debt == auth.debt_asset
  IN
  /\ ~paused /\ may_liquidate(l)
  /\ authorized(l, u)
  /\ now <= auth.expires_at /\ now <= deadline
  /\ prices_available(active_reserves(u) \union {coll, debt})
  /\ price_within_tolerance(auth.debt_price, price[debt])
  /\ price_within_tolerance(auth.collateral_price, price[coll])

(***************************************************************************)
(* The callback sells the collateral and shares out what it brought: the   *)
(* covered debt goes back, the fee to the treasury and the rest to the     *)
(* liquidator.  The flash loan had brought the covered amount from the     *)
(* aToken to the router; the aToken gets it back once, from the proceeds.  *)
(***************************************************************************)
ShareProceeds(l, coll, debt, x, sold, out) ==
  LET fee == liquidator_fee(x.covered)
  IN
  /\ coll # debt
  /\ out >= x.min_out /\ out >= oracle_min_out(coll, debt, sold)
  /\ out >= x.covered + fee
  /\ cash[debt] >= x.covered /\ cash[coll] >= sold
  /\ cash' = [cash EXCEPT ![coll] = @ - sold]
  /\ router_cash' = [router_cash EXCEPT ![debt] = @ + x.covered]
  /\ wallet' = [wallet EXCEPT ![debt][Treasury] = @ + fee,
                              ![debt][l] = @ + (out - x.covered - fee)]

remainders_ok(coll, debt, x, b) ==
  /\ ~x.capped /\ b.debt_left > 0 =>
       above_min_debt(reserve[debt].configuration, b.debt_left)
  /\ b.debt_left > 0 /\ b.collateral_left > 0 =>
       /\ value_in_base(debt, b.debt_left) >= MIN_LEFTOVER_BASE
       /\ value_in_base(coll, b.collateral_left) >= MIN_LEFTOVER_BASE

(* The deficit, the user's bits and the rates of both reserves. *)
BookExecution(u, coll, debt, b, rd) ==
  /\ deficit' = [deficit EXCEPT ![debt] = @ + b.bad_debt]
  /\ collateral' = [collateral EXCEPT
       ![u] = IF b.collateral_left = 0 THEN @ \ {coll} ELSE @]
  /\ borrowing' = [borrowing EXCEPT
       ![u] = IF b.debt_left = 0 THEN @ \ {debt} ELSE @]
  /\ reserve' = [r \in Reserves |->
       IF r \in {coll, debt}
       THEN with_new_rates(r, rd[r], total_supply_scaled'[r],
                           total_debt_scaled'[r])
       ELSE rd[r]]

(* The covered amount is lent to the router itself, without a premium, if  *)
(* the debt asset's reserve is open and lends at all; nobody asks whether  *)
(* the collateral's reserve is open.                                       *)
may_lend_to_router(debt, c) == debt \in FlashLoanEnabled /\ is_open(c)

(***************************************************************************)
(* execute_liquidation: health and the close factor are judged again on    *)
(* reserves accrued to now, with the balances the account's flags show.    *)
(***************************************************************************)
Execute(l, u, deadline, out) ==
  LET auth == authorization[l][u]
      coll == auth.collateral_asset
      debt == auth.debt_asset
      rd   == accrued(coll, debt)
      coll_balance == IF coll \in collateral[u]
                      THEN supplied(coll, u, rd[coll]) ELSE 0
      debt_balance == IF debt \in borrowing[u]
                      THEN owed(debt, u, rd[debt]) ELSE 0
      x    == execution(auth, coll_balance, debt_balance)
      b    == burns(u, x, coll, debt, rd)
  IN
  /\ may_execute(l, u, deadline)
  /\ still_unhealthy(u, rd)
  /\ {coll, debt} \subseteq active_reserves(u)
  /\ within_close_factor(data_at(u, rd).health_factor, coll, debt,
                         auth.debt_to_cover, coll_balance, debt_balance)
  /\ x.covered > 0 /\ x.seized > 0
  /\ may_lend_to_router(debt, rd[debt].configuration)
  /\ b.fits /\ DebtBurn(debt, u, b.debt)
  /\ ATokenBurn(coll, u, b.shares)
  /\ ShareProceeds(l, coll, debt, x, b.sold, out)
  /\ remainders_ok(coll, debt, x, b)
  /\ BookExecution(u, coll, debt, b, rd)
  /\ authorization' = remove_authorization(l, u)
  /\ executed' = executed \union {auth.nonce}
  /\ UNCHANGED <<environment, liquidation_nonce>>

-----------------------------------------------------------------------------
TwoStepInit ==
  /\ Init
  /\ authorization = [l \in Users |-> [u \in Users |-> NoAuthorization]]
  /\ liquidation_nonce = 0
  /\ router_cash = [r \in Reserves |-> 0]
  /\ executed = {}

TwoStep ==
  \E l, u \in Users :
    \/ \E coll, debt \in Reserves, n \in Amounts, m \in MinSwapOuts :
         liquidation_nonce < MaxNonce /\ Prepare(l, u, coll, debt, n, m)
    \/ \E deadline \in 0 .. MaxTime, out \in SwapOutputs :
         Execute(l, u, deadline, out)

(* The pool of LiquidationNext, and the two-step calls. *)
TwoStepNext == \/ LiquidationNext /\ UNCHANGED two_step_vars
               \/ TwoStep

TwoStepSpec == TwoStepInit /\ [][TwoStepNext]_<<vars, two_step_vars>>

-----------------------------------------------------------------------------
(***************************************************************************)
(* An authorization is good for one execution: whatever is prepared again, *)
(* overwritten or left to expire meanwhile, no stored authorization has a  *)
(* nonce that was executed, and no two pairs share one.                    *)
(***************************************************************************)
AuthorizationsAreSpentOnce ==
  \A l, k, u, v \in Users :
    authorized(l, u) =>
      /\ authorization[l][u].nonce \in 0 .. liquidation_nonce - 1
      /\ authorization[l][u].nonce \notin executed
      /\ authorized(k, v) /\ <<k, v>> # <<l, u>> =>
           authorization[k][v].nonce # authorization[l][u].nonce

(***************************************************************************)
(* An execution takes no more collateral than was prepared, and no more    *)
(* than the debt it covers is worth today with the bonus, whichever way    *)
(* prices, balances and indices moved in between; the aToken may round its *)
(* burn up by less than a share.                                           *)
(***************************************************************************)
ExecutionWithinBounds ==
  [][\A l, u \in Users :
       authorized(l, u) /\ authorization[l][u].nonce \in executed' \ executed =>
         LET auth    == authorization[l][u]
             coll    == auth.collateral_asset
             debt    == auth.debt_asset
             c       == reserve[coll].configuration
             shares  == scaled_balance[coll][u] - scaled_balance'[coll][u]
             taken   == (shares - 1) * reserve'[coll].liquidity_index + 1
             covered == router_cash'[debt] - router_cash[debt]
         IN  /\ taken <= auth.collateral_to_seize * RAY
             /\ taken * price[coll] * BASIS_POINTS_MULTIPLIER
                    * reserve[debt].configuration.decimals_pow
                  <= covered * RAY * price[debt] * c.decimals_pow
                       * (BASIS_POINTS_MULTIPLIER + c.liquidation_bonus)
    ]_<<vars, two_step_vars>>

(***************************************************************************)
(* An execution clears a bit only with the last share of the collateral or *)
(* the last unit of the debt it stands for: the balances the router takes  *)
(* for nothing are nothing, and so is the debt that the two burns leave of *)
(* a position whose collateral is gone.  A liquidation call may leave a    *)
(* little of either.                                                       *)
(***************************************************************************)
ExecutionClearsWhatIsGone ==
  [][executed' # executed =>
       \A a \in Accounts, r \in Reserves :
         /\ r \in collateral[a] \ collateral'[a] => scaled_balance'[r][a] = 0
         /\ r \in borrowing[a] \ borrowing'[a] => scaled_debt'[r][a] = 0
    ]_<<vars, two_step_vars>>

(***************************************************************************)
(* A claim of the documentation that the code does not keep: the scaled    *)
(* supply of a reserve is worth no more than its cash, its outstanding     *)
(* debt and the deficit on record, rounding aside.                         *)
(***************************************************************************)
ConservationOfValue ==
  \A r \in Reserves :
    surplus(r, reserve[r]) >= -(reserve[r].variable_borrow_index + HALF_RAY)

=============================================================================
