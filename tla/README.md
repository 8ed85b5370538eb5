# A TLA+ model of the K2 lending protocol

K2 is a lending protocol for Soroban (Stellar): users supply assets, receive
interest-bearing aTokens, and borrow other assets against them. This directory
holds TLA+ modules translated from the contracts under `src/contracts`, the TLC
configurations that check them on small instances, and TLAPS proofs of what
holds for every instance.

- [The system](#the-system)
- [What is hard here](#what-is-hard-here)
- [Modules](#modules)
- [State and actions against the code](#state-and-actions-against-the-code)
- [Runs](#runs)
- [Where the code and its documentation part](#where-the-code-and-its-documentation-part)
- [Proofs](#proofs)
- [Not modelled](#not-modelled)
- [Plan](#plan)

Commands (in this directory): `tlc -config accounting.cfg MCLendingPool`,
`tlapm LendingPoolProofs.tla`.

## The system

| Component | State | Operations | What makes it correct |
|---|---|---|---|
| kinetic-router: users (`operations.rs`, `validation.rs`, `calculation.rs`) | per reserve: configuration, two indices, two rates, timestamp; per user: a bitmap of collateral and borrowing bits | supply, withdraw, borrow, repay, collateral switch, transfer hook | a healthy account stays healthy; caps bind at accrued values; a debt is always counted |
| a-token | scaled balances, scaled total, custody of the underlying | mint, burn, transfer, transfer on liquidation | the total is the sum; rounding never favours the user |
| debt-token | scaled debts, scaled total | mint, burn with a dust rule | the total is the sum; full repayment leaves nothing |
| kinetic-router: liquidation | deficit per reserve | `liquidation_call` | close factor and bonus bind after every adjustment |
| kinetic-router: two-step liquidation | authorizations, a nonce | `prepare_liquidation`, `execute_liquidation` | one execution per authorization, within what was prepared and what is owed today |
| kinetic-router: flash loans | a premium; a loan lives within one transaction | `flash_loan` | principal and premium are back at the end |
| kinetic-router: collateral swap (`swap.rs`) | none of its own | `swap_collateral` | what is left covers the debt |
| kinetic-router: treasury and deficit | deficit | collect reserves, cover deficit | collection leaves suppliers whole |
| kinetic-router: registry and access lists | reserve data, list, ids, five lists with cached flags | init, drop, set lists, synchronise flags | the entries agree; an id is never given twice; only an edit of a list opens a reserve |
| kinetic-router: pause and parameters | a flag; premiums, thresholds, addresses | pause, unpause, setters | a sum of premiums grows only within its maximum |
| pool-configurator | two keys of its admin, a guardian, a deployment flag | pass-through calls that edit configurations, pauses | what is set reads back; the keys agree |
| shared | admin and pending admin; two packed words | propose, accept, cancel; bit fields | one admin at a time; fields do not overlap |
| interest-rate-strategy | rate parameters | `calculate_interest_rates`, setters | monotone, continuous, suppliers never promised more than borrowers pay |
| price-oracle | asset list, overrides, last prices, cache | price queries, override, circuit breaker | a price is recent, jumps are refused, both kinds of query agree |
| incentives | reward indices per asset and user | `handle_action`, claims, configuration | no more is paid than is emitted; what a kept balance has earned stays earned |
| treasury | tracked balances | deposit, sync, withdraw | tracked never exceeds real |
| swap adapters, token, liquidation-engine, flash-liquidation-helper | little or none | front ends and helpers | |

All contracts live on one ledger. A transaction is a tree of synchronous calls:
the router calls the token contracts, the strategy, the oracle and the
incentives; tokens call back into the router (`validate_and_finalize_transfer`,
the current indices). A call that fails anywhere rolls everything back, so the
unit of interleaving is the transaction: what interleaves are the transactions of
users, liquidators, admins and the oracle's feeders, with time passing between
them. Inside a transaction the only code that is not the protocol's own runs in
the callback of a flash loan and at an exchange. There are no messages to lose,
and no crash short of a rolled-back transaction.

## What is hard here

The difficulties lie in sequences of transactions and in numbers:

- *Five roundings.* Products round half up, quotients floor, half up or ceiling,
  and the two tokens round in opposite directions on mint and burn. The router
  decides on half-up balances, the tokens act on scaled units.
- *Two views of one position.* The bitmap decides what a health factor sees, the
  tokens hold what is really there. Supply, withdraw, borrow, repay, transfer,
  switch, swap and liquidation all update one from a computed image of the other.
- *Stale or simulated state.* Transfers are judged on stored indices, withdrawals
  on a simulated position, swaps on what will be left, liquidations on balances
  read before the token calls.
- *Adjustments in sequence.* A liquidation's amount is checked, then promoted to
  the whole debt or cut to the collateral at hand, split into a fee, and followed
  by a write-off.
- *Operations at any time.* Admins freeze, pause and reconfigure between a user's
  entry and exit; prices become unusable.
- *Authorizations executed later.* Between preparation and execution prices,
  indices and balances move, and other liquidations happen.
- *Foreign code inside a transaction.* The receiver of a flash loan may move
  tokens and call the treasury before the repayment is verified, and the same
  asset may be lent twice in one loan.
- *Several sources of one price.* Overrides expire, caches answer for a while, a
  fallback stands in, and the circuit breaker compares each with the last.
- *Late reports.* A token reports a balance after it changed; a reward that was
  inactive meanwhile works from the snapshot before. Where the contract asks the
  token itself it does not understand the answer.
- *Remains of the past.* Ids, bits, flags and maps outlive the reserves they were
  made for; a proposed admin outlives the one who proposed him.

`PROJECT.json` lists each hazard at its line with the properties that watch it.

## Modules

| Module | Models |
|---|---|
| `RayMath` | fixed-point arithmetic of `shared/src/utils.rs`, with RAY, the basis points and the seconds per year as parameters |
| `InterestRateStrategy` | the rate curve and the accepted parameters |
| `RateWalk` | a pool drawn unit by unit under any accepted parameters while seconds pass: what the curve and the interest factors promise |
| `LendingPool` | the core: router, aToken and debt token of every reserve, one action per transaction |
| `Liquidation` | extends `LendingPool` by `liquidation_call` |
| `TwoStepLiquidation` | extends `Liquidation` by `prepare_liquidation` and `execute_liquidation` |
| `CollateralSwap` | extends `LendingPool` by `swap_collateral` |
| `Treasury` | the treasury contract over a ledger of token balances |
| `FlashLoan` | extends `Treasury` by flash loans, step by step within their transaction |
| `ReserveRegistry` | listing and dropping, ids and bits, access lists, incentives links |
| `AdminHandover` | abstract: one holder of a role and at most one proposed successor |
| `Governance` | four roles, each an `INSTANCE AdminHandover`, and what they may pause, list and set |
| `Configuration` | the packed words of a reserve and of a user, with their setters; the premiums |
| `Incentives` | reports, claims and the emission manager's calls |
| `PriceOracle` | overrides, cache, circuit breaker, fallback and adapters behind both kinds of query |
| `MCLendingPool`, `MCLiquidation`, `MCTwoStepLiquidation`, `MCCollateralSwap`, `MCFlashLoan`, `MCReserveRegistry`, `MCGovernance`, `MCConfiguration`, `MCIncentives`, `MCPriceOracle`, `MCRates` | instances for TLC |
| `RayMathProofs` | arithmetic, sums over finite sets, powers, and the theorems on rates |
| `LendingPoolProofs` | theorems on the pool, and on the pool with swaps |
| `TwoStepLiquidationProofs` | theorems on liquidations, in one call and in two |
| `GovernanceProofs` | theorems on the roles, and on what their holders set: the premiums and words of `Configuration` |
| `FlashLoanProofs`, `ReserveRegistryProofs`, `IncentivesProofs`, `PriceOracleProofs` | theorems on the module each is named after |

A module that extends another adds its actions to the next-state relation, so the
pool's invariants are checked again with liquidations or swaps interleaved. The
pool, the treasury and the registry look at the same contracts from different
sides: `LendingPool` has full accounting and a fixed set of reserves,
`ReserveRegistry` reserves that come and go with positions reduced to who holds
and who owes, `FlashLoan` only the ledger. `PriceOracle` decides which prices
`LendingPool` may see (its `PriceChange`), `Incentives` receives what the tokens
of `LendingPool` report.

The operators commented "Mutation" are deliberately wrong variants of the
definition that follows them; no specification uses them. They serve to confirm
that each property notices a plausible bug.

## State and actions against the code

The pool (`LendingPool`, `Liquidation`, `CollateralSwap`):

| Variable | Code |
|---|---|
| `reserve[r]` | `ReserveData`, with `ReserveConfiguration` as a record instead of packed bits, and the debt ceiling kept beside it |
| `scaled_balance`, `total_supply_scaled` | aToken storage |
| `scaled_debt`, `total_debt_scaled` | debt token storage |
| `cash`, `wallet` | balances of the underlying token contract: the aToken's, everybody's |
| `collateral`, `borrowing` | `UserConfiguration`: the set of reserves whose bit is set |
| `deficit` | `RESERVE_DEFICIT` |
| `paused` | the router's global pause |
| `price`, `now` | what the oracle would answer; the ledger timestamp |

| Action | Code |
|---|---|
| `Supply`, `Withdraw`, `Borrow`, `Repay` | `operations.rs`, with the token calls they make |
| `EnableCollateral`, `DisableCollateral` | `router.rs`, `set_user_use_reserve_as_coll` |
| `TransferAToken` | aToken `transfer_internal` with the router's `validate_and_finalize_transfer` |
| `UpdateReserveState` | `update_reserve_state` |
| `CollectProtocolReserves`, `CoverDeficit` | `treasury.rs` |
| `UpdateReserveConfiguration`, `SetPaused` | `reserve.rs`, `emergency.rs` |
| `PriceChange`, `Tick` | the environment |
| `LiquidationCall` | `liquidation.rs`, `internal_liquidation_call` |
| `SwapCollateral` | `swap.rs`, with the health check of `calculation.rs` |

The other components:

| Module | State | Actions |
|---|---|---|
| `TwoStepLiquidation` | `authorization` (`LIQUIDATION_AUTH`), `liquidation_nonce`, `router_cash` (underlying that stays with the router), history `executed` | `Prepare`, `Execute` (with the flash loan to the router and its callback in one step: nothing can come between, the handler aside) |
| `Treasury` | `cash`, `tracked` (`Balance`), `asset_list` | `TreasuryStep`: `deposit`, `sync_balance`, `withdraw` |
| `FlashLoan` | `flash_loan_premium`, `lendable`, `loan` (the list of debts, the stage, and the ledger before) | `StartFlashLoan`, `PayOut`, `InvokeReceiver`, `ReceiverReturns`, `Settle`, `CompleteFlashLoan`, `Revert`; `Transfer` and the treasury's calls also inside the callback; `set_flash_loan_premium`, `SetLendable` |
| `ReserveRegistry` | `id_of` (`ReserveData.id`), `listed`, `next_id`, `asset_of` (`RESERVE_ID_TO_ADDRESS`), lists and their `has_` flags, `deficit`, `incentives`, `token_incentives`, `holders`, `debtors`, `collateral`, `borrowing` by id | `InitReserve`, `DeployAndInitReserve`, `DropReserve`, `SetIncentivesContract`, the five list setters, `SyncAccessControlFlags`, and the user operations with their access checks and bits |
| `Governance` | `admin`, `pending`, `configurator_key`, `guardian`, switches, `signer` | `Propose`, `Accept`, `Cancel` per role; `Pause`, `Unpause`, `SetPoolConfigurator`, `InitReserve`, `DropReserve`, `SetReservePause`, `SetReserveDeploymentPaused` |
| `Configuration` | `configuration` (`data_low`, `data_high`), `user_data`, `params`, history `asked`, `positions` | the configurator's calls, the router's caps and minimum debt, the bits of a user, the three premium setters |
| `Incentives` | `config`, `index`, `user_data`, `reward_tokens`, `assets`, `paused`, `balance`, `funds`, history `paid`, `offer`, `overstated` | `Mint`, `Burn`, `TransferTokens`, each with `handle_action`; `claim_rewards`, `claim_all_rewards`, `configure_asset_rewards`, `set_emission_per_second`, `set_distribution_end`, `remove_asset_reward`, `delete_reward_token`, `fund_rewards`, `SetPaused` |
| `PriceOracle` | `oracle_config`, `fallback`, `ttl`, `config`, `last_price`, `cache`, `paused` | `get_asset_price`, `get_asset_prices_vec`, `refresh_prices` with any answers of the feeds; every admin call but one |

Abstractions:

- A price of 0 stands for any price the router refuses (missing, stale, zero). A
  batch of prices fails as a whole, as `get_prices_for_assets` does.
- Numbers are naturals. Every u128 result that does not fit is an error that
  reverts the transaction, and intermediates are 256 bits wide, so no completed
  call ever wraps.
- In the pool, reserve configurations are drawn from a set that satisfies
  `validate_reserve_configuration`; `Configuration` has the words themselves.
- In the pool, access lists and the router's parameters are constants of an
  instance; `ReserveRegistry` and `Configuration` change them.
- Authorisation is by construction, an action's caller is whoever signs, except
  in `Governance`, where `signer` is what the properties are about.
- An exchange is environment and may pay anything. Feeds are environment and may
  answer anything, or nothing, to each query.
- Liquidation assumes a configured treasury.
- History variables record what a property has to remember; no guard reads them,
  save for the bound on reward tokens ever funded. (`loan.before` is no history:
  it is the ledger a failed transaction returns to.)

## Runs

The scales are tiny on purpose. With RAY = 4 every index is a quarter integer, so
balances of a few units meet every rounding case: half-up products in both
directions, floors that lose a unit, ceilings that gain one, dust of one scaled
unit. With RAY = 10^27 the same cases need balances no checker can enumerate.
Ten "basis points" make 100%, except in the oracle.

| Run | Instance | Asks |
|---|---|---|
| `accounting` | one reserve with caps that may be frozen, two symmetric users with two units each, one interest period at steep rates, a pool that may be paused, a price that may vanish | `TypeOK`; every debt has its bit; totals are sums; a reported debt can be repaid and leaves nothing; whoever is not paused can repay in full and, without debt, withdraw in full; no step takes value from suppliers through rounding beyond the named exceptions; caps bind at accrued totals |
| `health` | a lender of one asset, a borrower with two units of the other and a debt of one, swaps that bring two units, one period of interest, which is what makes her unhealthy | no transaction of anyone makes a healthy account liquidatable; no collateral bit is lost with a balance |
| `liquidation` | a borrower with two collaterals and a debt in one of them, a liquidator barred from both, both payment modes, prices that move, one period, deficits up to two | totals and rounding again; a seizure is worth at most what was paid plus bonus; the close factor binds after every adjustment |
| `two_step` | an opened position (6 usdc supplied, 3 borrowed against 3 xlm), two nonces, the price of xlm falls from 8 to 5 or 4 and wavers, authorizations that expire at once or are used at once, an exchange that pays 4, both reserves frozen | an authorization is spent once; the execution stays within what was prepared and what is owed today; the close factor binds |
| `flash` | loans of one entry, of two assets, and of the same asset twice; premium none or a tenth; any callback | the pool is repaid in every asset; the treasury's books are backed, reverts included |
| `registry` | two assets, three listings in a lifetime, a user, a handler, lists with or without her, one incentives contract | the entries of a reserve agree; listing grants no position; a dropped reserve leaves no claim; tokens report to the contract in force; only an edit of its lists opens a reserve |
| `governance` | two accounts that may hold any of four roles, one reserve | each handover implements `AdminHandover`; the configurator's keys agree; an account without a role can only accept one |
| `configuration` | fields as wide as needed in the code's order, one flag besides "active", values too wide for them, ids 0 to 2 with two pairs of bits | every field and bit reads back as asked; premiums grow only within their maximum |
| `incentives` | one aToken, one reward, two symmetric holders of at most two units, rates 0 and 6, an emission that may end after the first of two seconds, a token that answers as the protocol's do (`Answering` is empty) | a reward never owes more than it emitted; an active reward is listed; who keeps his balance keeps what it has earned |
| `oracle` | one asset, three feed prices with one decimal more than the answers, overrides of up to two seconds, cache off or one second, a breaker at 35%, two seconds | single and batch queries agree; answers are recent; a cached price has a baseline; no query moves a baseline beyond the limit or loses it |
| `rates` | pools of up to 12 units, all corner parameter sets, up to 4 seconds | the liquidity rate is covered by the borrow rate; borrowing never lowers the rate; the compound factor lies between simple and exact compounding |
| `stranded_repayment` | as `two_step` | expects a violation, see below |

Bounds. `Amounts` limits what a call may pass, `MaxTime` the number of interest
periods or seconds, the initial wallets all balances (with the caps, which also
keep the scaled totals finite), `MaxDeficit` the bad debt outstanding, `MaxNonce`
the authorizations issued, `MaxSupply` and `MaxFunds` what rewards are earned on
and paid from, `MaxFunds` of the swap what an exchange may bring into the system.
One period at these rates moves both indices off RAY, by different factors for
debt and supply and by different amounts in different histories; that later
periods, from an index already off RAY, add nothing is what the theorems say of
the same properties (all but `ExitsStayOpen`, where a theorem speaks of the
guards). Two users are enough for one to profit at the other's expense;
two reserves are enough for collateral and debt to be priced apart and for a
second collateral to be left over. Two nonces let an authorization be replaced,
or executed after another one. Two entries of a loan are enough for the second
to be verified after the first one's premium left. Three listings of two assets
let one come back and ids run out. Ids 0 to 2 with two pairs of bits in a word
meet the bound. `two_step` starts from a position the pool's actions lead to, so
that the depth is spent on what follows.

Tolerances are stated in the properties, not in the bounds. `RoundingFavoursPool`
names three steps that may lower a reserve's surplus and by how much.
`HealthKept` forgives one scaled unit per asset that has accrued, one base unit per
value that is rounded, and one basis point of the collateral for the average
threshold, which is rounded up; on an instance whose units are one and whose
assets share a threshold only the first of them applies.
`SeizureWithinBonus` compares with the cash that arrived,
`ExecutionWithinBounds` with the debt covered, exact up to less than one aToken
share. `RewardsWithinEmission` allows half a unit for every rounding of an index
or a credit, and is silent about a reward once it has seen a snapshot above the
balance it stands for (see the observations).

Fairness. A user, an admin or a liquidator is never obliged to act, so outside a
transaction no fairness is justified; that a transaction ends or fails is the
host's doing, not this code's, and would be true of any model of it. Hence no
specification assumes fairness and no property is one of liveness. What stands
for it is `ExitsStayOpen`, an invariant on which transactions are enabled as long
as the prices they need are there. Only `rates` disables the deadlock check: its
machine stops at its bounds.

Refinement. `AdminHandover` is the abstract handover: an owner proposes and
cancels, the proposed account accepts. `Governance` instantiates it four times,
with the owner of a role mapped to the role itself, or, for the emergency role,
to the pool admin. `RolesAreHandedOver` says that each role implements it.

## Where the code and its documentation part

`stranded_repayment` expects a violation. `execute_liquidation` flash-borrows the
debt it covers to the router (`router.rs:966-982`, `flash_loan.rs:109-115`); the
callback burns the debt and repays the aToken once, out of the proceeds
(`flash_loan.rs:499-515`). One payment serves as the end of both the flash loan
and the debt, and the borrowed amount stays with the router. README.md:205 promises
conservation of value for every reserve; the trace shows a pool short of the
covered amount. Line references are to `src/README.md` and to the contract named.

Observations. Met while translating, stated here without a run; the hazards they
belong to refer to them.

*Liquidation*
- Bad debt is recognised when the one collateral asset of the call is exhausted
  (`liquidation.rs:582`): an account with a second collateral keeps it, free of
  debt.
- Covered and bad debt are burned in two calls, each rounding by itself
  (`liquidation.rs:584`, `658`): a scaled unit may be left with its bit cleared. The
  theorems `DebtAlwaysFlagged` and `DebtFlaggedUnderSwaps` are therefore about the
  pool without liquidations.
- README.md:211 says that a liquidation improves the health factor; nothing checks it.
- Liquidating oneself for aTokens returns the shares and clears the collateral bit
  (`liquidation.rs:565`).
- `prepare_liquidation` judges health on reserves that are not accrued, and accepts
  the same asset as collateral and debt; `execute_liquidation` does not ask again
  whether the collateral's reserve is open.

*Positions*
- Withdrawing everything pays the half-up balance (`operations.rs:163`), where
  `utils.rs:50` wants transfers out rounded down.
- `MAX_USER_RESERVES` is counted on supply, borrow, transfer and liquidation, not by
  the collateral switch (`router.rs:1280`) or a swap; bits of retired ids count.
- A debt-free withdrawal needs the prices of all supplied assets
  (`validation.rs:258`), where a comment says that without debt one withdraws freely.
  They come in one batch (`validation.rs:246`), so one silent feed closes the exit
  from every asset: `ExitsStayOpen` presupposes the prices, and does not cover this.
- The dust rule of the debt token can end a debt while the router still sees a
  remainder and keeps the bit (the safe direction).
- An incoming aToken transfer switches a balance on as collateral even when its
  owner had switched it off (`router.rs:1838` speaks of new positions only).
- The health threshold may be set to half of WAD, where README.md:210 promises 1.0.

*Registry and access*
- `sync_access_control_flags` rebuilds the flags of reserves from those listed at
  the time (`storage.rs:182`): lists set for an asset before it is listed, or kept
  from before it was dropped, lose their flag and are passed over once it is
  listed, which the comment at 167-169 means to prevent.
- `drop_reserve` leaves the debt ceiling, the staleness limit and the flags of the
  asset behind. Lists are scanned up to their 64th entry only.
- An empty whitelist of swap handlers admits none; the comment at `storage.rs:974`
  says all.
- `deploy_and_init_reserve` fails once an incentives contract is set.
- Calls of the configurator whose arguments or caller the callee refuses can never
  succeed: `set_supply_cap`, `set_borrow_cap`, `set_debt_ceiling`,
  `set_incentives_contract`, `update_atoken`, `update_variable_debt_token`,
  `remove_oracle_asset`. Borrowing, once enabled, cannot be disabled.

*Roles and parameters*
- The guardian may resume a reserve (README.md:242 has it pause only). A proposal
  of an emergency admin survives the handover of the pool admin. An upgrade of the
  router needs the signatures of both its admins.
- Flash loans do not ask for the global pause (README.md:233). The maximum of the
  premiums may be set below premiums in force.
- `admin.rs` is not part of the build; `set_price_staleness_threshold` is not exposed.

*Incentives*
- `claim_all_rewards` and `set_emission_per_second` bring the index up to date only
  if the token tells its supply. They ask for a `u128` (`contract.rs:420-427`,
  `623-631`) and read everything else as 0, while `scaled_total_supply` of the
  aToken and of the debt token is an `i128` (`a-token/src/contract.rs:534`,
  `debt-token/src/contract.rs:280`), which the router decodes as such
  (`calculation.rs:1160-1178`). So with the protocol's tokens neither call moves the
  index: a claim of all pays what the last report left, and a new rate counts from
  that report on, where docs/INCENTIVES_ADMIN_API.md:64 promises "Automatically
  snapshots the current reward index before updating". `Answering` names the tokens
  whose answer decodes. It is empty in the run; the theorems hold for any.
- A holder who withdraws is credited for the lower of his balances before and
  after (`contract.rs:137-148`): with everything withdrawn, what it earned since his
  last report is gone.
- A reward that is activated again pays on the snapshot of its last report,
  whatever the balance did meanwhile. `configure_asset_rewards` and
  `set_distribution_end` apply to the time since that report. Setting the rate or
  the end of a deleted reward lists it again.

*Oracle*
- A batch query answers a disabled asset from the cache. A cached price is not
  held to a stricter `max_age`. A batch keeps an expired override where a single
  query removes it.

## Proofs

Eight modules, one per component and `RayMathProofs` with what they need of
arithmetic. `PROJECT.json` lists the theorems and the properties they state.
They hold for all scales, parameters, configurations, prices and amounts, and
for any finite number of reserves and users, under the assumptions named.

*Arithmetic and rates* (`ScaleAssumption`, `WalkAssumption`). The lemmas the
others cite most: `RoundTrip` (for an index of at least RAY, multiplying half up
and dividing down loses at most one unit and never gains one), `RayMulAdds` (the
product of a sum is within a unit of the sum of products) and the monotonicity of
every operation. Sums over finite sets are handled through a smallest counterexample
in place of an induction: adding, changing and comparing the entries of a sum.
- `SuppliersAreCovered`: `LiquidityCovered` carries the half units of the three
  roundings from the rate through the utilization to the payment.
- `BorrowingNeverCheaper`: monotone on each side of the kink, and the curve above
  it starts where the one below ends.
- `CompoundingIsBounded`: each term of the Taylor factor is within its rounding of
  the exact one, and the exact polynomial T of three terms satisfies
  T(e+1) * year <= T(e) * (year + rate), so that it stays below the powers.

*The pool* (`LendingPoolProofs`; `PoolAssumption`):

- `TypeCorrect`. `TypeOK` is inductive as it stands and says more than types:
  balances and totals stay non-negative although burns subtract rounded
  quantities, indices never fall below RAY, no reserve is ahead of the clock,
  stored configurations satisfy the validation. One lemma per action.
- `TotalsAlwaysSums`, with `TypeOK /\ TotalsAreSums` inductive.
- `FullRepayAlwaysClears` follows from `TypeOK` and `RoundTrip`. This is why the dust
  rule of one unit is enough.
- `DebtAlwaysFlagged`, with `TypeOK /\ DebtIsFlagged` inductive; the case of
  interest is a full repayment, where the previous theorem says that nothing is left.
- `CapsAlwaysBind`. Only a supply mints aTokens and only a borrowing mints debt;
  what they mint is bounded through `RayMulAdds`, and the stored indices are the
  accrued ones.
- `RoundingAlwaysFavours`. One lemma per kind of operation computes the surplus it
  leaves, with each rounded quantity bracketed by the exact one (`QuotientBounds`,
  `RayMulBounds`), and names the exception it may need. Everything else moves no
  funds, or leaves the surplus at the new indices as it is.

*The pool with swaps* (`SwapAssumption`), about `SwapSpec`: `SwapTypeCorrect`,
`SumsUnderSwaps`, `DebtFlaggedUnderSwaps`, `CapsBindUnderSwaps`,
`RoundingFavoursUnderSwaps`. Here types and sums are one invariant: a swap burns
from a total it has not read, and only because the total is a sum is it at least
the balance burned. `CollateralBitsKept` says of every operation, swaps included,
that it clears a collateral bit only with the last share. It rests on
`WholeBalanceBurns`: a withdrawal of the half-up balance burns, by the ceiling of
its quotient, every share.

`HealthAlwaysKept` needs no strengthening but types and flagged debts; the work is
in comparing a judgement with the position it admits. A step carries every
reserve on (`carried_on`: no index falls, the debts of the instant stay), so the
position it leaves can be valued against the one it found. Then by kind of
step: who loses nothing stays healthy (`StaysHealthy`); who withdraws or
transfers was judged by the weight left, and gives no more shares than that
weight pays for, but for one (`JudgedByWeight`, `SharesTaken`); who borrows was
judged by the average threshold, which grants at most a basis point of the whole
(`JudgedByAverage`, `AverageGrants`); who swaps or switches was judged on the
position itself. A first debt is why debts must be flagged: one without its bit
would be valued only from then on.

`ExitsAlwaysAdmitted` says that all a full repayment, or a debt-free full
withdrawal, asks of the state holds when the account is served and the funds are
there: the dust rule burns the whole debt, no balance and no debt exceeds its
total because totals are sums, and no shares are worth nothing. That those
guards suffice is `AdmittedRepaySteps` and `AdmittedWithdrawSteps`: with the
stated effect on every variable they make a step of the handler.

*Liquidations* (`LiquidationAssumption`), about `LiquidationSpec`:
`LiquidationTypeCorrect`, `SumsUnderLiquidation`, `RoundingFavoursUnderLiquidation`,
`SeizureAlwaysWithinBonus`, `CloseFactorAlwaysBinds`. The lemmas follow the
call: the amounts of a settlement (promotion, cap by the collateral, fee), then
the two burns of debt, the payment in cash or in aTokens, then the accruals.
For the seizure a chain of floors and ceilings, each moved to the side of the
product it helps (`ChainOfBounds`), is bounded across the conversion between two
assets' prices and decimals. The close factor is stated by the value the call
burned, read off the debt before and after, and not by the amount requested.

*Two-step liquidation* (`TwoStepAssumption`), about `TwoStepSpec`: `TwoStepTypeCorrect`,
`SumsUnderTwoSteps`, `ExecutionAlwaysWithinBounds`, `CloseFactorBindsInTwoSteps`,
`CapsBindUnderLiquidation`, `ExitsAdmittedUnderLiquidation`, `SpentOnlyOnce`. The
invariant of the last adds that nonces are issued in order, so that a new one is
neither stored nor executed.

Two theorems of `TwoStepSpec` state properties that no run lists; TLC checked both
on the instances of `liquidation` and `two_step` (the first) or `two_step` (the
second) before they were proved.

- `OnlyTheUnhealthyAreEverHarmed` is `HealthKept` for the pool with liquidations:
  an account that is healthy, also at the accrued indices, comes out of every step
  as healthy. A call and an execution judge their account on what they then store
  (`FoundUnhealthy`), so that account is not a healthy one, and everybody else
  loses neither shares nor bits nor gains debt. It leaves out accounts with a
  debt whose bit a liquidation cleared.
- `ExecutionAlwaysClearsWhatIsGone`: an execution clears a bit only with the last
  share or unit. The bad debt is asked for as the balance of what the first burn
  left, and by `RoundTrip` that burns all of it (`BothBurnsClear`). A direct call
  splits the balance before it rounds and has no such theorem.

Two properties of the pool are no theorems of its extensions, because they do
not hold there: `DebtIsFlagged` under direct liquidation, where two burns can leave
a unit behind, and `RoundingFavoursPool` under two-step liquidation, where the
repayment strands (both in the section above).

*Flash loans* (`FlashLoanAssumption`, `AccountsAssumption`, `NoLoanAssumption`):
`TypeCorrect`, `BooksAreBacked`, `PoolAlwaysRepaid`, for loans of any length. During
a loan: the ledger of before is backed; assets the loan does not name lose
nothing; each debt was measured on that ledger; and whatever has been settled is
whole, which the next premium cannot undo because it is verified on what the
aToken holds by then.

*Registry* (`RegistryAssumption`): `RegistryAgrees`, `ListingIsNeutral`,
`NothingIsStranded`, `DebtsStayFlagged`, `TokensReport`, `ListsGuardAccess`,
`TypeCorrect`. One inductive invariant carries them together: ids and list lead
back to one asset, and no bit and no id reaches the counter of ids to come
(`BitsPredateFutureIds`).

*Governance* (`NobodyAssumption`): `TypeCorrect`, `KeysAgree`, `OutsidersAccept`, and
`HandoversImplemented`, the refinement: initial states map to initial states and
every step of every role to a step of `AdminHandover` or to a stutter.
`PremiumsAlwaysGrowWithinMax` is about the pool admin's setters in `Configuration`
(`PremiumAssumption`), as is `WordsAlwaysSay` (`LayoutAssumption`,
`ArgumentsAssumption`): for every layout whose fields are apart and wide enough,
the code's among them, words read as asked. `WithBits` and `OtherBits` say what
writing the bits of a number leaves below and above them; powers of two are a
recursive function of their own, since the provers know nothing of `^`.

*Incentives* (`IncentivesAssumption`, `NoEntryAssumption`): `TypeCorrect`,
`ActiveAreListed`, `KeptEarningsRemain`, `DistributedWithinEmission`, for any set
of tokens that answer the contract. `KeptEarningsRemain` needs that no index moves
back and no snapshot is ahead of its index (`SnapshotsBehind`): a report then
credits a snapshot that is still held with all of what the index brought it, and a
claim takes from one entry what it pays for it. `DistributedWithinEmission` needs
more than its statement, since a claim debits what a credit added and a credit
spends what an index promised. Its invariant counts all of it: what was paid, what
is accrued, and for each holder what the distance between index and snapshot is
worth, with half a unit for everyone whose snapshot is behind; this stays within
what was emitted (`WithinEmitted`). It needs `SnapshotsBehind` too and, of a reward
that saw every withdrawal, that none stands for more than the balance (`Covered`),
so that a second adds at most what the supply earns. TLC checked these invariants
before they were proved.

*Oracle* (`PriceOracleAssumption`, `PowersAssumption`): `TypeCorrect`,
`BaselinesRemain`, `AnswersStayRecent`, `BreakerHolds`, `QueriesAgree`. That both
queries agree, although they look at the cache and the override in different
orders, needs that an asset with a live override has no cached price, that the
cache is of the past, and that stored overrides are sound.

Only model-checked:

- `ExitsStayOpen` speaks of ENABLED, which is beyond the provers. Of what it says,
  `ExitsAlwaysAdmitted` proves what can be said
  without the operator, for amounts within the width of the program's integers.
- `ConservationOfValue`, which `stranded_repayment` refutes.

## Not modelled

- *External code*: exchanges and the DEX helpers and adapters that call them,
  wrappers of custom oracles, the feeds: environment that may do anything.
- *Front ends*: liquidation-engine and flash-liquidation-helper estimate and
  validate what the router decides again by itself. Views and events.
- *Replacement of parts*: upgrades, new code for the tokens, another rate strategy
  for a reserve, `update_reflector_contract`; they exchange a constant of the models.
- *Plain setters* of the router's thresholds and addresses and of the rate
  strategy: constants of an instance, over all of which the theorems range.
- *Tokens*: allowances and initialisation of the aToken and the debt token, the
  test token.
- Storage lifetimes (TTL extensions) and the fuzz targets.

## Plan

1. The pool, liquidations, the components around them, their runs: done.
2. Theorems on every property of the runs but those named above: done.
3. Models: allowances of the aToken; the setters of the rate strategy and of the
   router's thresholds as actions of the pool; the oracle composed with the pool
   in place of `PriceChange`, on an instance small enough to check.
