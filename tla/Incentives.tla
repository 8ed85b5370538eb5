----------------------------- MODULE Incentives -----------------------------
(***************************************************************************)
(* The incentives contract (incentives/src/contract.rs, calculation.rs,    *)
(* storage.rs): reward tokens emitted per second and shared by the holders *)
(* of an aToken or a debt token.                                           *)
(*                                                                         *)
(* The token contract reports each change of a scaled balance after it     *)
(* happened, with the new balance and the new total supply; the index of   *)
(* the reward then moves over the time since its last update, and the user *)
(* is credited for what he held before and still holds.  The emission      *)
(* manager reconfigures, deactivates and deletes rewards at any time, and  *)
(* most of those calls do not move the index first.                        *)
(*                                                                         *)
(* A claim of all rewards and a change of the rate would move it too, by   *)
(* the supply they ask the token for; but they ask for a u128, the aToken  *)
(* and the debt token answer with an i128 (a-token/src/contract.rs:534,    *)
(* debt-token/src/contract.rs:280), and an answer that does not decode     *)
(* counts as no supply.                                                    *)
(*                                                                         *)
(* Balances are the token's (module LendingPool); here they change freely, *)
(* each change with its report.  The registered flags and the bounded      *)
(* lists of the storage are always written together and are one set here.  *)
(***************************************************************************)
EXTENDS RayMath, FiniteSets, FiniteSetsExt

CONSTANTS
  Assets,        \* aTokens and debt tokens, the assets of this contract
  RewardTokens,
  Users,
  RewardTypes,   \* REWARD_TYPE_SUPPLY and REWARD_TYPE_BORROW
  TypeOf,        \* the type each token reports: aTokens supply, debts borrow
  Answering,     \* tokens that answer scaled_total_supply with a u128
  Emissions,     \* bound: emissions per second the manager sets
  Ends,          \* bound: distribution ends the manager sets, 0 for none
  Amounts,       \* bound: amounts minted, burned and moved
  Claims,        \* bound: amounts claimed, 0 for all
  Fundings,      \* bound: amounts funded
  MaxSupply,     \* bound: on the supply of a token
  MaxFunds,      \* bound: on the reward tokens ever funded
  MaxTime,       \* bound: on the clock
  MAX_ASSETS,
  MAX_REWARD_TOKENS_PER_ASSET,
  None           \* no such entry in the storage

ASSUME IncentivesAssumption ==
  /\ IsFiniteSet(Assets) /\ IsFiniteSet(RewardTokens)
  /\ IsFiniteSet(RewardTypes) /\ IsFiniteSet(Users)
  /\ TypeOf \in [Assets -> RewardTypes]
  /\ Answering \subseteq Assets
  /\ Emissions \subseteq Nat /\ Ends \subseteq Nat /\ Amounts \subseteq Nat
  /\ Claims \subseteq Nat /\ Fundings \subseteq Nat
  /\ MaxSupply \in Nat /\ MaxTime \in Nat

VARIABLES
  now,            \* ledger timestamp
  paused,         \* PAUSED
  config,         \* AssetRewardConfig by reward, or None
  index,          \* AssetRewardIndex by reward, or None
  user_data,      \* UserRewardData by reward and user
  reward_tokens,  \* REWARD_TOKENS_LIST of each asset
  assets,         \* ASSETS_LIST
  balance,        \* scaled token balances, the token's own
  funds,          \* reward tokens the contract holds
  paid,           \* history: reward tokens paid out, by reward
  offer,          \* history: the widest reward ever configured
  overstated      \* history: rewards with a snapshot above its balance, once

storage_vars == <<paused, config, index, user_data, reward_tokens, assets>>
history_vars == <<paid, offer, overstated>>
vars == <<now, storage_vars, balance, funds, history_vars>>

(* A reward: the token it is earned on, the token it is paid in, its type. *)
Rewards == Assets \X RewardTokens \X RewardTypes

AssetRewardConfig ==
  [emission_per_second : Nat, distribution_end : Nat, is_active : BOOLEAN]

AssetRewardIndex == [index : Nat, last_update_timestamp : Nat]

UserRewardData ==
  [accrued : Nat, index_snapshot : Nat, balance_snapshot : Nat]

(* The highest rate of a reward, from its first configuration until the    *)
(* latest end it was given.                                                *)
Offer == [since : Nat, rate : Nat, until : Nat]

ASSUME NoEntryAssumption ==
  None \notin AssetRewardConfig \union AssetRewardIndex \union Offer

TypeOK ==
  /\ now \in Nat
  /\ paused \in BOOLEAN
  /\ config \in [Rewards -> AssetRewardConfig \union {None}]
  /\ index \in [Rewards -> AssetRewardIndex \union {None}]
  /\ user_data \in [Rewards -> [Users -> UserRewardData]]
  /\ reward_tokens \in [Assets -> SUBSET RewardTokens]
  /\ assets \subseteq Assets
  /\ balance \in [Assets -> [Users -> Nat]]
  /\ funds \in [RewardTokens -> Nat]
  /\ paid \in [Rewards -> Nat]
  /\ offer \in [Rewards -> Offer \union {None}]
  /\ overstated \subseteq Rewards

(* Rates counted from since until the latest end, at most rate a second. *)
NoEnd == MaxTime + 1

widened(o, c) ==
  LET end == IF c.distribution_end = 0 THEN NoEnd ELSE c.distribution_end
      higher(m, n) == IF m >= n THEN m ELSE n
  IN  IF o = None
      THEN [since |-> now, rate |-> c.emission_per_second, until |-> end]
      ELSE [o EXCEPT !.rate = higher(@, c.emission_per_second),
                     !.until = higher(@, end)]

total_supply(a) == SumFunctionOnSet(balance[a], Users)

(* What a call of this contract to the token brings: an answer of another  *)
(* type, like a failure, is read as 0.                                     *)
queried_supply(a) == IF a \in Answering THEN total_supply(a) ELSE 0

is_active(r) == config[r] # None /\ config[r].is_active

(* get_asset_reward_index: a missing entry reads as a fresh one. *)
current_index(r) ==
  IF index[r] # None THEN index[r]
  ELSE [index |-> RAY, last_update_timestamp |-> now]

-----------------------------------------------------------------------------
(* calculation.rs *)

lower_of(m, n) == IF m <= n THEN m ELSE n

(* Seconds since the last update, none of them after the end. *)
effective_time(c, last) ==
  LET until == IF c.distribution_end > 0 THEN lower_of(now, c.distribution_end)
                                         ELSE now
  IN  IF until > last THEN until - last ELSE 0

(* With nobody to share it, what is emitted until now is nobody's. *)
update_asset_reward_index(c, i, supply) ==
  LET time == effective_time(c, i.last_update_timestamp)
  IN  [index |-> IF time = 0 \/ supply = 0 THEN i.index
                 ELSE i.index + ray_div(c.emission_per_second * time, supply),
       last_update_timestamp |-> now]

calculate_user_accrued_rewards(idx, snapshot, bal) ==
  ray_mul(idx - snapshot, bal)

-----------------------------------------------------------------------------
(* A change of balances and the reports that follow it. *)

(* Mutation: a user is credited for the balance after the change. *)
balance_after(snapshot, bal) == bal

(* Mutation: only a balance that has not changed is credited. *)
balance_unchanged(snapshot, bal) == IF bal = snapshot THEN bal ELSE 0

(* Held during the whole period: in the snapshot and still there. *)
balance_for_rewards(snapshot, bal) ==
  IF snapshot = 0 THEN 0 ELSE lower_of(snapshot, bal)

(* The user's entry after a report, or after a claim that keeps bal as is. *)
with_accrued(d, idx, earning, bal) ==
  [accrued |-> d.accrued +
               calculate_user_accrued_rewards(idx, d.index_snapshot, earning),
   index_snapshot |-> idx,
   balance_snapshot |-> bal]

(* The rewards handle_action goes through for a token: listed and active. *)
reported(a) ==
  {r \in Rewards : /\ r[1] = a /\ r[2] \in reward_tokens[a]
                   /\ r[3] = TypeOf[a] /\ is_active(r)}

(* handle_action, once for each user of changed, bal the balances after    *)
(* the change.  The second of two reports finds no time left to emit for.  *)
handle_action(a, changed, bal) ==
  LET supply == SumFunctionOnSet(bal, Users)
      updated(r) ==
        update_asset_reward_index(config[r], current_index(r), supply)
      reportedData(r, u) ==
        LET d == user_data[r][u]
        IN  with_accrued(d, updated(r).index,
              balance_for_rewards(d.balance_snapshot, bal[u]), bal[u])
  IN  /\ index' = [r \in Rewards |-> IF r \in reported(a) THEN updated(r)
                                                          ELSE index[r]]
      /\ user_data' = [r \in Rewards |-> [u \in Users |->
           IF r \in reported(a) /\ u \in changed THEN reportedData(r, u)
                                                 ELSE user_data[r][u]]]

(* A snapshot above the balance is from before an unreported change. *)
note_overstated ==
  overstated' = overstated \union
    {r \in Rewards : \E u \in Users :
       user_data'[r][u].balance_snapshot > balance'[r[1]][u]}

ChangeBalances(a, changed, bal) ==
  /\ bal # balance[a]
  /\ balance' = [balance EXCEPT ![a] = bal]
  /\ handle_action(a, changed, bal)
  /\ note_overstated
  /\ UNCHANGED <<now, paused, config, reward_tokens, assets, funds, paid,
                 offer>>

Mint(a, u, n) ==
  /\ total_supply(a) + n <= MaxSupply
  /\ ChangeBalances(a, {u}, [balance[a] EXCEPT ![u] = @ + n])

Burn(a, u, n) ==
  /\ n <= balance[a][u]
  /\ ChangeBalances(a, {u}, [balance[a] EXCEPT ![u] = @ - n])

TransferTokens(a, from, to, n) ==
  /\ from # to
  /\ n <= balance[a][from]
  /\ ChangeBalances(a, {from, to},
                    [balance[a] EXCEPT ![from] = @ - n, ![to] = @ + n])

-----------------------------------------------------------------------------
(* Claims *)

ClaimedFrom(as, token) == {r \in Rewards : r[1] \in as /\ r[2] = token}

(* Pays out what taken says, or fails for want of funds. *)
pay_out(taken) ==
  LET due(t) == SumFunctionOnSet(taken, ClaimedFrom(Assets, t))
  IN  /\ \A t \in RewardTokens : due(t) <= funds[t]
      /\ funds' = [t \in RewardTokens |-> funds[t] - due(t)]
      /\ paid' = [r \in Rewards |-> paid[r] + taken[r]]

(* claim_rewards: amount of what is already accrued, all of it for 0.  The *)
(* entries are emptied in the order of the request, the last in part.      *)
claim_rewards(u, as, token, amount) ==
  LET accrued(rs) == SumFunction([r \in rs |-> user_data[r][u].accrued])
      claimable == accrued(ClaimedFrom(as, token))
      wanted == IF amount = 0 THEN claimable ELSE amount
  IN  /\ ~paused
      /\ 0 < wanted /\ wanted <= claimable
      /\ \E emptied \in SUBSET ClaimedFrom(as, token) :
         \E last \in ClaimedFrom(as, token) \ emptied :
           LET rest == wanted - accrued(emptied)
               taken == [r \in Rewards |-> IF r = last THEN rest
                           ELSE IF r \in emptied THEN user_data[r][u].accrued
                           ELSE 0]
           IN  /\ 0 < rest /\ rest <= user_data[last][u].accrued
               /\ user_data' = [r \in Rewards |->
                    [user_data[r] EXCEPT ![u].accrued = @ - taken[r]]]
               /\ pay_out(taken)
      /\ UNCHANGED <<now, paused, config, index, reward_tokens, assets,
                     balance, offer, overstated>>

(* claim_all_rewards: brings the listed rewards up to date first, with the *)
(* balance of the last report, if the token says what its supply is, and   *)
(* then pays all that is accrued.                                          *)
claim_all_rewards(u, as) ==
  LET listed == {r \in Rewards : r[1] \in as /\ r[2] \in reward_tokens[r[1]]}
      refreshed == {r \in listed : is_active(r) /\ queried_supply(r[1]) > 0}
      updated(r) == update_asset_reward_index(config[r], current_index(r),
                                              queried_supply(r[1]))
      data(r) ==
        LET d == user_data[r][u]
        IN  IF r \in refreshed
            THEN with_accrued(d, updated(r).index, d.balance_snapshot,
                              d.balance_snapshot)
            ELSE d
  IN  /\ ~paused
      /\ index' = [r \in Rewards |-> IF r \in refreshed THEN updated(r)
                                                        ELSE index[r]]
      /\ user_data' = [r \in Rewards |-> IF r \in listed
           THEN [user_data[r] EXCEPT ![u] = [data(r) EXCEPT !.accrued = 0]]
           ELSE user_data[r]]
      /\ pay_out([r \in Rewards |-> IF r \in listed THEN data(r).accrued
                                                    ELSE 0])
      /\ UNCHANGED <<now, paused, config, reward_tokens, assets, balance,
                     offer, overstated>>

-----------------------------------------------------------------------------
(* The emission manager's calls *)

(* Both lists are bounded; an entry already there is left where it is.     *)
add_asset(a) ==
  /\ a \notin assets => Cardinality(assets) < MAX_ASSETS
  /\ assets' = assets \union {a}

add_reward_token(a, t) ==
  /\ t \notin reward_tokens[a] =>
       Cardinality(reward_tokens[a]) < MAX_REWARD_TOKENS_PER_ASSET
  /\ reward_tokens' = [reward_tokens EXCEPT ![a] = @ \union {t}]

remove_reward_token(a, t) ==
  reward_tokens' = [reward_tokens EXCEPT ![a] = @ \ {t}]

remove_asset(a) == assets' = assets \ {a}

(* Every change of a configuration also lists its token and its asset.     *)
set_asset_reward_config(r, c) ==
  /\ add_asset(r[1])
  /\ add_reward_token(r[1], r[2])
  /\ config' = [config EXCEPT ![r] = c]
  /\ offer' = [offer EXCEPT ![r] = widened(@, c)]

(* An existing index is neither moved nor reset: the new rate counts from  *)
(* its last update on, the time the reward was inactive included.          *)
configure_asset_rewards(r, emission, end) ==
  /\ set_asset_reward_config(r, [emission_per_second |-> emission,
                                 distribution_end |-> end, is_active |-> TRUE])
  /\ index' = [index EXCEPT ![r] = current_index(r)]
  /\ UNCHANGED <<now, paused, user_data, balance, funds, paid,
                 overstated>>

(* The time before the change is paid at the rate before it, if the token  *)
(* says what its supply is; else the new rate counts from the last update. *)
index_until_now(r) ==
  IF is_active(r) /\ queried_supply(r[1]) > 0
  THEN update_asset_reward_index(config[r], current_index(r),
                                 queried_supply(r[1]))
  ELSE current_index(r)

set_emission_per_second(r, emission) ==
  /\ config[r] # None
  /\ set_asset_reward_config(r,
       [config[r] EXCEPT !.emission_per_second = emission])
  /\ index' = [index EXCEPT ![r] = index_until_now(r)]
  /\ UNCHANGED <<now, paused, user_data, balance, funds, paid, overstated>>

set_distribution_end(r, end) ==
  /\ config[r] # None
  /\ set_asset_reward_config(r, [config[r] EXCEPT !.distribution_end = end])
  /\ UNCHANGED <<now, paused, index, user_data, balance, funds, paid,
                 overstated>>

remove_asset_reward(r) ==
  /\ config[r] # None
  /\ set_asset_reward_config(r, [config[r] EXCEPT !.is_active = FALSE])
  /\ UNCHANGED <<now, paused, index, user_data, balance, funds, paid,
                 overstated>>

(* Mutation: active rewards are deleted as well. *)
any_types(a, t) == TRUE

all_types_inactive(a, t) == \A k \in RewardTypes : ~is_active(<<a, t, k>>)

(* The token leaves the lists; its configuration, index and users' data    *)
(* stay for a later configure_asset_rewards to find.                       *)
delete_reward_token(a, t) ==
  /\ all_types_inactive(a, t)
  /\ remove_reward_token(a, t)
  /\ IF reward_tokens'[a] = {} THEN remove_asset(a) ELSE UNCHANGED assets
  /\ UNCHANGED <<now, paused, config, index, user_data, balance, funds,
                 history_vars>>

SetPaused(value) ==
  /\ paused' = value
  /\ UNCHANGED <<now, config, index, user_data, reward_tokens, assets, balance,
                 funds, history_vars>>

fund_rewards(t, n) ==
  /\ n > 0
  /\ funds[t] + SumFunctionOnSet(paid, ClaimedFrom(Assets, t)) + n
       <= MaxFunds
  /\ funds' = [funds EXCEPT ![t] = @ + n]
  /\ UNCHANGED <<now, storage_vars, balance, history_vars>>

Tick ==
  /\ now < MaxTime
  /\ now' = now + 1
  /\ UNCHANGED <<storage_vars, balance, funds, history_vars>>

Init ==
  /\ now = 0
  /\ paused = FALSE
  /\ config = [r \in Rewards |-> None]
  /\ index = [r \in Rewards |-> None]
  /\ user_data = [r \in Rewards |-> [u \in Users |->
       [accrued |-> 0, index_snapshot |-> RAY, balance_snapshot |-> 0]]]
  /\ reward_tokens = [a \in Assets |-> {}]
  /\ assets = {}
  /\ balance = [a \in Assets |-> [u \in Users |-> 0]]
  /\ funds = [t \in RewardTokens |-> 0]
  /\ paid = [r \in Rewards |-> 0]
  /\ offer = [r \in Rewards |-> None]
  /\ overstated = {}

Next ==
  \/ Tick
  \/ \E a \in Assets, u \in Users, n \in Amounts :
       \/ Mint(a, u, n)
       \/ Burn(a, u, n)
       \/ \E to \in Users : TransferTokens(a, u, to, n)
  \/ \E u \in Users, as \in SUBSET Assets :
       \/ claim_all_rewards(u, as)
       \/ \E t \in RewardTokens, n \in Claims :
            claim_rewards(u, as, t, n)
  \/ \E r \in Rewards :
       \/ \E e \in Emissions, end \in Ends : configure_asset_rewards(r, e, end)
       \/ \E e \in Emissions : set_emission_per_second(r, e)
       \/ \E end \in Ends : set_distribution_end(r, end)
       \/ remove_asset_reward(r)
  \/ \E a \in Assets, t \in RewardTokens : delete_reward_token(a, t)
  \/ \E value \in BOOLEAN : SetPaused(value)
  \/ \E t \in RewardTokens, n \in Fundings : fund_rewards(t, n)

Spec == Init /\ [][Next]_vars

-----------------------------------------------------------------------------
(* In units of 1/(2 RAY): credited, paid out, and earned but not credited. *)
credited(r, u) ==
  LET d == user_data[r][u]
  IN  2 * RAY * d.accrued
      + 2 * d.balance_snapshot * (index[r].index - d.index_snapshot)

distributed(r) ==
  2 * RAY * paid[r] + SumFunction([u \in Users |-> credited(r, u)])

(* What the highest rate ever set would have emitted by now, up to the     *)
(* latest end ever set.                                                    *)
emittable(r) ==
  LET until == lower_of(now, offer[r].until)
  IN  IF until > offer[r].since THEN offer[r].rate * (until - offer[r].since)
                                ELSE 0

(***************************************************************************)
(* A reward never distributes more than its widest offer emits, whatever   *)
(* the order of deposits, withdrawals, transfers, claims and rate changes  *)
(* and although time is only ever accounted for after the balances have    *)
(* changed.  Each user's credit and the index are rounded to the nearest,  *)
(* at most once each per unit of time, the index for every unit of the     *)
(* supply.  This needs every withdrawal to have been reported: one made    *)
(* while the reward is inactive is not (contract.rs:118-155, 400-470).     *)
(***************************************************************************)
RewardsWithinEmission ==
  \A r \in Rewards :
    config[r] # None /\ r \notin overstated
      => distributed(r) <= 2 * RAY * emittable(r)
                           + now * (MaxSupply + RAY * Cardinality(Users))

(* A reward that can accrue is one that handle_action finds: its token is  *)
(* on the list of the asset, and the asset on the list claims go through   *)
(* (contract.rs:780-815, storage.rs:166-188, 385-461).                     *)
ActiveRewardsAreListed ==
  /\ \A r \in Rewards : is_active(r) => r[2] \in reward_tokens[r[1]]
  /\ \A a \in Assets : a \in assets <=> reward_tokens[a] # {}

(* What u has earned of r by the index as it stands, credited or not. *)
earned(r, u) ==
  LET d == user_data[r][u]
  IN  d.accrued + calculate_user_accrued_rewards(current_index(r).index,
                    d.index_snapshot, d.balance_snapshot)

claims(u) ==
  \E as \in SUBSET Assets :
    \/ claim_all_rewards(u, as)
    \/ \E t \in RewardTokens, n \in Claims : claim_rewards(u, as, t, n)

(* Whoever keeps the balance of his last report loses nothing that the     *)
(* index has brought him, whether others come and go or the reward is      *)
(* reconfigured, deactivated, deleted and set up again: only his own claim *)
(* takes from it, and pays at least what it takes.  Whoever withdraws      *)
(* forfeits it for what he withdraws (contract.rs:77-180, 200-510).        *)
KeptBalancesKeepEarnings ==
  [][ \A r \in Rewards, u \in Users :
        balance'[r[1]][u] >= user_data[r][u].balance_snapshot =>
          \/ earned(r, u)' >= earned(r, u)
          \/ /\ claims(u)
             /\ earned(r, u) - earned(r, u)' <= paid'[r] - paid[r] ]_vars

=============================================================================
