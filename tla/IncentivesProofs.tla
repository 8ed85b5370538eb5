------------------------- MODULE IncentivesProofs -------------------------
(***************************************************************************)
(* Incentives for any tokens, users, rates and ends: a reward that accrues *)
(* is listed, every entry keeps its type and no snapshot runs ahead of its *)
(* index, who keeps his balance keeps what it has earned, and no reward    *)
(* distributes more than was offered for it.                               *)
(*                                                                         *)
(* The last needs an invariant that counts what is owed rather than what   *)
(* is credited: a user whose snapshot is behind the index is owed half a   *)
(* unit more, the rounding of his next credit.  Each second the index      *)
(* moves adds at most that for each user and, for the index itself, half a *)
(* unit for each unit of the supply.                                       *)
(***************************************************************************)
EXTENDS Incentives, RayMathProofs

(* Of the types, what the lists need.                                      *)
ListsTyped ==
  /\ now \in Nat
  /\ paused \in BOOLEAN
  /\ config \in [Rewards -> AssetRewardConfig \union {None}]
  /\ reward_tokens \in [Assets -> SUBSET RewardTokens]
  /\ assets \subseteq Assets
  /\ balance \in [Assets -> [Users -> Nat]]

IInv == ListsTyped /\ ActiveRewardsAreListed

listing_vars == <<config, reward_tokens, assets>>

(* What holds when the contract is deployed.                               *)
LEMMA InitInv == Init => IInv
  <1> SUFFICES ASSUME Init PROVE IInv
    OBVIOUS
  <1>1. /\ now = 0 /\ paused = FALSE /\ assets = {}
        /\ config = [r \in Rewards |-> None]
        /\ reward_tokens = [a \in Assets |-> {}]
        /\ balance = [a \in Assets |-> [u \in Users |-> 0]]
    BY DEF Init
  <1>2. ListsTyped
    BY <1>1 DEF ListsTyped
  <1>3. ActiveRewardsAreListed
    BY <1>1 DEF ActiveRewardsAreListed, is_active
  <1> QED
    BY <1>2, <1>3 DEF IInv

(* A reward is an asset, a token and a type.                               *)
LEMMA RewardParts ==
  ASSUME NEW r \in Rewards
  PROVE  r[1] \in Assets /\ r[2] \in RewardTokens /\ r[3] \in RewardTypes
  BY DEF Rewards

(* Storing a configuration lists what it is for.                           *)
LEMMA ConfigKeeps ==
  ASSUME IInv, NEW r \in Rewards, NEW c \in AssetRewardConfig,
         set_asset_reward_config(r, c),
         UNCHANGED <<now, paused, balance>>
  PROVE  IInv'
  <1> USE DEF IInv
  <1>1. /\ assets' = assets \union {r[1]}
        /\ reward_tokens' = [reward_tokens EXCEPT ![r[1]] = @ \union {r[2]}]
        /\ config' = [config EXCEPT ![r] = c]
    BY DEF set_asset_reward_config, add_asset, add_reward_token
  <1>2. ListsTyped'
    BY <1>1, RewardParts DEF ListsTyped
  <1>3. \A q \in Rewards : is_active(q)' => q[2] \in reward_tokens'[q[1]]
    BY <1>1, RewardParts DEF ListsTyped, ActiveRewardsAreListed, is_active
  <1>4. \A a \in Assets : a \in assets' <=> reward_tokens'[a] # {}
    BY <1>1, RewardParts DEF ListsTyped, ActiveRewardsAreListed
  <1> QED
    BY <1>2, <1>3, <1>4 DEF ActiveRewardsAreListed

(* A token leaves the list when none of its rewards is active, and the     *)
(* asset with its last token.                                              *)
LEMMA DeleteKeeps ==
  ASSUME IInv, NEW a \in Assets, NEW t \in RewardTokens,
         delete_reward_token(a, t)
  PROVE  IInv'
  <1> USE DEF IInv
  <1>1. /\ \A k \in RewardTypes : ~is_active(<<a, t, k>>)
        /\ reward_tokens' = [reward_tokens EXCEPT ![a] = @ \ {t}]
        /\ assets' = IF reward_tokens'[a] = {} THEN assets \ {a} ELSE assets
        /\ UNCHANGED <<now, paused, config, balance>>
    BY DEF delete_reward_token, all_types_inactive, remove_reward_token,
           remove_asset
  <1>2. ListsTyped'
    BY <1>1 DEF ListsTyped
  <1>3. ASSUME NEW q \in Rewards, is_active(q)
        PROVE  q[2] \in reward_tokens'[q[1]]
    <2>1. /\ q = <<q[1], q[2], q[3]>> /\ q[1] \in Assets
          /\ q[3] \in RewardTypes
      BY DEF Rewards
    <2>2. ~(q[1] = a /\ q[2] = t)
      BY <1>1, <1>3, <2>1
    <2>3. q[2] \in reward_tokens[q[1]]
      BY <1>3 DEF ActiveRewardsAreListed
    <2> QED
      BY <1>1, <2>1, <2>2, <2>3 DEF ListsTyped
  <1>4. \A b \in Assets : b \in assets' <=> reward_tokens'[b] # {}
    BY <1>1 DEF ListsTyped, ActiveRewardsAreListed
  <1> QED
    BY <1>1, <1>2, <1>3, <1>4 DEF ActiveRewardsAreListed, is_active

(* Nothing else touches the lists or a configuration.                      *)
LEMMA OthersKeep ==
  ASSUME IInv, UNCHANGED listing_vars, now' \in Nat, paused' \in BOOLEAN,
         balance' \in [Assets -> [Users -> Nat]]
  PROVE  IInv'
  BY DEF IInv, ListsTyped, ActiveRewardsAreListed, is_active, listing_vars

(* Every call keeps the lists.                                             *)
LEMMA StepInv == IInv /\ [Next]_vars => IInv'
  <1> SUFFICES ASSUME IInv, [Next]_vars PROVE IInv'
    OBVIOUS
  <1> USE IncentivesAssumption DEF listing_vars, storage_vars
  <1>0. /\ now \in Nat /\ paused \in BOOLEAN
        /\ balance \in [Assets -> [Users -> Nat]]
        /\ \A r \in Rewards : config[r] \in AssetRewardConfig \union {None}
    BY DEF IInv, ListsTyped
  <1>1. CASE Tick
    BY <1>0, <1>1, OthersKeep DEF Tick
  <1>2. ASSUME NEW a \in Assets, NEW changed, NEW bal \in [Users -> Nat],
               ChangeBalances(a, changed, bal)
        PROVE  IInv'
    <2>1. /\ balance' = [balance EXCEPT ![a] = bal]
          /\ UNCHANGED <<now, paused, config, reward_tokens, assets>>
      BY <1>2 DEF ChangeBalances
    <2> QED
      BY <1>0, <2>1, OthersKeep
  <1>3. ASSUME NEW a \in Assets, NEW u \in Users, NEW n \in Nat,
               Mint(a, u, n) \/ Burn(a, u, n)
        PROVE  IInv'
    <2>1. CASE Mint(a, u, n)
      <3>1. [balance[a] EXCEPT ![u] = @ + n] \in [Users -> Nat]
        BY <1>0
      <3> QED
        BY <1>2, <2>1, <3>1 DEF Mint
    <2>2. CASE Burn(a, u, n)
      <3>1. n <= balance[a][u] /\ balance[a] \in [Users -> Nat]
        BY <1>0, <2>2 DEF Burn
      <3>2. [balance[a] EXCEPT ![u] = @ - n] \in [Users -> Nat]
        BY <3>1
      <3> QED
        BY <1>2, <2>2, <3>2 DEF Burn
    <2> QED
      BY <1>3, <2>1, <2>2
  <1>4. ASSUME NEW a \in Assets, NEW u \in Users, NEW to \in Users,
               NEW n \in Nat, TransferTokens(a, u, to, n)
        PROVE  IInv'
    <2> DEFINE bal == [balance[a] EXCEPT ![u] = @ - n, ![to] = @ + n]
    <2>1. bal \in [Users -> Nat]
      BY <1>0, <1>4 DEF TransferTokens
    <2> QED
      BY <1>2, <1>4, <2>1 DEF TransferTokens
  <1>5. ASSUME NEW u \in Users, NEW as \in SUBSET Assets,
               \/ claim_all_rewards(u, as)
               \/ \E t \in RewardTokens, n \in Claims :
                    claim_rewards(u, as, t, n)
        PROVE  IInv'
    <2>1. UNCHANGED <<now, paused, config, reward_tokens, assets, balance>>
      BY <1>5 DEF claim_all_rewards, claim_rewards
    <2> QED
      BY <1>0, <2>1, OthersKeep
  <1>6. ASSUME NEW r \in Rewards, NEW e \in Emissions, NEW end \in Ends,
               configure_asset_rewards(r, e, end)
        PROVE  IInv'
    <2>1. [emission_per_second |-> e, distribution_end |-> end,
           is_active |-> TRUE] \in AssetRewardConfig
      BY DEF AssetRewardConfig
    <2> QED
      BY <1>6, <2>1, ConfigKeeps DEF configure_asset_rewards
  <1>7. ASSUME NEW r \in Rewards,
               \/ \E e \in Emissions : set_emission_per_second(r, e)
               \/ \E end \in Ends : set_distribution_end(r, end)
               \/ remove_asset_reward(r)
        PROVE  IInv'
    <2>1. config[r] \in AssetRewardConfig
      BY <1>0, <1>7 DEF set_emission_per_second, set_distribution_end,
                        remove_asset_reward
    <2>2. PICK c \in AssetRewardConfig :
            /\ set_asset_reward_config(r, c)
            /\ UNCHANGED <<now, paused, balance>>
      <3>1. CASE \E e \in Emissions : set_emission_per_second(r, e)
        <4>1. PICK e \in Emissions : set_emission_per_second(r, e)
          BY <3>1
        <4>2. [config[r] EXCEPT !.emission_per_second = e] \in AssetRewardConfig
          BY <2>1 DEF AssetRewardConfig
        <4> QED
          BY <4>1, <4>2 DEF set_emission_per_second
      <3>2. CASE \E end \in Ends : set_distribution_end(r, end)
        <4>1. PICK end \in Ends : set_distribution_end(r, end)
          BY <3>2
        <4>2. [config[r] EXCEPT !.distribution_end = end] \in AssetRewardConfig
          BY <2>1 DEF AssetRewardConfig
        <4> QED
          BY <4>1, <4>2 DEF set_distribution_end
      <3>3. CASE remove_asset_reward(r)
        <4>1. [config[r] EXCEPT !.is_active = FALSE] \in AssetRewardConfig
          BY <2>1 DEF AssetRewardConfig
        <4> QED
          BY <3>3, <4>1 DEF remove_asset_reward
      <3> QED
        BY <1>7, <3>1, <3>2, <3>3
    <2> QED
      BY <2>2, ConfigKeeps
  <1>8. CASE \E a \in Assets, t \in RewardTokens : delete_reward_token(a, t)
    BY <1>8, DeleteKeeps
  <1>9. CASE \/ \E value \in BOOLEAN : SetPaused(value)
             \/ \E t \in RewardTokens, n \in Fundings : fund_rewards(t, n)
    <2>1. /\ UNCHANGED <<now, config, reward_tokens, assets, balance>>
          /\ paused' \in BOOLEAN
      BY <1>0, <1>9 DEF SetPaused, fund_rewards
    <2> QED
      BY <1>0, <2>1, OthersKeep
  <1>10. CASE UNCHANGED vars
    BY <1>0, <1>10, OthersKeep DEF vars
  <1> QED
    BY <1>1, <1>3, <1>4, <1>5, <1>6, <1>7, <1>8, <1>9, <1>10 DEF Next

(* So the lists are right in every reachable state.                        *)
LEMMA Inductive == Spec => []IInv
  BY InitInv, StepInv, PTL DEF Spec

(* A reward that accrues is on the lists the reports and the claims go     *)
(* through, however rewards are configured, deactivated, deleted and       *)
(* configured again (incentives contract.rs, storage.rs).                  *)
THEOREM ActiveAreListed == Spec => []ActiveRewardsAreListed
  <1>1. IInv => ActiveRewardsAreListed
    BY DEF IInv
  <1> QED
    BY <1>1, Inductive, PTL

-----------------------------------------------------------------------------
(* The rest of the types, and no snapshot of an index ahead of it.         *)
AccountsTyped ==
  /\ index \in [Rewards -> AssetRewardIndex \union {None}]
  /\ user_data \in [Rewards -> [Users -> UserRewardData]]
  /\ funds \in [RewardTokens -> Nat]
  /\ paid \in [Rewards -> Nat]
  /\ offer \in [Rewards -> Offer \union {None}]
  /\ overstated \subseteq Rewards

SnapshotsBehind ==
  \A r \in Rewards, u \in Users :
    user_data[r][u].index_snapshot <= current_index(r).index

AInv == AccountsTyped /\ SnapshotsBehind

(* An index only moves up, and to the present.                             *)
LEMMA IndexMoves ==
  ASSUME now \in Nat, NEW c \in AssetRewardConfig, NEW i \in AssetRewardIndex,
         NEW supply \in Nat
  PROVE  LET e == update_asset_reward_index(c, i, supply)
         IN  /\ e \in AssetRewardIndex
             /\ e.index >= i.index
             /\ e.last_update_timestamp = now
<1> DEFINE time == effective_time(c, i.last_update_timestamp)
           gain == ray_div(c.emission_per_second * time, supply)
<1>1. time \in Nat
  BY DEF effective_time, lower_of, AssetRewardConfig, AssetRewardIndex
<1>2. supply # 0 => gain \in Nat
  <2>1. c.emission_per_second * time \in Nat
    BY <1>1, ProductNat DEF AssetRewardConfig
  <2> QED BY <2>1, RayDivTypes
<1> HIDE DEF time, gain
<1>3. update_asset_reward_index(c, i, supply) =
        [index |-> IF time = 0 \/ supply = 0 THEN i.index ELSE i.index + gain,
         last_update_timestamp |-> now]
  BY DEF update_asset_reward_index, time, gain
<1> QED BY <1>2, <1>3 DEF AssetRewardIndex

(* A missing entry reads as an index as well.                              *)
LEMMA CurrentIndexType ==
  ASSUME AccountsTyped, now \in Nat, NEW r \in Rewards
  PROVE  current_index(r) \in AssetRewardIndex
BY ScaleAssumption DEF AccountsTyped, current_index, AssetRewardIndex

(* A user is brought up to an index that is not behind his snapshot.       *)
LEMMA CreditTyped ==
  ASSUME NEW d \in UserRewardData, NEW i \in Nat, d.index_snapshot <= i,
         NEW earning \in Nat, NEW bal \in Nat
  PROVE  /\ with_accrued(d, i, earning, bal) \in UserRewardData
         /\ with_accrued(d, i, earning, bal).index_snapshot = i
<1>1. i - d.index_snapshot \in Nat /\ d.accrued \in Nat
  BY DEF UserRewardData
<1>2. calculate_user_accrued_rewards(i, d.index_snapshot, earning) \in Nat
  BY <1>1, RayMulType DEF calculate_user_accrued_rewards
<1> QED BY <1>1, <1>2 DEF with_accrued, UserRewardData

(* A total supply is a natural.                                            *)
LEMMA SupplyNat ==
  ASSUME NEW bal \in [Users -> Nat]
  PROVE  SumFunctionOnSet(bal, Users) \in Nat
BY SumNat, IncentivesAssumption

(* One reward after a step: its index not moved back, each user's snapshot *)
(* as it was or taken of that index.                                       *)
LEMMA EntryKeeps ==
  ASSUME AInv, now \in Nat, NEW r \in Rewards,
         index'[r] \in AssetRewardIndex \union {None},
         index'[r] = None => index[r] = None,
         index'[r] # None => index'[r].index >= current_index(r).index,
         \A u \in Users :
           \/ user_data'[r][u].index_snapshot = user_data[r][u].index_snapshot
           \/ /\ index'[r] # None
              /\ user_data'[r][u].index_snapshot = index'[r].index
  PROVE  \A u \in Users :
           user_data'[r][u].index_snapshot <= current_index(r)'.index
<1>1. current_index(r) \in AssetRewardIndex
  BY CurrentIndexType DEF AInv
<1>2. \A u \in Users : /\ user_data[r][u].index_snapshot \in Nat
                       /\ user_data[r][u].index_snapshot
                            <= current_index(r).index
  BY DEF AInv, AccountsTyped, SnapshotsBehind, UserRewardData
<1>3. current_index(r)'.index = IF index'[r] # None THEN index'[r].index
                                                    ELSE RAY
  BY DEF current_index
<1>4. index'[r] = None => current_index(r).index = RAY
  BY DEF current_index
<1> QED BY <1>1, <1>2, <1>3, <1>4 DEF AssetRewardIndex

(* The reports after a change of balances keep the types.                  *)
LEMMA ReportKeeps ==
  ASSUME IInv, AInv, NEW a \in Assets, NEW changed,
         NEW bal \in [Users -> Nat], handle_action(a, changed, bal)
  PROVE  /\ index' \in [Rewards -> AssetRewardIndex \union {None}]
         /\ user_data' \in [Rewards -> [Users -> UserRewardData]]
         /\ SnapshotsBehind'
<1> DEFINE supply == SumFunctionOnSet(bal, Users)
           updated(r) ==
             update_asset_reward_index(config[r], current_index(r), supply)
           data(r, u) ==
             LET d == user_data[r][u]
             IN  with_accrued(d, updated(r).index,
                   balance_for_rewards(d.balance_snapshot, bal[u]), bal[u])
<1>1. /\ index' = [r \in Rewards |-> IF r \in reported(a) THEN updated(r)
                                                          ELSE index[r]]
      /\ user_data' = [r \in Rewards |-> [u \in Users |->
           IF r \in reported(a) /\ u \in changed THEN data(r, u)
                                                 ELSE user_data[r][u]]]
  BY DEF handle_action
<1>2. now \in Nat /\ supply \in Nat
  BY SupplyNat DEF IInv, ListsTyped
<1> HIDE DEF supply
<1>3. ASSUME NEW r \in Rewards, r \in reported(a)
      PROVE  /\ updated(r) \in AssetRewardIndex /\ updated(r) # None
             /\ updated(r).index >= current_index(r).index
  <2>1. config[r] \in AssetRewardConfig
    BY <1>3 DEF reported, is_active, IInv, ListsTyped
  <2>2. current_index(r) \in AssetRewardIndex
    BY <1>2, CurrentIndexType DEF AInv
  <2>3. /\ updated(r) \in AssetRewardIndex
        /\ updated(r).index >= current_index(r).index
    BY <1>2, <2>1, <2>2, IndexMoves
  <2> QED BY <2>3, NoEntryAssumption
<1>4. ASSUME NEW r \in Rewards, r \in reported(a), NEW u \in Users
      PROVE  /\ data(r, u) \in UserRewardData
             /\ data(r, u).index_snapshot = updated(r).index
  <2> DEFINE d == user_data[r][u]
  <2>1. /\ d \in UserRewardData /\ d.index_snapshot <= current_index(r).index
        /\ current_index(r) \in AssetRewardIndex
    BY <1>2, CurrentIndexType DEF AInv, AccountsTyped, SnapshotsBehind
  <2>2. updated(r).index \in Nat /\ d.index_snapshot <= updated(r).index
    BY <1>3, <1>4, <2>1 DEF AssetRewardIndex, UserRewardData
  <2>3. /\ bal[u] \in Nat
        /\ balance_for_rewards(d.balance_snapshot, bal[u]) \in Nat
    BY <2>1 DEF balance_for_rewards, lower_of, UserRewardData
  <2> HIDE DEF d, updated
  <2> QED BY <2>1, <2>2, <2>3, CreditTyped DEF d
<1> HIDE DEF updated, data
<1>5. index' \in [Rewards -> AssetRewardIndex \union {None}]
  BY <1>1, <1>3 DEF AInv, AccountsTyped
<1>6. user_data' \in [Rewards -> [Users -> UserRewardData]]
  BY <1>1, <1>4 DEF AInv, AccountsTyped
<1>7. ASSUME NEW r \in Rewards
      PROVE  \A u \in Users :
               user_data'[r][u].index_snapshot <= current_index(r)'.index
  <2>1. CASE r \in reported(a)
    BY <1>1, <1>2, <1>3, <1>4, <1>5, <2>1, EntryKeeps
  <2>2. CASE r \notin reported(a)
    <3>1. index'[r] = index[r]
          /\ \A u \in Users : user_data'[r][u] = user_data[r][u]
      BY <1>1, <2>2
    <3>2. index'[r] # None => index'[r].index >= current_index(r).index
      BY <3>1 DEF current_index, AInv, AccountsTyped, AssetRewardIndex
    <3> QED BY <1>2, <1>5, <3>1, <3>2, EntryKeeps
  <2> QED BY <2>1, <2>2
<1> QED BY <1>5, <1>6, <1>7 DEF SnapshotsBehind

(* There are finitely many rewards.                                        *)
LEMMA RewardsFinite == IsFiniteSet(Rewards)
<1> DEFINE pairs == (Assets \X RewardTokens) \X RewardTypes
           f == [r \in Rewards |-> <<<<r[1], r[2]>>, r[3]>>]
<1>1. IsFiniteSet(Assets \X RewardTokens)
  BY IncentivesAssumption, FS_Product
<1>2. IsFiniteSet(pairs)
  BY <1>1, IncentivesAssumption, FS_Product
<1>3. f \in [Rewards -> pairs]
  BY DEF Rewards
<1>4. \A q, r \in Rewards : f[q] = f[r] => q = r
  BY DEF Rewards
<1>5. f \in Injection(Rewards, pairs)
  BY <1>3, <1>4 DEF Injection, IsInjective
<1> HIDE DEF f, pairs
<1> QED BY <1>2, <1>5, FS_Injection

(* Whatever is taken, funds and payments stay naturals.                    *)
LEMMA PayOutTyped ==
  ASSUME AccountsTyped, NEW taken \in [Rewards -> Nat], pay_out(taken)
  PROVE  funds' \in [RewardTokens -> Nat] /\ paid' \in [Rewards -> Nat]
<1> DEFINE due(t) == SumFunctionOnSet(taken, ClaimedFrom(Assets, t))
<1>1. \A t \in RewardTokens : due(t) \in Nat
  <2> TAKE t \in RewardTokens
  <2>1. ClaimedFrom(Assets, t) \subseteq Rewards
    BY DEF ClaimedFrom
  <2>2. IsFiniteSet(ClaimedFrom(Assets, t))
    BY <2>1, RewardsFinite, FS_Subset
  <2> QED BY <2>1, <2>2, SumNat
<1>2. /\ \A t \in RewardTokens : due(t) <= funds[t]
      /\ funds' = [t \in RewardTokens |-> funds[t] - due(t)]
      /\ paid' = [r \in Rewards |-> paid[r] + taken[r]]
  BY DEF pay_out
<1> HIDE DEF due
<1> QED BY <1>1, <1>2 DEF AccountsTyped

(* What claim_rewards takes from each entry.                               *)
LEMMA ClaimTakes ==
  ASSUME AccountsTyped, NEW u \in Users, NEW as \in SUBSET Assets,
         NEW token \in RewardTokens, NEW amount \in Nat,
         claim_rewards(u, as, token, amount)
  PROVE  \E taken \in [Rewards -> Nat] :
           /\ \A r \in Rewards : taken[r] <= user_data[r][u].accrued
           /\ user_data' = [r \in Rewards |->
                [user_data[r] EXCEPT ![u].accrued = @ - taken[r]]]
           /\ pay_out(taken)
<1> DEFINE accrued(rs) == SumFunction([r \in rs |-> user_data[r][u].accrued])
           from == ClaimedFrom(as, token)
           wanted == IF amount = 0 THEN accrued(from) ELSE amount
           taken(emptied, last) ==
             [r \in Rewards |-> IF r = last THEN wanted - accrued(emptied)
                       ELSE IF r \in emptied THEN user_data[r][u].accrued
                       ELSE 0]
<1>1. from \subseteq Rewards
  BY DEF ClaimedFrom
<1>2. \A rs \in SUBSET from : accrued(rs) \in Nat
  <2> TAKE rs \in SUBSET from
  <2> DEFINE f == [r \in rs |-> user_data[r][u].accrued]
  <2>1. IsFiniteSet(rs)
    BY <1>1, RewardsFinite, FS_Subset
  <2>2. \A r \in rs : f[r] \in Nat
    BY <1>1 DEF AccountsTyped, UserRewardData
  <2> HIDE DEF f
  <2>3. SumFunctionOnSet(f, rs) \in Nat
    BY <2>1, <2>2, SumNat
  <2>4. DOMAIN f = rs
    BY DEF f
  <2> QED BY <2>3, <2>4 DEF SumFunction, f
<1>3. PICK emptied \in SUBSET from :
        \E last \in from \ emptied :
        /\ 0 < wanted - accrued(emptied)
        /\ wanted - accrued(emptied) <= user_data[last][u].accrued
        /\ user_data' = [r \in Rewards |->
             [user_data[r] EXCEPT ![u].accrued = @ - taken(emptied, last)[r]]]
        /\ pay_out(taken(emptied, last))
  BY DEF claim_rewards
<1>8. PICK last \in from \ emptied :
        /\ 0 < wanted - accrued(emptied)
        /\ wanted - accrued(emptied) <= user_data[last][u].accrued
        /\ user_data' = [r \in Rewards |->
             [user_data[r] EXCEPT ![u].accrued = @ - taken(emptied, last)[r]]]
        /\ pay_out(taken(emptied, last))
  BY <1>3
<1>4. wanted \in Nat /\ accrued(emptied) \in Nat
  BY <1>2, <1>8
<1> HIDE DEF accrued, wanted, from
<1>5. wanted - accrued(emptied) \in Nat
  BY <1>8, <1>4
<1>6. \A r \in Rewards : user_data[r][u].accrued \in Nat
  BY DEF AccountsTyped, UserRewardData
<1>7. /\ taken(emptied, last) \in [Rewards -> Nat]
      /\ \A r \in Rewards :
           taken(emptied, last)[r] <= user_data[r][u].accrued
  BY <1>1, <1>8, <1>5, <1>6
<1> HIDE DEF taken
<1> QED BY <1>8, <1>7

(* Claims of what is accrued keep the types.                               *)
LEMMA ClaimKeeps ==
  ASSUME IInv, AInv, NEW u \in Users, NEW as \in SUBSET Assets,
         NEW token \in RewardTokens, NEW amount \in Nat,
         claim_rewards(u, as, token, amount)
  PROVE  AInv'
<1>1. PICK taken \in [Rewards -> Nat] :
        /\ \A r \in Rewards : taken[r] <= user_data[r][u].accrued
        /\ user_data' = [r \in Rewards |->
             [user_data[r] EXCEPT ![u].accrued = @ - taken[r]]]
        /\ pay_out(taken)
  BY ClaimTakes DEF AInv
<1>2. /\ funds' \in [RewardTokens -> Nat] /\ paid' \in [Rewards -> Nat]
      /\ UNCHANGED <<now, index, offer, overstated>>
  BY <1>1, PayOutTyped DEF AInv, claim_rewards
<1>3. \A r \in Rewards, v \in Users :
        /\ user_data'[r][v] \in UserRewardData
        /\ user_data'[r][v].index_snapshot = user_data[r][v].index_snapshot
  <2> TAKE r \in Rewards, v \in Users
  <2>1. /\ user_data[r] \in [Users -> UserRewardData]
        /\ user_data'[r] = [user_data[r] EXCEPT ![u].accrued = @ - taken[r]]
    BY <1>1 DEF AInv, AccountsTyped
  <2>2. CASE v # u
    BY <2>1, <2>2
  <2>3. CASE v = u
    <3>1. user_data'[r][v] =
            [user_data[r][u] EXCEPT !.accrued = @ - taken[r]]
      BY <2>1, <2>3
    <3>2. user_data[r][u].accrued - taken[r] \in Nat
      BY <1>1, <2>1 DEF UserRewardData
    <3> QED BY <2>1, <2>3, <3>1, <3>2 DEF UserRewardData
  <2> QED BY <2>2, <2>3
<1>4. user_data' \in [Rewards -> [Users -> UserRewardData]]
  BY <1>1, <1>3 DEF AInv, AccountsTyped
<1> QED BY <1>2, <1>3, <1>4
        DEF AInv, AccountsTyped, SnapshotsBehind, current_index

(* claim_all_rewards in parts.                                             *)
refreshed_in(as) ==
  {r \in Rewards : /\ r[1] \in as /\ r[2] \in reward_tokens[r[1]]
                   /\ is_active(r) /\ queried_supply(r[1]) > 0}

moved_index(r) ==
  update_asset_reward_index(config[r], current_index(r), queried_supply(r[1]))

refreshed_data(u, as, r) ==
  LET d == user_data[r][u]
  IN  IF r \in refreshed_in(as)
      THEN with_accrued(d, moved_index(r).index, d.balance_snapshot,
                        d.balance_snapshot)
      ELSE d

(* A total supply is a natural, by the lists.                              *)
LEMMA TotalSupplyNat ==
  ASSUME IInv, NEW a \in Assets
  PROVE  total_supply(a) \in Nat
BY SupplyNat DEF IInv, ListsTyped, total_supply

(* The token's answer is its supply or, when it does not decode, none.     *)
LEMMA QueriedSupply ==
  ASSUME IInv, NEW a \in Assets
  PROVE  /\ queried_supply(a) \in Nat
         /\ queried_supply(a) > 0 => queried_supply(a) = total_supply(a)
BY TotalSupplyNat DEF queried_supply

(* The index a claim moves to.                                             *)
LEMMA MovedIndexTyped ==
  ASSUME IInv, AInv, NEW r \in Rewards, is_active(r)
  PROVE  /\ moved_index(r) \in AssetRewardIndex /\ moved_index(r) # None
         /\ moved_index(r).index >= current_index(r).index
         /\ moved_index(r).last_update_timestamp = now
<1>1. now \in Nat /\ config[r] \in AssetRewardConfig
  BY DEF IInv, ListsTyped, is_active
<1>2. current_index(r) \in AssetRewardIndex /\ queried_supply(r[1]) \in Nat
  BY <1>1, CurrentIndexType, QueriedSupply, RewardParts DEF AInv
<1> QED BY <1>1, <1>2, IndexMoves, NoEntryAssumption DEF moved_index

(* The entry a claim brings up to date.                                    *)
LEMMA RefreshedTyped ==
  ASSUME IInv, AInv, NEW u \in Users, NEW as, NEW r \in Rewards
  PROVE  /\ refreshed_data(u, as, r) \in UserRewardData
         /\ refreshed_data(u, as, r).index_snapshot =
              IF r \in refreshed_in(as) THEN moved_index(r).index
              ELSE user_data[r][u].index_snapshot
<1> DEFINE d == user_data[r][u]
<1>1. /\ d \in UserRewardData /\ d.index_snapshot <= current_index(r).index
      /\ current_index(r) \in AssetRewardIndex
  BY CurrentIndexType DEF AInv, AccountsTyped, SnapshotsBehind, IInv,
                          ListsTyped
<1>2. CASE r \in refreshed_in(as)
  <2>1. /\ moved_index(r) \in AssetRewardIndex
        /\ moved_index(r).index >= current_index(r).index
    BY <1>2, MovedIndexTyped DEF refreshed_in
  <2>2. /\ moved_index(r).index \in Nat /\ d.balance_snapshot \in Nat
        /\ d.index_snapshot <= moved_index(r).index
    BY <1>1, <2>1 DEF AssetRewardIndex, UserRewardData
  <2>3. refreshed_data(u, as, r) =
          with_accrued(d, moved_index(r).index, d.balance_snapshot,
                       d.balance_snapshot)
    BY <1>2 DEF refreshed_data
  <2> HIDE DEF d
  <2> QED BY <1>1, <1>2, <2>2, <2>3, CreditTyped
<1> QED BY <1>1, <1>2 DEF refreshed_data

(* What claim_all_rewards writes, by reward.                               *)
LEMMA ClaimAllParts ==
  ASSUME NEW u \in Users, NEW as \in SUBSET Assets, claim_all_rewards(u, as)
  PROVE  LET listed == {r \in Rewards :
                          r[1] \in as /\ r[2] \in reward_tokens[r[1]]}
         IN  /\ index' = [r \in Rewards |->
                  IF r \in refreshed_in(as) THEN moved_index(r) ELSE index[r]]
             /\ user_data' = [r \in Rewards |-> IF r \in listed
                  THEN [user_data[r] EXCEPT ![u] =
                          [refreshed_data(u, as, r) EXCEPT !.accrued = 0]]
                  ELSE user_data[r]]
             /\ pay_out([r \in Rewards |-> IF r \in listed
                           THEN refreshed_data(u, as, r).accrued ELSE 0])
             /\ UNCHANGED <<now, paused, config, reward_tokens, assets,
                            balance, offer, overstated>>
<1> DEFINE listed == {r \in Rewards :
                        r[1] \in as /\ r[2] \in reward_tokens[r[1]]}
           refreshed == {r \in listed : is_active(r)
                                        /\ queried_supply(r[1]) > 0}
<1>1. refreshed = refreshed_in(as)
  BY DEF refreshed_in
<1> QED BY <1>1 DEF claim_all_rewards, moved_index, refreshed_data

(* Claims of everything keep the types.                                    *)
LEMMA ClaimAllKeeps ==
  ASSUME IInv, AInv, NEW u \in Users, NEW as \in SUBSET Assets,
         claim_all_rewards(u, as)
  PROVE  AInv'
<1> DEFINE listed == {r \in Rewards :
                        r[1] \in as /\ r[2] \in reward_tokens[r[1]]}
           rest(r) == [refreshed_data(u, as, r) EXCEPT !.accrued = 0]
           taken == [r \in Rewards |-> IF r \in listed
                       THEN refreshed_data(u, as, r).accrued ELSE 0]
<1>1. /\ index' = [r \in Rewards |->
           IF r \in refreshed_in(as) THEN moved_index(r) ELSE index[r]]
      /\ user_data' = [r \in Rewards |-> IF r \in listed
           THEN [user_data[r] EXCEPT ![u] = rest(r)] ELSE user_data[r]]
      /\ pay_out(taken)
      /\ UNCHANGED <<now, offer, overstated>>
  BY ClaimAllParts
<1>2. \A r \in Rewards :
        /\ refreshed_data(u, as, r) \in UserRewardData
        /\ refreshed_data(u, as, r).index_snapshot =
             IF r \in refreshed_in(as) THEN moved_index(r).index
             ELSE user_data[r][u].index_snapshot
  BY RefreshedTyped
<1>3. funds' \in [RewardTokens -> Nat] /\ paid' \in [Rewards -> Nat]
  <2>1. taken \in [Rewards -> Nat]
    BY <1>2 DEF UserRewardData
  <2> HIDE DEF taken
  <2> QED BY <1>1, <2>1, PayOutTyped DEF AInv
<1>4. \A r \in Rewards :
        /\ rest(r) \in UserRewardData
        /\ rest(r).index_snapshot = IF r \in refreshed_in(as)
             THEN moved_index(r).index ELSE user_data[r][u].index_snapshot
  BY <1>2 DEF UserRewardData
<1> HIDE DEF rest, taken
<1>5. \A r \in refreshed_in(as) :
        /\ moved_index(r) \in AssetRewardIndex /\ moved_index(r) # None
        /\ moved_index(r).index >= current_index(r).index
        /\ r \in Rewards /\ r \in listed
  BY MovedIndexTyped DEF refreshed_in
<1>6. index' \in [Rewards -> AssetRewardIndex \union {None}]
  BY <1>1, <1>5 DEF AInv, AccountsTyped
<1>7. user_data' \in [Rewards -> [Users -> UserRewardData]]
  <2>1. \A r \in Rewards : user_data[r] \in [Users -> UserRewardData]
    BY DEF AInv, AccountsTyped
  <2> QED BY <1>1, <1>4, <2>1
<1>8. ASSUME NEW r \in Rewards
      PROVE  \A v \in Users :
               user_data'[r][v].index_snapshot <= current_index(r)'.index
  <2>1. now \in Nat /\ user_data[r] \in [Users -> UserRewardData]
    BY DEF IInv, ListsTyped, AInv, AccountsTyped
  <2>2. \A v \in Users :
          user_data'[r][v].index_snapshot =
            IF v = u /\ r \in refreshed_in(as) THEN moved_index(r).index
            ELSE user_data[r][v].index_snapshot
    BY <1>1, <1>4, <1>5, <2>1
  <2>3. CASE r \in refreshed_in(as)
    BY <1>1, <1>5, <1>6, <2>1, <2>2, <2>3, EntryKeeps
  <2>4. CASE r \notin refreshed_in(as)
    <3>1. index'[r] = index[r]
      BY <1>1, <2>4
    <3>2. index'[r] # None => index'[r].index >= current_index(r).index
      BY <3>1 DEF current_index, AInv, AccountsTyped, AssetRewardIndex
    <3> QED BY <1>6, <2>1, <2>2, <2>4, <3>1, <3>2, EntryKeeps
  <2> QED BY <2>3, <2>4
<1> QED BY <1>1, <1>3, <1>6, <1>7, <1>8 DEF AInv, AccountsTyped, SnapshotsBehind

(* An offer stays one when it is widened.                                  *)
LEMMA WidenedTyped ==
  ASSUME now \in Nat, NEW o \in Offer \union {None}, NEW c \in AssetRewardConfig
  PROVE  widened(o, c) \in Offer /\ widened(o, c) # None
<1> DEFINE end == IF c.distribution_end = 0 THEN NoEnd ELSE c.distribution_end
           higher(m, n) == IF m >= n THEN m ELSE n
<1>1. c.emission_per_second \in Nat /\ end \in Nat
  BY IncentivesAssumption DEF AssetRewardConfig, NoEnd
<1>2. \A m, n \in Nat : higher(m, n) \in Nat
  OBVIOUS
<1>3. CASE o = None
  BY <1>1, <1>3, NoEntryAssumption DEF widened, Offer
<1>4. CASE o # None
  <2>1. o.rate \in Nat /\ o.until \in Nat /\ o.since \in Nat /\ o \in Offer
    BY <1>4 DEF Offer
  <2>2. widened(o, c) =
          [o EXCEPT !.rate = higher(o.rate, c.emission_per_second),
                    !.until = higher(o.until, end)]
    BY <1>4 DEF widened
  <2>3. /\ higher(o.rate, c.emission_per_second) \in Nat
        /\ higher(o.until, end) \in Nat
    BY <1>1, <2>1
  <2> HIDE DEF higher, end
  <2> QED BY <2>1, <2>2, <2>3, NoEntryAssumption DEF Offer
<1> QED BY <1>3, <1>4

(* The index before a new rate is not behind the one that was.             *)
LEMMA IndexUntilNow ==
  ASSUME IInv, AInv, NEW r \in Rewards
  PROVE  /\ index_until_now(r) \in AssetRewardIndex
         /\ index_until_now(r) # None
         /\ index_until_now(r).index >= current_index(r).index
<1>1. current_index(r) \in AssetRewardIndex
  BY CurrentIndexType DEF AInv, IInv, ListsTyped
<1>2. CASE is_active(r) /\ queried_supply(r[1]) > 0
  BY <1>2, MovedIndexTyped DEF index_until_now, moved_index
<1>3. CASE ~(is_active(r) /\ queried_supply(r[1]) > 0)
  BY <1>1, <1>3, NoEntryAssumption DEF index_until_now, AssetRewardIndex
<1> QED BY <1>2, <1>3

(* Writing an index that is not behind the one it replaces.                *)
LEMMA IndexSetKeeps ==
  ASSUME IInv, AInv, NEW r \in Rewards, NEW i \in AssetRewardIndex,
         i.index >= current_index(r).index,
         index' = [index EXCEPT ![r] = i], UNCHANGED user_data
  PROVE  /\ index' \in [Rewards -> AssetRewardIndex \union {None}]
         /\ SnapshotsBehind'
<1>1. /\ index' \in [Rewards -> AssetRewardIndex \union {None}]
      /\ now \in Nat /\ i # None
  BY NoEntryAssumption DEF AInv, AccountsTyped, IInv, ListsTyped
<1>2. ASSUME NEW q \in Rewards
      PROVE  \A u \in Users :
               user_data'[q][u].index_snapshot <= current_index(q)'.index
  <2>1. CASE q = r
    <3>1. index'[q] = i
      BY <2>1 DEF AInv, AccountsTyped
    <3> QED BY <1>1, <2>1, <3>1, EntryKeeps
  <2>2. CASE q # r
    <3>1. index'[q] = index[q]
      BY <2>2 DEF AInv, AccountsTyped
    <3>2. index'[q] # None => index'[q].index >= current_index(q).index
      BY <3>1 DEF current_index, AInv, AccountsTyped, AssetRewardIndex
    <3>3. index'[q] \in AssetRewardIndex \union {None}
      BY <1>1
    <3> QED BY <1>1, <3>1, <3>2, <3>3, EntryKeeps
  <2> QED BY <2>1, <2>2
<1> QED BY <1>1, <1>2 DEF SnapshotsBehind

(* The offers after a configuration is stored.                             *)
LEMMA OfferKeeps ==
  ASSUME IInv, AInv, NEW r \in Rewards, NEW c \in AssetRewardConfig,
         set_asset_reward_config(r, c)
  PROVE  offer' \in [Rewards -> Offer \union {None}]
<1>1. offer' = [offer EXCEPT ![r] = widened(offer[r], c)]
  BY DEF set_asset_reward_config, AInv, AccountsTyped
<1>2. widened(offer[r], c) \in Offer
  BY WidenedTyped DEF IInv, ListsTyped, AInv, AccountsTyped
<1> QED BY <1>1, <1>2 DEF AInv, AccountsTyped

(* A step that writes neither an index nor a user's entry.                 *)
LEMMA AccountsUntouched ==
  ASSUME AInv, UNCHANGED <<index, user_data, paid, overstated>>,
         funds' \in [RewardTokens -> Nat],
         offer' \in [Rewards -> Offer \union {None}]
  PROVE  AInv'
BY DEF AInv, AccountsTyped, SnapshotsBehind, current_index

(* A change of balances with its reports keeps the types.                  *)
LEMMA BalancesKeep ==
  ASSUME IInv, AInv, NEW a \in Assets, NEW changed,
         NEW bal \in [Users -> Nat], ChangeBalances(a, changed, bal)
  PROVE  AInv'
<1>1. /\ index' \in [Rewards -> AssetRewardIndex \union {None}]
      /\ user_data' \in [Rewards -> [Users -> UserRewardData]]
      /\ SnapshotsBehind'
  BY ReportKeeps DEF ChangeBalances
<1>2. overstated' \subseteq Rewards
  BY DEF ChangeBalances, note_overstated, AInv, AccountsTyped
<1>3. UNCHANGED <<funds, paid, offer>>
  BY DEF ChangeBalances
<1> QED BY <1>1, <1>2, <1>3 DEF AInv, AccountsTyped

(* The configurations the emission manager stores.                         *)
LEMMA StoredConfigs ==
  ASSUME IInv, NEW r \in Rewards, NEW e \in Nat, NEW end \in Nat
  PROVE  /\ [emission_per_second |-> e, distribution_end |-> end,
             is_active |-> TRUE] \in AssetRewardConfig
         /\ config[r] # None =>
              /\ config[r] \in AssetRewardConfig
              /\ [config[r] EXCEPT !.emission_per_second = e]
                   \in AssetRewardConfig
              /\ [config[r] EXCEPT !.distribution_end = end]
                   \in AssetRewardConfig
              /\ [config[r] EXCEPT !.is_active = FALSE] \in AssetRewardConfig
BY IncentivesAssumption DEF AssetRewardConfig, IInv, ListsTyped

(* The emission manager's calls keep the types.                            *)
LEMMA ManagerKeeps ==
  ASSUME IInv, AInv, NEW r \in Rewards, NEW e \in Nat, NEW end \in Nat,
         \/ configure_asset_rewards(r, e, end)
         \/ set_emission_per_second(r, e)
         \/ set_distribution_end(r, end)
         \/ remove_asset_reward(r)
  PROVE  AInv'
<1>1. CASE configure_asset_rewards(r, e, end)
  <2>1. offer' \in [Rewards -> Offer \union {None}]
    BY <1>1, OfferKeeps, StoredConfigs DEF configure_asset_rewards
  <2>2. /\ index' = [index EXCEPT ![r] = current_index(r)]
        /\ UNCHANGED <<user_data, funds, paid, overstated>>
    BY <1>1 DEF configure_asset_rewards
  <2>3. /\ current_index(r) \in AssetRewardIndex
        /\ current_index(r).index >= current_index(r).index
    BY CurrentIndexType DEF AInv, IInv, ListsTyped, AssetRewardIndex
  <2>4. /\ index' \in [Rewards -> AssetRewardIndex \union {None}]
        /\ SnapshotsBehind'
    BY <2>2, <2>3, IndexSetKeeps
  <2> QED BY <2>1, <2>2, <2>4 DEF AInv, AccountsTyped
<1>2. CASE set_emission_per_second(r, e)
  <2>1. offer' \in [Rewards -> Offer \union {None}]
    BY <1>2, OfferKeeps, StoredConfigs DEF set_emission_per_second
  <2>2. /\ index' = [index EXCEPT ![r] = index_until_now(r)]
        /\ UNCHANGED <<user_data, funds, paid, overstated>>
    BY <1>2 DEF set_emission_per_second
  <2>3. /\ index' \in [Rewards -> AssetRewardIndex \union {None}]
        /\ SnapshotsBehind'
    BY <2>2, IndexUntilNow, IndexSetKeeps
  <2> QED BY <2>1, <2>2, <2>3 DEF AInv, AccountsTyped
<1>3. CASE set_distribution_end(r, end)
  <2>1. offer' \in [Rewards -> Offer \union {None}]
    BY <1>3, OfferKeeps, StoredConfigs DEF set_distribution_end
  <2>2. UNCHANGED <<index, user_data, funds, paid, overstated>>
    BY <1>3 DEF set_distribution_end
  <2> QED BY <2>1, <2>2, AccountsUntouched DEF AInv, AccountsTyped
<1>4. CASE remove_asset_reward(r)
  <2>1. offer' \in [Rewards -> Offer \union {None}]
    BY <1>4, OfferKeeps, StoredConfigs DEF remove_asset_reward
  <2>2. UNCHANGED <<index, user_data, funds, paid, overstated>>
    BY <1>4 DEF remove_asset_reward
  <2> QED BY <2>1, <2>2, AccountsUntouched DEF AInv, AccountsTyped
<1> QED BY <1>1, <1>2, <1>3, <1>4

(* Nothing is stored when the contract is deployed.                        *)
LEMMA AccountsStart == Init => AInv
<1> SUFFICES ASSUME Init PROVE AInv
  OBVIOUS
<1>1. /\ index = [r \in Rewards |-> None]
      /\ user_data = [r \in Rewards |-> [u \in Users |->
           [accrued |-> 0, index_snapshot |-> RAY, balance_snapshot |-> 0]]]
      /\ funds = [t \in RewardTokens |-> 0]
      /\ paid = [r \in Rewards |-> 0]
      /\ offer = [r \in Rewards |-> None]
      /\ overstated = {}
  BY DEF Init
<1>2. AccountsTyped
  BY <1>1, ScaleAssumption DEF AccountsTyped, UserRewardData
<1>3. SnapshotsBehind
  BY <1>1, ScaleAssumption DEF SnapshotsBehind, current_index
<1> QED BY <1>2, <1>3 DEF AInv

(* The balances a mint, a burn or a transfer leaves.                       *)
LEMMA BalancesAfter ==
  ASSUME IInv, NEW a \in Assets, NEW u \in Users, NEW n \in Amounts
  PROVE  /\ Mint(a, u, n) =>
              \E bal \in [Users -> Nat] : ChangeBalances(a, {u}, bal)
         /\ Burn(a, u, n) =>
              \E bal \in [Users -> Nat] : ChangeBalances(a, {u}, bal)
         /\ \A to \in Users : TransferTokens(a, u, to, n) =>
              \E bal \in [Users -> Nat] : ChangeBalances(a, {u, to}, bal)
<1>1. n \in Nat /\ balance[a] \in [Users -> Nat]
  BY IncentivesAssumption DEF IInv, ListsTyped
<1>2. Mint(a, u, n) =>
        \E bal \in [Users -> Nat] : ChangeBalances(a, {u}, bal)
  <2>1. [balance[a] EXCEPT ![u] = @ + n] \in [Users -> Nat]
    BY <1>1
  <2> QED BY <2>1 DEF Mint
<1>3. Burn(a, u, n) =>
        \E bal \in [Users -> Nat] : ChangeBalances(a, {u}, bal)
  <2>1. n <= balance[a][u] =>
          [balance[a] EXCEPT ![u] = @ - n] \in [Users -> Nat]
    BY <1>1
  <2> QED BY <2>1 DEF Burn
<1>4. ASSUME NEW to \in Users, TransferTokens(a, u, to, n)
      PROVE  \E bal \in [Users -> Nat] : ChangeBalances(a, {u, to}, bal)
  <2>1. u # to /\ n <= balance[a][u]
    BY <1>4 DEF TransferTokens
  <2>2. [balance[a] EXCEPT ![u] = @ - n, ![to] = @ + n] \in [Users -> Nat]
    BY <1>1, <2>1
  <2> QED BY <1>4, <2>2 DEF TransferTokens
<1> QED BY <1>2, <1>3, <1>4

(* Every call keeps the types.                                             *)
LEMMA AccountsStep == IInv /\ AInv /\ [Next]_vars => AInv'
<1> SUFFICES ASSUME IInv, AInv, [Next]_vars PROVE AInv'
  OBVIOUS
<1>0. AccountsTyped
  BY DEF AInv
<1>1. CASE Tick
  BY <1>0, <1>1, AccountsUntouched
     DEF Tick, storage_vars, history_vars, AccountsTyped
<1>2. ASSUME NEW a \in Assets, NEW u \in Users, NEW n \in Amounts,
             \/ Mint(a, u, n)
             \/ Burn(a, u, n)
             \/ \E to \in Users : TransferTokens(a, u, to, n)
      PROVE  AInv'
  <2>1. CASE Mint(a, u, n) \/ Burn(a, u, n)
    <3>1. PICK bal \in [Users -> Nat] : ChangeBalances(a, {u}, bal)
      BY <2>1, BalancesAfter
    <3> QED BY <3>1, BalancesKeep
  <2>2. CASE \E to \in Users : TransferTokens(a, u, to, n)
    <3>1. PICK to \in Users : TransferTokens(a, u, to, n)
      BY <2>2
    <3>2. PICK bal \in [Users -> Nat] : ChangeBalances(a, {u, to}, bal)
      BY <3>1, BalancesAfter
    <3> QED BY <3>2, BalancesKeep
  <2> QED BY <1>2, <2>1, <2>2
<1>3. ASSUME NEW u \in Users, NEW as \in SUBSET Assets,
             \/ claim_all_rewards(u, as)
             \/ \E t \in RewardTokens, n \in Claims :
                  claim_rewards(u, as, t, n)
      PROVE  AInv'
  BY <1>3, ClaimKeeps, ClaimAllKeeps, IncentivesAssumption
<1>4. ASSUME NEW r \in Rewards,
             \/ \E e \in Emissions, end \in Ends :
                  configure_asset_rewards(r, e, end)
             \/ \E e \in Emissions : set_emission_per_second(r, e)
             \/ \E end \in Ends : set_distribution_end(r, end)
             \/ remove_asset_reward(r)
      PROVE  AInv'
  <2>1. CASE \E e \in Emissions, end \in Ends :
               configure_asset_rewards(r, e, end)
    BY <2>1, ManagerKeeps, IncentivesAssumption
  <2>2. CASE \E e \in Emissions : set_emission_per_second(r, e)
    <3>1. PICK e \in Emissions : set_emission_per_second(r, e)
      BY <2>2
    <3>2. e \in Nat /\ 0 \in Nat
      BY IncentivesAssumption
    <3> QED BY <3>1, <3>2, ManagerKeeps
  <2>3. CASE \E end \in Ends : set_distribution_end(r, end)
    <3>1. PICK end \in Ends : set_distribution_end(r, end)
      BY <2>3
    <3>2. end \in Nat /\ 0 \in Nat
      BY IncentivesAssumption
    <3> QED BY <3>1, <3>2, ManagerKeeps
  <2>4. CASE remove_asset_reward(r)
    <3>1. 0 \in Nat
      OBVIOUS
    <3> QED BY <2>4, <3>1, ManagerKeeps
  <2> QED BY <1>4, <2>1, <2>2, <2>3, <2>4
<1>5. CASE \E a \in Assets, t \in RewardTokens : delete_reward_token(a, t)
  BY <1>0, <1>5, AccountsUntouched
     DEF delete_reward_token, history_vars, AccountsTyped
<1>6. CASE \E value \in BOOLEAN : SetPaused(value)
  BY <1>0, <1>6, AccountsUntouched DEF SetPaused, history_vars, AccountsTyped
<1>7. CASE \E t \in RewardTokens, n \in Fundings : fund_rewards(t, n)
  <2>1. PICK t \in RewardTokens, n \in Fundings : fund_rewards(t, n)
    BY <1>7
  <2>2. n \in Nat /\ funds' = [funds EXCEPT ![t] = @ + n]
    BY <2>1, IncentivesAssumption DEF fund_rewards
  <2>3. funds' \in [RewardTokens -> Nat]
    BY <1>0, <2>2 DEF AccountsTyped
  <2> QED BY <1>0, <2>1, <2>3, AccountsUntouched
          DEF fund_rewards, storage_vars, history_vars, AccountsTyped
<1>8. CASE UNCHANGED vars
  BY <1>0, <1>8, AccountsUntouched
     DEF vars, storage_vars, history_vars, AccountsTyped
<1> QED BY <1>1, <1>2, <1>3, <1>4, <1>5, <1>6, <1>7, <1>8 DEF Next

(* So they hold in every reachable state.                                  *)
LEMMA AccountsInductive == Spec => [](IInv /\ AInv)
<1>1. Init => AInv
  BY AccountsStart
<1>2. IInv /\ AInv /\ [Next]_vars => AInv'
  BY AccountsStep
<1> QED BY <1>1, <1>2, Inductive, PTL DEF Spec

(* Every variable stays of its type.                                       *)
THEOREM TypeCorrect == Spec => []TypeOK
<1>1. IInv /\ AInv => TypeOK
  BY DEF IInv, ListsTyped, AInv, AccountsTyped, TypeOK
<1> QED BY <1>1, AccountsInductive, PTL

-----------------------------------------------------------------------------
(* What is earned is a natural.                                            *)
LEMMA EarnedNat ==
  ASSUME IInv, AInv, NEW r \in Rewards, NEW u \in Users
  PROVE  /\ earned(r, u) \in Nat
         /\ user_data[r][u] \in UserRewardData
         /\ current_index(r) \in AssetRewardIndex
         /\ current_index(r).index - user_data[r][u].index_snapshot \in Nat
<1> DEFINE d == user_data[r][u]
           x == current_index(r).index - d.index_snapshot
<1>1. /\ d \in UserRewardData /\ current_index(r) \in AssetRewardIndex
      /\ d.index_snapshot <= current_index(r).index
  BY CurrentIndexType
     DEF IInv, ListsTyped, AInv, AccountsTyped, SnapshotsBehind
<1>2. x \in Nat /\ d.accrued \in Nat /\ d.balance_snapshot \in Nat
  BY <1>1 DEF UserRewardData, AssetRewardIndex
<1>3. earned(r, u) = d.accrued + ray_mul(x, d.balance_snapshot)
  BY DEF earned, calculate_user_accrued_rewards
<1> HIDE DEF x, d
<1>4. ray_mul(x, d.balance_snapshot) \in Nat
  BY <1>2, RayMulType
<1> QED BY <1>1, <1>2, <1>3, <1>4 DEF d, x

(* The index as it reads after a step that does not move it back.          *)
LEMMA IndexReads ==
  ASSUME IInv, AInv, NEW r \in Rewards,
         index'[r] \in AssetRewardIndex \union {None},
         \/ index'[r] = index[r]
         \/ index'[r] # None /\ index'[r].index >= current_index(r).index
  PROVE  /\ current_index(r)'.index \in Nat
         /\ current_index(r)'.index >= current_index(r).index
<1>1. current_index(r) \in AssetRewardIndex
  BY CurrentIndexType DEF IInv, ListsTyped, AInv
<1>2. current_index(r)'.index = IF index'[r] # None THEN index'[r].index
                                                    ELSE RAY
  BY DEF current_index
<1>3. current_index(r).index = IF index[r] # None THEN index[r].index ELSE RAY
  BY DEF current_index
<1> QED BY <1>1, <1>2, <1>3, ScaleAssumption DEF AssetRewardIndex

(* More of the index for the same balance.                                 *)
LEMMA CreditGrows ==
  ASSUME NEW x \in Nat, NEW y \in Nat, NEW b \in Nat, x <= y
  PROVE  /\ ray_mul(x, b) <= ray_mul(y, b)
         /\ ray_mul(x, b) \in Nat /\ ray_mul(y, b) \in Nat
<1>1. b <= b
  OBVIOUS
<1>2. ray_mul(x, b) <= ray_mul(y, b)
  BY <1>1, RayMulBothGrow
<1> QED BY <1>2, RayMulType

(* An entry left alone earns what the index moves.                         *)
LEMMA EarnedGrows ==
  ASSUME IInv, AInv, NEW r \in Rewards, NEW u \in Users,
         user_data'[r][u] = user_data[r][u],
         index'[r] \in AssetRewardIndex \union {None},
         \/ index'[r] = index[r]
         \/ index'[r] # None /\ index'[r].index >= current_index(r).index
  PROVE  earned(r, u)' >= earned(r, u)
<1> DEFINE d == user_data[r][u]
           x == current_index(r).index - d.index_snapshot
           y == current_index(r)'.index - d.index_snapshot
<1>1. /\ current_index(r)'.index \in Nat
      /\ current_index(r)'.index >= current_index(r).index
  BY IndexReads
<1>2. d \in UserRewardData /\ current_index(r) \in AssetRewardIndex /\ x \in Nat
  BY EarnedNat
<1>3. y \in Nat /\ x <= y /\ d.accrued \in Nat /\ d.balance_snapshot \in Nat
  BY <1>1, <1>2 DEF UserRewardData, AssetRewardIndex
<1>4. /\ earned(r, u) = d.accrued + ray_mul(x, d.balance_snapshot)
      /\ earned(r, u)' = d.accrued + ray_mul(y, d.balance_snapshot)
  BY DEF earned, calculate_user_accrued_rewards
<1> HIDE DEF x, y, d
<1>5. /\ ray_mul(x, d.balance_snapshot) <= ray_mul(y, d.balance_snapshot)
      /\ ray_mul(x, d.balance_snapshot) \in Nat
      /\ ray_mul(y, d.balance_snapshot) \in Nat
  BY <1>2, <1>3, CreditGrows
<1> QED BY <1>3, <1>4, <1>5

(* A report credits whoever still holds his snapshot for all of it.        *)
LEMMA ReportEarned ==
  ASSUME IInv, AInv, NEW a \in Assets, NEW changed,
         NEW bal \in [Users -> Nat], ChangeBalances(a, changed, bal),
         NEW r \in Rewards, NEW u \in Users,
         balance'[r[1]][u] >= user_data[r][u].balance_snapshot
  PROVE  earned(r, u)' >= earned(r, u)
<1> DEFINE supply == SumFunctionOnSet(bal, Users)
           d == user_data[r][u]
           i == update_asset_reward_index(config[r], current_index(r), supply)
           x == current_index(r).index - d.index_snapshot
           y == i.index - d.index_snapshot
<1>1. /\ index'[r] = IF r \in reported(a) THEN i ELSE index[r]
      /\ user_data'[r][u] = IF r \in reported(a) /\ u \in changed
           THEN with_accrued(d, i.index,
                  balance_for_rewards(d.balance_snapshot, bal[u]), bal[u])
           ELSE d
      /\ index' \in [Rewards -> AssetRewardIndex \union {None}]
      /\ balance' = [balance EXCEPT ![a] = bal]
  BY ReportKeeps DEF ChangeBalances, handle_action
<1>2. now \in Nat /\ supply \in Nat /\ d \in UserRewardData /\ x \in Nat
      /\ current_index(r) \in AssetRewardIndex
  BY SupplyNat, EarnedNat DEF IInv, ListsTyped
<1> HIDE DEF supply
<1>3. CASE r \notin reported(a)
  BY <1>1, <1>3, EarnedGrows
<1>4. CASE r \in reported(a)
  <2>1. config[r] \in AssetRewardConfig /\ r[1] = a
    BY <1>4 DEF reported, is_active, IInv, ListsTyped
  <2>2. /\ i \in AssetRewardIndex /\ i # None
        /\ i.index >= current_index(r).index
    BY <1>2, <2>1, IndexMoves, NoEntryAssumption
  <2> HIDE DEF i
  <2>3. CASE u \notin changed
    BY <1>1, <1>4, <2>2, <2>3, EarnedGrows
  <2>4. CASE u \in changed
    <3> DEFINE b == d.balance_snapshot
               n == bal[u]
    <3>1. /\ d.accrued \in Nat /\ b \in Nat /\ n \in Nat /\ i.index \in Nat
          /\ y \in Nat /\ x <= y
      BY <1>2, <2>2 DEF UserRewardData, AssetRewardIndex
    <3>2. b <= n
      <4>1. balance \in [Assets -> [Users -> Nat]]
        BY DEF IInv, ListsTyped
      <4> QED BY <1>1, <2>1, <4>1
    <3>3. balance_for_rewards(b, n) = b
      BY <3>1, <3>2 DEF balance_for_rewards, lower_of
    <3>4. user_data'[r][u] = [accrued |-> d.accrued + ray_mul(y, b),
                              index_snapshot |-> i.index,
                              balance_snapshot |-> n]
      BY <1>1, <1>4, <2>4, <3>3
         DEF with_accrued, calculate_user_accrued_rewards
    <3>5. current_index(r)' = i
      BY <1>1, <1>4, <2>2 DEF current_index
    <3>6. earned(r, u) = d.accrued + ray_mul(x, b)
      BY DEF earned, calculate_user_accrued_rewards
    <3>7. earned(r, u)' = d.accrued + ray_mul(y, b) + ray_mul(0, n)
      <4>1. i.index - i.index = 0
        BY <3>1
      <4> QED BY <3>4, <3>5, <4>1
              DEF earned, calculate_user_accrued_rewards
    <3> HIDE DEF x, y, d, b, n
    <3>8. /\ ray_mul(x, b) <= ray_mul(y, b) /\ ray_mul(0, n) \in Nat
          /\ ray_mul(x, b) \in Nat /\ ray_mul(y, b) \in Nat
      BY <1>2, <3>1, CreditGrows, RayMulType
    <3> QED BY <3>1, <3>6, <3>7, <3>8
  <2> QED BY <2>3, <2>4
<1> QED BY <1>3, <1>4

(* A claim takes what it pays, and from nobody but the claimant.           *)
LEMMA ClaimEarned ==
  ASSUME IInv, AInv, NEW v \in Users, NEW as \in SUBSET Assets,
         NEW token \in RewardTokens, NEW amount \in Nat,
         claim_rewards(v, as, token, amount),
         NEW r \in Rewards, NEW u \in Users
  PROVE  \/ earned(r, u)' >= earned(r, u)
         \/ u = v /\ earned(r, u) - earned(r, u)' <= paid'[r] - paid[r]
<1>1. PICK taken \in [Rewards -> Nat] :
        /\ \A q \in Rewards : taken[q] <= user_data[q][v].accrued
        /\ user_data' = [q \in Rewards |->
             [user_data[q] EXCEPT ![v].accrued = @ - taken[q]]]
        /\ pay_out(taken)
  BY ClaimTakes DEF AInv
<1>2. /\ UNCHANGED <<now, index>> /\ paid'[r] = paid[r] + taken[r]
      /\ user_data[r] \in [Users -> UserRewardData] /\ paid[r] \in Nat
      /\ index[r] \in AssetRewardIndex \union {None}
  BY <1>1 DEF claim_rewards, pay_out, AInv, AccountsTyped
<1>3. CASE u # v
  <2>1. user_data'[r][u] = user_data[r][u]
    BY <1>1, <1>2, <1>3
  <2> QED BY <1>2, <2>1, EarnedGrows
<1>4. CASE u = v
  <2> DEFINE d == user_data[r][u]
             x == current_index(r).index - d.index_snapshot
             m == ray_mul(x, d.balance_snapshot)
  <2>1. user_data'[r][u] = [d EXCEPT !.accrued = d.accrued - taken[r]]
    BY <1>1, <1>2, <1>4
  <2>2. d \in UserRewardData /\ x \in Nat /\ taken[r] \in Nat
    BY EarnedNat, <1>1
  <2>3. /\ user_data'[r][u].accrued = d.accrued - taken[r]
        /\ user_data'[r][u].index_snapshot = d.index_snapshot
        /\ user_data'[r][u].balance_snapshot = d.balance_snapshot
        /\ d.accrued \in Nat /\ d.balance_snapshot \in Nat
    BY <2>1, <2>2 DEF UserRewardData
  <2>4. current_index(r)' = current_index(r)
    BY <1>2 DEF current_index
  <2>5. earned(r, u) = d.accrued + m
    BY DEF earned, calculate_user_accrued_rewards
  <2>6. earned(r, u)' = d.accrued - taken[r] + m
    BY <2>3, <2>4 DEF earned, calculate_user_accrued_rewards
  <2>7. m \in Nat
    BY <2>2, <2>3, RayMulType
  <2> HIDE DEF m, x, d
  <2> QED BY <1>2, <1>4, <2>2, <2>3, <2>5, <2>6, <2>7
<1> QED BY <1>3, <1>4

(* A claim of all pays at least what it takes, and the rest of its doing   *)
(* is to move indices forward.                                             *)
LEMMA ClaimAllEarned ==
  ASSUME IInv, AInv, NEW v \in Users, NEW as \in SUBSET Assets,
         claim_all_rewards(v, as), NEW r \in Rewards, NEW u \in Users
  PROVE  \/ earned(r, u)' >= earned(r, u)
         \/ u = v /\ earned(r, u) - earned(r, u)' <= paid'[r] - paid[r]
<1> DEFINE listed == {q \in Rewards :
                        q[1] \in as /\ q[2] \in reward_tokens[q[1]]}
           e == refreshed_data(v, as, r)
<1>1. /\ index'[r] = IF r \in refreshed_in(as) THEN moved_index(r)
                                               ELSE index[r]
      /\ user_data'[r] = IF r \in listed
           THEN [user_data[r] EXCEPT ![v] = [e EXCEPT !.accrued = 0]]
           ELSE user_data[r]
      /\ paid'[r] = paid[r] + (IF r \in listed THEN e.accrued ELSE 0)
      /\ UNCHANGED now
  <2> DEFINE taken == [q \in Rewards |-> IF q \in listed
                         THEN refreshed_data(v, as, q).accrued ELSE 0]
  <2>1. /\ index' = [q \in Rewards |->
             IF q \in refreshed_in(as) THEN moved_index(q) ELSE index[q]]
        /\ user_data' = [q \in Rewards |-> IF q \in listed
             THEN [user_data[q] EXCEPT ![v] =
                     [refreshed_data(v, as, q) EXCEPT !.accrued = 0]]
             ELSE user_data[q]]
        /\ pay_out(taken)
        /\ UNCHANGED now
    BY ClaimAllParts
  <2>2. taken[r] = IF r \in listed THEN e.accrued ELSE 0
    OBVIOUS
  <2> HIDE DEF taken
  <2>3. paid'[r] = paid[r] + taken[r]
    BY <2>1 DEF pay_out
  <2> HIDE DEF listed
  <2> QED BY <2>1, <2>2, <2>3
<1>2. /\ user_data[r] \in [Users -> UserRewardData] /\ paid[r] \in Nat
      /\ index[r] \in AssetRewardIndex \union {None}
      /\ index'[r] \in AssetRewardIndex \union {None}
  BY ClaimAllKeeps DEF AInv, AccountsTyped
<1>3. r \in refreshed_in(as) =>
        /\ r \in listed /\ moved_index(r) \in AssetRewardIndex
        /\ moved_index(r) # None
        /\ moved_index(r).index >= current_index(r).index
  BY MovedIndexTyped DEF refreshed_in
<1>4. CASE u # v \/ r \notin listed
  <2>1. user_data'[r][u] = user_data[r][u]
    BY <1>1, <1>2, <1>4
  <2> QED BY <1>1, <1>2, <1>3, <2>1, EarnedGrows
<1>5. CASE u = v /\ r \in listed
  <2> DEFINE d == user_data[r][u]
             x == current_index(r).index - d.index_snapshot
             m == ray_mul(x, d.balance_snapshot)
  <2>1. /\ e \in UserRewardData /\ d \in UserRewardData /\ x \in Nat
        /\ current_index(r) \in AssetRewardIndex
    BY EarnedNat, RefreshedTyped
  <2>2. /\ d.accrued \in Nat /\ d.balance_snapshot \in Nat
        /\ e.accrued \in Nat /\ paid'[r] = paid[r] + e.accrued
    BY <1>1, <1>5, <2>1 DEF UserRewardData
  <2>3. m \in Nat
    BY <2>1, <2>2, RayMulType
  <2>4. earned(r, u) = d.accrued + m
    BY DEF earned, calculate_user_accrued_rewards
  <2>5. user_data'[r][u] = [e EXCEPT !.accrued = 0]
    BY <1>1, <1>2, <1>5
  <2>7. CASE r \in refreshed_in(as)
    <3> DEFINE y == moved_index(r).index - d.index_snapshot
    <3>1. e.accrued = d.accrued + ray_mul(y, d.balance_snapshot)
      BY <1>5, <2>7 DEF refreshed_data, with_accrued,
                        calculate_user_accrued_rewards
    <3>2. y \in Nat /\ x <= y
      BY <1>3, <2>1, <2>7 DEF AssetRewardIndex, UserRewardData
    <3>3. earned(r, u)' = 0 + ray_mul(0, e.balance_snapshot)
      <4>1. /\ current_index(r)' = moved_index(r)
            /\ user_data'[r][u].accrued = 0
            /\ user_data'[r][u].index_snapshot = moved_index(r).index
            /\ user_data'[r][u].balance_snapshot = e.balance_snapshot
        <5>1. e.index_snapshot = moved_index(r).index
          BY <2>7, RefreshedTyped
        <5> QED BY <1>1, <1>3, <2>1, <2>5, <2>7, <5>1
                DEF current_index, UserRewardData
      <4>2. moved_index(r).index - moved_index(r).index = 0
        BY <1>3, <2>7 DEF AssetRewardIndex
      <4> HIDE DEF e
      <4> QED BY <4>1, <4>2 DEF earned, calculate_user_accrued_rewards
    <3>4. e.balance_snapshot \in Nat
      BY <2>1 DEF UserRewardData
    <3> HIDE DEF m, x, d, e, y
    <3>5. /\ ray_mul(y, d.balance_snapshot) \in Nat
          /\ ray_mul(0, e.balance_snapshot) \in Nat
      BY <2>2, <3>2, <3>4, RayMulType
    <3>6. m <= ray_mul(y, d.balance_snapshot)
      BY <2>1, <2>2, <3>2, CreditGrows DEF m
    <3> DEFINE k == ray_mul(y, d.balance_snapshot)
               l == ray_mul(0, e.balance_snapshot)
    <3>7. /\ earned(r, u) - earned(r, u)' = d.accrued + m - l
          /\ paid'[r] - paid[r] = d.accrued + k
          /\ m <= k /\ m \in Nat /\ k \in Nat /\ l \in Nat
          /\ d.accrued \in Nat
      <4> HIDE DEF k, l
      <4>1. /\ earned(r, u) = d.accrued + m /\ earned(r, u)' = l
            /\ paid'[r] = paid[r] + (d.accrued + k)
            /\ l \in Nat /\ k \in Nat /\ m <= k
        BY <2>2, <2>4, <3>1, <3>3, <3>5, <3>6 DEF k, l
      <4> QED BY <1>2, <2>2, <2>3, <4>1
    <3> HIDE DEF k, l
    <3>8. d.accrued + m - l <= d.accrued + k
      BY <3>7
    <3> QED BY <1>5, <3>7, <3>8
  <2>8. CASE r \notin refreshed_in(as)
    <3>1. e = d
      BY <1>5, <2>8 DEF refreshed_data
    <3>2. current_index(r)' = current_index(r)
      BY <1>1, <2>8 DEF current_index
    <3>3. /\ user_data'[r][u].accrued = 0
          /\ user_data'[r][u].index_snapshot = d.index_snapshot
          /\ user_data'[r][u].balance_snapshot = d.balance_snapshot
      BY <2>1, <2>5, <3>1 DEF UserRewardData
    <3>4. earned(r, u)' = 0 + m
      BY <3>2, <3>3 DEF earned, calculate_user_accrued_rewards
    <3> HIDE DEF m, x, d, e
    <3>5. /\ earned(r, u) - earned(r, u)' = d.accrued
          /\ paid'[r] - paid[r] = d.accrued
      BY <1>2, <2>2, <2>3, <2>4, <3>1, <3>4
    <3> QED BY <1>5, <2>2, <3>5
  <2> QED BY <2>7, <2>8
<1> QED BY <1>4, <1>5

(* The manager's calls write no user's entry and move no index back.       *)
LEMMA ManagerEarned ==
  ASSUME IInv, AInv, AInv', NEW q \in Rewards, UNCHANGED user_data,
         \/ index' = [index EXCEPT ![q] = current_index(q)]
         \/ index' = [index EXCEPT ![q] = index_until_now(q)]
         \/ index' = index,
         NEW r \in Rewards, NEW u \in Users
  PROVE  earned(r, u)' >= earned(r, u)
<1>1. /\ index \in [Rewards -> AssetRewardIndex \union {None}]
      /\ index' \in [Rewards -> AssetRewardIndex \union {None}]
  BY DEF AInv, AccountsTyped
<1>2. \/ index'[r] = index[r]
      \/ index'[r] # None /\ index'[r].index >= current_index(r).index
  <2>1. /\ current_index(q) \in AssetRewardIndex
        /\ current_index(q) # None
    BY CurrentIndexType, NoEntryAssumption DEF IInv, ListsTyped, AInv
  <2>2. current_index(q).index >= current_index(q).index
    BY <2>1 DEF AssetRewardIndex
  <2> QED BY <1>1, <2>1, <2>2, IndexUntilNow
<1> QED BY <1>1, <1>2, EarnedGrows

(* One step, with the types that hold before and after it.                 *)
LEMMA EarnedStep ==
  ASSUME IInv, AInv, IInv', AInv', Next, NEW r \in Rewards, NEW u \in Users,
         balance'[r[1]][u] >= user_data[r][u].balance_snapshot
  PROVE  \/ earned(r, u)' >= earned(r, u)
         \/ /\ claims(u)
            /\ earned(r, u) - earned(r, u)' <= paid'[r] - paid[r]
<1>0. index'[r] \in AssetRewardIndex \union {None}
  BY DEF AInv, AccountsTyped
<1>1. CASE Tick
  BY <1>0, <1>1, EarnedGrows DEF Tick, storage_vars
<1>2. ASSUME NEW a \in Assets, NEW v \in Users, NEW n \in Amounts,
             \/ Mint(a, v, n)
             \/ Burn(a, v, n)
             \/ \E to \in Users : TransferTokens(a, v, to, n)
      PROVE  earned(r, u)' >= earned(r, u)
  <2>1. ASSUME NEW changed, NEW bal \in [Users -> Nat],
               ChangeBalances(a, changed, bal)
        PROVE  earned(r, u)' >= earned(r, u)
    BY <2>1, ReportEarned
  <2> QED BY <1>2, <2>1, BalancesAfter
<1>3. ASSUME NEW v \in Users, NEW as \in SUBSET Assets,
             \/ claim_all_rewards(v, as)
             \/ \E t \in RewardTokens, n \in Claims :
                  claim_rewards(v, as, t, n)
      PROVE  \/ earned(r, u)' >= earned(r, u)
             \/ /\ claims(u)
                /\ earned(r, u) - earned(r, u)' <= paid'[r] - paid[r]
  <2>1. claims(v)
    BY <1>3 DEF claims
  <2>2. \/ earned(r, u)' >= earned(r, u)
        \/ u = v /\ earned(r, u) - earned(r, u)' <= paid'[r] - paid[r]
    BY <1>3, ClaimEarned, ClaimAllEarned, IncentivesAssumption
  <2> QED BY <2>1, <2>2
<1>4. ASSUME NEW q \in Rewards,
             \/ \E e \in Emissions, end \in Ends :
                  configure_asset_rewards(q, e, end)
             \/ \E e \in Emissions : set_emission_per_second(q, e)
             \/ \E end \in Ends : set_distribution_end(q, end)
             \/ remove_asset_reward(q)
      PROVE  earned(r, u)' >= earned(r, u)
  <2>1. /\ UNCHANGED user_data
        /\ \/ index' = [index EXCEPT ![q] = current_index(q)]
           \/ index' = [index EXCEPT ![q] = index_until_now(q)]
           \/ index' = index
    BY <1>4 DEF configure_asset_rewards, set_emission_per_second,
                set_distribution_end, remove_asset_reward
  <2> QED BY <2>1, ManagerEarned
<1>5. CASE \/ \E a \in Assets, t \in RewardTokens : delete_reward_token(a, t)
           \/ \E value \in BOOLEAN : SetPaused(value)
           \/ \E t \in RewardTokens, n \in Fundings : fund_rewards(t, n)
  <2>1. UNCHANGED <<index, user_data>>
    BY <1>5 DEF delete_reward_token, SetPaused, fund_rewards, storage_vars
  <2> QED BY <1>0, <2>1, EarnedGrows
<1> QED BY <1>1, <1>2, <1>3, <1>4, <1>5 DEF Next

(* Whoever keeps the balance of his last report loses nothing of what the  *)
(* index has brought him, by whatever calls of whomever, except what his   *)
(* own claim pays him (incentives contract.rs:77-180, 200-510).            *)
THEOREM KeptEarningsRemain == Spec => KeptBalancesKeepEarnings
<1>1. IInv /\ AInv /\ IInv' /\ AInv' /\ [Next]_vars =>
        [ \A r \in Rewards, u \in Users :
            balance'[r[1]][u] >= user_data[r][u].balance_snapshot =>
              \/ earned(r, u)' >= earned(r, u)
              \/ /\ claims(u)
                 /\ earned(r, u) - earned(r, u)' <= paid'[r] - paid[r] ]_vars
  BY EarnedStep
<1> QED
  BY <1>1, AccountsInductive, PTL DEF Spec, KeptBalancesKeepEarnings

-----------------------------------------------------------------------------
(* In halves of a ray: what a product rounded to the nearest may add to    *)
(* it, nothing to nothing.                                                 *)
LEMMA MulBound ==
  ASSUME NEW x \in Nat, NEW b \in Nat
  PROVE  2 * RAY * ray_mul(x, b) <= 2 * (x * b) + (IF x = 0 THEN 0 ELSE RAY)
<1> DEFINE m == ray_mul(x, b)
<1>1. RAY \in Nat /\ RAY > 0 /\ x * b \in Nat /\ m \in Nat
  BY ScaleAssumption, ProductNat, RayMulType
<1>2. x * b + HALF_RAY \in Nat
  BY <1>1, HalfRay
<1>3. m * RAY <= x * b + HALF_RAY
  BY <1>1, <1>2, DivBounds DEF ray_mul
<1>4. x = 0 => m = 0
  <2>1. x = 0 => x * b + HALF_RAY < 1 * RAY
    BY <1>1, HalfRay
  <2>2. x = 0 => m < 1
    BY <1>1, <1>2, <2>1, DivBelow DEF ray_mul
  <2> QED BY <1>1, <2>2
<1> HIDE DEF m
<1>5. 2 * RAY * m = 2 * (m * RAY) /\ m * RAY \in Nat
  BY <1>1
<1>6. m = 0 => m * RAY = 0
  BY <1>1
<1> QED BY <1>1, <1>3, <1>4, <1>5, <1>6, HalfRay DEF m

(* The same for a quotient, spread over its divisor.                       *)
LEMMA DivBound ==
  ASSUME NEW p \in Nat, NEW s \in Nat, s > 0
  PROVE  2 * ray_div(p, s) * s <= 2 * RAY * p + s
<1> DEFINE q == ray_div(p, s)
           half == s \div 2
<1>1. RAY \in Nat /\ p * RAY \in Nat /\ q \in Nat
  BY ScaleAssumption, ProductNat, RayDivTypes
<1>2. half \in Nat /\ 2 * half <= s
  OBVIOUS
<1>3. q * s <= p * RAY + half
  <2>1. p * RAY + half \in Nat
    BY <1>1, <1>2
  <2> QED BY <2>1, DivBounds DEF ray_div
<1> HIDE DEF q, half
<1>4. 2 * q * s = 2 * (q * s) /\ 2 * RAY * p = 2 * (p * RAY) /\ q * s \in Nat
  BY <1>1
<1> QED BY <1>1, <1>2, <1>3, <1>4 DEF q

(* What a user with entry d is owed or was credited of a reward whose      *)
(* index is i, in halves of a ray, and the rounding of his next credit.    *)
owed(i, d) ==
  2 * RAY * d.accrued + 2 * (d.balance_snapshot * (i - d.index_snapshot))
  + (IF i = d.index_snapshot THEN 0 ELSE RAY)

(* What is owed is a natural.                                              *)
LEMMA OwedNat ==
  ASSUME NEW d \in UserRewardData, NEW i \in Nat, d.index_snapshot <= i
  PROVE  owed(i, d) \in Nat
<1>1. /\ d.accrued \in Nat /\ d.balance_snapshot \in Nat
      /\ i - d.index_snapshot \in Nat /\ RAY \in Nat
  BY ScaleAssumption DEF UserRewardData
<1>2. /\ 2 * RAY * d.accrued \in Nat
      /\ d.balance_snapshot * (i - d.index_snapshot) \in Nat
  BY <1>1, ProductNat
<1> QED BY <1>1, <1>2 DEF owed

(* The index moves and the user is not credited.                           *)
LEMMA OwedMoves ==
  ASSUME NEW d \in UserRewardData, NEW i \in Nat, d.index_snapshot <= i,
         NEW inc \in Nat, NEW time \in Nat, inc = 0 \/ time >= 1,
         NEW held \in Nat, d.balance_snapshot <= held
  PROVE  owed(i + inc, d) <= owed(i, d) + 2 * inc * held + RAY * time
<1> DEFINE b == d.balance_snapshot
           s == d.index_snapshot
           x == i - s
           a == 2 * RAY * d.accrued
<1>9. d.accrued \in Nat /\ b \in Nat /\ s \in Nat /\ RAY \in Nat /\ RAY > 0
      /\ s <= i /\ b <= held
  BY ScaleAssumption DEF UserRewardData
<1>8. /\ owed(i, d) = a + 2 * (b * (i - s)) + (IF i = s THEN 0 ELSE RAY)
      /\ owed(i + inc, d) =
           a + 2 * (b * ((i + inc) - s)) + (IF i + inc = s THEN 0 ELSE RAY)
  BY DEF owed
<1> HIDE DEF b, s
<1>1. /\ x \in Nat /\ (i + inc) - s = x + inc
      /\ i = s <=> x = 0
      /\ i + inc = s <=> x + inc = 0
  BY <1>9
<1>2. /\ a \in Nat /\ b * x \in Nat /\ b * inc \in Nat /\ inc * held \in Nat
      /\ RAY * time \in Nat
  BY <1>1, <1>9, ProductNat
<1>3. /\ owed(i, d) = a + 2 * (b * x) + (IF x = 0 THEN 0 ELSE RAY)
      /\ owed(i + inc, d) =
           a + 2 * (b * (x + inc)) + (IF x + inc = 0 THEN 0 ELSE RAY)
  BY <1>1, <1>8
<1> HIDE DEF a, x
<1>4. b * (x + inc) = b * x + b * inc
  BY <1>1, <1>9
<1>5. b * inc <= inc * held
  <2>1. inc * b <= inc * held
    BY <1>9, ProductMonotone
  <2> QED BY <1>9, <2>1
<1>6. 2 * inc * held = 2 * (inc * held)
  OBVIOUS
<1>7. inc = 0 \/ RAY <= RAY * time
  <2>1. time >= 1 => RAY * 1 <= RAY * time
    BY <1>9, ProductMonotone
  <2> QED BY <1>9, <2>1
<1> QED BY <1>1, <1>9, <1>2, <1>3, <1>4, <1>5, <1>6, <1>7

(* The index moves and the user is credited for what he held and holds.    *)
LEMMA OwedCredited ==
  ASSUME NEW d \in UserRewardData, NEW i \in Nat, d.index_snapshot <= i,
         NEW inc \in Nat, NEW time \in Nat, inc = 0 \/ time >= 1,
         NEW earning \in Nat, earning <= d.balance_snapshot,
         NEW held \in Nat, earning <= held, NEW bal \in Nat
  PROVE  owed(i + inc, with_accrued(d, i + inc, earning, bal))
           <= owed(i, d) + 2 * inc * held + RAY * time
<1> DEFINE b == d.balance_snapshot
           s == d.index_snapshot
           a == d.accrued
           x == i - s
           gain == ray_mul(x + inc, earning)
           new == with_accrued(d, i + inc, earning, bal)
<1>12. /\ a \in Nat /\ b \in Nat /\ s \in Nat /\ RAY \in Nat /\ RAY > 0
       /\ s <= i /\ earning <= b
  BY ScaleAssumption DEF UserRewardData
<1>13. owed(i, d) = 2 * RAY * a + 2 * (b * (i - s))
                    + (IF i = s THEN 0 ELSE RAY)
  BY DEF owed
<1>14. new = [accrued |-> a + ray_mul((i + inc) - s, earning),
              index_snapshot |-> i + inc, balance_snapshot |-> bal]
  BY DEF with_accrued, calculate_user_accrued_rewards
<1> HIDE DEF b, s, a, new
<1>1. /\ x \in Nat /\ (i + inc) - s = x + inc /\ x + inc \in Nat
      /\ i = s <=> x = 0
      /\ i + inc \in Nat
  BY <1>12
<1>2. gain \in Nat
  BY <1>1, RayMulType
<1>3. owed(i, d) = 2 * RAY * a + 2 * (b * x) + (IF x = 0 THEN 0 ELSE RAY)
  BY <1>1, <1>13
<1>4. owed(i + inc, new) = 2 * RAY * (a + gain)
  <2>1. new = [accrued |-> a + gain, index_snapshot |-> i + inc,
               balance_snapshot |-> bal]
    BY <1>1, <1>14
  <2> HIDE DEF gain
  <2>2. (i + inc) - (i + inc) = 0 /\ bal * 0 = 0
    BY <1>1
  <2>3. 2 * RAY * (a + gain) \in Nat
    BY <1>2, <1>12, ProductNat
  <2>4. owed(i + inc, new) = 2 * RAY * (a + gain)
          + 2 * (bal * ((i + inc) - (i + inc))) + 0
    BY <2>1 DEF owed
  <2> QED BY <2>2, <2>3, <2>4
<1>5. 2 * RAY * gain <= 2 * ((x + inc) * earning)
                        + (IF x + inc = 0 THEN 0 ELSE RAY)
  BY <1>1, MulBound
<1> HIDE DEF gain, x
<1>6. 2 * RAY * (a + gain) = 2 * RAY * a + 2 * RAY * gain
  BY <1>2, <1>12
<1>7. (x + inc) * earning = x * earning + inc * earning
  BY <1>1
<1>8. x * earning <= b * x /\ inc * earning <= inc * held
  <2>1. x * earning <= x * b
    BY <1>1, <1>12, ProductMonotone 
  <2>2. inc * earning <= inc * held
    BY ProductMonotone
  <2>3. x * b = b * x
    BY <1>1, <1>12
  <2> QED BY <2>1, <2>2, <2>3
<1>9. /\ 2 * RAY * a \in Nat /\ 2 * RAY * gain \in Nat
      /\ x * earning \in Nat /\ inc * earning \in Nat /\ b * x \in Nat
      /\ inc * held \in Nat /\ RAY * time \in Nat
  BY <1>1, <1>2, <1>12, ProductNat
<1>10. 2 * inc * held = 2 * (inc * held)
  OBVIOUS
<1>11. inc = 0 \/ RAY <= RAY * time
  <2>1. time >= 1 => RAY * 1 <= RAY * time
    BY <1>1, <1>12, ProductMonotone
  <2> QED BY <1>12, <2>1
<1> QED BY <1>1, <1>12, <1>3, <1>4, <1>5, <1>6, <1>7, <1>8, <1>9, <1>10, <1>11
       DEF new

(* What an offer emits until t.                                            *)
emitted_until(o, t) ==
  LET until == lower_of(t, o.until)
  IN  IF until > o.since THEN o.rate * (until - o.since) ELSE 0

end_of(c) == IF c.distribution_end = 0 THEN NoEnd ELSE c.distribution_end

(* What is emitted is a natural.                                           *)
LEMMA EmittedNat ==
  ASSUME NEW o \in Offer, NEW t \in Nat
  PROVE  emitted_until(o, t) \in Nat
<1> DEFINE until == lower_of(t, o.until)
<1>1. until \in Nat /\ o.rate \in Nat /\ o.since \in Nat
  BY DEF lower_of, Offer
<1> HIDE DEF until
<1>2. until > o.since => o.rate * (until - o.since) \in Nat
  BY <1>1, ProductNat
<1> QED BY <1>2 DEF emitted_until, until

(* More time, a higher rate or a later end emit no less.                   *)
LEMMA EmittedGrows ==
  ASSUME NEW o \in Offer, NEW p \in Offer, NEW t \in Nat, NEW s \in Nat,
         t <= s, p.since = o.since, o.rate <= p.rate, o.until <= p.until
  PROVE  emitted_until(o, t) <= emitted_until(p, s)
<1> DEFINE u == lower_of(t, o.until)
           v == lower_of(s, p.until)
<1>1. /\ u \in Nat /\ v \in Nat /\ u <= v
      /\ o.rate \in Nat /\ p.rate \in Nat /\ o.since \in Nat
  BY DEF lower_of, Offer
<1>2. emitted_until(p, s) \in Nat
  BY EmittedNat
<1>3. /\ emitted_until(o, t) = IF u > o.since THEN o.rate * (u - o.since) ELSE 0
      /\ emitted_until(p, s) = IF v > o.since THEN p.rate * (v - o.since) ELSE 0
  BY DEF emitted_until
<1> HIDE DEF u, v
<1>4. u > o.since => o.rate * (u - o.since) <= p.rate * (v - o.since)
  <2> SUFFICES ASSUME u > o.since
               PROVE  o.rate * (u - o.since) <= p.rate * (v - o.since)
    OBVIOUS
  <2>1. u - o.since \in Nat /\ v - o.since \in Nat /\ u - o.since <= v - o.since
    BY <1>1
  <2>2. o.rate * (u - o.since) <= o.rate * (v - o.since)
    BY <1>1, <2>1, ProductMonotone
  <2>3. (v - o.since) * o.rate <= (v - o.since) * p.rate
    BY <1>1, <2>1, ProductMonotone
  <2>4. /\ (v - o.since) * o.rate = o.rate * (v - o.since)
        /\ (v - o.since) * p.rate = p.rate * (v - o.since)
        /\ o.rate * (u - o.since) \in Nat /\ o.rate * (v - o.since) \in Nat
        /\ p.rate * (v - o.since) \in Nat
    BY <1>1, <2>1
  <2> QED BY <2>2, <2>3, <2>4
<1> QED BY <1>1, <1>2, <1>3, <1>4

(* Time a configuration pays for is time its offer emits for.              *)
LEMMA EmittedMeanwhile ==
  ASSUME now \in Nat, now <= MaxTime, NEW o \in Offer,
         NEW c \in AssetRewardConfig, NEW last \in Nat,
         o.since <= last, last <= now,
         c.emission_per_second <= o.rate, end_of(c) <= o.until
  PROVE  /\ effective_time(c, last) \in Nat
         /\ effective_time(c, last) <= now - last
         /\ emitted_until(o, last)
              + c.emission_per_second * effective_time(c, last)
              <= emitted_until(o, now)
<1> DEFINE time == effective_time(c, last)
           e == c.emission_per_second
<1>1. /\ e \in Nat /\ o.rate \in Nat /\ o.since \in Nat /\ o.until \in Nat
      /\ c.distribution_end \in Nat /\ MaxTime \in Nat
  BY IncentivesAssumption DEF AssetRewardConfig, Offer
<1>2. time \in Nat /\ time <= now - last
  BY <1>1 DEF effective_time, lower_of
<1>3. emitted_until(o, last) \in Nat /\ emitted_until(o, now) \in Nat
  BY EmittedNat
<1>4. CASE time = 0
  <2>1. emitted_until(o, last) <= emitted_until(o, now)
    BY <1>1, EmittedGrows
  <2>2. e * time = 0
    BY <1>1, <1>4
  <2> HIDE DEF time, e
  <2> QED BY <1>2, <1>3, <2>1, <2>2 DEF time, e
<1>5. CASE time # 0
  <2> DEFINE until == lower_of(now, o.until)
  <2>1. /\ until \in Nat /\ last + time <= until /\ last < until
        /\ lower_of(last, o.until) = last
    BY <1>1, <1>5 DEF effective_time, lower_of, end_of, NoEnd
  <2>2. emitted_until(o, now) = o.rate * (until - o.since)
    BY <1>1, <2>1 DEF emitted_until
  <2>3. emitted_until(o, last) = o.rate * (last - o.since)
    <3>1. last = o.since => o.rate * (last - o.since) = 0
      BY <1>1
    <3> QED BY <1>1, <2>1, <3>1 DEF emitted_until
  <2> HIDE DEF time, e, until
  <2>4. o.rate * (until - o.since) =
          o.rate * (last - o.since) + o.rate * (until - last)
    BY <1>1, <2>1
  <2>5. e * time <= o.rate * (until - last)
    <3>1. until - last \in Nat /\ time <= until - last
      BY <1>2, <2>1
    <3>2. e * time <= e * (until - last)
      BY <1>1, <1>2, <3>1, ProductMonotone
    <3>3. (until - last) * e <= (until - last) * o.rate
      BY <1>1, <3>1, ProductMonotone DEF e
    <3>4. /\ (until - last) * e = e * (until - last)
          /\ (until - last) * o.rate = o.rate * (until - last)
          /\ e * time \in Nat /\ e * (until - last) \in Nat
          /\ o.rate * (until - last) \in Nat
      BY <1>1, <1>2, <3>1
    <3> QED BY <3>2, <3>3, <3>4
  <2>6. /\ e * time \in Nat /\ o.rate * (until - last) \in Nat
        /\ o.rate * (last - o.since) \in Nat
    <3>1. until - last \in Nat /\ last - o.since \in Nat
      BY <1>1, <2>1
    <3> QED BY <1>1, <1>2, <3>1, ProductNat
  <2>7. emitted_until(o, last) + e * time <= emitted_until(o, now)
    BY <1>3, <2>2, <2>3, <2>4, <2>5, <2>6
  <2> QED BY <1>2, <2>7 DEF time, e
<1> QED BY <1>4, <1>5

limit(o, t) ==
  2 * RAY * emitted_until(o, t) + t * (MaxSupply + RAY * Cardinality(Users))

(* And so is the limit set by it.                                          *)
LEMMA LimitNat ==
  ASSUME NEW o \in Offer, NEW t \in Nat
  PROVE  /\ limit(o, t) \in Nat
         /\ 2 * RAY * emitted_until(o, t) \in Nat
         /\ MaxSupply + RAY * Cardinality(Users) \in Nat
<1>1. RAY \in Nat /\ Cardinality(Users) \in Nat /\ MaxSupply \in Nat
  BY ScaleAssumption, IncentivesAssumption, FS_CardinalityType
<1>2. emitted_until(o, t) \in Nat
  BY EmittedNat
<1>3. 2 * RAY * emitted_until(o, t) \in Nat
  BY <1>1, <1>2, ProductNat
<1>4. MaxSupply + RAY * Cardinality(Users) \in Nat
  BY <1>1, ProductNat
<1>5. t * (MaxSupply + RAY * Cardinality(Users)) \in Nat
  BY <1>4, ProductNat
<1> QED BY <1>3, <1>4, <1>5 DEF limit

(* A wider offer, or more time, allows for no less.                        *)
LEMMA LimitGrows ==
  ASSUME NEW o \in Offer, NEW p \in Offer, NEW t \in Nat, NEW s \in Nat,
         t <= s, p.since = o.since, o.rate <= p.rate, o.until <= p.until
  PROVE  limit(o, t) <= limit(p, s)
<1> DEFINE k == MaxSupply + RAY * Cardinality(Users)
<1>1. k \in Nat /\ RAY \in Nat
  BY LimitNat, ScaleAssumption
<1>2. /\ emitted_until(o, t) <= emitted_until(p, s)
      /\ emitted_until(o, t) \in Nat /\ emitted_until(p, s) \in Nat
  BY EmittedGrows, EmittedNat
<1>3. 2 * RAY * emitted_until(o, t) <= 2 * RAY * emitted_until(p, s)
  BY <1>1, <1>2, ProductMonotone
<1>4. t * k <= s * k
  <2>1. k * t <= k * s
    BY <1>1, ProductMonotone
  <2> HIDE DEF k
  <2> QED BY <1>1, <2>1
<1>5. /\ 2 * RAY * emitted_until(o, t) \in Nat
      /\ 2 * RAY * emitted_until(p, s) \in Nat
      /\ t * k \in Nat /\ s * k \in Nat
  BY <1>1, LimitNat, ProductNat
<1> HIDE DEF k
<1> QED BY <1>3, <1>4, <1>5 DEF limit, k

(* An index gains no more than its offer emits meanwhile, and the rounding *)
(* of the quotient on the supply.                                          *)
LEMMA IndexGain ==
  ASSUME now \in Nat, now <= MaxTime, NEW o \in Offer,
         NEW c \in AssetRewardConfig, NEW i \in AssetRewardIndex,
         o.since <= i.last_update_timestamp, i.last_update_timestamp <= now,
         c.emission_per_second <= o.rate, end_of(c) <= o.until,
         NEW supply \in Nat, supply <= MaxSupply,
         NEW e, e = update_asset_reward_index(c, i, supply),
         NEW inc, inc = e.index - i.index,
         NEW time, time = now - i.last_update_timestamp
  PROVE  /\ inc \in Nat /\ time \in Nat
         /\ inc = 0 \/ time >= 1
         /\ e.index = i.index + inc /\ e.last_update_timestamp = now
         /\ 2 * inc * supply
              + 2 * RAY * emitted_until(o, i.last_update_timestamp)
            <= 2 * RAY * emitted_until(o, now) + time * MaxSupply
<1> DEFINE last == i.last_update_timestamp
           t == effective_time(c, last)
           p == c.emission_per_second * t
           x == emitted_until(o, last)
           y == emitted_until(o, now)
<1>1. /\ i.index \in Nat /\ last \in Nat /\ c.emission_per_second \in Nat
      /\ RAY \in Nat /\ MaxSupply \in Nat /\ time \in Nat
  BY ScaleAssumption, IncentivesAssumption
     DEF AssetRewardIndex, AssetRewardConfig
<1>2. t \in Nat /\ t <= time /\ x + p <= y
  BY <1>1, EmittedMeanwhile
<1>3. x \in Nat /\ y \in Nat /\ p \in Nat
  BY <1>1, <1>2, EmittedNat, ProductNat
<1>4. /\ e.index = IF t = 0 \/ supply = 0 THEN i.index
                   ELSE i.index + ray_div(p, supply)
      /\ e.last_update_timestamp = now
  BY DEF update_asset_reward_index
<1> HIDE DEF t, p, x, y, last
<1>5. /\ 2 * RAY * x \in Nat /\ 2 * RAY * y \in Nat /\ 2 * RAY * p \in Nat
      /\ 2 * RAY * x + 2 * RAY * p <= 2 * RAY * y
      /\ time * MaxSupply \in Nat
  <2>1. 2 * RAY * (x + p) <= 2 * RAY * y
    BY <1>1, <1>2, <1>3, ProductMonotone
  <2>2. 2 * RAY * (x + p) = 2 * RAY * x + 2 * RAY * p
    BY <1>1, <1>3
  <2> QED BY <1>1, <1>3, <2>1, <2>2, ProductNat
<1>6. CASE t = 0 \/ supply = 0
  <2>1. inc = 0 /\ e.index = i.index + inc
    BY <1>1, <1>4, <1>6
  <2>2. 2 * inc * supply = 0
    BY <2>1
  <2> QED BY <1>1, <1>4, <1>5, <2>1, <2>2 DEF x, y, last
<1>7. CASE t # 0 /\ supply # 0
  <2>1. ray_div(p, supply) \in Nat
    BY <1>3, <1>7, RayDivTypes
  <2>2. inc = ray_div(p, supply) /\ inc \in Nat /\ e.index = i.index + inc
    BY <1>1, <1>4, <1>7, <2>1
  <2>3. 2 * inc * supply <= 2 * RAY * p + supply
    BY <1>3, <1>7, <2>2, DivBound
  <2>4. time >= 1
    BY <1>1, <1>2, <1>7
  <2>5. supply <= time * MaxSupply
    <3>1. MaxSupply * 1 <= MaxSupply * time
      BY <1>1, <2>4, ProductMonotone
    <3> QED BY <1>1, <3>1
  <2>6. 2 * inc * supply \in Nat
    BY <2>2, ProductNat
  <2>7. 2 * inc * supply + 2 * RAY * x <= 2 * RAY * y + time * MaxSupply
    BY <1>1, <1>5, <2>3, <2>5, <2>6
  <2> QED BY <1>1, <1>4, <2>2, <2>4, <2>7 DEF x, y, last
<1> QED BY <1>6, <1>7

(* So the whole of what is owed stays within the offer.                    *)
LEMMA SumWithin ==
  ASSUME NEW o \in Offer, NEW last \in Nat, NEW time \in Nat, NEW inc \in Nat,
         NEW p \in Nat, NEW f, NEW h, NEW b,
         \A u \in Users :
           /\ f[u] \in Nat /\ h[u] \in Nat /\ b[u] \in Nat
           /\ h[u] <= f[u] + 2 * inc * b[u] + RAY * time,
         p + SumFunctionOnSet(f, Users) <= limit(o, last),
         2 * inc * SumFunctionOnSet(b, Users) + 2 * RAY * emitted_until(o, last)
           <= 2 * RAY * emitted_until(o, last + time) + time * MaxSupply
  PROVE  p + SumFunctionOnSet(h, Users) <= limit(o, last + time)
<1> DEFINE sf == SumFunctionOnSet(f, Users)
           sh == SumFunctionOnSet(h, Users)
           sb == SumFunctionOnSet(b, Users)
           n == Cardinality(Users)
           k == MaxSupply + RAY * n
           x == 2 * RAY * emitted_until(o, last)
           y == 2 * RAY * emitted_until(o, last + time)
<1>1. /\ RAY \in Nat /\ MaxSupply \in Nat /\ n \in Nat /\ k \in Nat
      /\ x \in Nat /\ y \in Nat
  <2>1. last + time \in Nat
    OBVIOUS
  <2> QED BY <2>1, ScaleAssumption, IncentivesAssumption, FS_CardinalityType,
             LimitNat
<1>2. sf \in Nat /\ sh \in Nat /\ sb \in Nat
  BY SumNat, IncentivesAssumption
<1>3. sh <= sf + (2 * inc) * sb + (RAY * time) * n
  <2>1. 2 * inc \in Nat /\ RAY * time \in Nat
    BY <1>1, ProductNat
  <2> QED BY <2>1, SumBound, IncentivesAssumption
<1>4. p + sf <= x + last * k /\ 2 * inc * sb + x <= y + time * MaxSupply
  BY DEF limit
<1>5. limit(o, last + time) = y + (last + time) * k
  BY DEF limit
<1> HIDE DEF sf, sh, sb, x, y, n
<1>6. (last + time) * k = last * k + time * MaxSupply + (RAY * time) * n
  <2>1. (last + time) * k = last * k + time * k
    <3> HIDE DEF k
    <3> QED BY <1>1
  <2>2. time * k = time * MaxSupply + time * (RAY * n)
    <3>1. RAY * n \in Nat
      BY <1>1, ProductNat
    <3> QED BY <1>1, <3>1
  <2>3. time * (RAY * n) = (RAY * time) * n
    BY <1>1
  <2>4. /\ last * k \in Nat /\ time * k \in Nat /\ time * MaxSupply \in Nat
        /\ (RAY * time) * n \in Nat
    BY <1>1, ProductNat
  <2> HIDE DEF k
  <2> QED BY <2>1, <2>2, <2>3, <2>4
<1>7. /\ last * k \in Nat /\ time * MaxSupply \in Nat
      /\ (RAY * time) * n \in Nat /\ 2 * inc * sb \in Nat
  BY <1>1, <1>2, ProductNat
<1> HIDE DEF k
<1> QED BY <1>1, <1>2, <1>3, <1>4, <1>5, <1>6, <1>7 DEF sh

-----------------------------------------------------------------------------
(* A reward never configured has nothing stored.                           *)
NoEntry(r) ==
  /\ index[r] = None /\ offer[r] = None /\ paid[r] = 0
  /\ \A u \in Users : user_data[r][u] =
       [accrued |-> 0, index_snapshot |-> RAY, balance_snapshot |-> 0]

(* A configured one moves its index within what its offer spans.           *)
InOrder(r) ==
  /\ index[r] # None /\ offer[r] # None
  /\ offer[r].since <= index[r].last_update_timestamp
  /\ index[r].last_update_timestamp <= now
  /\ config[r].emission_per_second <= offer[r].rate
  /\ end_of(config[r]) <= offer[r].until

Covered(r) ==
  \A u \in Users : user_data[r][u].balance_snapshot <= balance[r[1]][u]

owed_by(r) == [u \in Users |-> owed(index[r].index, user_data[r][u])]

WithinEmitted(r) ==
  2 * RAY * paid[r] + SumFunctionOnSet(owed_by(r), Users)
    <= limit(offer[r], index[r].last_update_timestamp)

Accounted(r) ==
  /\ config[r] = None => NoEntry(r)
  /\ config[r] # None => InOrder(r)
  /\ r \notin overstated => Covered(r)
  /\ config[r] # None /\ r \notin overstated => WithinEmitted(r)

SupplyBounded ==
  now <= MaxTime /\ \A a \in Assets : total_supply(a) <= MaxSupply

EInv == SupplyBounded /\ \A r \in Rewards : Accounted(r)

(* What the types say of one entry.                                        *)
LEMMA EntryTypes ==
  ASSUME IInv, AInv, EInv, NEW r \in Rewards
  PROVE  /\ now \in Nat /\ now <= MaxTime /\ RAY \in Nat /\ MaxTime \in Nat
         /\ user_data[r] \in [Users -> UserRewardData]
         /\ paid[r] \in Nat /\ 2 * RAY * paid[r] \in Nat
         /\ config[r] # None =>
              /\ config[r] \in AssetRewardConfig
              /\ index[r] \in AssetRewardIndex /\ offer[r] \in Offer
              /\ current_index(r) = index[r]
              /\ \A u \in Users :
                   /\ user_data[r][u].index_snapshot <= index[r].index
                   /\ owed(index[r].index, user_data[r][u]) \in Nat
<1>1. /\ now \in Nat /\ now <= MaxTime /\ RAY \in Nat /\ MaxTime \in Nat
      /\ user_data[r] \in [Users -> UserRewardData] /\ paid[r] \in Nat
  BY ScaleAssumption, IncentivesAssumption
     DEF IInv, ListsTyped, AInv, AccountsTyped, EInv, SupplyBounded
<1>2. 2 * RAY * paid[r] \in Nat
  BY <1>1, ProductNat
<1>3. ASSUME config[r] # None
      PROVE  /\ config[r] \in AssetRewardConfig
             /\ index[r] \in AssetRewardIndex /\ offer[r] \in Offer
             /\ current_index(r) = index[r]
  BY <1>3 DEF IInv, ListsTyped, AInv, AccountsTyped, EInv, Accounted, InOrder,
              current_index
<1>4. ASSUME config[r] # None, NEW u \in Users
      PROVE  /\ user_data[r][u].index_snapshot <= index[r].index
             /\ owed(index[r].index, user_data[r][u]) \in Nat
  <2>1. user_data[r][u].index_snapshot <= index[r].index
    BY <1>3, <1>4 DEF AInv, SnapshotsBehind
  <2>2. user_data[r][u] \in UserRewardData /\ index[r].index \in Nat
    BY <1>1, <1>3, <1>4 DEF AssetRewardIndex
  <2> QED BY <2>1, <2>2, OwedNat
<1> QED BY <1>1, <1>2, <1>3, <1>4

(* An index moved over a supply: what every user was owed or is credited   *)
(* stays within what the offer has emitted.                                *)
LEMMA EntryMoves ==
  ASSUME IInv, AInv, EInv, NEW r \in Rewards, config[r] # None,
         r \notin overstated,
         NEW bal \in [Users -> Nat],
         SumFunctionOnSet(bal, Users) <= MaxSupply,
         NEW e, e = update_asset_reward_index(config[r], index[r],
                                              SumFunctionOnSet(bal, Users)),
         NEW h,
         \A u \in Users :
           \/ /\ h[u] = owed(e.index, user_data[r][u])
              /\ user_data[r][u].balance_snapshot <= bal[u]
           \/ \E earning, new \in Nat :
                /\ earning <= user_data[r][u].balance_snapshot
                /\ earning <= bal[u]
                /\ h[u] = owed(e.index, with_accrued(user_data[r][u], e.index,
                                                     earning, new))
  PROVE  /\ e \in AssetRewardIndex /\ e.last_update_timestamp = now
         /\ \A u \in Users : h[u] \in Nat
         /\ 2 * RAY * paid[r] + SumFunctionOnSet(h, Users)
              <= limit(offer[r], now)
<1> DEFINE supply == SumFunctionOnSet(bal, Users)
           i == index[r]
           o == offer[r]
           c == config[r]
           last == i.last_update_timestamp
           inc == e.index - i.index
           time == now - last
           p == 2 * RAY * paid[r]
<1>1. /\ now \in Nat /\ now <= MaxTime /\ p \in Nat
      /\ user_data[r] \in [Users -> UserRewardData]
      /\ c \in AssetRewardConfig /\ i \in AssetRewardIndex /\ o \in Offer
      /\ \A u \in Users :
           /\ user_data[r][u].index_snapshot <= i.index
           /\ owed(i.index, user_data[r][u]) \in Nat
  BY EntryTypes
<1>2. /\ o.since <= last /\ last <= now
      /\ c.emission_per_second <= o.rate /\ end_of(c) <= o.until
      /\ p + SumFunctionOnSet(owed_by(r), Users) <= limit(o, last)
  BY DEF EInv, Accounted, InOrder, WithinEmitted
<1>3. supply \in Nat
  BY SupplyNat
<1>4. e \in AssetRewardIndex
  BY <1>1, <1>3, IndexMoves
<1>5. i.index \in Nat /\ last \in Nat /\ e.index \in Nat
  BY <1>1, <1>4 DEF AssetRewardIndex
<1> HIDE DEF supply, i, o, c, p
<1>6. /\ inc \in Nat /\ time \in Nat
      /\ inc = 0 \/ time >= 1
      /\ e.index = i.index + inc /\ e.last_update_timestamp = now
      /\ 2 * inc * supply + 2 * RAY * emitted_until(o, last)
           <= 2 * RAY * emitted_until(o, now) + time * MaxSupply
  BY <1>1, <1>2, <1>3, IndexGain DEF supply, c, i
<1> HIDE DEF inc, time, last
<1>7. \A u \in Users : owed_by(r)[u] = owed(i.index, user_data[r][u])
  BY DEF owed_by, i
<1>8. ASSUME NEW u \in Users
      PROVE  /\ h[u] \in Nat
             /\ h[u] <= owed_by(r)[u] + 2 * inc * bal[u] + RAY * time
  <2> DEFINE d == user_data[r][u]
  <2>1. /\ d \in UserRewardData /\ d.index_snapshot <= i.index
        /\ bal[u] \in Nat /\ i.index + inc \in Nat
        /\ d.index_snapshot \in Nat /\ d.index_snapshot <= i.index + inc
    BY <1>1, <1>5, <1>6 DEF UserRewardData
  <2>2. CASE /\ h[u] = owed(e.index, d)
             /\ d.balance_snapshot <= bal[u]
    <3> HIDE DEF d
    <3>1. owed(i.index + inc, d) \in Nat
      BY <2>1, OwedNat
    <3>2. owed(i.index + inc, d)
            <= owed(i.index, d) + 2 * inc * bal[u] + RAY * time
      BY <1>5, <1>6, <2>1, <2>2, OwedMoves
    <3> QED BY <1>6, <1>7, <2>2, <3>1, <3>2 DEF d
  <2>3. CASE \E earning, new \in Nat :
               /\ earning <= d.balance_snapshot
               /\ earning <= bal[u]
               /\ h[u] = owed(e.index, with_accrued(d, e.index, earning, new))
    <3>1. PICK earning \in Nat, new \in Nat :
               /\ earning <= d.balance_snapshot
               /\ earning <= bal[u]
               /\ h[u] = owed(e.index, with_accrued(d, e.index, earning, new))
      BY <2>3
    <3> DEFINE w == with_accrued(d, i.index + inc, earning, new)
    <3> HIDE DEF d
    <3>2. w \in UserRewardData /\ w.index_snapshot = i.index + inc
      BY <2>1, CreditTyped
    <3>3. owed(i.index + inc, w) \in Nat
      BY <2>1, <3>2, OwedNat
    <3>4. owed(i.index + inc, w)
            <= owed(i.index, d) + 2 * inc * bal[u] + RAY * time
      BY <1>5, <1>6, <2>1, <3>1, OwedCredited
    <3> HIDE DEF w
    <3> QED BY <1>6, <1>7, <3>1, <3>3, <3>4 DEF d, w
  <2> QED BY <2>2, <2>3
<1>9. now = last + time
  BY <1>1, <1>5 DEF time
<1>10. \A u \in Users : owed_by(r)[u] \in Nat /\ bal[u] \in Nat
  BY <1>1, <1>7
<1>11. p + SumFunctionOnSet(h, Users) <= limit(o, last + time)
  <2>1. p + SumFunctionOnSet(owed_by(r), Users) <= limit(o, last)
    BY <1>2
  <2>2. 2 * inc * SumFunctionOnSet(bal, Users)
          + 2 * RAY * emitted_until(o, last)
          <= 2 * RAY * emitted_until(o, last + time) + time * MaxSupply
    BY <1>6, <1>9 DEF supply
  <2>3. o \in Offer /\ last \in Nat /\ time \in Nat /\ inc \in Nat /\ p \in Nat
    BY <1>1, <1>5, <1>6
  <2> QED BY <1>8, <1>10, <2>1, <2>2, <2>3, SumWithin
<1> QED BY <1>4, <1>6, <1>8, <1>9, <1>11 DEF p, o

(* The new offer spans the old one and what is configured now.             *)
LEMMA WidenedSpans ==
  ASSUME now \in Nat, NEW c \in AssetRewardConfig
  PROVE  /\ \A o \in Offer :
              /\ widened(o, c) \in Offer
              /\ widened(o, c).since = o.since
              /\ o.rate <= widened(o, c).rate
              /\ o.until <= widened(o, c).until
              /\ c.emission_per_second <= widened(o, c).rate
              /\ end_of(c) <= widened(o, c).until
         /\ /\ widened(None, c) \in Offer
            /\ widened(None, c).since = now
            /\ c.emission_per_second <= widened(None, c).rate
            /\ end_of(c) <= widened(None, c).until
<1> DEFINE end == end_of(c)
           higher(m, n) == IF m >= n THEN m ELSE n
<1>1. c.emission_per_second \in Nat /\ end \in Nat
  BY IncentivesAssumption DEF AssetRewardConfig, NoEnd, end_of
<1>2. \A m, n \in Nat : m <= higher(m, n) /\ n <= higher(m, n)
  OBVIOUS
<1>3. ASSUME NEW o \in Offer
      PROVE  /\ widened(o, c) \in Offer
             /\ widened(o, c).since = o.since
             /\ o.rate <= widened(o, c).rate
             /\ o.until <= widened(o, c).until
             /\ c.emission_per_second <= widened(o, c).rate
             /\ end_of(c) <= widened(o, c).until
  <2>1. o # None /\ widened(o, c) \in Offer
    BY NoEntryAssumption, WidenedTyped
  <2>2. widened(o, c) =
          [o EXCEPT !.rate = higher(o.rate, c.emission_per_second),
                    !.until = higher(o.until, end)]
    BY <2>1 DEF widened, end_of
  <2>3. o.rate \in Nat /\ o.until \in Nat
    BY DEF Offer
  <2>4. /\ o.rate <= higher(o.rate, c.emission_per_second)
        /\ c.emission_per_second <= higher(o.rate, c.emission_per_second)
        /\ o.until <= higher(o.until, end) /\ end <= higher(o.until, end)
    BY <1>1, <1>2, <2>3
  <2> HIDE DEF higher
  <2>5. /\ widened(o, c).since = o.since
        /\ widened(o, c).rate = higher(o.rate, c.emission_per_second)
        /\ widened(o, c).until = higher(o.until, end)
    BY <2>2 DEF Offer
  <2> QED BY <2>1, <2>4, <2>5
<1>4. /\ widened(None, c) \in Offer
      /\ widened(None, c) = [since |-> now, rate |-> c.emission_per_second,
                             until |-> end]
  BY WidenedTyped DEF widened, end_of
<1> QED BY <1>1, <1>3, <1>4

(* A step that leaves a reward as it is.                                   *)
LEMMA SameEntry ==
  ASSUME NEW r \in Rewards, Accounted(r),
         now \in Nat, now' \in Nat, now <= now',
         config'[r] = config[r], index'[r] = index[r], offer'[r] = offer[r],
         user_data'[r] = user_data[r], paid'[r] = paid[r],
         overstated \subseteq overstated',
         r \notin overstated' => Covered(r)',
         index[r] # None => index[r] \in AssetRewardIndex
  PROVE  Accounted(r)'
<1>1. owed_by(r)' = owed_by(r)
  BY DEF owed_by
<1>2. config[r] = None => NoEntry(r)'
  BY DEF Accounted, NoEntry
<1>3. config[r] # None => InOrder(r)'
  BY DEF Accounted, InOrder, AssetRewardIndex
<1>4. config[r] # None /\ r \notin overstated' => WithinEmitted(r)'
  BY <1>1 DEF Accounted, WithinEmitted
<1> QED BY <1>2, <1>3, <1>4 DEF Accounted

(* The supplies are bounded as long as balances do not change.             *)
LEMMA SameBalances ==
  ASSUME SupplyBounded, UNCHANGED balance, now' <= MaxTime
  PROVE  SupplyBounded'
BY DEF SupplyBounded, total_supply

(* Balances change and the reports follow.                                 *)
LEMMA ReportAccounts ==
  ASSUME IInv, AInv, EInv, NEW a \in Assets, NEW changed,
         NEW bal \in [Users -> Nat], ChangeBalances(a, changed, bal),
         SumFunctionOnSet(bal, Users) <= MaxSupply
  PROVE  EInv'
<1> DEFINE supply == SumFunctionOnSet(bal, Users)
           updated(r) ==
             update_asset_reward_index(config[r], current_index(r), supply)
           data(r, u) ==
             LET d == user_data[r][u]
             IN  with_accrued(d, updated(r).index,
                   balance_for_rewards(d.balance_snapshot, bal[u]), bal[u])
<1>1. /\ balance' = [balance EXCEPT ![a] = bal]
      /\ index' = [r \in Rewards |-> IF r \in reported(a) THEN updated(r)
                                                          ELSE index[r]]
      /\ user_data' = [r \in Rewards |-> [u \in Users |->
           IF r \in reported(a) /\ u \in changed THEN data(r, u)
                                                 ELSE user_data[r][u]]]
      /\ overstated' = overstated \union
           {r \in Rewards : \E u \in Users :
              user_data'[r][u].balance_snapshot > balance'[r[1]][u]}
      /\ UNCHANGED <<now, config, paid, offer>>
  BY DEF ChangeBalances, handle_action, note_overstated
<1>2. balance \in [Assets -> [Users -> Nat]]
  BY DEF IInv, ListsTyped
<1>3. SupplyBounded'
  <2>1. \A b \in Assets :
          total_supply(b)' = IF b = a THEN supply ELSE total_supply(b)
    BY <1>1, <1>2 DEF total_supply
  <2> QED BY <1>1, <2>1 DEF EInv, SupplyBounded
<1>4. ASSUME NEW r \in Rewards, r \notin overstated'
      PROVE  Covered(r)' /\ r \notin overstated
  <2>1. AInv' /\ balance' \in [Assets -> [Users -> Nat]]
    BY <1>1, <1>2, BalancesKeep
  <2>2. \A u \in Users : /\ user_data'[r][u].balance_snapshot \in Nat
                         /\ balance'[r[1]][u] \in Nat
    BY <2>1, RewardParts DEF AInv, AccountsTyped, UserRewardData
  <2>3. \A u \in Users :
          ~(user_data'[r][u].balance_snapshot > balance'[r[1]][u])
    BY <1>1, <1>4
  <2> QED BY <1>1, <1>4, <2>2, <2>3 DEF Covered
<1>5. ASSUME NEW r \in Rewards
      PROVE  Accounted(r)'
  <2>1. /\ now \in Nat /\ now <= MaxTime /\ Accounted(r)
        /\ user_data[r] \in [Users -> UserRewardData]
        /\ index[r] \in AssetRewardIndex \union {None}
    BY EntryTypes DEF EInv, AInv, AccountsTyped
  <2>2. CASE r \notin reported(a)
    <3>1. /\ index'[r] = index[r] /\ user_data'[r] = user_data[r]
          /\ UNCHANGED <<now, config, paid, offer>>
          /\ overstated \subseteq overstated'
      BY <1>1, <2>1, <2>2
    <3> HIDE DEF data, updated, supply
    <3> QED BY <1>4, <2>1, <3>1, SameEntry
  <2>3. CASE r \in reported(a)
    <3> DEFINE e == index'[r]
               d(u) == user_data[r][u]
               earning(u) == balance_for_rewards(d(u).balance_snapshot, bal[u])
    <3>1. r[1] = a /\ config[r] # None
      BY <2>3 DEF reported, is_active
    <3>2. /\ e = update_asset_reward_index(config[r], index[r], supply)
          /\ \A u \in Users : user_data'[r][u] =
               IF u \in changed
               THEN with_accrued(d(u), e.index, earning(u), bal[u])
               ELSE d(u)
      <4>1. current_index(r) = index[r]
        BY <3>1, EntryTypes
      <4> QED BY <1>1, <2>3, <4>1
    <3>3. supply \in Nat /\ config[r] \in AssetRewardConfig
          /\ index[r] \in AssetRewardIndex
      BY <3>1, EntryTypes, SupplyNat
    <3>4. e \in AssetRewardIndex /\ e.last_update_timestamp = now
      <4> HIDE DEF e, supply
      <4> QED BY <2>1, <3>2, <3>3, IndexMoves
    <3>5. InOrder(r)'
      <4>1. InOrder(r) /\ offer[r] \in Offer
        BY <3>1, EntryTypes DEF EInv, Accounted
      <4>2. offer[r].since <= now
        BY <2>1, <3>3, <4>1 DEF InOrder, Offer, AssetRewardIndex
      <4>3. UNCHANGED <<now, config, offer>>
        BY <1>1
      <4> HIDE DEF e
      <4> QED BY <2>1, <3>4, <4>1, <4>2, <4>3, NoEntryAssumption
              DEF InOrder, e
    <3>6. ASSUME r \notin overstated'
          PROVE  WithinEmitted(r)'
      <4>1. r \notin overstated /\ Covered(r)'
        BY <1>4, <3>6
      <4>2. \A u \in Users :
              owed_by(r)'[u] = owed(e.index, user_data'[r][u])
        BY DEF owed_by
      <4>3. ASSUME NEW u \in Users
            PROVE  \/ /\ owed_by(r)'[u] = owed(e.index, user_data[r][u])
                      /\ user_data[r][u].balance_snapshot <= bal[u]
                   \/ \E earn, new \in Nat :
                        /\ earn <= user_data[r][u].balance_snapshot
                        /\ earn <= bal[u]
                        /\ owed_by(r)'[u] = owed(e.index,
                             with_accrued(user_data[r][u], e.index, earn, new))
        <5>1. CASE u \in changed
          <6>1. d(u).balance_snapshot \in Nat /\ bal[u] \in Nat
            BY <2>1 DEF UserRewardData
          <6>2. /\ earning(u) \in Nat /\ earning(u) <= bal[u]
                /\ earning(u) <= d(u).balance_snapshot
            BY <6>1 DEF balance_for_rewards, lower_of
          <6>3. owed_by(r)'[u] = owed(e.index,
                  with_accrued(d(u), e.index, earning(u), bal[u]))
            BY <3>2, <4>2, <5>1
          <6> HIDE DEF earning, e
          <6> QED BY <6>1, <6>2, <6>3
        <5>2. CASE u \notin changed
          <6>1. user_data'[r][u] = user_data[r][u]
            BY <3>2, <5>2
          <6>2. user_data[r][u].balance_snapshot <= bal[u]
            BY <1>1, <1>2, <3>1, <4>1, <6>1 DEF Covered
          <6> QED BY <4>2, <6>1, <6>2
        <5> QED BY <5>1, <5>2
      <4> HIDE DEF e, earning, d
      <4>4. 2 * RAY * paid[r] + SumFunctionOnSet(owed_by(r)', Users)
              <= limit(offer[r], now)
        BY <3>1, <3>2, <4>1, <4>3, EntryMoves
      <4> QED BY <1>1, <3>4, <4>4 DEF WithinEmitted, e
    <3> HIDE DEF e
    <3>7. config'[r] # None
      BY <1>1, <3>1
    <3> QED BY <1>4, <3>5, <3>6, <3>7 DEF Accounted
  <2> QED BY <2>2, <2>3
<1> QED BY <1>3, <1>5 DEF EInv

(* The total supply after a mint, a burn or a transfer.                    *)
LEMMA SupplyStaysBounded ==
  ASSUME IInv, AInv, EInv, NEW a \in Assets, NEW u \in Users,
         NEW n \in Amounts,
         \/ Mint(a, u, n)
         \/ Burn(a, u, n)
         \/ \E to \in Users : TransferTokens(a, u, to, n)
  PROVE  \E changed \in SUBSET Users, bal \in [Users -> Nat] :
           /\ ChangeBalances(a, changed, bal)
           /\ SumFunctionOnSet(bal, Users) <= MaxSupply
<1> DEFINE old == balance[a]
           sum(b) == SumFunctionOnSet(b, Users)
<1>1. /\ n \in Nat /\ old \in [Users -> Nat] /\ MaxSupply \in Nat
      /\ sum(old) <= MaxSupply
  BY IncentivesAssumption
     DEF IInv, ListsTyped, EInv, SupplyBounded, total_supply
<1>2. \A b \in [Users -> Nat] : sum(b) \in Nat
  BY SupplyNat
<1>3. CASE Mint(a, u, n)
  <2> DEFINE b == [old EXCEPT ![u] = @ + n]
  <2>1. /\ ChangeBalances(a, {u}, b) /\ sum(old) + n <= MaxSupply
        /\ b \in [Users -> Nat] /\ b[u] = old[u] + n
        /\ \A v \in Users : v # u => b[v] = old[v]
    BY <1>1, <1>3 DEF Mint, total_supply
  <2> HIDE DEF b, old
  <2>2. sum(b) = sum(old) - old[u] + b[u]
    BY <1>1, <2>1, SumChange, IncentivesAssumption
  <2>3. sum(b) \in Nat /\ sum(old) \in Nat /\ old[u] \in Nat
    BY <1>1, <1>2, <2>1
  <2> HIDE DEF sum
  <2>4. sum(b) <= MaxSupply
    BY <1>1, <2>1, <2>2, <2>3
  <2> QED BY <2>1, <2>4 DEF sum
<1>4. CASE Burn(a, u, n)
  <2> DEFINE b == [old EXCEPT ![u] = @ - n]
  <2>1. /\ ChangeBalances(a, {u}, b) /\ n <= old[u]
        /\ b \in [Users -> Nat] /\ b[u] = old[u] - n
        /\ \A v \in Users : v # u => b[v] = old[v]
    BY <1>1, <1>4 DEF Burn
  <2> HIDE DEF b, old
  <2>2. sum(b) = sum(old) - old[u] + b[u]
    BY <1>1, <2>1, SumChange, IncentivesAssumption
  <2>3. sum(b) \in Nat /\ sum(old) \in Nat /\ old[u] \in Nat
    BY <1>1, <1>2, <2>1
  <2> HIDE DEF sum
  <2>4. sum(b) <= MaxSupply
    BY <1>1, <2>1, <2>2, <2>3
  <2> QED BY <2>1, <2>4 DEF sum
<1>5. CASE \E to \in Users : TransferTokens(a, u, to, n)
  <2>1. PICK to \in Users : TransferTokens(a, u, to, n)
    BY <1>5
  <2> DEFINE b == [old EXCEPT ![u] = @ - n]
             c == [b EXCEPT ![to] = @ + n]
             both == [old EXCEPT ![u] = @ - n, ![to] = @ + n]
  <2>2. u # to /\ n <= old[u] /\ ChangeBalances(a, {u, to}, both)
    BY <2>1 DEF TransferTokens
  <2>3. both = c
    BY <1>1, <2>2
  <2>4. /\ b \in [Users -> Nat] /\ b[u] = old[u] - n
        /\ \A v \in Users : v # u => b[v] = old[v]
    BY <1>1, <2>2
  <2> HIDE DEF both, b
  <2>5. /\ c \in [Users -> Nat] /\ c[to] = b[to] + n
        /\ \A v \in Users : v # to => c[v] = b[v]
    BY <1>1, <2>4
  <2> HIDE DEF c, old
  <2>6. sum(b) = sum(old) - old[u] + b[u]
    BY <1>1, <2>4, SumChange, IncentivesAssumption
  <2>7. sum(c) = sum(b) - b[to] + c[to]
    BY <2>4, <2>5, SumChange, IncentivesAssumption
  <2>8. /\ sum(b) \in Nat /\ sum(c) \in Nat /\ sum(old) \in Nat
        /\ old[u] \in Nat /\ b[to] \in Nat
    BY <1>1, <1>2, <2>4, <2>5
  <2> HIDE DEF sum
  <2>9. sum(c) <= MaxSupply
    BY <1>1, <2>4, <2>5, <2>6, <2>7, <2>8
  <2> QED BY <2>2, <2>3, <2>5, <2>9 DEF sum
<1> QED BY <1>3, <1>4, <1>5

(* What is taken from what a user has accrued is owed no longer.           *)
LEMMA OwedLess ==
  ASSUME NEW d \in UserRewardData, NEW n \in Nat, n <= d.accrued,
         NEW i \in Nat, d.index_snapshot <= i
  PROVE  /\ owed(i, [d EXCEPT !.accrued = @ - n]) = owed(i, d) - 2 * RAY * n
         /\ owed(i, [d EXCEPT !.accrued = @ - n]) \in Nat
         /\ owed(i, d) \in Nat
<1> DEFINE a == d.accrued
           w == [d EXCEPT !.accrued = @ - n]
           rest == 2 * (d.balance_snapshot * (i - d.index_snapshot))
                   + (IF i = d.index_snapshot THEN 0 ELSE RAY)
<1>1. /\ a \in Nat /\ a - n \in Nat /\ RAY \in Nat
      /\ d.balance_snapshot \in Nat /\ i - d.index_snapshot \in Nat
  BY ScaleAssumption DEF UserRewardData
<1>2. /\ w \in UserRewardData /\ w.accrued = a - n
      /\ w.index_snapshot = d.index_snapshot
      /\ w.balance_snapshot = d.balance_snapshot
  BY <1>1 DEF UserRewardData
<1>3. rest \in Nat
  <2>1. d.balance_snapshot * (i - d.index_snapshot) \in Nat
    BY <1>1, ProductNat
  <2> QED BY <1>1, <2>1
<1>4. owed(i, d) \in Nat /\ owed(i, w) \in Nat
  BY <1>2, OwedNat
<1> HIDE DEF w
<1>5. owed(i, w) = 2 * RAY * (a - n) + 2 * (d.balance_snapshot
                     * (i - d.index_snapshot))
                   + (IF i = d.index_snapshot THEN 0 ELSE RAY)
  BY <1>2 DEF owed
<1>6. owed(i, d) = 2 * RAY * a + 2 * (d.balance_snapshot
                     * (i - d.index_snapshot))
                   + (IF i = d.index_snapshot THEN 0 ELSE RAY)
  BY DEF owed
<1>7. /\ 2 * RAY * (a - n) = 2 * RAY * a - 2 * RAY * n
      /\ 2 * RAY * a \in Nat /\ 2 * RAY * n \in Nat
      /\ 2 * RAY * (a - n) \in Nat
  <2>1. 2 * RAY * a \in Nat /\ 2 * RAY * n \in Nat /\ 2 * RAY * (a - n) \in Nat
    BY <1>1, ProductNat
  <2> HIDE DEF a
  <2>2. 2 * RAY * (a - n) = 2 * RAY * a - 2 * RAY * n
    BY <1>1
  <2> QED BY <2>1, <2>2
<1>8. owed(i, w) = 2 * RAY * (a - n) + rest /\ owed(i, d) = 2 * RAY * a + rest
  <2> DEFINE half == 2 * (d.balance_snapshot * (i - d.index_snapshot))
             flag == IF i = d.index_snapshot THEN 0 ELSE RAY
  <2>1. half \in Nat /\ flag \in Nat /\ rest = half + flag
    BY <1>1, ProductNat
  <2>2. /\ owed(i, w) = 2 * RAY * (a - n) + half + flag
        /\ owed(i, d) = 2 * RAY * a + half + flag
    BY <1>5, <1>6
  <2> HIDE DEF half, flag, rest
  <2> QED BY <1>7, <2>1, <2>2
<1> HIDE DEF rest
<1> QED BY <1>3, <1>4, <1>7, <1>8 DEF w

(* A reward after a claim of n from what u has accrued of it, with d his   *)
(* entry and h what everyone is owed before anything is taken.             *)
LEMMA PaidEntry ==
  ASSUME IInv, AInv, EInv, NEW r \in Rewards, NEW u \in Users,
         config[r] # None,
         UNCHANGED <<now, config, offer, overstated, balance>>,
         index'[r] \in AssetRewardIndex,
         index'[r].last_update_timestamp \in
           {index[r].last_update_timestamp, now},
         NEW d \in UserRewardData, d.index_snapshot <= index'[r].index,
         d.balance_snapshot = user_data[r][u].balance_snapshot,
         NEW n \in Nat, n <= d.accrued,
         user_data'[r] =
           [user_data[r] EXCEPT ![u] = [d EXCEPT !.accrued = @ - n]],
         paid'[r] = paid[r] + n,
         r \notin overstated =>
           \E h : /\ \A v \in Users : h[v] = owed(index'[r].index,
                       IF v = u THEN d ELSE user_data[r][v])
                  /\ \A v \in Users : h[v] \in Nat
                  /\ 2 * RAY * paid[r] + SumFunctionOnSet(h, Users)
                       <= limit(offer[r], index'[r].last_update_timestamp)
  PROVE  Accounted(r)'
<1> DEFINE i == index'[r].index
           w == [d EXCEPT !.accrued = @ - n]
<1>1. /\ now \in Nat /\ user_data[r] \in [Users -> UserRewardData]
      /\ Accounted(r) /\ i \in Nat /\ paid[r] \in Nat
      /\ index[r] \in AssetRewardIndex /\ offer[r] \in Offer
  BY EntryTypes DEF EInv, AssetRewardIndex
<1>2. \A v \in Users : user_data'[r][v] = IF v = u THEN w ELSE user_data[r][v]
  BY <1>1
<1>3. w.balance_snapshot = user_data[r][u].balance_snapshot
  BY DEF UserRewardData
<1>4. InOrder(r)'
  <2>1. InOrder(r) /\ config'[r] # None
    BY <1>1 DEF Accounted
  <2>2. offer[r].since <= now
    BY <1>1, <2>1 DEF InOrder, Offer, AssetRewardIndex
  <2> QED BY <1>1, <2>1, <2>2, NoEntryAssumption DEF InOrder
<1>5. r \notin overstated => Covered(r)'
  BY <1>1, <1>2, <1>3 DEF Accounted, Covered
<1>6. ASSUME r \notin overstated
      PROVE  WithinEmitted(r)'
  <2>1. PICK h : /\ \A v \in Users : h[v] = owed(i,
                      IF v = u THEN d ELSE user_data[r][v])
                 /\ \A v \in Users : h[v] \in Nat
                 /\ 2 * RAY * paid[r] + SumFunctionOnSet(h, Users)
                       <= limit(offer[r], index'[r].last_update_timestamp)
    BY <1>6
  <2>2. \A v \in Users : owed_by(r)'[v] = owed(i, user_data'[r][v])
    BY DEF owed_by
  <2>3. /\ owed(i, w) = owed(i, d) - 2 * RAY * n
        /\ owed(i, w) \in Nat
    BY <1>1, OwedLess
  <2> HIDE DEF w, i
  <2>4. /\ \A v \in Users : owed_by(r)'[v] \in Nat
        /\ owed_by(r)'[u] = h[u] - 2 * RAY * n
        /\ \A v \in Users : v # u => owed_by(r)'[v] = h[v]
    BY <1>2, <2>1, <2>2, <2>3
  <2>5. 2 * RAY * (paid[r] + n) + SumFunctionOnSet(owed_by(r)', Users)
          = 2 * RAY * paid[r] + SumFunctionOnSet(h, Users)
    <3> DEFINE g == owed_by(r)'
               p == paid[r]
    <3>1. /\ \A v \in Users : h[v] \in Nat /\ g[v] \in Nat
          /\ g[u] = h[u] - 2 * RAY * n
          /\ \A v \in Users : v # u => g[v] = h[v]
          /\ p \in Nat
      BY <1>1, <2>1, <2>4
    <3> HIDE DEF g, p
    <3>2. 2 * RAY * (p + n) + SumFunctionOnSet(g, Users)
            = 2 * RAY * p + SumFunctionOnSet(h, Users)
      <4> DEFINE sg == SumFunctionOnSet(g, Users)
                 sh == SumFunctionOnSet(h, Users)
      <4>1. sg = sh - h[u] + g[u]
        BY <3>1, SumChange, IncentivesAssumption
      <4>2. sg \in Nat /\ sh \in Nat
        BY <3>1, SumNat, IncentivesAssumption
      <4> HIDE DEF sg, sh
      <4>3. /\ RAY \in Nat /\ h[u] \in Nat
            /\ 2 * RAY * n \in Nat /\ 2 * RAY * p \in Nat
            /\ 2 * RAY * (p + n) = 2 * RAY * p + 2 * RAY * n
        BY <3>1, ScaleAssumption, ProductNat
      <4> QED BY <3>1, <4>1, <4>2, <4>3 DEF sg, sh
    <3> QED BY <3>2 DEF g, p
  <2> QED BY <2>1, <2>5 DEF WithinEmitted
<1> QED BY <1>4, <1>5, <1>6 DEF Accounted

(* Without a move of the index, what was owed before the claim.            *)
LEMMA OwedBefore ==
  ASSUME IInv, AInv, EInv, NEW r \in Rewards, config[r] # None,
         r \notin overstated
  PROVE  /\ \A v \in Users :
              /\ owed_by(r)[v] = owed(index[r].index, user_data[r][v])
              /\ owed_by(r)[v] \in Nat
         /\ 2 * RAY * paid[r] + SumFunctionOnSet(owed_by(r), Users)
              <= limit(offer[r], index[r].last_update_timestamp)
<1>1. \A v \in Users : owed_by(r)[v] = owed(index[r].index, user_data[r][v])
  BY DEF owed_by
<1> QED BY <1>1, EntryTypes DEF EInv, Accounted, WithinEmitted

(* A reward never configured has nothing to claim.                         *)
LEMMA NothingToClaim ==
  ASSUME NEW r \in Rewards, NEW u \in Users, Accounted(r), config[r] = None
  PROVE  user_data[r][u].accrued = 0
BY DEF Accounted, NoEntry

(* Claims of what is already accrued.                                      *)
LEMMA ClaimAccounts ==
  ASSUME IInv, AInv, EInv, NEW u \in Users, NEW as \in SUBSET Assets,
         NEW token \in RewardTokens, NEW amount \in Nat,
         claim_rewards(u, as, token, amount)
  PROVE  EInv'
<1>1. PICK taken \in [Rewards -> Nat] :
        /\ \A r \in Rewards : taken[r] <= user_data[r][u].accrued
        /\ user_data' = [r \in Rewards |->
             [user_data[r] EXCEPT ![u].accrued = @ - taken[r]]]
        /\ pay_out(taken)
  BY ClaimTakes DEF AInv
<1>2. /\ UNCHANGED <<now, config, index, offer, overstated, balance>>
      /\ paid' = [r \in Rewards |-> paid[r] + taken[r]]
  BY <1>1 DEF claim_rewards, pay_out
<1>3. SupplyBounded'
  BY <1>2, SameBalances DEF EInv, SupplyBounded
<1>4. ASSUME NEW r \in Rewards
      PROVE  Accounted(r)'
  <2> DEFINE d == user_data[r][u]
             n == taken[r]
  <2>1. /\ now \in Nat /\ user_data[r] \in [Users -> UserRewardData]
        /\ Accounted(r) /\ paid[r] \in Nat /\ d \in UserRewardData
        /\ n \in Nat /\ n <= d.accrued /\ paid'[r] = paid[r] + n
        /\ index[r] \in AssetRewardIndex \union {None}
    BY <1>1, <1>2, EntryTypes DEF EInv, AInv, AccountsTyped
  <2>2. user_data'[r] =
          [user_data[r] EXCEPT ![u] = [d EXCEPT !.accrued = @ - n]]
    BY <1>1
  <2>3. CASE config[r] = None
    <3>1. d.accrued = 0 /\ n = 0
      BY <2>1, <2>3, NothingToClaim
    <3>2. [d EXCEPT !.accrued = @ - n] = d
      BY <2>1, <3>1 DEF UserRewardData
    <3>3. user_data'[r] = user_data[r] /\ paid'[r] = paid[r]
      BY <2>1, <2>2, <3>1, <3>2
    <3>4. r \notin overstated' => Covered(r)'
      BY <1>2, <2>1, <3>3 DEF Accounted, Covered
    <3> QED BY <1>2, <2>1, <3>3, <3>4, SameEntry
  <2>4. CASE config[r] # None
    <3>1. /\ index'[r] = index[r] /\ index[r] \in AssetRewardIndex
          /\ d.index_snapshot <= index[r].index
      BY <1>2, <2>4, EntryTypes
    <3>2. r \notin overstated =>
            /\ \A v \in Users : owed_by(r)[v] = owed(index'[r].index,
                     IF v = u THEN d ELSE user_data[r][v])
            /\ \A v \in Users : owed_by(r)[v] \in Nat
            /\ 2 * RAY * paid[r] + SumFunctionOnSet(owed_by(r), Users)
                 <= limit(offer[r], index'[r].last_update_timestamp)
      BY <2>4, <3>1, OwedBefore
    <3>3. d.balance_snapshot = user_data[r][u].balance_snapshot
      OBVIOUS
    <3> HIDE DEF d, n
    <3> QED BY <1>2, <2>1, <2>2, <2>4, <3>1, <3>2, <3>3, PaidEntry
  <2> QED BY <2>3, <2>4
<1> QED BY <1>3, <1>4 DEF EInv

(* Taking all that is accrued leaves nothing accrued.                      *)
LEMMA AccruedTaken ==
  ASSUME NEW d \in UserRewardData
  PROVE  /\ [d EXCEPT !.accrued = @ - d.accrued] = [d EXCEPT !.accrued = 0]
         /\ d.accrued = 0 => [d EXCEPT !.accrued = 0] = d
BY DEF UserRewardData

(* A claim of everything, with the indices moved first.                    *)
LEMMA ClaimAllAccounts ==
  ASSUME IInv, AInv, EInv, NEW u \in Users, NEW as \in SUBSET Assets,
         claim_all_rewards(u, as)
  PROVE  EInv'
<1> DEFINE listed == {r \in Rewards :
                        r[1] \in as /\ r[2] \in reward_tokens[r[1]]}
           d(r) == refreshed_data(u, as, r)
           taken == [r \in Rewards |-> IF r \in listed THEN d(r).accrued
                                                       ELSE 0]
<1>1. /\ index' = [r \in Rewards |->
           IF r \in refreshed_in(as) THEN moved_index(r) ELSE index[r]]
      /\ user_data' = [r \in Rewards |-> IF r \in listed
           THEN [user_data[r] EXCEPT ![u] = [d(r) EXCEPT !.accrued = 0]]
           ELSE user_data[r]]
      /\ pay_out(taken)
      /\ UNCHANGED <<now, config, balance, offer, overstated>>
  BY ClaimAllParts
<1>2. paid' = [r \in Rewards |-> paid[r] + taken[r]]
  BY <1>1 DEF pay_out
<1>3. SupplyBounded'
  BY <1>1, SameBalances DEF EInv, SupplyBounded
<1>4. ASSUME NEW r \in Rewards
      PROVE  Accounted(r)'
  <2> DEFINE n == taken[r]
  <2>1. /\ now \in Nat /\ user_data[r] \in [Users -> UserRewardData]
        /\ Accounted(r) /\ paid[r] \in Nat
        /\ d(r) \in UserRewardData
        /\ d(r).index_snapshot = IF r \in refreshed_in(as)
             THEN moved_index(r).index ELSE user_data[r][u].index_snapshot
        /\ index[r] \in AssetRewardIndex \union {None}
    BY EntryTypes, RefreshedTyped DEF EInv, AInv, AccountsTyped
  <2>4. /\ index'[r] = IF r \in refreshed_in(as) THEN moved_index(r)
                                                 ELSE index[r]
        /\ user_data'[r] = IF r \in listed
             THEN [user_data[r] EXCEPT ![u] = [d(r) EXCEPT !.accrued = 0]]
             ELSE user_data[r]
        /\ n = IF r \in listed THEN d(r).accrued ELSE 0
        /\ paid'[r] = paid[r] + n
        /\ UNCHANGED <<now, config, balance, offer, overstated>>
    BY <1>1, <1>2
  <2>5. r \notin listed => r \notin refreshed_in(as)
    BY DEF refreshed_in
  <2>6. d(r).accrued \in Nat
    BY <2>1 DEF UserRewardData
  <2>7. r \notin refreshed_in(as) => d(r) = user_data[r][u]
    BY DEF refreshed_data
  <2>8. ASSUME index'[r] = index[r], user_data'[r] = user_data[r],
               paid'[r] = paid[r]
        PROVE  Accounted(r)'
    <3>1. r \notin overstated' => Covered(r)'
      BY <2>1, <2>4, <2>8 DEF Accounted, Covered
    <3> HIDE DEF d, n, listed
    <3> QED BY <2>1, <2>4, <2>8, <3>1, SameEntry
  <2> HIDE DEF d, n, listed, taken
  <2>2. CASE r \notin listed
    BY <2>1, <2>2, <2>4, <2>5, <2>8
  <2>3. CASE r \in listed
    <3>1. n = d(r).accrued /\ n \in Nat
      BY <2>3, <2>4, <2>6
    <3>2. user_data'[r] =
            [user_data[r] EXCEPT ![u] = [d(r) EXCEPT !.accrued = @ - n]]
      <4>1. [d(r) EXCEPT !.accrued = @ - d(r).accrued]
              = [d(r) EXCEPT !.accrued = 0]
        BY <2>1, AccruedTaken
      <4> QED BY <2>3, <2>4, <3>1, <4>1
    <3>3. CASE config[r] = None
      <4>1. r \notin refreshed_in(as)
        BY <3>3 DEF refreshed_in, is_active
      <4>2. n = 0 /\ d(r) = user_data[r][u]
        BY <2>1, <2>7, <3>1, <3>3, <4>1, NothingToClaim
      <4>3. [d(r) EXCEPT !.accrued = 0] = d(r)
        BY <2>1, <3>1, <4>2, AccruedTaken
      <4>4. user_data'[r] = user_data[r]
        BY <2>1, <2>3, <2>4, <4>2, <4>3
      <4> QED BY <2>1, <2>4, <2>8, <4>1, <4>2, <4>4
    <3>4. CASE config[r] # None /\ r \notin refreshed_in(as)
      <4>1. d(r) = user_data[r][u]
        BY <2>7, <3>4
      <4>2. /\ index'[r] = index[r] /\ index[r] \in AssetRewardIndex
            /\ d(r).index_snapshot <= index[r].index
        BY <2>4, <3>4, <4>1, EntryTypes
      <4>3. r \notin overstated =>
              /\ \A v \in Users : owed_by(r)[v] = owed(index'[r].index,
                       IF v = u THEN d(r) ELSE user_data[r][v])
              /\ \A v \in Users : owed_by(r)[v] \in Nat
              /\ 2 * RAY * paid[r] + SumFunctionOnSet(owed_by(r), Users)
                   <= limit(offer[r], index'[r].last_update_timestamp)
        BY <3>4, <4>1, <4>2, OwedBefore
      <4>4. d(r).balance_snapshot = user_data[r][u].balance_snapshot
        BY <4>1
      <4>5. n <= d(r).accrued
        BY <3>1
      <4> QED BY <2>1, <2>4, <3>1, <3>2, <3>4, <4>2, <4>3, <4>4, <4>5,
                 PaidEntry
    <3>5. CASE config[r] # None /\ r \in refreshed_in(as)
      <4> DEFINE e == moved_index(r)
                 bal == balance[r[1]]
                 b == user_data[r][u].balance_snapshot
                 h == [v \in Users |-> owed(e.index,
                         IF v = u THEN d(r) ELSE user_data[r][v])]
      <4>1. /\ is_active(r) /\ index'[r] = e /\ e \in AssetRewardIndex
            /\ e.last_update_timestamp = now
        BY <2>4, <3>5, MovedIndexTyped DEF refreshed_in
      <4>2. /\ bal \in [Users -> Nat] /\ r[1] \in Assets
            /\ SumFunctionOnSet(bal, Users) <= MaxSupply
        BY RewardParts
           DEF IInv, ListsTyped, EInv, SupplyBounded, total_supply
      <4>3. e = update_asset_reward_index(config[r], index[r],
                                          SumFunctionOnSet(bal, Users))
        <5>1. queried_supply(r[1]) = total_supply(r[1])
          BY <3>5, <4>2, QueriedSupply DEF refreshed_in
        <5> QED BY <3>5, <5>1, EntryTypes DEF moved_index, total_supply
      <4>4. d(r) = with_accrued(user_data[r][u], e.index, b, b)
        BY <3>5 DEF refreshed_data, d
      <4>5. d(r).balance_snapshot = b /\ b \in Nat
        BY <2>1, <4>4 DEF with_accrued, UserRewardData
      <4>6. ASSUME r \notin overstated
            PROVE  /\ \A v \in Users : h[v] \in Nat
                   /\ 2 * RAY * paid[r] + SumFunctionOnSet(h, Users)
                        <= limit(offer[r], now)
        <5>1. \A v \in Users : user_data[r][v].balance_snapshot <= bal[v]
          BY <2>1, <4>6 DEF Accounted, Covered
        <5>2. ASSUME NEW v \in Users
              PROVE  \/ /\ h[v] = owed(e.index, user_data[r][v])
                        /\ user_data[r][v].balance_snapshot <= bal[v]
                     \/ \E earning, new \in Nat :
                          /\ earning <= user_data[r][v].balance_snapshot
                          /\ earning <= bal[v]
                          /\ h[v] = owed(e.index, with_accrued(user_data[r][v],
                                                    e.index, earning, new))
          <6>1. CASE v # u
            BY <5>1, <6>1
          <6>2. CASE v = u
            <7>1. h[v] = owed(e.index, with_accrued(user_data[r][v], e.index,
                                                    b, b))
              BY <4>4, <6>2
            <7>2. b <= user_data[r][v].balance_snapshot /\ b <= bal[v]
              BY <4>5, <5>1, <6>2
            <7> HIDE DEF h, e
            <7> QED BY <4>5, <7>1, <7>2
          <6> QED BY <6>1, <6>2
        <5> HIDE DEF h, e, bal
        <5> QED BY <3>5, <4>2, <4>3, <4>6, <5>2, EntryMoves
      <4>7. d(r).index_snapshot = e.index
        BY <2>1, <3>5
      <4>8. d(r).index_snapshot <= index'[r].index
        BY <4>1, <4>7 DEF AssetRewardIndex
      <4>9. r \notin overstated =>
              \E g : /\ \A v \in Users : g[v] = owed(index'[r].index,
                          IF v = u THEN d(r) ELSE user_data[r][v])
                     /\ \A v \in Users : g[v] \in Nat
                     /\ 2 * RAY * paid[r] + SumFunctionOnSet(g, Users)
                          <= limit(offer[r], index'[r].last_update_timestamp)
        <5>1. \A v \in Users : h[v] = owed(index'[r].index,
                          IF v = u THEN d(r) ELSE user_data[r][v])
          BY <4>1
        <5> HIDE DEF h, e
        <5> QED BY <4>1, <4>6, <5>1
      <4>10. n <= d(r).accrued
        BY <3>1
      <4>11. index'[r] \in AssetRewardIndex
             /\ index'[r].last_update_timestamp = now
        BY <4>1
      <4>12. d(r).balance_snapshot = user_data[r][u].balance_snapshot
        BY <4>5
      <4> HIDE DEF e, b, h, bal
      <4> QED BY <2>1, <2>4, <3>1, <3>2, <3>5, <4>8, <4>9, <4>10, <4>11,
                 <4>12, PaidEntry
    <3> QED BY <3>3, <3>4, <3>5
  <2> QED BY <2>2, <2>3
<1> QED BY <1>3, <1>4 DEF EInv

(* A configuration is stored: the offer spans it and the one before, and   *)
(* the index is where it was, or moved to the present first.               *)
LEMMA StoredEntry ==
  ASSUME IInv, AInv, EInv, NEW r \in Rewards, NEW c \in AssetRewardConfig,
         config'[r] = c, offer'[r] = widened(offer[r], c), config[r] # None,
         UNCHANGED <<now, user_data, paid, overstated, balance>>,
         \/ index'[r] = index[r]
         \/ index'[r] = index_until_now(r)
  PROVE  Accounted(r)'
<1> DEFINE o == offer[r]
           p == widened(o, c)
           e == index'[r]
<1>1. /\ now \in Nat /\ user_data[r] \in [Users -> UserRewardData]
      /\ Accounted(r) /\ paid[r] \in Nat /\ config[r] \in AssetRewardConfig
      /\ index[r] \in AssetRewardIndex /\ o \in Offer
      /\ current_index(r) = index[r]
  BY EntryTypes DEF EInv
<1>2. /\ p \in Offer /\ p.since = o.since /\ o.rate <= p.rate
      /\ o.until <= p.until
      /\ c.emission_per_second <= p.rate /\ end_of(c) <= p.until
  BY <1>1, WidenedSpans
<1>3. c # None /\ p # None
  BY <1>2, NoEntryAssumption
<1>4. InOrder(r) /\ (r \notin overstated => Covered(r) /\ WithinEmitted(r))
  BY <1>1 DEF Accounted
<1>5. Covered(r)' <=> Covered(r)
  BY DEF Covered
<1> HIDE DEF o, p, e
<1>6. /\ e \in AssetRewardIndex /\ o.since <= e.last_update_timestamp
      /\ e.last_update_timestamp <= now
      /\ r \notin overstated =>
           /\ \A v \in Users : owed_by(r)'[v] \in Nat
           /\ 2 * RAY * paid[r] + SumFunctionOnSet(owed_by(r)', Users)
                <= limit(o, e.last_update_timestamp)
  <2>1. CASE e = index[r]
    <3>1. owed_by(r)' = owed_by(r)
      BY <2>1 DEF owed_by, e
    <3>2. r \notin overstated => \A v \in Users : owed_by(r)'[v] \in Nat
      BY <3>1, OwedBefore
    <3> QED BY <1>1, <1>4, <2>1, <3>1, <3>2 DEF InOrder, WithinEmitted, o
  <2>2. CASE e = index_until_now(r) /\ e # index[r]
    <3> DEFINE bal == balance[r[1]]
    <3>1. is_active(r) /\ e = moved_index(r) /\ queried_supply(r[1]) > 0
      BY <1>1, <2>2 DEF index_until_now, moved_index
    <3>2. e \in AssetRewardIndex /\ e.last_update_timestamp = now
      BY <3>1, MovedIndexTyped
    <3>3. /\ bal \in [Users -> Nat]
          /\ SumFunctionOnSet(bal, Users) <= MaxSupply
      BY RewardParts DEF IInv, ListsTyped, EInv, SupplyBounded, total_supply
    <3>4. e = update_asset_reward_index(config[r], index[r],
                                        SumFunctionOnSet(bal, Users))
      <4>1. queried_supply(r[1]) = total_supply(r[1])
        BY <3>1, QueriedSupply, RewardParts
      <4> QED BY <1>1, <3>1, <4>1 DEF moved_index, total_supply
    <3>5. o.since <= now
      BY <1>1, <1>4 DEF InOrder, Offer, AssetRewardIndex, o
    <3>6. ASSUME r \notin overstated
          PROVE  /\ \A v \in Users : owed_by(r)'[v] \in Nat
                 /\ 2 * RAY * paid[r] + SumFunctionOnSet(owed_by(r)', Users)
                      <= limit(o, now)
      <4>1. \A v \in Users :
              /\ owed_by(r)'[v] = owed(e.index, user_data[r][v])
              /\ user_data[r][v].balance_snapshot <= bal[v]
        BY <1>4, <3>6 DEF owed_by, Covered, e
      <4> DEFINE h == owed_by(r)'
      <4> HIDE DEF h, bal
      <4>2. \A v \in Users : /\ h[v] = owed(e.index, user_data[r][v])
                             /\ user_data[r][v].balance_snapshot <= bal[v]
        BY <4>1 DEF h
      <4>3. /\ \A v \in Users : h[v] \in Nat
            /\ 2 * RAY * paid[r] + SumFunctionOnSet(h, Users)
                 <= limit(offer[r], now)
        BY <3>3, <3>4, <3>6, <4>2, EntryMoves
      <4> QED BY <4>3 DEF h, o
    <3> QED BY <1>1, <3>2, <3>5, <3>6
  <2> QED BY <2>1, <2>2 DEF e
<1>7. InOrder(r)'
  <2>1. e # None
    BY <1>6, NoEntryAssumption
  <2> QED BY <1>2, <1>3, <1>6, <2>1 DEF InOrder, o, p, e
<1>8. r \notin overstated => WithinEmitted(r)'
  <2> DEFINE last == e.last_update_timestamp
             sum == 2 * RAY * paid[r] + SumFunctionOnSet(owed_by(r)', Users)
  <2>1. last \in Nat
    BY <1>6 DEF AssetRewardIndex
  <2>2. /\ limit(o, last) <= limit(p, last)
        /\ limit(o, last) \in Nat /\ limit(p, last) \in Nat
    <3>1. last <= last
      BY <2>1
    <3> HIDE DEF last
    <3> QED BY <1>1, <1>2, <2>1, <3>1, LimitGrows, LimitNat
  <2>3. r \notin overstated => sum \in Nat /\ sum <= limit(o, last)
    <3> SUFFICES ASSUME r \notin overstated
                 PROVE  sum \in Nat /\ sum <= limit(o, last)
      OBVIOUS
    <3>1. SumFunctionOnSet(owed_by(r)', Users) \in Nat
      BY <1>6, SumNat, IncentivesAssumption
    <3> QED BY <1>6, <3>1, EntryTypes
  <2> HIDE DEF last, sum
  <2>4. r \notin overstated => sum <= limit(p, last)
    BY <2>2, <2>3
  <2> QED BY <2>4 DEF WithinEmitted, last, sum, p, o, e
<1> QED BY <1>3, <1>4, <1>5, <1>7, <1>8 DEF Accounted

(* The first configuration of a reward: nothing is owed and nothing paid.  *)
LEMMA FirstEntry ==
  ASSUME IInv, AInv, EInv, NEW r \in Rewards, NEW c \in AssetRewardConfig,
         config'[r] = c, offer'[r] = widened(offer[r], c), config[r] = None,
         UNCHANGED <<now, user_data, paid, overstated, balance>>,
         index'[r] = current_index(r)
  PROVE  Accounted(r)'
<1> DEFINE p == widened(None, c)
<1>1. /\ now \in Nat /\ RAY \in Nat /\ Accounted(r)
  BY EntryTypes DEF EInv
<1>2. NoEntry(r)
  BY <1>1 DEF Accounted
<1>3. index'[r] = [index |-> RAY, last_update_timestamp |-> now]
  BY <1>2 DEF NoEntry, current_index
<1>4. /\ offer'[r] = p /\ p \in Offer /\ p.since = now
      /\ c.emission_per_second <= p.rate /\ end_of(c) <= p.until
  BY <1>1, <1>2, WidenedSpans DEF NoEntry
<1>5. index'[r] \in AssetRewardIndex
  BY <1>1, <1>3 DEF AssetRewardIndex
<1>6. c # None /\ p # None /\ index'[r] # None
  BY <1>4, <1>5, NoEntryAssumption
<1> HIDE DEF p
<1>7. InOrder(r)'
  BY <1>1, <1>3, <1>4, <1>6 DEF InOrder
<1>8. r \notin overstated => Covered(r)'
  BY <1>1 DEF Accounted, Covered
<1>9. WithinEmitted(r)'
  <2> DEFINE h == owed_by(r)'
             fresh == [accrued |-> 0, index_snapshot |-> RAY,
                       balance_snapshot |-> 0]
  <2>1. \A u \in Users : h[u] = owed(RAY, fresh)
    BY <1>2, <1>3 DEF NoEntry, owed_by
  <2>2. owed(RAY, fresh) = 0
    <3>1. owed(RAY, fresh) = 2 * RAY * 0 + 2 * (0 * (RAY - RAY)) + 0
      BY DEF owed
    <3> QED BY <1>1, <3>1
  <2> HIDE DEF h, fresh
  <2>3. SumFunctionOnSet(h, Users) = 0
    BY <2>1, <2>2, SumOfZeros, IncentivesAssumption
  <2>4. 2 * RAY * paid'[r] = 0
    BY <1>1, <1>2 DEF NoEntry
  <2>5. limit(p, now) \in Nat
    BY <1>1, <1>4, LimitNat
  <2>6. offer'[r] = p /\ index'[r].last_update_timestamp = now
    BY <1>3, <1>4
  <2> QED BY <2>3, <2>4, <2>5, <2>6 DEF WithinEmitted, h
<1> QED BY <1>6, <1>7, <1>8, <1>9 DEF Accounted

(* The emission manager's calls.                                           *)
LEMMA ManagerAccounts ==
  ASSUME IInv, AInv, EInv, NEW r \in Rewards, NEW c \in AssetRewardConfig,
         set_asset_reward_config(r, c),
         UNCHANGED <<now, user_data, paid, overstated, balance>>,
         \/ index' = [index EXCEPT ![r] = current_index(r)]
         \/ /\ config[r] # None
            /\ index' = [index EXCEPT ![r] = index_until_now(r)]
         \/ config[r] # None /\ index' = index
  PROVE  EInv'
<1>1. /\ config' = [config EXCEPT ![r] = c]
      /\ offer' = [offer EXCEPT ![r] = widened(offer[r], c)]
  BY DEF set_asset_reward_config
<1>2. /\ config \in [Rewards -> AssetRewardConfig \union {None}]
      /\ index \in [Rewards -> AssetRewardIndex \union {None}]
      /\ offer \in [Rewards -> Offer \union {None}]
  BY DEF IInv, ListsTyped, AInv, AccountsTyped
<1>3. SupplyBounded'
  BY SameBalances DEF EInv, SupplyBounded
<1>4. Accounted(r)'
  <2>1. config'[r] = c /\ offer'[r] = widened(offer[r], c)
    BY <1>1, <1>2
  <2>2. CASE config[r] = None
    <3>1. index'[r] = current_index(r)
      BY <1>2, <2>2
    <3> QED BY <2>1, <2>2, <3>1, FirstEntry
  <2>3. CASE config[r] # None
    <3>1. index'[r] = index[r] \/ index'[r] = index_until_now(r)
      <4>1. current_index(r) = index[r]
        BY <2>3, EntryTypes
      <4> QED BY <1>2, <4>1
    <3> QED BY <2>1, <2>3, <3>1, StoredEntry
  <2> QED BY <2>2, <2>3
<1>5. ASSUME NEW q \in Rewards, q # r
      PROVE  Accounted(q)'
  <2>1. /\ config'[q] = config[q] /\ offer'[q] = offer[q]
        /\ index'[q] = index[q]
    BY <1>1, <1>2, <1>5
  <2>2. /\ now \in Nat /\ Accounted(q)
        /\ index[q] # None => index[q] \in AssetRewardIndex
    BY <1>2, EntryTypes DEF EInv
  <2>3. q \notin overstated' => Covered(q)'
    BY <2>2 DEF Accounted, Covered
  <2> QED BY <2>1, <2>2, <2>3, SameEntry
<1> QED BY <1>3, <1>4, <1>5 DEF EInv

(* Time, pausing, funding and the deletion of a token touch no account.    *)
LEMMA RestAccounts ==
  ASSUME IInv, AInv, EInv, now' \in Nat, now <= now', now' <= MaxTime,
         UNCHANGED <<config, index, offer, user_data, paid, overstated,
                     balance>>
  PROVE  EInv'
<1>1. SupplyBounded'
  BY SameBalances DEF EInv
<1>2. ASSUME NEW q \in Rewards
      PROVE  Accounted(q)'
  <2>1. /\ now \in Nat /\ Accounted(q)
        /\ index[q] # None => index[q] \in AssetRewardIndex
    BY EntryTypes DEF EInv, AInv, AccountsTyped
  <2>2. q \notin overstated' => Covered(q)'
    BY <2>1 DEF Accounted, Covered
  <2> QED BY <2>1, <2>2, SameEntry
<1> QED BY <1>1, <1>2 DEF EInv

(* Nothing is owed when the contract is deployed.                          *)
LEMMA EmissionStart == Init => EInv
<1> SUFFICES ASSUME Init PROVE EInv
  OBVIOUS
<1>1. /\ now = 0 /\ config = [r \in Rewards |-> None]
      /\ index = [r \in Rewards |-> None]
      /\ user_data = [r \in Rewards |-> [u \in Users |->
           [accrued |-> 0, index_snapshot |-> RAY, balance_snapshot |-> 0]]]
      /\ balance = [a \in Assets |-> [u \in Users |-> 0]]
      /\ paid = [r \in Rewards |-> 0]
      /\ offer = [r \in Rewards |-> None]
  BY DEF Init
<1>2. \A a \in Assets : total_supply(a) = 0
  <2> TAKE a \in Assets
  <2> DEFINE b == balance[a]
  <2>1. \A u \in Users : b[u] = 0
    BY <1>1
  <2> HIDE DEF b
  <2>2. SumFunctionOnSet(b, Users) = 0
    BY <2>1, SumOfZeros, IncentivesAssumption
  <2> QED BY <2>2 DEF total_supply, b
<1>3. SupplyBounded
  BY <1>1, <1>2, IncentivesAssumption DEF SupplyBounded
<1>4. ASSUME NEW r \in Rewards
      PROVE  Accounted(r)
  <2>1. config[r] = None /\ NoEntry(r)
    BY <1>1 DEF NoEntry
  <2>2. Covered(r)
    BY <1>1, RewardParts DEF Covered
  <2> QED BY <2>1, <2>2 DEF Accounted
<1> QED BY <1>3, <1>4 DEF EInv

(* Every call keeps what is owed within the offers.                        *)
LEMMA EmissionStep == IInv /\ AInv /\ EInv /\ [Next]_vars => EInv'
<1> SUFFICES ASSUME IInv, AInv, EInv, [Next]_vars PROVE EInv'
  OBVIOUS
<1>0. now \in Nat /\ now <= MaxTime /\ MaxTime \in Nat
  BY IncentivesAssumption DEF IInv, ListsTyped, EInv, SupplyBounded
<1>1. CASE Tick
  BY <1>0, <1>1, RestAccounts DEF Tick, storage_vars, history_vars
<1>2. ASSUME NEW a \in Assets, NEW u \in Users, NEW n \in Amounts,
             \/ Mint(a, u, n)
             \/ Burn(a, u, n)
             \/ \E to \in Users : TransferTokens(a, u, to, n)
      PROVE  EInv'
  <2>1. PICK changed \in SUBSET Users, bal \in [Users -> Nat] :
          /\ ChangeBalances(a, changed, bal)
          /\ SumFunctionOnSet(bal, Users) <= MaxSupply
    BY <1>2, SupplyStaysBounded
  <2> QED BY <2>1, ReportAccounts
<1>3. ASSUME NEW u \in Users, NEW as \in SUBSET Assets,
             \/ claim_all_rewards(u, as)
             \/ \E t \in RewardTokens, n \in Claims :
                  claim_rewards(u, as, t, n)
      PROVE  EInv'
  BY <1>3, ClaimAccounts, ClaimAllAccounts, IncentivesAssumption
<1>4. ASSUME NEW r \in Rewards,
             \/ \E e \in Emissions, end \in Ends :
                  configure_asset_rewards(r, e, end)
             \/ \E e \in Emissions : set_emission_per_second(r, e)
             \/ \E end \in Ends : set_distribution_end(r, end)
             \/ remove_asset_reward(r)
      PROVE  EInv'
  <2>1. ASSUME NEW e \in Emissions, NEW end \in Ends,
               configure_asset_rewards(r, e, end)
        PROVE  EInv'
    <3> DEFINE c == [emission_per_second |-> e, distribution_end |-> end,
                     is_active |-> TRUE]
    <3>1. /\ c \in AssetRewardConfig /\ set_asset_reward_config(r, c)
          /\ index' = [index EXCEPT ![r] = current_index(r)]
          /\ UNCHANGED <<now, user_data, paid, overstated, balance>>
      BY <2>1, StoredConfigs, IncentivesAssumption DEF configure_asset_rewards
    <3> HIDE DEF c
    <3> QED BY <3>1, ManagerAccounts
  <2>2. ASSUME NEW e \in Emissions, set_emission_per_second(r, e)
        PROVE  EInv'
    <3> DEFINE c == [config[r] EXCEPT !.emission_per_second = e]
    <3>1. /\ config[r] # None /\ set_asset_reward_config(r, c)
          /\ index' = [index EXCEPT ![r] = index_until_now(r)]
          /\ UNCHANGED <<now, user_data, paid, overstated, balance>>
      BY <2>2 DEF set_emission_per_second
    <3>2. c \in AssetRewardConfig
      <4>1. e \in Nat /\ 0 \in Nat
        BY IncentivesAssumption
      <4> QED BY <3>1, <4>1, StoredConfigs
    <3> HIDE DEF c
    <3> QED BY <3>1, <3>2, ManagerAccounts
  <2>3. ASSUME NEW end \in Ends, set_distribution_end(r, end)
        PROVE  EInv'
    <3> DEFINE c == [config[r] EXCEPT !.distribution_end = end]
    <3>1. /\ config[r] # None /\ set_asset_reward_config(r, c)
          /\ index' = index
          /\ UNCHANGED <<now, user_data, paid, overstated, balance>>
      BY <2>3 DEF set_distribution_end
    <3>2. c \in AssetRewardConfig
      <4>1. end \in Nat /\ 0 \in Nat
        BY IncentivesAssumption
      <4> QED BY <3>1, <4>1, StoredConfigs
    <3> HIDE DEF c
    <3> QED BY <3>1, <3>2, ManagerAccounts
  <2>4. ASSUME remove_asset_reward(r)
        PROVE  EInv'
    <3> DEFINE c == [config[r] EXCEPT !.is_active = FALSE]
    <3>1. /\ config[r] # None /\ set_asset_reward_config(r, c)
          /\ index' = index
          /\ UNCHANGED <<now, user_data, paid, overstated, balance>>
      BY <2>4 DEF remove_asset_reward
    <3>2. c \in AssetRewardConfig
      <4>1. 0 \in Nat
        OBVIOUS
      <4> QED BY <3>1, <4>1, StoredConfigs
    <3> HIDE DEF c
    <3> QED BY <3>1, <3>2, ManagerAccounts
  <2> QED BY <1>4, <2>1, <2>2, <2>3, <2>4
<1>5. CASE \E a \in Assets, t \in RewardTokens : delete_reward_token(a, t)
  BY <1>0, <1>5, RestAccounts DEF delete_reward_token, history_vars
<1>6. CASE \E value \in BOOLEAN : SetPaused(value)
  BY <1>0, <1>6, RestAccounts DEF SetPaused, history_vars
<1>7. CASE \E t \in RewardTokens, n \in Fundings : fund_rewards(t, n)
  BY <1>0, <1>7, RestAccounts DEF fund_rewards, storage_vars, history_vars
<1>8. CASE UNCHANGED vars
  BY <1>0, <1>8, RestAccounts DEF vars, storage_vars, history_vars
<1> QED BY <1>1, <1>2, <1>3, <1>4, <1>5, <1>6, <1>7, <1>8 DEF Next

(* What is owed with the rounding to come bounds what is credited.         *)
LEMMA WithinNow ==
  ASSUME IInv, AInv, EInv, NEW r \in Rewards, config[r] # None,
         r \notin overstated
  PROVE  distributed(r) <= 2 * RAY * emittable(r)
           + now * (MaxSupply + RAY * Cardinality(Users))
<1> DEFINE i == index[r]
           o == offer[r]
           last == i.last_update_timestamp
           c == [u \in Users |-> credited(r, u)]
           h == owed_by(r)
           p == 2 * RAY * paid[r]
<1>1. /\ now \in Nat /\ RAY \in Nat /\ p \in Nat /\ o \in Offer
      /\ i \in AssetRewardIndex /\ last \in Nat
      /\ user_data[r] \in [Users -> UserRewardData]
      /\ \A u \in Users : /\ user_data[r][u].index_snapshot <= i.index
                          /\ h[u] \in Nat
      /\ p + SumFunctionOnSet(h, Users) <= limit(o, last)
      /\ last <= now
  BY EntryTypes, OwedBefore DEF EInv, Accounted, InOrder, AssetRewardIndex
<1>2. ASSUME NEW u \in Users
      PROVE  c[u] \in Nat /\ c[u] <= h[u]
  <2> DEFINE d == user_data[r][u]
             x == i.index - d.index_snapshot
             b == d.balance_snapshot
             a == d.accrued
             flag == IF i.index = d.index_snapshot THEN 0 ELSE RAY
  <2>1. x \in Nat /\ b \in Nat /\ a \in Nat /\ flag \in Nat
    BY <1>1 DEF UserRewardData, AssetRewardIndex
  <2>2. /\ c[u] = 2 * RAY * a + 2 * b * x
        /\ h[u] = 2 * RAY * a + 2 * (b * x) + flag
    BY DEF credited, owed_by, owed
  <2> HIDE DEF d, x, b, a, flag, c, h
  <2>3. /\ 2 * RAY * a \in Nat /\ b * x \in Nat
        /\ 2 * b * x = 2 * (b * x)
    BY <1>1, <2>1, ProductNat
  <2> QED BY <2>1, <2>2, <2>3
<1>3. distributed(r) = p + SumFunctionOnSet(c, Users)
  BY DEF distributed, SumFunction
<1>4. limit(o, now) = 2 * RAY * emittable(r)
        + now * (MaxSupply + RAY * Cardinality(Users))
  BY DEF limit, emittable, emitted_until
<1> HIDE DEF c, h, p, last, o, i
<1>5. SumFunctionOnSet(c, Users) <= SumFunctionOnSet(h, Users)
  <2>1. \A u \in Users : /\ h[u] \in Nat /\ c[u] \in Nat /\ h[u] \in Nat
                         /\ c[u] <= h[u] + 0 * h[u] + 0
    BY <1>1, <1>2
  <2>2. 0 \in Nat
    OBVIOUS
  <2>3. SumFunctionOnSet(c, Users) <= SumFunctionOnSet(h, Users)
          + 0 * SumFunctionOnSet(h, Users) + 0 * Cardinality(Users)
    BY <2>1, <2>2, SumBound, IncentivesAssumption
  <2>4. SumFunctionOnSet(h, Users) \in Nat /\ Cardinality(Users) \in Nat
    BY <1>1, SumNat, IncentivesAssumption, FS_CardinalityType
  <2> QED BY <2>3, <2>4
<1>6. limit(o, last) <= limit(o, now)
  <2>1. o.rate <= o.rate /\ o.until <= o.until
    BY <1>1 DEF Offer
  <2> QED BY <1>1, <2>1, LimitGrows
<1>7. /\ SumFunctionOnSet(c, Users) \in Nat
      /\ SumFunctionOnSet(h, Users) \in Nat
      /\ limit(o, last) \in Nat /\ limit(o, now) \in Nat
  BY <1>1, <1>2, SumNat, LimitNat, IncentivesAssumption
<1>8. distributed(r) <= limit(o, now)
  BY <1>1, <1>3, <1>5, <1>6, <1>7
<1> QED BY <1>4, <1>8

(* No reward distributes more than the widest offer made of it has emitted *)
(* by now, up to the rounding, as long as every change of a balance was    *)
(* reported while the reward was active (incentives calculation.rs,        *)
(* contract.rs).                                                           *)
THEOREM DistributedWithinEmission == Spec => []RewardsWithinEmission
<1>1. Init => EInv
  BY EmissionStart
<1>2. IInv /\ AInv /\ EInv /\ [Next]_vars => EInv'
  BY EmissionStep
<1>3. IInv /\ AInv /\ EInv => RewardsWithinEmission
  BY WithinNow DEF RewardsWithinEmission
<1> QED
  BY <1>1, <1>2, <1>3, AccountsInductive, PTL DEF Spec

=============================================================================
