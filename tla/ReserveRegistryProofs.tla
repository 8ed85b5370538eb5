----------------------- MODULE ReserveRegistryProofs -----------------------
(***************************************************************************)
(* Theorems about the registry of reserves: for any assets, users, bounds  *)
(* on reserves and access lists, through any number of listings and drops. *)
(***************************************************************************)
EXTENDS ReserveRegistry, TLAPS

(***************************************************************************)
(* The inductive invariant.  The entries of a reserve can only be told to  *)
(* agree after a drop because ids lead back to one asset each; and no bit  *)
(* is ever read as another reserve's only because all bits are older than  *)
(* the next id, also those of dropped reserves.                            *)
(***************************************************************************)
IInv ==
  /\ TypeOK
  /\ EntriesAgree
  /\ BitsPredateFutureIds
  /\ UnlistedAssetsCarryNothing
  /\ DebtsAreFlagged
  /\ TokensReportToIncentives

(* What listings change, and what the positions of users are made of.      *)
registry == <<id_of, listed, asset_of, next_id>>

claims == <<deficit, holders, debtors, collateral, borrowing>>

LEMMA InitInv == Init => IInv
  <1> SUFFICES ASSUME Init PROVE IInv
    OBVIOUS
  <1> USE RegistryAssumption DEF Init
  <1>1. DOMAIN id_of = {} /\ DOMAIN asset_of = {} /\ listed = {}
    OBVIOUS
  <1>2. /\ id_of \in [DOMAIN id_of -> Ids]
        /\ asset_of \in [DOMAIN asset_of -> Assets]
    BY <1>1
  <1>3. TypeOK
    BY <1>1, <1>2 DEF TypeOK
  <1>4. EntriesAgree
    BY <1>1 DEF EntriesAgree
  <1>5. /\ BitsPredateFutureIds /\ UnlistedAssetsCarryNothing
        /\ DebtsAreFlagged /\ TokensReportToIncentives
    BY <1>1 DEF BitsPredateFutureIds, UnlistedAssetsCarryNothing,
                DebtsAreFlagged, TokensReportToIncentives
  <1> QED
    BY <1>3, <1>4, <1>5 DEF IInv

-----------------------------------------------------------------------------
(* A new reserve gets an id no reserve and no bit has had before.          *)
LEMMA ListingKeeps ==
  ASSUME IInv, NEW a \in Assets, InitReserve(a)
  PROVE  IInv' /\ \A u \in Users : assets_used(u)' \subseteq assets_used(u)
  <1> USE RegistryAssumption DEF IInv
  <1>1. /\ a \notin DOMAIN id_of /\ next_id \in Ids
        /\ next_id' = next_id + 1
        /\ id_of' = [x \in DOMAIN id_of \union {a} |->
                       IF x = a THEN next_id ELSE id_of[x]]
        /\ asset_of' = [i \in DOMAIN asset_of \union {next_id} |->
                          IF i = next_id THEN a ELSE asset_of[i]]
        /\ listed' = listed \union {a}
        /\ incentives' = incentives
        /\ token_incentives' =
             IF incentives = None THEN token_incentives
             ELSE [token_incentives EXCEPT ![a] = incentives]
    BY DEF InitReserve, id_from_counter, propagate_to_new, TypeOK, Ids,
           reporting
  <1>2. UNCHANGED <<whitelist, blacklist, has_whitelist, has_blacklist,
                    deficit, holders, debtors, collateral, borrowing>>
    BY DEF InitReserve, lists, flags, positions, bits
  <1>3. /\ DOMAIN id_of' = DOMAIN id_of \union {a}
        /\ DOMAIN asset_of' = DOMAIN asset_of \union {next_id}
        /\ id_of'[a] = next_id
        /\ \A x \in DOMAIN id_of : id_of'[x] = id_of[x]
        /\ asset_of'[next_id] = a
        /\ \A i \in DOMAIN asset_of \ {next_id} : asset_of'[i] = asset_of[i]
    BY <1>1
  <1>4. /\ listed = DOMAIN id_of
        /\ \A x \in listed : id_of[x] \in Ids /\ id_of[x] < next_id
    BY DEF EntriesAgree, TypeOK
  <1>5. /\ id_of' \in [DOMAIN id_of' -> Ids]
        /\ asset_of' \in [DOMAIN asset_of' -> Assets]
    BY <1>1, <1>4 DEF TypeOK
  <1>6. token_incentives' \in [Assets -> Incentives \union {None}]
    BY <1>1 DEF TypeOK
  <1>7. TypeOK'
    BY <1>1, <1>2, <1>3, <1>5, <1>6 DEF TypeOK, Ids
  <1>8. EntriesAgree'
    <2>1. DOMAIN asset_of' = {id_of'[x] : x \in listed'}
      <3>1. \A x \in listed : id_of'[x] = id_of[x]
        BY <1>3, <1>4
      <3>2. ASSUME NEW i
            PROVE  (\E x \in listed' : i = id_of'[x])
                     <=> (i = next_id \/ \E x \in listed : i = id_of[x])
        <4>1. ASSUME NEW x \in listed', i = id_of'[x]
              PROVE  i = next_id \/ \E y \in listed : i = id_of[y]
          BY <1>1, <1>3, <3>1, <4>1
        <4>2. ASSUME NEW x \in listed, i = id_of[x]
              PROVE  \E y \in listed' : i = id_of'[y]
          BY <1>1, <3>1, <4>2
        <4>3. a \in listed' /\ id_of'[a] = next_id
          BY <1>1, <1>3
        <4> QED
          BY <4>1, <4>2, <4>3
      <3>3. DOMAIN asset_of' = {id_of[x] : x \in listed} \union {next_id}
        BY <1>3 DEF EntriesAgree
      <3> QED
        BY <3>2, <3>3
    <2>2. ASSUME NEW x \in listed'
          PROVE  id_of'[x] < next_id' /\ asset_of'[id_of'[x]] = x
      <3>1. CASE x = a
        BY <1>1, <1>3, <3>1 DEF Ids
      <3>2. CASE x # a
        <4>1. /\ x \in listed /\ id_of'[x] = id_of[x]
              /\ id_of[x] \in DOMAIN asset_of
          BY <1>1, <1>3, <1>4, <3>2 DEF EntriesAgree
        <4>2. id_of[x] < next_id /\ id_of[x] # next_id /\ asset_of[id_of[x]] = x
          BY <1>1, <1>4, <4>1 DEF EntriesAgree, Ids
        <4> QED
          BY <1>1, <1>3, <1>4, <4>1, <4>2 DEF Ids
      <3> QED
        BY <3>1, <3>2
    <2> QED
      BY <1>1, <1>3, <1>4, <2>1, <2>2 DEF EntriesAgree
  <1>9. BitsPredateFutureIds'
    <2> SUFFICES ASSUME NEW u \in Users,
                        NEW i \in collateral[u] \union borrowing[u]
                 PROVE  i < next_id + 1
      BY <1>1, <1>2 DEF BitsPredateFutureIds
    <2>1. i \in Nat /\ next_id \in Nat /\ i < next_id
      BY DEF BitsPredateFutureIds, TypeOK, Ids
    <2> QED
      BY <2>1
  <1>10. UnlistedAssetsCarryNothing'
    BY <1>1, <1>2 DEF UnlistedAssetsCarryNothing
  <1>11. DebtsAreFlagged'
    BY <1>1, <1>2, <1>3, <1>4 DEF DebtsAreFlagged, UnlistedAssetsCarryNothing
  <1>12. TokensReportToIncentives'
    BY <1>1 DEF TokensReportToIncentives, TypeOK
  <1>13. ASSUME NEW u \in Users
         PROVE  assets_used(u)' \subseteq assets_used(u)
    <2>1. ASSUME NEW i \in collateral[u] \union borrowing[u]
          PROVE  i # next_id
      <3>1. i \in Nat /\ next_id \in Nat /\ i < next_id
        BY <2>1 DEF BitsPredateFutureIds, TypeOK, Ids
      <3> QED
        BY <3>1
    <2> QED
      BY <1>2, <1>3, <2>1 DEF assets_used
  <1> QED
    BY <1>7, <1>8, <1>9, <1>10, <1>11, <1>12, <1>13

(* A dropped reserve has no claims left; its id is not reused.             *)
LEMMA DropKeeps ==
  ASSUME IInv, NEW a \in Assets, DropReserve(a)
  PROVE  IInv' /\ \A u \in Users : assets_used(u)' \subseteq assets_used(u)
  <1> USE RegistryAssumption DEF IInv
  <1>1. /\ a \in DOMAIN id_of /\ holders[a] = {} /\ debtors[a] = {}
        /\ id_of' = [x \in DOMAIN id_of \ {a} |-> id_of[x]]
        /\ listed' = listed \ {a}
        /\ asset_of' = [i \in DOMAIN asset_of \ {id_of[a]} |-> asset_of[i]]
        /\ whitelist' = [whitelist EXCEPT ![a] = <<>>]
        /\ blacklist' = [blacklist EXCEPT ![a] = <<>>]
        /\ deficit' = deficit \ {a}
    BY DEF DropReserve, is_empty_reserve, remove_reserve_from_list,
           remove_reserve_address_by_id
  <1>2. UNCHANGED <<next_id, has_whitelist, has_blacklist, incentives,
                    token_incentives, holders, debtors, collateral, borrowing>>
    BY DEF DropReserve, flags, reporting, positions, bits
  <1>3. /\ DOMAIN id_of' = DOMAIN id_of \ {a}
        /\ DOMAIN asset_of' = DOMAIN asset_of \ {id_of[a]}
        /\ \A x \in DOMAIN id_of \ {a} : id_of'[x] = id_of[x]
        /\ \A i \in DOMAIN asset_of \ {id_of[a]} : asset_of'[i] = asset_of[i]
    BY <1>1
  <1>4. /\ id_of' \in [DOMAIN id_of' -> Ids]
        /\ asset_of' \in [DOMAIN asset_of' -> Assets]
    BY <1>1 DEF TypeOK
  <1>5. /\ whitelist' \in [WhitelistScopes -> Seq(Users \union Handlers)]
        /\ blacklist' \in [Scopes -> Seq(Users \union Handlers)]
    <2>1. <<>> \in Seq(Users \union Handlers)
      OBVIOUS
    <2> QED
      BY <1>1, <2>1 DEF TypeOK
  <1>6. TypeOK'
    BY <1>1, <1>2, <1>3, <1>4, <1>5 DEF TypeOK
  <1>7. EntriesAgree'
    <2>1. ASSUME NEW x \in listed'
          PROVE  /\ x \in listed /\ x # a /\ id_of'[x] = id_of[x]
                 /\ id_of[x] \in DOMAIN asset_of \ {id_of[a]}
                 /\ asset_of[id_of[x]] = x
      BY <1>1, <1>3, <2>1 DEF EntriesAgree
    <2>2. DOMAIN asset_of' = {id_of'[x] : x \in listed'}
      BY <1>1, <1>3, <2>1 DEF EntriesAgree
    <2> QED
      BY <1>1, <1>2, <1>3, <2>1, <2>2 DEF EntriesAgree
  <1>8. BitsPredateFutureIds' /\ UnlistedAssetsCarryNothing'
    BY <1>1, <1>2 DEF BitsPredateFutureIds, UnlistedAssetsCarryNothing
  <1>9. DebtsAreFlagged' /\ TokensReportToIncentives'
    BY <1>1, <1>2, <1>3
    DEF DebtsAreFlagged, TokensReportToIncentives, EntriesAgree
  <1>10. \A u \in Users : assets_used(u)' \subseteq assets_used(u)
    BY <1>2, <1>3 DEF assets_used
  <1> QED
    BY <1>6, <1>7, <1>8, <1>9, <1>10

-----------------------------------------------------------------------------
(* Steps that change neither the registry nor a claim.                     *)
LEMMA SameKeeps ==
  ASSUME IInv, TypeOK', UNCHANGED <<registry, claims, reporting>>
  PROVE  IInv'
  BY DEF IInv, registry, claims, reporting, EntriesAgree,
         BitsPredateFutureIds, UnlistedAssetsCarryNothing, DebtsAreFlagged,
         TokensReportToIncentives

LEMMA AccessListsKeep ==
  ASSUME IInv, AccessLists
  PROVE  IInv' /\ UNCHANGED <<registry, claims, reporting>>
  <1> USE DEF entries, registry, claims, reporting, positions, bits
  <1>1. ASSUME NEW s \in WhitelistScopes, NEW list \in ListChoices[s],
               StoreWhitelist(s, list)
        PROVE  TypeOK' /\ UNCHANGED <<registry, claims, reporting>>
    <2>1. list \in Seq(Users \union Handlers)
      BY RegistryAssumption
    <2> QED
      BY <1>1, <2>1 DEF StoreWhitelist, IInv, TypeOK
  <1>2. ASSUME NEW s \in Scopes, NEW list \in ListChoices[s],
               StoreBlacklist(s, list)
        PROVE  TypeOK' /\ UNCHANGED <<registry, claims, reporting>>
    <2>1. list \in Seq(Users \union Handlers)
      BY RegistryAssumption DEF WhitelistScopes
    <2> QED
      BY <1>2, <2>1 DEF StoreBlacklist, IInv, TypeOK
  <1>3. ASSUME SyncAccessControlFlags
        PROVE  TypeOK' /\ UNCHANGED <<registry, claims, reporting>>
    BY <1>3 DEF SyncAccessControlFlags, flags_from_lists, lists, IInv, TypeOK
  <1>4. /\ Assets \subseteq Scopes /\ Liquidation \in Scopes
        /\ Scopes \subseteq WhitelistScopes /\ SwapHandlers \in WhitelistScopes
    BY DEF Scopes, WhitelistScopes
  <1>5. TypeOK' /\ UNCHANGED <<registry, claims, reporting>>
    <2> HIDE DEF entries, registry, claims, reporting, positions, bits
    <2> QED
      BY <1>1, <1>2, <1>3, <1>4
      DEF AccessLists, SetReserveWhitelist, SetReserveBlacklist,
          SetLiquidationWhitelist, SetLiquidationBlacklist,
          SetSwapHandlerWhitelist
  <1> QED
    BY <1>5, SameKeeps

(* The tokens of the listed reserves hear of every change.                 *)
LEMMA IncentivesKeep ==
  ASSUME IInv, NEW i \in Incentives, SetIncentivesContract(i)
  PROVE  IInv' /\ UNCHANGED <<registry, claims, lists, flags>>
  <1> USE DEF entries, registry, claims, positions, bits, lists, flags
  <1>1. /\ UNCHANGED <<registry, claims, lists, flags>>
        /\ incentives' = i
        /\ token_incentives' =
             [a \in Assets |-> IF a \in listed THEN i ELSE token_incentives[a]]
    BY DEF SetIncentivesContract
  <1>2. TypeOK'
    BY <1>1 DEF IInv, TypeOK
  <1>3. TokensReportToIncentives'
    BY <1>1 DEF IInv, TypeOK, TokensReportToIncentives
  <1> QED
    BY <1>1, <1>2, <1>3
    DEF IInv, EntriesAgree, BitsPredateFutureIds, UnlistedAssetsCarryNothing,
        DebtsAreFlagged

-----------------------------------------------------------------------------
(* Claims arise in listed reserves only, and so do the bits for them.      *)
LEMMA ClaimsKeep ==
  ASSUME IInv, UNCHANGED <<registry, lists, flags, reporting>>,
         deficit' \subseteq deficit \union listed,
         holders' \in [Assets -> SUBSET Users],
         debtors' \in [Assets -> SUBSET Users],
         collateral' \in [Users -> SUBSET Ids],
         borrowing' \in [Users -> SUBSET Ids],
         \A a \in Assets \ listed : /\ holders'[a] \subseteq holders[a]
                                   /\ debtors'[a] \subseteq debtors[a],
         \A u \in Users :
           collateral'[u] \union borrowing'[u] \subseteq
             collateral[u] \union borrowing[u] \union {id_of[a] : a \in listed},
         \A a \in listed : \A u \in debtors'[a] : id_of[a] \in borrowing'[u]
  PROVE  IInv'
  <1> USE DEF IInv
  <1>1. /\ UNCHANGED <<id_of, listed, asset_of, next_id>>
        /\ UNCHANGED <<whitelist, blacklist, has_whitelist, has_blacklist>>
        /\ UNCHANGED <<incentives, token_incentives>>
    BY DEF registry, lists, flags, reporting
  <1>2. TypeOK'
    BY <1>1 DEF TypeOK
  <1>3. BitsPredateFutureIds'
    BY <1>1 DEF BitsPredateFutureIds, EntriesAgree
  <1>4. UnlistedAssetsCarryNothing'
    BY <1>1 DEF UnlistedAssetsCarryNothing
  <1>5. /\ EntriesAgree' /\ DebtsAreFlagged' /\ TokensReportToIncentives'
    BY <1>1 DEF EntriesAgree, DebtsAreFlagged, TokensReportToIncentives
  <1> QED
    BY <1>2, <1>3, <1>4, <1>5

LEMMA UserOperationKeeps ==
  ASSUME IInv, NEW u \in Users, NEW a \in Assets, UserOperation(u, a)
  PROVE  IInv' /\ UNCHANGED <<registry, lists, flags, reporting>>
  <1> DEFINE Same == UNCHANGED <<registry, lists, flags, reporting>>
  <1>1. /\ DOMAIN id_of = listed /\ listed \subseteq Assets
        /\ \A x \in listed : id_of[x] \in Ids
        /\ \A x \in Assets : holders[x] \in SUBSET Users
        /\ \A x \in Assets : debtors[x] \in SUBSET Users
        /\ \A x \in listed : \A v \in debtors[x] : id_of[x] \in borrowing[v]
        /\ \A x, y \in listed : id_of[x] = id_of[y] => x = y
    BY DEF IInv, TypeOK, EntriesAgree, DebtsAreFlagged
  <1>2. CASE Supply(u, a)
    <2>1. Same /\ a \in listed /\ UNCHANGED <<deficit, debtors, borrowing>>
      BY <1>1, <1>2 DEF Supply, registry, entries
    <2>2. /\ holders' = [holders EXCEPT ![a] = @ \union {u}]
          /\ collateral' = [collateral EXCEPT ![u] = @ \union {id_of[a]}]
      BY <1>2 DEF Supply
    <2> QED
      BY <1>1, <2>1, <2>2, ClaimsKeep DEF IInv, TypeOK
  <1>3. CASE Withdraw(u, a)
    <2>1. Same /\ a \in listed /\ UNCHANGED <<deficit, debtors, borrowing>>
      BY <1>1, <1>3 DEF Withdraw, registry, entries
    <2>2. /\ holders' = [holders EXCEPT ![a] = @ \ {u}]
          /\ collateral' = [collateral EXCEPT ![u] = @ \ {id_of[a]}]
      BY <1>3 DEF Withdraw
    <2> QED
      BY <1>1, <2>1, <2>2, ClaimsKeep DEF IInv, TypeOK
  <1>4. CASE Borrow(u, a)
    <2>1. Same /\ a \in listed /\ UNCHANGED <<deficit, holders, collateral>>
      BY <1>1, <1>4 DEF Borrow, registry, entries
    <2>2. /\ debtors' = [debtors EXCEPT ![a] = @ \union {u}]
          /\ borrowing' = [borrowing EXCEPT ![u] = @ \union {id_of[a]}]
      BY <1>4 DEF Borrow
    <2> QED
      BY <1>1, <2>1, <2>2, ClaimsKeep DEF IInv, TypeOK
  <1>5. ASSUME Same, a \in listed, UNCHANGED <<holders, collateral>>,
               deficit' \subseteq deficit \union {a},
               debtors' = [debtors EXCEPT ![a] = @ \ {u}],
               borrowing' = [borrowing EXCEPT ![u] = @ \ {id_of[a]}]
        PROVE  IInv'
    <2>1. \A x \in listed : \A v \in debtors'[x] : id_of[x] \in borrowing'[v]
      BY <1>1, <1>5 DEF IInv, TypeOK
    <2> QED
      BY <1>1, <1>5, <2>1, ClaimsKeep DEF IInv, TypeOK
  <1>6. CASE Repay(u, a)
    BY <1>1, <1>5, <1>6 DEF Repay, registry, entries
  <1>7. CASE \E liquidator \in Users : WriteOff(liquidator, u, a)
    BY <1>1, <1>5, <1>7 DEF WriteOff, registry, entries
  <1>8. CASE \E use \in BOOLEAN : SetUseAsCollateral(u, a, use)
    <2>1. Same /\ a \in listed
      BY <1>1, <1>8 DEF SetUseAsCollateral, registry, entries
    <2>2. UNCHANGED <<deficit, holders, debtors, borrowing>>
      BY <1>8 DEF SetUseAsCollateral, positions
    <2>3. PICK use \in BOOLEAN :
            collateral' = [collateral EXCEPT
              ![u] = IF use THEN @ \union {id_of[a]} ELSE @ \ {id_of[a]}]
      BY <1>8 DEF SetUseAsCollateral
    <2> QED
      BY <1>1, <2>1, <2>2, <2>3, ClaimsKeep DEF IInv, TypeOK
  <1>9. ASSUME NEW to \in Assets, NEW whole \in BOOLEAN,
               NEW h \in Handlers \union {None},
               SwapCollateral(u, a, to, whole, h)
        PROVE  IInv' /\ Same
    <2> DEFINE emptied == IF whole THEN {a} ELSE {}
    <2>1. /\ Same /\ a \in listed /\ to \in listed
          /\ UNCHANGED <<deficit, debtors, borrowing>>
      BY <1>1, <1>9 DEF SwapCollateral, registry, entries
    <2>2. /\ holders' = [x \in Assets |->
                IF x = to THEN holders[x] \union {u}
                ELSE IF x \in emptied THEN holders[x] \ {u} ELSE holders[x]]
          /\ collateral' = [collateral EXCEPT
                ![u] = (@ \union {id_of[to]}) \ {id_of[x] : x \in emptied}]
      BY <1>9 DEF SwapCollateral
    <2> HIDE DEF emptied
    <2> QED
      BY <1>1, <2>1, <2>2, ClaimsKeep DEF IInv, TypeOK
  <1> QED
    BY <1>2, <1>3, <1>4, <1>5, <1>6, <1>7, <1>8, <1>9 DEF UserOperation

(* Every step keeps the invariant; only listing and dropping change the    *)
(* list of reserves, and neither gives anyone a bit.                       *)
LEMMA StepInv ==
  IInv /\ [Next]_vars =>
    /\ IInv'
    /\ listed' # listed =>
         \A u \in Users : assets_used(u)' \subseteq assets_used(u)
  <1> SUFFICES ASSUME IInv, [Next]_vars
               PROVE  /\ IInv'
                      /\ \/ listed' = listed
                         \/ \A u \in Users :
                              assets_used(u)' \subseteq assets_used(u)
    OBVIOUS
  <1>1. CASE AccessLists
    BY <1>1, AccessListsKeep DEF registry
  <1>2. CASE Listings
    <2>1. PICK a \in Assets :
            InitReserve(a) \/ DeployAndInitReserve(a) \/ DropReserve(a)
      BY <1>2 DEF Listings
    <2> QED
      BY <2>1, ListingKeeps, DropKeeps DEF DeployAndInitReserve
  <1>3. CASE \E i \in Incentives : SetIncentivesContract(i)
    BY <1>3, IncentivesKeep DEF registry
  <1>4. ASSUME NEW a \in Assets, CoverDeficit(a)
        PROVE  IInv' /\ listed' = listed
    BY <1>4
    DEF CoverDeficit, IInv, TypeOK, EntriesAgree, BitsPredateFutureIds,
        UnlistedAssetsCarryNothing, DebtsAreFlagged,
        TokensReportToIncentives, entries, lists, flags, reporting,
        positions, bits
  <1>5. CASE \E u \in Users, a \in Assets : UserOperation(u, a)
    BY <1>5, UserOperationKeeps DEF registry
  <1>6. CASE UNCHANGED vars
    <2>1. TypeOK' /\ UNCHANGED <<registry, claims, reporting>>
      BY <1>6 DEF vars, entries, lists, flags, reporting, positions, bits,
                  registry, claims, IInv, TypeOK
    <2> QED
      BY <2>1, SameKeeps DEF registry
  <1> QED
    BY <1>1, <1>2, <1>3, <1>4, <1>5, <1>6 DEF Next

LEMMA Inductive == Spec => []IInv
  BY InitInv, StepInv, PTL DEF Spec

-----------------------------------------------------------------------------
(* The types hold, whatever is listed, dropped, granted or switched.       *)
THEOREM TypeCorrect == Spec => []TypeOK
  <1>1. IInv => TypeOK
    BY DEF IInv
  <1> QED
    BY <1>1, Inductive, PTL

(* The entries that make up a reserve agree after any number of listings   *)
(* and drops of any assets (reserve.rs, init_reserve and drop_reserve).    *)
THEOREM RegistryAgrees == Spec => []EntriesAgree
  <1>1. IInv => EntriesAgree
    BY DEF IInv
  <1> QED
    BY <1>1, Inductive, PTL

(* Listing and dropping, in any order, give no user a position by an old   *)
(* bit (reserve.rs, and the ids that index UserConfiguration).             *)
THEOREM ListingIsNeutral == Spec => ListingGrantsNoPosition
  <1>1. IInv /\ [Next]_vars =>
          [listed' # listed =>
             \A u \in Users : assets_used(u)' \subseteq assets_used(u)]_vars
    BY StepInv
  <1> QED
    BY <1>1, Inductive, PTL DEF Spec, ListingGrantsNoPosition

(* Balances, debts and deficits are found in listed reserves only          *)
(* (reserve.rs, drop_reserve).                                             *)
THEOREM NothingIsStranded == Spec => []UnlistedAssetsCarryNothing
  <1>1. IInv => UnlistedAssetsCarryNothing
    BY DEF IInv
  <1> QED
    BY <1>1, Inductive, PTL

(* No debt escapes account data for want of its borrowing bit, through     *)
(* drops and new listings (operations.rs, reserve.rs).                     *)
THEOREM DebtsStayFlagged == Spec => []DebtsAreFlagged
  <1>1. IInv => DebtsAreFlagged
    BY DEF IInv
  <1> QED
    BY <1>1, Inductive, PTL

(* The tokens of a listed reserve report to the router's incentives        *)
(* contract, in whatever order reserves and contracts come                 *)
(* (reserve.rs, router.rs set_incentives_contract).                        *)
THEOREM TokensReport == Spec => []TokensReportToIncentives
  <1>1. IInv => TokensReportToIncentives
    BY DEF IInv
  <1> QED
    BY <1>1, Inductive, PTL

-----------------------------------------------------------------------------
(* What a step may do to the flags of a scope: nothing, or bring them in   *)
(* line with the lists.  The one of the swap handlers always is in line.   *)
HandlersFlagged ==
  has_whitelist[SwapHandlers] = (whitelist[SwapHandlers] # <<>>)

in_line(has, list, s) == has'[s] = has[s] \/ has'[s] = (list'[s] # <<>>)

guarding == Scopes \ (Assets \ (listed \cap listed'))

LEMMA ScopeSets ==
  /\ Assets \subseteq Scopes /\ Liquidation \in Scopes
  /\ Scopes \subseteq WhitelistScopes /\ SwapHandlers \in WhitelistScopes
  /\ SwapHandlers \notin Assets
  BY RegistryAssumption DEF Scopes, WhitelistScopes

LEMMA AccessListsFlag ==
  ASSUME IInv, AccessLists
  PROVE  /\ HandlersFlagged => HandlersFlagged'
         /\ \A s \in guarding : /\ in_line(has_whitelist, whitelist, s)
                                /\ in_line(has_blacklist, blacklist, s)
  <1> DEFINE Good == /\ HandlersFlagged => HandlersFlagged'
                     /\ \A s \in guarding :
                          /\ in_line(has_whitelist, whitelist, s)
                          /\ in_line(has_blacklist, blacklist, s)
  <1>1. ASSUME NEW s \in WhitelistScopes, NEW list, StoreWhitelist(s, list)
        PROVE  Good
    <2>1. /\ has_blacklist' = has_blacklist
          /\ \A x \in WhitelistScopes :
               \/ x = s /\ has_whitelist'[x] = (whitelist'[x] # <<>>)
               \/ /\ has_whitelist'[x] = has_whitelist[x]
                  /\ whitelist'[x] = whitelist[x]
      BY <1>1 DEF StoreWhitelist, IInv, TypeOK
    <2>2. HandlersFlagged => HandlersFlagged'
      BY <2>1, ScopeSets DEF HandlersFlagged
    <2>3. \A x \in Scopes : /\ in_line(has_whitelist, whitelist, x)
                            /\ in_line(has_blacklist, blacklist, x)
      BY <2>1, ScopeSets DEF in_line
    <2> QED
      BY <2>2, <2>3 DEF guarding
  <1>2. ASSUME NEW s \in Scopes, NEW list, StoreBlacklist(s, list)
        PROVE  Good
    <2>1. /\ has_whitelist' = has_whitelist /\ whitelist' = whitelist
          /\ \A x \in Scopes :
               \/ x = s /\ has_blacklist'[x] = (blacklist'[x] # <<>>)
               \/ has_blacklist'[x] = has_blacklist[x]
      BY <1>2 DEF StoreBlacklist, IInv, TypeOK
    <2> QED
      BY <2>1 DEF in_line, guarding, HandlersFlagged
  <1>3. ASSUME SyncAccessControlFlags
        PROVE  Good
    <2>1. /\ has_whitelist' = flags_from_lists(whitelist)
          /\ has_blacklist' = flags_from_lists(blacklist)
          /\ whitelist' = whitelist /\ blacklist' = blacklist
      BY <1>3 DEF SyncAccessControlFlags, lists
    <2>2. DOMAIN whitelist = WhitelistScopes /\ DOMAIN blacklist = Scopes
      BY DEF IInv, TypeOK
    <2>3. ASSUME NEW s \in WhitelistScopes \ (Assets \ listed)
          PROVE  has_whitelist'[s] = (whitelist'[s] # <<>>)
      BY <2>1, <2>2 DEF flags_from_lists
    <2>4. ASSUME NEW s \in Scopes \ (Assets \ listed)
          PROVE  has_blacklist'[s] = (blacklist'[s] # <<>>)
      BY <2>1, <2>2 DEF flags_from_lists
    <2>5. SwapHandlers \in WhitelistScopes \ (Assets \ listed)
      BY ScopeSets
    <2>6. guarding \subseteq Scopes \ (Assets \ listed)
      BY DEF guarding
    <2>7. guarding \subseteq WhitelistScopes \ (Assets \ listed)
      BY <2>6, ScopeSets
    <2> QED
      BY <2>3, <2>4, <2>5, <2>6, <2>7 DEF HandlersFlagged, in_line
  <1> HIDE DEF Good
  <1>4. Good
    BY <1>1, <1>2, <1>3, ScopeSets
    DEF AccessLists, SetReserveWhitelist, SetReserveBlacklist,
        SetLiquidationWhitelist, SetLiquidationBlacklist,
        SetSwapHandlerWhitelist
  <1> QED
    BY <1>4 DEF Good

(* The other steps leave the flags as they are.                            *)
LEMMA OthersKeepFlags ==
  ASSUME IInv, [Next]_vars, ~AccessLists
  PROVE  UNCHANGED flags /\ whitelist'[SwapHandlers] = whitelist[SwapHandlers]
  <1>1. CASE Listings
    <2>1. PICK a \in Assets :
            InitReserve(a) \/ DeployAndInitReserve(a) \/ DropReserve(a)
      BY <1>1 DEF Listings
    <2>2. CASE DropReserve(a)
      BY <2>2, ScopeSets DEF DropReserve, IInv, TypeOK
    <2>3. CASE InitReserve(a) \/ DeployAndInitReserve(a)
      BY <2>3 DEF InitReserve, DeployAndInitReserve, lists
    <2> QED
      BY <2>1, <2>2, <2>3
  <1>2. CASE \E i \in Incentives : SetIncentivesContract(i)
    BY <1>2, IncentivesKeep DEF lists
  <1>3. CASE \E a \in Assets : CoverDeficit(a)
    BY <1>3 DEF CoverDeficit, lists
  <1>4. CASE \E u \in Users, a \in Assets : UserOperation(u, a)
    BY <1>4, UserOperationKeeps DEF lists
  <1>5. CASE UNCHANGED vars
    BY <1>5 DEF vars, lists
  <1> QED
    BY <1>1, <1>2, <1>3, <1>4, <1>5 DEF Next

LEMMA FlagsStep ==
  ASSUME IInv, [Next]_vars
  PROVE  /\ HandlersFlagged => HandlersFlagged'
         /\ \A s \in guarding : /\ in_line(has_whitelist, whitelist, s)
                                /\ in_line(has_blacklist, blacklist, s)
  BY AccessListsFlag, OthersKeepFlags DEF flags, in_line, HandlersFlagged

LEMMA HandlersAreFlagged == Spec => []HandlersFlagged
  <1>1. Init => HandlersFlagged
    BY ScopeSets DEF Init, HandlersFlagged
  <1>2. IInv /\ HandlersFlagged /\ [Next]_vars => HandlersFlagged'
    BY FlagsStep
  <1> QED
    BY <1>1, <1>2, Inductive, PTL DEF Spec

(* Nobody is let in but by an edit of the lists that keep them out: not by *)
(* a synchronisation of the flags, and not by the listings and drops of    *)
(* other reserves (storage.rs, sync_access_control_flags).                 *)
THEOREM ListsGuardAccess == Spec => OnlyItsListsOpenAReserve
  <1> DEFINE
    Guarded ==
      /\ \A s \in Scopes \ (Assets \ (listed \cap listed')), u \in Users :
           /\ <<whitelist[s], blacklist[s]>>' = <<whitelist[s], blacklist[s]>>
           /\ ~has_access(s, u)
           => ~has_access(s, u)'
      /\ \A h \in Handlers :
           /\ whitelist[SwapHandlers]' = whitelist[SwapHandlers]
           /\ ~is_swap_handler_whitelisted(h)
           => ~is_swap_handler_whitelisted(h)'
  <1>1. IInv /\ HandlersFlagged /\ [Next]_vars => Guarded
    <2> SUFFICES ASSUME IInv, HandlersFlagged, [Next]_vars PROVE Guarded
      OBVIOUS
    <2>1. ASSUME NEW s \in Scopes \ (Assets \ (listed \cap listed')),
                 NEW u \in Users,
                 whitelist'[s] = whitelist[s], blacklist'[s] = blacklist[s],
                 ~has_access(s, u)
          PROVE  ~has_access(s, u)'
      <3>1. /\ has_whitelist'[s] = has_whitelist[s]
                 \/ has_whitelist'[s] = (whitelist[s] # <<>>)
            /\ has_blacklist'[s] = has_blacklist[s]
                 \/ has_blacklist'[s] = (blacklist[s] # <<>>)
        BY <2>1, FlagsStep DEF guarding, in_line
      <3> QED
        BY <2>1, <3>1
        DEF has_access, is_whitelisted, is_blacklisted, scanned
    <2>2. ASSUME NEW h \in Handlers,
                 whitelist'[SwapHandlers] = whitelist[SwapHandlers],
                 ~is_swap_handler_whitelisted(h)
          PROVE  ~is_swap_handler_whitelisted(h)'
      <3>1. has_whitelist'[SwapHandlers] = has_whitelist[SwapHandlers]
        BY <2>2, FlagsStep DEF HandlersFlagged
      <3> QED
        BY <2>2, <3>1 DEF is_swap_handler_whitelisted, scanned
    <2> QED
      BY <2>1, <2>2
  <1>2. IInv /\ HandlersFlagged /\ [Next]_vars => [Guarded]_vars
    BY <1>1
  <1> QED
    BY <1>2, Inductive, HandlersAreFlagged, PTL
    DEF Spec, OnlyItsListsOpenAReserve

=============================================================================
