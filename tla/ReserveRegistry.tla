-------------------------- MODULE ReserveRegistry --------------------------
(***************************************************************************)
(* The kinetic-router's registry of reserves: listing and dropping assets, *)
(* the ids that index the users' bitmaps, the access lists with the cached *)
(* flags that guard them, and the incentives contract every token of a     *)
(* listed reserve must report to.                                          *)
(*                                                                         *)
(* A reserve is spread over several storage entries: its data, the list of *)
(* reserves, the map from ids to assets, its access lists, the maps of     *)
(* flags and its deficit.  They are kept as separate variables because the *)
(* code updates them separately.                                           *)
(*                                                                         *)
(* Positions are abstracted to who holds aTokens and who owes debt; an     *)
(* operation the router may refuse for reasons of health is allowed here.  *)
(* The two tokens of a reserve stand under its asset: they are initialised *)
(* for it before it is listed.                                             *)
(***************************************************************************)
EXTENDS Naturals, Sequences, FiniteSets

CONSTANTS
  Assets,            \* underlying assets that may be listed
  Users,             \* accounts with positions, on access lists
  Handlers,          \* contracts that may carry out collateral swaps
  MAX_RESERVES,      \* lifetime bound on reserves, scan bound of the lists
  MAX_USER_RESERVES, \* bound on the reserves of one user
  Liquidation,       \* the scope of the two global liquidation lists
  SwapHandlers,      \* the scope of the whitelist of swap handlers
  Incentives,        \* incentives contracts the admin may choose
  None,              \* no incentives contract
  ListChoices        \* bound: access lists the admin sets, for each scope

Ids == 0 .. MAX_RESERVES - 1

(* What a blacklist belongs to: a reserve, or liquidations at large. *)
Scopes == Assets \union {Liquidation}

(* Swap handlers have a whitelist only. *)
WhitelistScopes == Scopes \union {SwapHandlers}

ASSUME RegistryAssumption ==
  /\ {Liquidation, SwapHandlers} \intersect Assets = {}
  /\ Liquidation # SwapHandlers
  /\ None \notin Incentives
  /\ MAX_RESERVES \in Nat \ {0}
  /\ MAX_USER_RESERVES \in Nat
  /\ ListChoices \in [WhitelistScopes -> SUBSET Seq(Users \union Handlers)]

VARIABLES
  id_of,            \* RESERVE_DATA: the id in the data of each reserve
  listed,           \* RESERVES_LIST
  next_id,          \* NEXT_RESERVE_ID
  asset_of,         \* RESERVE_ID_TO_ADDRESS
  whitelist, blacklist,           \* the lists of each scope
  has_whitelist, has_blacklist,   \* the cached "list is not empty" flags
  deficit,          \* assets with a deficit on record
  incentives,       \* the router's incentives contract
  token_incentives, \* the one the tokens of each asset report to
  holders,          \* accounts with an aToken balance, per asset
  debtors,          \* accounts with debt, per asset
  collateral,       \* ids of each user's collateral bits
  borrowing         \* ids of each user's borrowing bits

entries == <<id_of, listed, asset_of>>

lists == <<whitelist, blacklist>>

flags == <<has_whitelist, has_blacklist>>

reporting == <<incentives, token_incentives>>

positions == <<holders, debtors>>

bits == <<collateral, borrowing>>

vars == <<entries, next_id, lists, flags, deficit, reporting, positions, bits>>

TypeOK ==
  /\ listed \subseteq Assets
  /\ DOMAIN id_of \subseteq Assets
  /\ id_of \in [DOMAIN id_of -> Ids]
  /\ DOMAIN asset_of \subseteq Ids
  /\ asset_of \in [DOMAIN asset_of -> Assets]
  /\ next_id \in 0 .. MAX_RESERVES
  /\ whitelist \in [WhitelistScopes -> Seq(Users \union Handlers)]
  /\ blacklist \in [Scopes -> Seq(Users \union Handlers)]
  /\ has_whitelist \in [WhitelistScopes -> BOOLEAN]
  /\ has_blacklist \in [Scopes -> BOOLEAN]
  /\ deficit \subseteq Assets
  /\ incentives \in Incentives \union {None}
  /\ token_incentives \in [Assets -> Incentives \union {None}]
  /\ holders \in [Assets -> SUBSET Users]
  /\ debtors \in [Assets -> SUBSET Users]
  /\ collateral \in [Users -> SUBSET Ids]
  /\ borrowing \in [Users -> SUBSET Ids]

Init ==
  /\ id_of = <<>> /\ listed = {} /\ asset_of = <<>>
  /\ next_id = 0
  /\ whitelist = [s \in WhitelistScopes |-> <<>>]
  /\ blacklist = [s \in Scopes |-> <<>>]
  /\ has_whitelist = [s \in WhitelistScopes |-> FALSE]
  /\ has_blacklist = [s \in Scopes |-> FALSE]
  /\ deficit = {}
  /\ incentives \in Incentives \union {None}
  /\ token_incentives = [a \in Assets |-> None]
  /\ holders = [a \in Assets |-> {}]
  /\ debtors = [a \in Assets |-> {}]
  /\ collateral = [u \in Users |-> {}]
  /\ borrowing = [u \in Users |-> {}]

-----------------------------------------------------------------------------
(***************************************************************************)
(* The access checks.  The flag spares the read of the list; only the      *)
(* first MAX_RESERVES entries of a list are compared.                      *)
(***************************************************************************)
scanned(list, u) ==
  \E i \in 1 .. Len(list) : i <= MAX_RESERVES /\ list[i] = u

is_whitelisted(s, u) ==
  has_whitelist[s] /\ whitelist[s] # <<>> => scanned(whitelist[s], u)

is_blacklisted(s, u) ==
  /\ has_blacklist[s]
  /\ blacklist[s] # <<>>
  /\ scanned(blacklist[s], u)

has_access(s, u) == is_whitelisted(s, u) /\ ~is_blacklisted(s, u)

may_liquidate(u) == has_access(Liquidation, u)

(* Unlike the others, an empty whitelist of handlers admits none. *)
is_swap_handler_whitelisted(handler) ==
  /\ has_whitelist[SwapHandlers]
  /\ whitelist[SwapHandlers] # <<>>
  /\ scanned(whitelist[SwapHandlers], handler)

StoreWhitelist(s, list) ==
  /\ whitelist' = [whitelist EXCEPT ![s] = list]
  /\ has_whitelist' = [has_whitelist EXCEPT ![s] = list # <<>>]
  /\ UNCHANGED <<entries, next_id, blacklist, has_blacklist, deficit,
                 reporting, positions, bits>>

StoreBlacklist(s, list) ==
  /\ blacklist' = [blacklist EXCEPT ![s] = list]
  /\ has_blacklist' = [has_blacklist EXCEPT ![s] = list # <<>>]
  /\ UNCHANGED <<entries, next_id, whitelist, has_whitelist, deficit,
                 reporting, positions, bits>>

(* The pool admin's calls; that the asset is listed is not asked. *)
SetReserveWhitelist(a, list) == StoreWhitelist(a, list)

SetReserveBlacklist(a, list) == StoreBlacklist(a, list)

SetLiquidationWhitelist(list) == StoreWhitelist(Liquidation, list)

SetLiquidationBlacklist(list) == StoreBlacklist(Liquidation, list)

SetSwapHandlerWhitelist(list) == StoreWhitelist(SwapHandlers, list)

(* Mutation: the flags of the reserves are rebuilt empty. *)
flags_of_liquidation_only(stored) ==
  [s \in DOMAIN stored |-> s \notin Assets /\ stored[s] # <<>>]

(***************************************************************************)
(* sync_access_control_flags, which the admin calls and every upgrade      *)
(* makes: the flags are rebuilt from the global lists and those of the     *)
(* listed reserves.                                                        *)
(***************************************************************************)
flags_from_lists(stored) ==
  [s \in DOMAIN stored |-> s \notin Assets \ listed /\ stored[s] # <<>>]

SyncAccessControlFlags ==
  /\ has_whitelist' = flags_from_lists(whitelist)
  /\ has_blacklist' = flags_from_lists(blacklist)
  /\ UNCHANGED <<entries, next_id, lists, deficit, reporting, positions, bits>>

-----------------------------------------------------------------------------
(* Mutation: the number of reserves listed now serves as the next id. *)
id_from_count(n) == Cardinality(listed)

(* increment_and_get_reserve_id: the counter's value before it is raised. *)
id_from_counter(n) == n

(* Mutation: new reserves are left out of the propagation. *)
no_propagation(a, known) == known

(* init_reserve tells the new tokens where to report, if there is a place. *)
propagate_to_new(a, known) ==
  IF incentives = None THEN known ELSE [known EXCEPT ![a] = incentives]

InitReserve(a) ==
  /\ a \notin DOMAIN id_of
  /\ next_id < MAX_RESERVES
  /\ next_id' = next_id + 1
  /\ LET id == id_from_counter(next_id)
     IN  /\ id_of' = [x \in DOMAIN id_of \union {a} |->
                        IF x = a THEN id ELSE id_of[x]]
         /\ asset_of' = [i \in DOMAIN asset_of \union {id} |->
                           IF i = id THEN a ELSE asset_of[i]]
  /\ listed' = listed \union {a}
  /\ token_incentives' = propagate_to_new(a, token_incentives)
  /\ UNCHANGED <<lists, flags, deficit, incentives, positions, bits>>

(***************************************************************************)
(* The configurator may deploy both tokens itself, at addresses of its own *)
(* counter, and list the asset at once.  It then tells the tokens where to *)
(* report in the router's name, which they refuse: with an incentives      *)
(* contract in place the whole call fails.                                 *)
(***************************************************************************)
DeployAndInitReserve(a) == incentives = None /\ InitReserve(a)

(* Mutation: only the deposits are looked at. *)
unclaimed(a) == holders[a] = {}

(* drop_reserve asks both tokens for their scaled supply. *)
is_empty_reserve(a) == holders[a] = {} /\ debtors[a] = {}

(* Mutation: the map from ids to assets is left as it is. *)
keep_id_map(id) == asset_of

remove_reserve_address_by_id(id) ==
  [i \in DOMAIN asset_of \ {id} |-> asset_of[i]]

remove_reserve_from_list(a) == listed \ {a}

DropReserve(a) ==
  /\ a \in DOMAIN id_of
  /\ is_empty_reserve(a)
  /\ id_of' = [x \in DOMAIN id_of \ {a} |-> id_of[x]]
  /\ listed' = remove_reserve_from_list(a)
  /\ asset_of' = remove_reserve_address_by_id(id_of[a])
  /\ whitelist' = [whitelist EXCEPT ![a] = <<>>]
  /\ blacklist' = [blacklist EXCEPT ![a] = <<>>]
  /\ deficit' = deficit \ {a}
  /\ UNCHANGED <<next_id, flags, reporting, positions, bits>>

(* The router tells the tokens of every listed reserve. *)
SetIncentivesContract(i) ==
  /\ incentives' = i
  /\ token_incentives' =
       [a \in Assets |-> IF a \in listed THEN i ELSE token_incentives[a]]
  /\ UNCHANGED <<entries, next_id, lists, flags, deficit, positions, bits>>

-----------------------------------------------------------------------------
(* UserConfiguration counts every bit, those of dropped reserves included. *)
has_free_slot(u, id, used) ==
  id \notin used[u] =>
    Cardinality(collateral[u] \union borrowing[u]) < MAX_USER_RESERVES

(* A first deposit switches the reserve on as collateral. *)
Supply(u, a) ==
  /\ a \in DOMAIN id_of /\ has_access(a, u)
  /\ u \notin holders[a]
  /\ has_free_slot(u, id_of[a], collateral)
  /\ holders' = [holders EXCEPT ![a] = @ \union {u}]
  /\ collateral' = [collateral EXCEPT ![u] = @ \union {id_of[a]}]
  /\ UNCHANGED <<entries, next_id, lists, flags, deficit, reporting,
                 debtors, borrowing>>

(* A withdrawal of everything. *)
Withdraw(u, a) ==
  /\ a \in DOMAIN id_of /\ has_access(a, u)
  /\ u \in holders[a]
  /\ holders' = [holders EXCEPT ![a] = @ \ {u}]
  /\ collateral' = [collateral EXCEPT ![u] = @ \ {id_of[a]}]
  /\ UNCHANGED <<entries, next_id, lists, flags, deficit, reporting,
                 debtors, borrowing>>

Borrow(u, a) ==
  /\ a \in DOMAIN id_of /\ has_access(a, u)
  /\ has_free_slot(u, id_of[a], borrowing)
  /\ debtors' = [debtors EXCEPT ![a] = @ \union {u}]
  /\ borrowing' = [borrowing EXCEPT ![u] = @ \union {id_of[a]}]
  /\ UNCHANGED <<entries, next_id, lists, flags, deficit, reporting,
                 holders, collateral>>

(* A repayment of everything. *)
Repay(u, a) ==
  /\ a \in DOMAIN id_of /\ has_access(a, u)
  /\ u \in debtors[a]
  /\ debtors' = [debtors EXCEPT ![a] = @ \ {u}]
  /\ borrowing' = [borrowing EXCEPT ![u] = @ \ {id_of[a]}]
  /\ UNCHANGED <<entries, next_id, lists, flags, deficit, reporting,
                 holders, collateral>>

(***************************************************************************)
(* A liquidation by someone the liquidation lists admit writes off what    *)
(* the debtor still owes in a as a deficit.                                *)
(***************************************************************************)
WriteOff(liquidator, u, a) ==
  /\ may_liquidate(liquidator)
  /\ a \in DOMAIN id_of
  /\ u \in debtors[a]
  /\ debtors' = [debtors EXCEPT ![a] = @ \ {u}]
  /\ borrowing' = [borrowing EXCEPT ![u] = @ \ {id_of[a]}]
  /\ deficit' = deficit \union {a}
  /\ UNCHANGED <<entries, next_id, lists, flags, reporting, holders,
                 collateral>>

(* cover_deficit: anyone pays what a listed reserve is short of. *)
CoverDeficit(a) ==
  /\ a \in DOMAIN id_of \intersect deficit
  /\ deficit' = deficit \ {a}
  /\ UNCHANGED <<entries, next_id, lists, flags, reporting, positions, bits>>

(***************************************************************************)
(* A swap of collateral in one reserve, whole or in part, for another by a *)
(* listed handler or (None) by the router's own exchange.  The number of   *)
(* the user's reserves is not looked at.                                   *)
(***************************************************************************)
SwapCollateral(u, from, to, whole, handler) ==
  LET emptied == IF whole THEN {from} ELSE {}
  IN
  /\ from # to /\ {from, to} \subseteq DOMAIN id_of
  /\ has_access(from, u) /\ has_access(to, u)
  /\ handler # None => is_swap_handler_whitelisted(handler)
  /\ u \in holders[from]
  /\ holders' = [a \in Assets |->
       IF a = to THEN holders[a] \union {u}
       ELSE IF a \in emptied THEN holders[a] \ {u} ELSE holders[a]]
  /\ collateral' = [collateral EXCEPT
       ![u] = (@ \union {id_of[to]}) \ {id_of[a] : a \in emptied}]
  /\ UNCHANGED <<entries, next_id, lists, flags, deficit, reporting,
                 debtors, borrowing>>

(* set_user_use_reserve_as_coll: the bit moves, with or without a balance. *)
SetUseAsCollateral(u, a, use) ==
  /\ a \in DOMAIN id_of /\ has_access(a, u)
  /\ collateral' = [collateral EXCEPT
       ![u] = IF use THEN @ \union {id_of[a]} ELSE @ \ {id_of[a]}]
  /\ UNCHANGED <<entries, next_id, lists, flags, deficit, reporting,
                 positions, borrowing>>

AccessLists ==
  \/ \E a \in Assets : \E list \in ListChoices[a] :
       SetReserveWhitelist(a, list) \/ SetReserveBlacklist(a, list)
  \/ \E list \in ListChoices[Liquidation] :
       SetLiquidationWhitelist(list) \/ SetLiquidationBlacklist(list)
  \/ \E list \in ListChoices[SwapHandlers] : SetSwapHandlerWhitelist(list)
  \/ SyncAccessControlFlags

Listings ==
  \E a \in Assets : InitReserve(a) \/ DeployAndInitReserve(a) \/ DropReserve(a)

UserOperation(u, a) ==
  \/ Supply(u, a) \/ Withdraw(u, a) \/ Borrow(u, a) \/ Repay(u, a)
  \/ \E liquidator \in Users : WriteOff(liquidator, u, a)
  \/ \E use \in BOOLEAN : SetUseAsCollateral(u, a, use)
  \/ \E to \in Assets, whole \in BOOLEAN, h \in Handlers \union {None} :
       SwapCollateral(u, a, to, whole, h)

Next ==
  \/ AccessLists
  \/ Listings
  \/ \E i \in Incentives : SetIncentivesContract(i)
  \/ \E a \in Assets : CoverDeficit(a)
  \/ \E u \in Users, a \in Assets : UserOperation(u, a)

Spec == Init /\ [][Next]_vars

-----------------------------------------------------------------------------
(***************************************************************************)
(* The entries that make up a reserve agree: an asset is in the list       *)
(* exactly when it has data, its id leads back to it and to nothing else,  *)
(* and no id was given out beyond the counter.  reserve.rs writes and      *)
(* removes these entries one by one, in init_reserve and drop_reserve.     *)
(***************************************************************************)
EntriesAgree ==
  /\ listed = DOMAIN id_of
  /\ DOMAIN asset_of = {id_of[a] : a \in listed}
  /\ \A a \in listed : id_of[a] < next_id /\ asset_of[id_of[a]] = a

(* No user's bit points to an id that is still to be given out, which is   *)
(* why the bits of a dropped reserve can be left where they are.           *)
BitsPredateFutureIds ==
  \A u \in Users : \A i \in collateral[u] \union borrowing[u] : i < next_id

(* The assets a user's bits stand for, as account data reads them. *)
assets_used(u) ==
  {asset_of[i] : i \in (collateral[u] \union borrowing[u]) \cap DOMAIN asset_of}

(***************************************************************************)
(* Listing or dropping reserves, in any order, never gives a user a        *)
(* collateral or debt bit in an asset: a bit set for one reserve is never  *)
(* read as a bit of another (init_reserve, drop_reserve, and the ids that  *)
(* index UserConfiguration).                                               *)
(***************************************************************************)
ListingGrantsNoPosition ==
  [][listed' # listed =>
       \A u \in Users : assets_used(u)' \subseteq assets_used(u)]_vars

(***************************************************************************)
(* Whoever holds aTokens, owes debt or waits for a deficit to be covered   *)
(* does so in a listed reserve: no claim is stranded by drop_reserve, and  *)
(* a new listing of the asset does not start with an old deficit.          *)
(***************************************************************************)
UnlistedAssetsCarryNothing ==
  \A a \in Assets \ listed :
    holders[a] = {} /\ debtors[a] = {} /\ a \notin deficit

(* Every debt has its borrowing bit under the id the reserve has now, so   *)
(* account data counts it, through drops, listings and write-offs.         *)
DebtsAreFlagged ==
  \A a \in listed : \A u \in debtors[a] : id_of[a] \in borrowing[u]

(***************************************************************************)
(* The tokens of every listed reserve report to the router's incentives    *)
(* contract, whether the contract was chosen before or after the listing   *)
(* and however often it changed (init_reserve, set_incentives_contract).   *)
(***************************************************************************)
TokensReportToIncentives ==
  incentives # None => \A a \in listed : token_incentives[a] = incentives

(***************************************************************************)
(* Access is widened only by an edit of the lists that guard it: neither   *)
(* an upgrade with its synchronisation of flags nor the listing or         *)
(* dropping of other reserves lets anyone in whom the lists of a listed    *)
(* reserve, of liquidations or of swap handlers keep out.                  *)
(***************************************************************************)
OnlyItsListsOpenAReserve ==
  [][/\ \A s \in Scopes \ (Assets \ (listed \cap listed')), u \in Users :
          /\ <<whitelist[s], blacklist[s]>>' = <<whitelist[s], blacklist[s]>>
          /\ ~has_access(s, u)
          => ~has_access(s, u)'
     /\ \A h \in Handlers :
          /\ whitelist[SwapHandlers]' = whitelist[SwapHandlers]
          /\ ~is_swap_handler_whitelisted(h)
          => ~is_swap_handler_whitelisted(h)']_vars

=============================================================================
