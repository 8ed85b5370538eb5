---------------------------- MODULE PriceOracle ----------------------------
(***************************************************************************)
(* The price oracle (price-oracle/src/contract.rs, oracle.rs, storage.rs). *)
(* A price is answered from a manual override, a cache, or the source the  *)
(* configuration of the asset picks: a batch adapter, a custom oracle, or  *)
(* Reflector with a fallback.  A circuit breaker compares each price with  *)
(* the last one.  There are two ways through this, a query for one asset   *)
(* and one for several, which the router uses; they look at the override,  *)
(* the cache and the configuration in different orders.                    *)
(*                                                                         *)
(* The external feeds may answer anything, or nothing, to any query, so    *)
(* they have no state: a query takes their answers as a parameter.         *)
(* Admin calls are the admin's; its handover is module Governance's.       *)
(***************************************************************************)
EXTENDS Integers, FiniteSets

CONSTANTS
  Assets,
  RawPrices,     \* bound: prices the feeds answer, with their own decimals
  Overrides,     \* bound: manual prices the admin sets
  Decimals,      \* decimals of the feeds
  Configs,       \* bound: OracleConfig values the admin sets
  MaxAges,       \* bound: max_age values the admin sets, None among them
  Ttls,          \* bound: cache lifetimes the admin sets
  MAX_MANUAL_OVERRIDE_DURATION,
  MaxTime,       \* bound: on the clock
  None

(* price_precision, staleness threshold and circuit breaker limit. *)
OracleConfig ==
  [price_precision : Nat, price_staleness_threshold : Nat,
   max_price_change_bps : Nat]

ASSUME PriceOracleAssumption ==
  /\ Configs \subseteq OracleConfig
  /\ RawPrices \subseteq Nat /\ Overrides \subseteq Nat /\ Decimals \in Nat
  /\ None \notin Nat /\ MaxAges \subseteq Nat \union {None}
  /\ Ttls \subseteq Nat /\ MAX_MANUAL_OVERRIDE_DURATION \in Nat

(* A fact of arithmetic that proofs cannot derive: powers are positive. *)
ASSUME PowersAssumption ==
  \A c \in Configs : Decimals > c.price_precision =>
    10 ^ (Decimals - c.price_precision) \in Nat \ {0}

VARIABLES
  now,            \* ledger timestamp
  paused,
  oracle_config,
  fallback,       \* whether a fallback oracle is set
  ttl,            \* PriceCacheTtl
  config,         \* AssetConfig by asset, or None when not whitelisted
  last_price,     \* LastPrice by asset: the circuit breaker's baseline
  cache           \* LastPriceData by asset

asset_vars == <<config, last_price, cache>>
vars == <<now, paused, oracle_config, fallback, ttl, asset_vars>>

Override == [price : Nat, expiry : Nat, set_at : Nat]
AssetConfig ==
  [enabled : BOOLEAN, override : Override \union {None},
   batch_adapter : BOOLEAN, custom_oracle : BOOLEAN,
   max_age : Nat \union {None}]
CachedPriceData == [price : Nat, timestamp : Nat, cached_at : Nat]

TypeOK ==
  /\ now \in Nat /\ ttl \in Nat
  /\ paused \in BOOLEAN /\ fallback \in BOOLEAN
  /\ oracle_config \in OracleConfig
  /\ config \in [Assets -> AssetConfig \union {None}]
  /\ last_price \in [Assets -> Nat \union {None}]
  /\ cache \in [Assets -> CachedPriceData \union {None}]

(* What the feeds answer to one query: the source the configuration picks, *)
(* or the fallback, which is asked only when the source fails.  A          *)
(* timestamp may be in the future.                                         *)
Feed == {None} \union [price : RawPrices, timestamp : 0 .. now + 1]
Feeds == [source : Feed, fallback : {None}]
           \union [source : {None}, fallback : Feed]

-----------------------------------------------------------------------------
(* The parts of a query *)

normalize_price(p, target) ==
  IF Decimals > target THEN p \div 10 ^ (Decimals - target)
                       ELSE p * 10 ^ (target - Decimals)

deviation_bps(new, last) ==
  ((IF new > last THEN new - last ELSE last - new) * 10000) \div last

(* Mutation: the change measured by the new price. *)
change_of_new(price, last) ==
  /\ price > 0
  /\ oracle_config.max_price_change_bps # 0 /\ last \notin {None, 0}
       => deviation_bps(last, price) <= oracle_config.max_price_change_bps

(* Zero as the limit or as the last price disables the breaker. *)
validate_price_change(price, last) ==
  /\ price > 0
  /\ oracle_config.max_price_change_bps # 0 /\ last \notin {None, 0}
       => deviation_bps(price, last) <= oracle_config.max_price_change_bps

(* Mutation: a price from the future is as good as a recent one. *)
not_too_old(timestamp, max_age) == now - timestamp <= max_age

is_recent(timestamp, max_age) ==
  timestamp <= now /\ now - timestamp <= max_age

max_age_of(c) ==
  IF c.max_age # None THEN c.max_age
                      ELSE oracle_config.price_staleness_threshold

(* A feed's answer, normalised, or None when it cannot be used. *)
usable(answer, max_age) ==
  IF answer = None THEN None
  ELSE IF ~is_recent(answer.timestamp, max_age) THEN None
  ELSE [price |-> normalize_price(answer.price, oracle_config.price_precision),
        timestamp |-> answer.timestamp]

(* An adapter judges each feed it reads, one or many at once, by the age   *)
(* allowed for its asset; a custom oracle's answer is judged likewise.     *)
query_adapter(c, answer) == usable(answer, max_age_of(c))

(* The batch adapter or the custom oracle, whichever comes first, with the *)
(* asset's own maximal age; Reflector and its fallback with the global one.*)
resolve(c, feeds) ==
  LET threshold == oracle_config.price_staleness_threshold
      reflector == usable(feeds.source, threshold)
  IN  IF c.batch_adapter \/ c.custom_oracle
      THEN query_adapter(c, feeds.source)
      ELSE IF reflector # None \/ ~fallback THEN reflector
      ELSE usable(feeds.fallback, threshold)

(* The price of a cache entry, or None: the cache is on, the entry was     *)
(* made lately, and the price itself is not stale.                         *)
fresh(entry) ==
  IF /\ ttl > 0 /\ entry # None
     /\ now - entry.cached_at <= ttl
     /\ now - entry.timestamp <= oracle_config.price_staleness_threshold
  THEN [price |-> entry.price, timestamp |-> entry.timestamp]
  ELSE None

is_live(o) == o # None /\ now < o.expiry

(* The outcome of a query for one asset: the answer, None for an error,    *)
(* and what it leaves in the storage.                                      *)
Outcome(answer, o, last, entry) ==
  [answer |-> answer, override |-> o, last_price |-> last, cache |-> entry]

Failed == Outcome(None, None, None, None)

from_override(a, entry) ==
  LET o == config[a].override
  IN  IF validate_price_change(o.price, last_price[a])
      THEN Outcome([price |-> o.price, timestamp |-> o.set_at], o, o.price,
                   entry)
      ELSE Failed

from_cache(o, last, entry) ==
  IF validate_price_change(entry.price, last)
  THEN Outcome(fresh(entry), o, last, entry)
  ELSE Failed

from_feed(a, o, last, feeds) ==
  LET data == resolve(config[a], feeds)
  IN  IF data # None /\ validate_price_change(data.price, last)
      THEN Outcome(data, o, data.price,
                   [price |-> data.price, timestamp |-> data.timestamp,
                    cached_at |-> now])
      ELSE Failed

(* get_asset_price_data, given the cache entry: an override that has       *)
(* expired is removed, and its price becomes the one the next is compared  *)
(* with.                                                                   *)
single(a, entry, feeds) ==
  IF paused \/ config[a] = None \/ ~config[a].enabled THEN Failed
  ELSE LET o == config[a].override
           last == IF o # None THEN o.price ELSE last_price[a]
       IN  IF o # None /\ oracle_config.price_staleness_threshold = 0
           THEN Failed
           ELSE IF is_live(o) THEN from_override(a, entry)
           ELSE IF fresh(entry) # None THEN from_cache(None, last, entry)
           ELSE from_feed(a, None, last, feeds)

(* One asset of get_asset_prices_vec: the cache comes first, and an asset  *)
(* with a batch adapter keeps an override that has expired.                *)
batched(a, entry, feeds) ==
  IF paused THEN Failed
  ELSE IF fresh(entry) # None
       THEN from_cache(IF config[a] = None THEN None ELSE config[a].override,
                       last_price[a], entry)
  ELSE IF config[a] = None \/ ~config[a].enabled THEN Failed
  ELSE IF is_live(config[a].override) THEN from_override(a, entry)
  ELSE IF config[a].batch_adapter
       THEN from_feed(a, config[a].override, last_price[a], feeds)
  ELSE single(a, entry, feeds)

(* All outcomes are stored, or none if one of them is an error. *)
Store(as, outcome) ==
  /\ \A a \in as : outcome[a].answer # None
  /\ config' = [a \in Assets |->
       IF a \in as /\ config[a] # None
       THEN [config[a] EXCEPT !.override = outcome[a].override] ELSE config[a]]
  /\ last_price' = [a \in Assets |->
       IF a \in as THEN outcome[a].last_price ELSE last_price[a]]
  /\ cache' = [a \in Assets |->
       IF a \in as THEN outcome[a].cache ELSE cache[a]]
  /\ UNCHANGED <<now, paused, oracle_config, fallback, ttl>>

get_asset_price(a, feeds) ==
  Store({a}, [b \in {a} |-> single(b, cache[b], feeds)])

(* Of distinct assets; a repeated one would be answered the same again. *)
get_asset_prices_vec(as, feeds) ==
  Store(as, [a \in as |-> batched(a, cache[a], feeds[a])])

(* The entries are cleared first, so that every price is a new one. *)
refresh_prices(as, feeds) ==
  Store(as, [a \in as |-> batched(a, None, feeds[a])])

-----------------------------------------------------------------------------
(* The admin's calls *)

global_vars == <<now, paused, oracle_config, fallback, ttl>>

add_asset(a) ==
  /\ config[a] = None
  /\ config' = [config EXCEPT ![a] =
       [enabled |-> TRUE, override |-> None, batch_adapter |-> FALSE,
        custom_oracle |-> FALSE, max_age |-> None]]
  /\ UNCHANGED <<global_vars, last_price, cache>>

(* Mutation: the baseline alone is dropped. *)
clear_baseline(as) ==
  /\ last_price' = [a \in Assets |-> IF a \in as THEN None ELSE last_price[a]]
  /\ cache' = cache

(* clear_last_price: the baseline and the cache, of a set of assets. *)
clear_last_price(as) ==
  /\ last_price' = [a \in Assets |-> IF a \in as THEN None ELSE last_price[a]]
  /\ cache' = [a \in Assets |-> IF a \in as THEN None ELSE cache[a]]

remove_asset(a) ==
  /\ config' = [config EXCEPT ![a] = None]
  /\ clear_last_price({a})
  /\ UNCHANGED global_vars

(* Mutation: the cache survives the override. *)
kept_entry(a) == cache

(* The next query honours the override. *)
without_entry(a) == [cache EXCEPT ![a] = None]

set_manual_override(a, price, expiry) ==
  /\ config[a] # None
  /\ now < expiry /\ expiry - now <= MAX_MANUAL_OVERRIDE_DURATION
  /\ validate_price_change(price, last_price[a])
  /\ config' = [config EXCEPT ![a].override =
       [price |-> price, expiry |-> expiry, set_at |-> now]]
  /\ cache' = without_entry(a)
  /\ UNCHANGED <<global_vars, last_price>>

remove_manual_override(a) ==
  /\ config[a] # None
  /\ config' = [config EXCEPT ![a].override = None]
  /\ clear_last_price({a})
  /\ UNCHANGED global_vars

set_asset_enabled(a, value) ==
  /\ config[a] # None
  /\ config' = [config EXCEPT ![a].enabled = value]
  /\ UNCHANGED <<global_vars, last_price, cache>>

(* Each sets its own source and the maximal age they share. *)
set_custom_oracle(a, value, max_age) ==
  /\ config[a] # None
  /\ config' = [config EXCEPT ![a].custom_oracle = value,
                              ![a].max_age = max_age]
  /\ UNCHANGED <<global_vars, last_price, cache>>

set_batch_oracle(a, value, max_age) ==
  /\ config[a] # None
  /\ config' = [config EXCEPT ![a].batch_adapter = value,
                              ![a].max_age = max_age]
  /\ UNCHANGED <<global_vars, last_price, cache>>

whitelisted == {a \in Assets : config[a] # None}

set_oracle_config(c) ==
  /\ oracle_config' = c
  /\ clear_last_price(whitelisted)
  /\ UNCHANGED <<now, paused, fallback, ttl, config>>

reset_circuit_breaker(a) ==
  /\ clear_last_price({a})
  /\ UNCHANGED <<global_vars, config>>

reset_all_circuit_breakers ==
  /\ clear_last_price(whitelisted)
  /\ UNCHANGED <<global_vars, config>>

set_price_cache_ttl(t) ==
  /\ ttl' = t
  /\ UNCHANGED <<now, paused, oracle_config, fallback, asset_vars>>

set_fallback_oracle(value) ==
  /\ fallback' = value
  /\ UNCHANGED <<now, paused, oracle_config, ttl, asset_vars>>

SetPaused(value) ==
  /\ paused' = value
  /\ UNCHANGED <<now, oracle_config, fallback, ttl, asset_vars>>

Tick ==
  /\ now < MaxTime
  /\ now' = now + 1
  /\ UNCHANGED <<paused, oracle_config, fallback, ttl, asset_vars>>

Init ==
  /\ now = 0
  /\ paused = FALSE
  /\ oracle_config \in Configs
  /\ fallback = FALSE
  /\ ttl = 0
  /\ config = [a \in Assets |-> None]
  /\ last_price = [a \in Assets |-> None]
  /\ cache = [a \in Assets |-> None]

Query ==
  \/ \E a \in Assets, feeds \in Feeds : get_asset_price(a, feeds)
  \/ \E as \in SUBSET Assets \ {{}} : \E feeds \in [as -> Feeds] :
       get_asset_prices_vec(as, feeds) \/ refresh_prices(as, feeds)

AdminCall ==
  \/ \E a \in Assets :
       \/ add_asset(a)
       \/ remove_asset(a)
       \/ \E p \in Overrides, t \in 1 .. MAX_MANUAL_OVERRIDE_DURATION :
            set_manual_override(a, p, now + t)
       \/ remove_manual_override(a)
       \/ \E value \in BOOLEAN : set_asset_enabled(a, value)
       \/ \E value \in BOOLEAN, age \in MaxAges :
            set_custom_oracle(a, value, age) \/ set_batch_oracle(a, value, age)
       \/ reset_circuit_breaker(a)
  \/ reset_all_circuit_breakers
  \/ \E c \in Configs : set_oracle_config(c)
  \/ \E t \in Ttls : set_price_cache_ttl(t)
  \/ \E value \in BOOLEAN : set_fallback_oracle(value) \/ SetPaused(value)

Next == Tick \/ Query \/ AdminCall

Spec == Init /\ [][Next]_vars

-----------------------------------------------------------------------------
(* A user asking for one price and the router asking for several are told  *)
(* the same, whatever the feeds say and whichever way the override, the    *)
(* cache and the configuration are looked at: where both get an answer, it *)
(* is one answer, and while an override is live, it is that override's     *)
(* (contract.rs:318-427, 429-536; "batch query honours override            *)
(* immediately", contract.rs:151).                                         *)
SingleAndBatchAgree ==
  \A a \in Assets : \A feeds \in Feeds :
    LET one == single(a, cache[a], feeds).answer
        many == batched(a, cache[a], feeds).answer
    IN  /\ one # None /\ many # None => one = many
        /\ many # None /\ config[a] # None /\ is_live(config[a].override)
             => many.price = config[a].override.price

(* No answer is from the future or, unless an override stands in for the   *)
(* feeds, older than both the asset's and the global limit allow: not from *)
(* a cache filled under another configuration either (contract.rs:369-427; *)
(* oracle.rs:122-164, 376-422).                                            *)
AnswersAreRecent ==
  \A a \in Assets : \A feeds \in Feeds :
    \A r \in {single(a, cache[a], feeds), batched(a, cache[a], feeds)} :
      r.answer # None =>
        /\ r.answer.timestamp <= now
        /\ \/ is_live(config[a].override)
           \/ is_recent(r.answer.timestamp, max_age_of(config[a]))
           \/ is_recent(r.answer.timestamp,
                        oracle_config.price_staleness_threshold)

(* A baseline is only dropped with the cache that was checked against it,  *)
(* so a cached price never slips through a breaker that was reset: after a *)
(* reset, a removal or a new configuration the next answer is a new price  *)
(* (storage.rs:293-307, contract.rs:554-580, 606-635).                     *)
CachedPricesHaveABaseline ==
  \A a \in Assets : cache[a] # None => last_price[a] # None

(* A baseline is not lost, and the new one is within the limit of change,  *)
(* counted from the old one or from an override the admin has set.         *)
moved_within(a, new) ==
  /\ last_price[a] # None => new # None
  /\ oracle_config.max_price_change_bps # 0 /\ last_price[a] \notin {None, 0} =>
       \E base \in {last_price[a]} \union
           (IF config[a] # None /\ config[a].override # None
            THEN {config[a].override.price} ELSE {}) :
         deviation_bps(new, base) <= oracle_config.max_price_change_bps

(* However overrides come and go, a step that loses the baseline of an     *)
(* asset or moves it by more than the limit is not a query                 *)
(* (contract.rs:347-358, 840-874).                                         *)
BaselineMovesWithinLimit ==
  [][ (\E a \in Assets : ~moved_within(a, last_price'[a])) => ~Query ]_vars

=============================================================================
