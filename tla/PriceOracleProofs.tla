------------------------- MODULE PriceOracleProofs -------------------------
(***************************************************************************)
(* Theorems about the answers of the price oracle: for any assets, prices, *)
(* configurations and feeds, and without a bound on the clock.             *)
(***************************************************************************)
EXTENDS PriceOracle, TLAPS

(***************************************************************************)
(* The inductive invariant.  What the two queries agree on hangs on the    *)
(* last part: while an override is live there is no cache entry, because   *)
(* setting it removes the entry and no query makes one before it expires.  *)
(***************************************************************************)
override_of(a) == IF config[a] = None THEN None ELSE config[a].override

OverridesAreSound ==
  \A a \in Assets : override_of(a) # None =>
    override_of(a).price > 0 /\ override_of(a).set_at <= now

CacheIsPast ==
  \A a \in Assets : cache[a] # None => cache[a].timestamp <= now

LiveOverridesAreUncached ==
  \A a \in Assets : is_live(override_of(a)) => cache[a] = None

IInv ==
  /\ TypeOK
  /\ oracle_config \in Configs
  /\ OverridesAreSound
  /\ CacheIsPast
  /\ LiveOverridesAreUncached
  /\ CachedPricesHaveABaseline

LEMMA InitInv == Init => IInv
  <1> SUFFICES ASSUME Init PROVE IInv
    OBVIOUS
  <1>1. /\ now = 0 /\ paused = FALSE /\ fallback = FALSE /\ ttl = 0
        /\ oracle_config \in Configs /\ oracle_config \in OracleConfig
        /\ \A a \in Assets : /\ config[a] = None /\ last_price[a] = None
                             /\ cache[a] = None
    BY PriceOracleAssumption DEF Init
  <1>2. TypeOK
    BY PriceOracleAssumption DEF Init, TypeOK
  <1> QED
    BY <1>1, <1>2 DEF IInv, OverridesAreSound, CacheIsPast,
       LiveOverridesAreUncached, CachedPricesHaveABaseline, override_of, is_live

(* What the invariant says of one asset.                                   *)
LEMMA AssetFacts ==
  ASSUME IInv, NEW a \in Assets
  PROVE  /\ now \in Nat
         /\ config[a] # None => config[a] \in AssetConfig
         /\ override_of(a) # None =>
              /\ config[a] # None /\ override_of(a) = config[a].override
              /\ override_of(a) \in Override
              /\ override_of(a).price > 0 /\ override_of(a).set_at <= now
         /\ last_price[a] \in Nat \union {None}
         /\ cache[a] # None =>
              /\ cache[a] \in CachedPriceData /\ cache[a].timestamp <= now
              /\ last_price[a] # None
         /\ is_live(override_of(a)) => cache[a] = None
         /\ oracle_config.price_staleness_threshold \in Nat
         /\ oracle_config.max_price_change_bps \in Nat
  <1>1. config[a] # None => /\ config[a] \in AssetConfig
                            /\ config[a].override \in Override \union {None}
    BY DEF IInv, TypeOK, AssetConfig
  <1>2. /\ oracle_config.price_staleness_threshold \in Nat
        /\ oracle_config.max_price_change_bps \in Nat
    BY DEF IInv, TypeOK, OracleConfig
  <1>3. override_of(a) # None =>
          /\ config[a] # None /\ override_of(a) = config[a].override
          /\ override_of(a) \in Override
          /\ override_of(a).price > 0 /\ override_of(a).set_at <= now
    BY <1>1 DEF IInv, OverridesAreSound, override_of
  <1>4. /\ now \in Nat /\ last_price[a] \in Nat \union {None}
        /\ cache[a] # None =>
              /\ cache[a] \in CachedPriceData /\ cache[a].timestamp <= now
              /\ last_price[a] # None
    BY DEF IInv, TypeOK, CacheIsPast, CachedPricesHaveABaseline
  <1> QED
    BY <1>1, <1>2, <1>3, <1>4 DEF IInv, LiveOverridesAreUncached

-----------------------------------------------------------------------------
(* The parts of a query *)

LEMMA NormalizeType ==
  ASSUME NEW p \in Nat, oracle_config \in Configs
  PROVE  normalize_price(p, oracle_config.price_precision) \in Int
  <1> DEFINE target == oracle_config.price_precision
  <1>1. target \in Nat /\ Decimals \in Nat
    BY PriceOracleAssumption DEF OracleConfig
  <1> HIDE DEF target
  <1>2. CASE Decimals > target
    <2>1. 10 ^ (Decimals - target) \in Nat /\ 10 ^ (Decimals - target) > 0
      BY <1>1, <1>2, PowersAssumption DEF target
    <2> DEFINE scale == 10 ^ (Decimals - target)
    <2> HIDE DEF scale
    <2>2. p \div scale \in Int
      BY <2>1 DEF scale
    <2> QED
      BY <1>2, <2>2 DEF normalize_price, scale, target
  <1>3. CASE ~(Decimals > target)
    <2>1. p * 10 ^ (target - Decimals) \in Int
      <3>1. target - Decimals \in Nat
        BY <1>1, <1>3
      <3>2. 10 ^ (target - Decimals) \in Int
        BY <3>1, SMT
      <3> DEFINE scale == 10 ^ (target - Decimals)
      <3> HIDE DEF scale
      <3>3. p * scale \in Int
        BY <3>2 DEF scale
      <3> QED
        BY <3>3 DEF scale
    <2> QED
      BY <1>3, <2>1 DEF normalize_price, target
  <1> QED
    BY <1>2, <1>3

(* An answer that can be used is from the past and recent enough.          *)
LEMMA UsableFacts ==
  ASSUME IInv, NEW answer \in Feed, NEW max_age \in Nat,
         usable(answer, max_age) # None
  PROVE  /\ usable(answer, max_age).price \in Int
         /\ usable(answer, max_age).timestamp \in Nat
         /\ is_recent(usable(answer, max_age).timestamp, max_age)
  <1>1. answer # None /\ is_recent(answer.timestamp, max_age)
    BY DEF usable
  <1>2. answer.price \in Nat /\ answer.timestamp \in Nat
    <2>1. answer \in [price : RawPrices, timestamp : 0 .. now + 1]
      BY <1>1 DEF Feed
    <2>2. answer.price \in RawPrices /\ answer.timestamp \in 0 .. now + 1
      BY <2>1
    <2>3. RawPrices \subseteq Nat
      BY PriceOracleAssumption
    <2>4. now \in Nat
      BY DEF IInv, TypeOK
    <2>5. answer.price \in Nat
      BY <2>2, <2>3
    <2>6. \A t \in 0 .. now + 1 : t \in Nat
      BY <2>4
    <2> QED
      BY <2>2, <2>5, <2>6
  <1>3. normalize_price(answer.price, oracle_config.price_precision) \in Int
    BY <1>2, NormalizeType DEF IInv
  <1> QED
    BY <1>1, <1>2, <1>3 DEF usable

LEMMA ResolveFacts ==
  ASSUME IInv, NEW a \in Assets, config[a] # None, NEW feeds \in Feeds,
         NEW data, data = resolve(config[a], feeds), data # None
  PROVE  /\ data.price \in Int /\ data.timestamp \in Nat
         /\ data.timestamp <= now
         /\ \/ is_recent(data.timestamp, max_age_of(config[a]))
            \/ is_recent(data.timestamp,
                         oracle_config.price_staleness_threshold)
  <1>1. feeds.source \in Feed /\ feeds.fallback \in Feed
    BY DEF Feeds, Feed
  <1>2. /\ oracle_config.price_staleness_threshold \in Nat
        /\ max_age_of(config[a]) \in Nat
    BY AssetFacts DEF max_age_of, AssetConfig
  <1>3. \/ data = usable(feeds.source, max_age_of(config[a]))
        \/ data = usable(feeds.source, oracle_config.price_staleness_threshold)
        \/ data = usable(feeds.fallback,
                         oracle_config.price_staleness_threshold)
    BY DEF resolve, query_adapter
  <1>4. /\ data.price \in Int /\ data.timestamp \in Nat
        /\ \/ is_recent(data.timestamp, max_age_of(config[a]))
           \/ is_recent(data.timestamp, oracle_config.price_staleness_threshold)
    BY <1>1, <1>2, <1>3, UsableFacts
  <1> QED
    BY <1>4 DEF is_recent

(* A price is no further from itself than any limit.                       *)
LEMMA SamePrice ==
  ASSUME NEW p \in Nat, p > 0
  PROVE  deviation_bps(p, p) = 0
  <1>1. 0 \div p = 0
    BY SMT
  <1> QED
    BY <1>1 DEF deviation_bps

-----------------------------------------------------------------------------
(* What an answer and its outcome are good for: the answer is from the     *)
(* past and recent, the baseline keeps within the limit, and the cache     *)
(* only gets an entry when no override is live.                            *)
sound(a, entry, r) ==
  /\ r.override = None \/ r.override = override_of(a)
  /\ r.last_price \in Nat /\ moved_within(a, r.last_price)
  /\ \/ r.cache = entry
     \/ /\ r.cache \in CachedPriceData /\ r.cache.timestamp <= now
        /\ ~is_live(override_of(a))
  /\ r.answer.timestamp <= now
  /\ \/ is_live(config[a].override)
     \/ is_recent(r.answer.timestamp, max_age_of(config[a]))
     \/ is_recent(r.answer.timestamp, oracle_config.price_staleness_threshold)

(* The baselines a query compares with.                                    *)
baselines(a) ==
  {last_price[a]} \union (IF override_of(a) = None THEN {}
                          ELSE {override_of(a).price})

LEMMA MovedWithin ==
  ASSUME IInv, NEW a \in Assets, NEW last \in baselines(a), NEW price \in Nat,
         \/ price = last
         \/ validate_price_change(price, last)
  PROVE  moved_within(a, price)
  <1> SUFFICES ASSUME oracle_config.max_price_change_bps # 0,
                      last_price[a] \notin {None, 0}
               PROVE  deviation_bps(price, last)
                        <= oracle_config.max_price_change_bps
    <2>1. last \in {last_price[a]} \union
            (IF config[a] # None /\ config[a].override # None
             THEN {config[a].override.price} ELSE {})
      BY DEF baselines, override_of
    <2> QED
      BY <2>1, PriceOracleAssumption DEF moved_within
  <1>1. /\ last \in Nat /\ last > 0
        /\ oracle_config.max_price_change_bps \in Nat
    BY AssetFacts DEF baselines, Override
  <1>2. CASE price = last
    BY <1>1, <1>2, SamePrice
  <1>3. CASE validate_price_change(price, last)
    BY <1>1, <1>3, PriceOracleAssumption DEF validate_price_change
  <1> QED
    BY <1>2, <1>3

LEMMA FromOverrideSound ==
  ASSUME IInv, NEW a \in Assets, config[a] # None, NEW entry,
         is_live(config[a].override),
         from_override(a, entry).answer # None
  PROVE  sound(a, entry, from_override(a, entry))
  <1> DEFINE o == config[a].override
             r == from_override(a, entry)
  <1>1. /\ o = override_of(a) /\ o # None
        /\ o \in Override /\ o.price > 0 /\ o.set_at <= now
    BY AssetFacts DEF is_live, override_of
  <1>2. r = Outcome([price |-> o.price, timestamp |-> o.set_at], o, o.price,
                    entry)
    BY DEF from_override, Failed, Outcome
  <1>3. moved_within(a, o.price)
    BY <1>1, MovedWithin DEF baselines, Override
  <1> QED
    BY <1>1, <1>2, <1>3 DEF sound, Outcome, Override

LEMMA FromCacheSound ==
  ASSUME IInv, NEW a \in Assets, NEW entry, entry \in {cache[a], None},
         fresh(entry) # None,
         NEW last \in baselines(a), NEW o \in {None, override_of(a)},
         from_cache(o, last, entry).answer # None
  PROVE  /\ sound(a, entry, from_cache(o, last, entry))
         /\ from_cache(o, last, entry).answer = fresh(entry)
  <1> DEFINE r == from_cache(o, last, entry)
  <1>1. r = Outcome(fresh(entry), o, last, entry)
    BY DEF from_cache, Failed, Outcome
  <1>2. /\ entry # None /\ entry = cache[a]
        /\ fresh(entry) = [price |-> entry.price, timestamp |-> entry.timestamp]
        /\ now - entry.timestamp <= oracle_config.price_staleness_threshold
    BY DEF fresh
  <1>3. entry.timestamp <= now /\ last_price[a] \in Nat
    BY <1>2, AssetFacts
  <1>4. last \in Nat
    BY <1>3, AssetFacts DEF baselines, Override
  <1>5. moved_within(a, last)
    BY <1>4, MovedWithin
  <1>6. is_recent(entry.timestamp, oracle_config.price_staleness_threshold)
    BY <1>2, <1>3 DEF is_recent
  <1> QED
    BY <1>1, <1>2, <1>3, <1>4, <1>5, <1>6 DEF sound, Outcome

LEMMA FromFeedSound ==
  ASSUME IInv, NEW a \in Assets, config[a] # None, NEW feeds \in Feeds,
         ~is_live(override_of(a)), NEW entry,
         NEW last \in baselines(a), NEW o \in {None, override_of(a)},
         from_feed(a, o, last, feeds).answer # None
  PROVE  /\ sound(a, entry, from_feed(a, o, last, feeds))
         /\ from_feed(a, o, last, feeds).answer = resolve(config[a], feeds)
  <1> DEFINE data == resolve(config[a], feeds)
             r == from_feed(a, o, last, feeds)
             made == [price |-> data.price, timestamp |-> data.timestamp,
                      cached_at |-> now]
  <1>1. /\ data # None /\ validate_price_change(data.price, last)
        /\ r = Outcome(data, o, data.price, made)
    BY DEF from_feed, Failed, Outcome
  <1>2. /\ data.price \in Int /\ data.timestamp \in Nat /\ data.timestamp <= now
        /\ \/ is_recent(data.timestamp, max_age_of(config[a]))
           \/ is_recent(data.timestamp, oracle_config.price_staleness_threshold)
    BY <1>1, ResolveFacts
  <1> HIDE DEF data
  <1>3. data.price \in Nat
    BY <1>1, <1>2 DEF validate_price_change
  <1>4. moved_within(a, data.price)
    BY <1>1, <1>3, MovedWithin
  <1>5. made \in CachedPriceData
    BY <1>2, <1>3, AssetFacts DEF CachedPriceData
  <1>6. /\ r.override = o /\ r.last_price = data.price
        /\ r.cache = made /\ r.answer = data
    BY <1>1 DEF Outcome
  <1>7. sound(a, entry, r)
    BY <1>2, <1>3, <1>4, <1>5, <1>6 DEF sound
  <1> QED
    BY <1>6, <1>7 DEF data

(* The ways through a query for one asset, and through a query for more.   *)
LEMMA SingleCases ==
  ASSUME IInv, NEW a \in Assets, NEW entry, NEW feeds \in Feeds,
         single(a, entry, feeds).answer # None
  PROVE  /\ config[a] # None /\ ~paused /\ config[a].enabled
         /\ \E last \in baselines(a) :
              \/ /\ is_live(config[a].override)
                 /\ single(a, entry, feeds) = from_override(a, entry)
              \/ /\ ~is_live(override_of(a)) /\ fresh(entry) # None
                 /\ single(a, entry, feeds) = from_cache(None, last, entry)
              \/ /\ ~is_live(override_of(a)) /\ fresh(entry) = None
                 /\ single(a, entry, feeds) = from_feed(a, None, last, feeds)
  <1>1. config[a] # None /\ ~paused /\ config[a].enabled
    BY DEF single, Failed, Outcome
  <1> DEFINE o == config[a].override
             last == IF o # None THEN o.price ELSE last_price[a]
  <1>2. override_of(a) = o /\ last \in baselines(a)
    BY <1>1 DEF override_of, baselines
  <1>3. single(a, entry, feeds) =
          IF is_live(o) THEN from_override(a, entry)
          ELSE IF fresh(entry) # None THEN from_cache(None, last, entry)
          ELSE from_feed(a, None, last, feeds)
    BY <1>1 DEF single, Failed, Outcome
  <1> HIDE DEF last
  <1> QED
    BY <1>1, <1>2, <1>3

LEMMA BatchedCases ==
  ASSUME IInv, NEW a \in Assets, NEW entry, NEW feeds \in Feeds,
         batched(a, entry, feeds).answer # None
  PROVE  \/ /\ fresh(entry) # None
            /\ batched(a, entry, feeds) =
                 from_cache(override_of(a), last_price[a], entry)
         \/ /\ fresh(entry) = None /\ config[a] # None
            /\ is_live(config[a].override)
            /\ batched(a, entry, feeds) = from_override(a, entry)
         \/ /\ fresh(entry) = None /\ config[a] # None
            /\ ~is_live(override_of(a))
            /\ batched(a, entry, feeds) =
                 from_feed(a, override_of(a), last_price[a], feeds)
         \/ /\ fresh(entry) = None /\ config[a] # None
            /\ ~is_live(override_of(a))
            /\ batched(a, entry, feeds) = single(a, entry, feeds)
  BY DEF batched, override_of, Failed, Outcome

LEMMA SingleSound ==
  ASSUME IInv, NEW a \in Assets, NEW entry \in {cache[a], None},
         NEW feeds \in Feeds, single(a, entry, feeds).answer # None
  PROVE  sound(a, entry, single(a, entry, feeds))
  BY SingleCases, FromOverrideSound, FromCacheSound, FromFeedSound

LEMMA BatchedSound ==
  ASSUME IInv, NEW a \in Assets, NEW entry \in {cache[a], None},
         NEW feeds \in Feeds, batched(a, entry, feeds).answer # None
  PROVE  sound(a, entry, batched(a, entry, feeds))
  <1>1. last_price[a] \in baselines(a)
    BY DEF baselines
  <1> QED
    BY <1>1, BatchedCases, FromOverrideSound, FromCacheSound, FromFeedSound,
       SingleSound

-----------------------------------------------------------------------------
(* Sound outcomes, stored, keep the invariant and move no baseline far.    *)
LEMMA StoreKeeps ==
  ASSUME IInv, NEW as \in SUBSET Assets, NEW outcome, Store(as, outcome),
         \A a \in as : outcome[a].answer # None =>
           sound(a, cache[a], outcome[a]) \/ sound(a, None, outcome[a])
  PROVE  IInv' /\ \A a \in Assets : moved_within(a, last_price'[a])
  <1>1. \A a \in as : /\ sound(a, cache[a], outcome[a])
                           \/ sound(a, None, outcome[a])
    BY DEF Store
  <1>2. /\ UNCHANGED <<now, paused, oracle_config, fallback, ttl>>
        /\ config' = [a \in Assets |->
             IF a \in as /\ config[a] # None
             THEN [config[a] EXCEPT !.override = outcome[a].override]
             ELSE config[a]]
        /\ last_price' = [a \in Assets |->
             IF a \in as THEN outcome[a].last_price ELSE last_price[a]]
        /\ cache' = [a \in Assets |->
             IF a \in as THEN outcome[a].cache ELSE cache[a]]
    BY DEF Store
  <1>3. ASSUME NEW a \in Assets
        PROVE  /\ config'[a] \in AssetConfig \union {None}
               /\ override_of(a)' = None \/ override_of(a)' = override_of(a)
               /\ last_price'[a] \in Nat \union {None}
               /\ moved_within(a, last_price'[a])
               /\ cache'[a] # None =>
                    /\ cache'[a] \in CachedPriceData
                    /\ cache'[a].timestamp <= now
                    /\ last_price'[a] # None
               /\ is_live(override_of(a)) => cache'[a] = None
    <2>1. CASE a \in as
      <3>1. /\ outcome[a].override = None
                \/ outcome[a].override = override_of(a)
            /\ outcome[a].last_price \in Nat
            /\ moved_within(a, outcome[a].last_price)
            /\ \/ outcome[a].cache = cache[a]
               \/ outcome[a].cache = None
               \/ /\ outcome[a].cache \in CachedPriceData
                  /\ outcome[a].cache.timestamp <= now
                  /\ ~is_live(override_of(a))
        BY <1>1, <2>1 DEF sound
      <3>2. /\ last_price'[a] = outcome[a].last_price
            /\ cache'[a] = outcome[a].cache
            /\ config'[a] = IF config[a] = None THEN None
                 ELSE [config[a] EXCEPT !.override = outcome[a].override]
        BY <1>2, <2>1
      <3>3. config'[a] \in AssetConfig \union {None}
        <4>1. CASE config[a] = None
          BY <3>2, <4>1
        <4>2. CASE config[a] # None
          <5>1. /\ config[a] \in AssetConfig
                /\ outcome[a].override \in Override \union {None}
            BY <3>1, <4>2, AssetFacts
          <5> QED
            BY <3>2, <4>2, <5>1 DEF AssetConfig
        <4> QED
          BY <4>1, <4>2
      <3>4. override_of(a)' = None \/ override_of(a)' = override_of(a)
        <4>1. CASE config[a] = None
          BY <3>2, <4>1 DEF override_of
        <4>2. CASE config[a] # None
          <5>1. config[a] \in AssetConfig
            BY <4>2, AssetFacts
          <5>2. config'[a].override = outcome[a].override
            BY <3>2, <4>2, <5>1 DEF AssetConfig
          <5> QED
            BY <3>1, <5>2 DEF override_of
        <4> QED
          BY <4>1, <4>2
      <3> QED
        BY <3>1, <3>2, <3>3, <3>4, AssetFacts, PriceOracleAssumption
    <2>2. CASE a \notin as
      <3>1. /\ config'[a] = config[a] /\ last_price'[a] = last_price[a]
            /\ cache'[a] = cache[a] /\ override_of(a)' = override_of(a)
        BY <1>2, <2>2 DEF override_of
      <3>2. moved_within(a, last_price[a])
        <4>1. CASE last_price[a] \in Nat
          BY <4>1, MovedWithin DEF baselines
        <4>2. CASE last_price[a] = None
          BY <4>2 DEF moved_within
        <4> QED
          BY <4>1, <4>2, AssetFacts
      <3> QED
        BY <3>1, <3>2, AssetFacts
    <2> QED
      BY <2>1, <2>2
  <1>4. TypeOK'
    BY <1>2, <1>3 DEF IInv, TypeOK
  <1>5. OverridesAreSound' /\ CacheIsPast' /\ CachedPricesHaveABaseline'
    BY <1>2, <1>3 DEF IInv, OverridesAreSound, CacheIsPast,
                      CachedPricesHaveABaseline
  <1>6. LiveOverridesAreUncached'
    BY <1>2, <1>3 DEF LiveOverridesAreUncached, is_live
  <1> QED
    BY <1>2, <1>3, <1>4, <1>5, <1>6 DEF IInv

LEMMA QueryKeeps ==
  ASSUME IInv, Query
  PROVE  IInv' /\ \A a \in Assets : moved_within(a, last_price'[a])
  <1>1. ASSUME NEW a \in Assets, NEW feeds \in Feeds, get_asset_price(a, feeds)
        PROVE  IInv' /\ \A b \in Assets : moved_within(b, last_price'[b])
    <2> DEFINE outcome == [b \in {a} |-> single(b, cache[b], feeds)]
    <2>1. Store({a}, outcome)
      BY <1>1 DEF get_asset_price
    <2>2. \A b \in {a} :
            outcome[b].answer # None => sound(b, cache[b], outcome[b])
      BY SingleSound
    <2> HIDE DEF outcome
    <2> QED
      BY <2>1, <2>2, StoreKeeps
  <1>2. ASSUME NEW as \in SUBSET Assets, NEW feeds \in [as -> Feeds],
               get_asset_prices_vec(as, feeds)
        PROVE  IInv' /\ \A b \in Assets : moved_within(b, last_price'[b])
    <2> DEFINE outcome == [b \in as |-> batched(b, cache[b], feeds[b])]
    <2>1. Store(as, outcome)
      BY <1>2 DEF get_asset_prices_vec
    <2>2. \A b \in as :
            outcome[b].answer # None => sound(b, cache[b], outcome[b])
      BY BatchedSound
    <2> HIDE DEF outcome
    <2> QED
      BY <2>1, <2>2, StoreKeeps
  <1>3. ASSUME NEW as \in SUBSET Assets, NEW feeds \in [as -> Feeds],
               refresh_prices(as, feeds)
        PROVE  IInv' /\ \A b \in Assets : moved_within(b, last_price'[b])
    <2> DEFINE outcome == [b \in as |-> batched(b, None, feeds[b])]
    <2>1. Store(as, outcome)
      BY <1>3 DEF refresh_prices
    <2>2. \A b \in as : outcome[b].answer # None => sound(b, None, outcome[b])
      BY BatchedSound
    <2> HIDE DEF outcome
    <2> QED
      BY <2>1, <2>2, StoreKeeps
  <1> QED
    BY <1>1, <1>2, <1>3 DEF Query

-----------------------------------------------------------------------------
(* The admin's calls.  Each is described by what it does to one asset.     *)
LEMMA AdminKeeps ==
  ASSUME IInv,
         now' = now, paused' \in BOOLEAN, fallback' \in BOOLEAN, ttl' \in Nat,
         oracle_config' \in Configs,
         config' \in [Assets -> AssetConfig \union {None}],
         last_price' \in [Assets -> Nat \union {None}],
         cache' \in [Assets -> CachedPriceData \union {None}],
         \A a \in Assets :
           /\ \/ override_of(a)' = None \/ override_of(a)' = override_of(a)
              \/ /\ override_of(a)'.price > 0 /\ override_of(a)'.set_at = now
                 /\ cache'[a] = None
           /\ \/ cache'[a] = None
              \/ cache'[a] = cache[a] /\ last_price'[a] = last_price[a]
  PROVE  IInv'
  <1>1. oracle_config' \in OracleConfig
    BY PriceOracleAssumption
  <1>2. TypeOK'
    BY <1>1 DEF IInv, TypeOK
  <1>3. now \in Nat
    BY DEF IInv, TypeOK
  <1>4. OverridesAreSound' /\ CacheIsPast' /\ CachedPricesHaveABaseline'
    BY <1>3 DEF IInv, OverridesAreSound, CacheIsPast, CachedPricesHaveABaseline
  <1>5. LiveOverridesAreUncached'
    BY DEF IInv, LiveOverridesAreUncached, is_live
  <1> QED
    BY <1>2, <1>4, <1>5 DEF IInv

(* Clearing drops the baselines and the cache of some assets.              *)
LEMMA ClearFacts ==
  ASSUME IInv, NEW as, clear_last_price(as)
  PROVE  /\ last_price' \in [Assets -> Nat \union {None}]
         /\ cache' \in [Assets -> CachedPriceData \union {None}]
         /\ \A a \in Assets :
              IF a \in as THEN cache'[a] = None
              ELSE cache'[a] = cache[a] /\ last_price'[a] = last_price[a]
  BY DEF clear_last_price, IInv, TypeOK

(* Calls that change the configuration of one asset, its cache entry kept, *)
(* or dropped with or without its baseline.                                *)
LEMMA AssetCallKeeps ==
  ASSUME IInv, NEW a \in Assets, UNCHANGED global_vars,
         NEW c \in AssetConfig \union {None},
         config' = [config EXCEPT ![a] = c],
         \/ UNCHANGED <<last_price, cache>>
         \/ UNCHANGED last_price /\ cache' = [cache EXCEPT ![a] = None]
         \/ clear_last_price({a}),
         \/ c = None
         \/ c.override = None
         \/ c.override = override_of(a)
         \/ /\ c.override.price > 0 /\ c.override.set_at = now
            /\ cache'[a] = None
  PROVE  IInv'
  <1>1. /\ now' = now /\ paused' \in BOOLEAN /\ fallback' \in BOOLEAN
        /\ ttl' \in Nat /\ oracle_config' \in Configs
        /\ config' \in [Assets -> AssetConfig \union {None}]
    BY DEF IInv, TypeOK, global_vars
  <1>2. /\ last_price' \in [Assets -> Nat \union {None}]
        /\ cache' \in [Assets -> CachedPriceData \union {None}]
        /\ \A b \in Assets :
             \/ cache'[b] = None
             \/ cache'[b] = cache[b] /\ last_price'[b] = last_price[b]
    <2>1. CASE UNCHANGED <<last_price, cache>>
      BY <2>1 DEF IInv, TypeOK
    <2>2. CASE UNCHANGED last_price /\ cache' = [cache EXCEPT ![a] = None]
      BY <2>2 DEF IInv, TypeOK
    <2>3. CASE clear_last_price({a})
      BY <2>3, ClearFacts
    <2> QED
      BY <2>1, <2>2, <2>3
  <1>3. ASSUME NEW b \in Assets
        PROVE  \/ override_of(b)' = None \/ override_of(b)' = override_of(b)
               \/ /\ override_of(b)'.price > 0 /\ override_of(b)'.set_at = now
                  /\ cache'[b] = None
    <2>1. CASE b = a
      <3>1. config'[b] = c
        BY <2>1 DEF IInv, TypeOK
      <3> QED
        BY <2>1, <3>1 DEF override_of
    <2>2. CASE b # a
      BY <2>2 DEF override_of, IInv, TypeOK
    <2> QED
      BY <2>1, <2>2
  <1> QED
    BY <1>1, <1>2, <1>3, AdminKeeps

LEMMA AssetCalls ==
  ASSUME IInv, NEW a \in Assets,
         \/ add_asset(a)
         \/ remove_asset(a)
         \/ \E p \in Overrides, t \in 1 .. MAX_MANUAL_OVERRIDE_DURATION :
              set_manual_override(a, p, now + t)
         \/ remove_manual_override(a)
         \/ \E value \in BOOLEAN : set_asset_enabled(a, value)
         \/ \E value \in BOOLEAN, age \in MaxAges :
              \/ set_custom_oracle(a, value, age)
              \/ set_batch_oracle(a, value, age)
  PROVE  IInv'
  <1>1. config[a] # None => /\ config[a] \in AssetConfig
                            /\ config[a].override = override_of(a)
    BY AssetFacts DEF override_of
  <1>2. CASE add_asset(a)
    <2> DEFINE c == [enabled |-> TRUE, override |-> None,
                     batch_adapter |-> FALSE, custom_oracle |-> FALSE,
                     max_age |-> None]
    <2>1. c \in AssetConfig /\ c.override = None
      BY DEF AssetConfig
    <2>2. /\ config' = [config EXCEPT ![a] = c]
          /\ UNCHANGED <<global_vars, last_price, cache>>
      BY <1>2 DEF add_asset
    <2> HIDE DEF c
    <2> QED
      BY <2>1, <2>2, AssetCallKeeps
  <1>3. CASE remove_asset(a)
    BY <1>3, AssetCallKeeps DEF remove_asset
  <1>4. ASSUME NEW p \in Overrides, NEW t \in 1 .. MAX_MANUAL_OVERRIDE_DURATION,
               set_manual_override(a, p, now + t)
        PROVE  IInv'
    <2> DEFINE o == [price |-> p, expiry |-> now + t, set_at |-> now]
               c == [config[a] EXCEPT !.override = o]
    <2>1. /\ config[a] # None /\ p > 0
          /\ config' = [config EXCEPT ![a] = c]
          /\ cache' = [cache EXCEPT ![a] = None]
          /\ UNCHANGED <<global_vars, last_price>>
      BY <1>4 DEF set_manual_override, without_entry, validate_price_change
    <2>2. o \in Override
      <3>1. now \in Nat /\ t \in Nat /\ p \in Nat
        BY PriceOracleAssumption DEF IInv, TypeOK
      <3> QED
        BY <3>1 DEF Override
    <2>3. c \in AssetConfig /\ c.override = o
      <3> HIDE DEF o
      <3> QED
        BY <1>1, <2>1, <2>2 DEF AssetConfig
    <2>4. cache'[a] = None
      BY <2>1 DEF IInv, TypeOK
    <2>5. o.price > 0 /\ o.set_at = now
      BY <2>1
    <2> HIDE DEF c, o
    <2> QED
      BY <2>1, <2>3, <2>4, <2>5, AssetCallKeeps
  <1>5. CASE remove_manual_override(a)
    <2> DEFINE c == [config[a] EXCEPT !.override = None]
    <2>1. c \in AssetConfig /\ c.override = None
      BY <1>1, <1>5 DEF remove_manual_override, AssetConfig
    <2>2. /\ config' = [config EXCEPT ![a] = c]
          /\ clear_last_price({a}) /\ UNCHANGED global_vars
      BY <1>5 DEF remove_manual_override
    <2> HIDE DEF c
    <2> QED
      BY <2>1, <2>2, AssetCallKeeps
  <1>6. ASSUME NEW c \in AssetConfig, c.override = override_of(a),
               config' = [config EXCEPT ![a] = c],
               UNCHANGED <<global_vars, last_price, cache>>
        PROVE  IInv'
    BY <1>6, AssetCallKeeps
  <1>7. ASSUME NEW value \in BOOLEAN, set_asset_enabled(a, value)
        PROVE  IInv'
    <2> DEFINE c == [config[a] EXCEPT !.enabled = value]
    <2>1. c \in AssetConfig /\ c.override = override_of(a)
      BY <1>1, <1>7 DEF set_asset_enabled, AssetConfig
    <2>2. /\ config' = [config EXCEPT ![a] = c]
          /\ UNCHANGED <<global_vars, last_price, cache>>
      BY <1>7 DEF set_asset_enabled
    <2> HIDE DEF c
    <2> QED
      BY <1>6, <2>1, <2>2
  <1>8. ASSUME NEW value \in BOOLEAN, NEW age \in MaxAges,
               set_custom_oracle(a, value, age)
        PROVE  IInv'
    <2> DEFINE c == [config[a] EXCEPT !.custom_oracle = value, !.max_age = age]
    <2>1. age \in Nat \union {None}
      BY PriceOracleAssumption
    <2>2. c \in AssetConfig /\ c.override = override_of(a)
      BY <1>1, <1>8, <2>1 DEF set_custom_oracle, AssetConfig
    <2>3. /\ config' = [config EXCEPT ![a] = c]
          /\ UNCHANGED <<global_vars, last_price, cache>>
      BY <1>8, <1>1 DEF set_custom_oracle, IInv, TypeOK, AssetConfig
    <2> HIDE DEF c
    <2> QED
      BY <1>6, <2>2, <2>3
  <1>9. ASSUME NEW value \in BOOLEAN, NEW age \in MaxAges,
               set_batch_oracle(a, value, age)
        PROVE  IInv'
    <2> DEFINE c == [config[a] EXCEPT !.batch_adapter = value, !.max_age = age]
    <2>1. age \in Nat \union {None}
      BY PriceOracleAssumption
    <2>2. c \in AssetConfig /\ c.override = override_of(a)
      BY <1>1, <1>9, <2>1 DEF set_batch_oracle, AssetConfig
    <2>3. /\ config' = [config EXCEPT ![a] = c]
          /\ UNCHANGED <<global_vars, last_price, cache>>
      BY <1>9, <1>1 DEF set_batch_oracle, IInv, TypeOK, AssetConfig
    <2> HIDE DEF c
    <2> QED
      BY <1>6, <2>2, <2>3
  <1> QED
    BY <1>2, <1>3, <1>4, <1>5, <1>7, <1>8, <1>9

LEMMA GlobalCalls ==
  ASSUME IInv,
         \/ \E a \in Assets : reset_circuit_breaker(a)
         \/ reset_all_circuit_breakers
         \/ \E c \in Configs : set_oracle_config(c)
         \/ \E t \in Ttls : set_price_cache_ttl(t)
         \/ \E value \in BOOLEAN :
              set_fallback_oracle(value) \/ SetPaused(value)
  PROVE  IInv'
  <1>1. /\ now' = now /\ paused' \in BOOLEAN /\ fallback' \in BOOLEAN
        /\ ttl' \in Nat /\ oracle_config' \in Configs /\ config' = config
        /\ \/ \E as : clear_last_price(as)
           \/ UNCHANGED <<last_price, cache>>
    <2>1. /\ paused \in BOOLEAN /\ fallback \in BOOLEAN /\ ttl \in Nat
          /\ oracle_config \in Configs
      BY DEF IInv, TypeOK
    <2>2. Ttls \subseteq Nat
      BY PriceOracleAssumption
    <2> QED
      BY <2>1, <2>2
      DEF reset_circuit_breaker, reset_all_circuit_breakers,
          set_oracle_config, set_price_cache_ttl, set_fallback_oracle,
          SetPaused, global_vars, asset_vars
  <1>2. /\ last_price' \in [Assets -> Nat \union {None}]
        /\ cache' \in [Assets -> CachedPriceData \union {None}]
        /\ \A a \in Assets :
             \/ cache'[a] = None
             \/ cache'[a] = cache[a] /\ last_price'[a] = last_price[a]
    <2>1. CASE \E as : clear_last_price(as)
      BY <2>1, ClearFacts
    <2>2. CASE UNCHANGED <<last_price, cache>>
      BY <2>2 DEF IInv, TypeOK
    <2> QED
      BY <1>1, <2>1, <2>2
  <1>3. config' \in [Assets -> AssetConfig \union {None}]
    BY <1>1 DEF IInv, TypeOK
  <1>4. \A a \in Assets : override_of(a)' = override_of(a)
    BY <1>1 DEF override_of
  <1> QED
    BY <1>1, <1>2, <1>3, <1>4, AdminKeeps

LEMMA TickKeeps ==
  ASSUME IInv, Tick
  PROVE  IInv'
  <1>1. /\ now \in Nat /\ now' = now + 1
        /\ UNCHANGED <<paused, oracle_config, fallback, ttl, config, last_price,
                       cache>>
    BY DEF Tick, asset_vars, IInv, TypeOK
  <1>2. \A a \in Assets :
          /\ override_of(a)' = override_of(a)
          /\ override_of(a) # None => override_of(a) \in Override
          /\ cache[a] # None => cache[a] \in CachedPriceData
    BY <1>1, AssetFacts DEF override_of
  <1>3. TypeOK' /\ CachedPricesHaveABaseline'
    BY <1>1 DEF IInv, TypeOK, CachedPricesHaveABaseline
  <1>4. OverridesAreSound' /\ CacheIsPast'
    BY <1>1, <1>2 DEF IInv, OverridesAreSound, CacheIsPast, Override,
                      CachedPriceData
  <1>5. LiveOverridesAreUncached'
    BY <1>1, <1>2 DEF IInv, LiveOverridesAreUncached, is_live, Override
  <1> QED
    BY <1>1, <1>3, <1>4, <1>5 DEF IInv

LEMMA StepInv == IInv /\ [Next]_vars => IInv'
  <1> SUFFICES ASSUME IInv, [Next]_vars PROVE IInv'
    OBVIOUS
  <1>1. CASE Query
    BY <1>1, QueryKeeps
  <1>2. CASE AdminCall
    BY <1>2, AssetCalls, GlobalCalls DEF AdminCall
  <1>3. CASE Tick
    BY <1>3, TickKeeps
  <1>4. CASE UNCHANGED vars
    <2>1. /\ UNCHANGED <<now, paused, oracle_config, fallback, ttl, config,
                         last_price, cache>>
          /\ \A a \in Assets : override_of(a)' = override_of(a)
      BY <1>4 DEF vars, asset_vars, override_of
    <2> QED
      BY <2>1, AdminKeeps DEF IInv, TypeOK
  <1> QED
    BY <1>1, <1>2, <1>3, <1>4 DEF Next

LEMMA Inductive == Spec => []IInv
  BY InitInv, StepInv, PTL DEF Spec

-----------------------------------------------------------------------------
(* The types hold.                                                         *)
THEOREM TypeCorrect == Spec => []TypeOK
  <1>1. IInv => TypeOK
    BY DEF IInv
  <1> QED
    BY <1>1, Inductive, PTL

(* A cached price always has the baseline it was checked against           *)
(* (storage.rs:293-307).                                                   *)
THEOREM BaselinesRemain == Spec => []CachedPricesHaveABaseline
  <1>1. IInv => CachedPricesHaveABaseline
    BY DEF IInv
  <1> QED
    BY <1>1, Inductive, PTL

(* No answer is from the future or older than the configuration allows,    *)
(* whatever the feeds say and however the configuration changed since the  *)
(* price was cached (contract.rs:369-427).                                 *)
THEOREM AnswersStayRecent == Spec => []AnswersAreRecent
  <1>1. IInv => AnswersAreRecent
    BY SingleSound, BatchedSound DEF AnswersAreRecent, sound
  <1> QED
    BY <1>1, Inductive, PTL

(* A query, whichever of the two, keeps the baseline of every asset within *)
(* the circuit breaker's limit of the last one, or of an override the      *)
(* admin had set (contract.rs:347-358, 840-874).                           *)
THEOREM BreakerHolds == Spec => BaselineMovesWithinLimit
  <1>1. IInv /\ [Next]_vars =>
          [(\E a \in Assets : ~moved_within(a, last_price'[a])) => ~Query]_vars
    BY QueryKeeps
  <1> QED
    BY <1>1, Inductive, PTL DEF Spec, BaselineMovesWithinLimit

-----------------------------------------------------------------------------
(* Whatever a query for several assets answers comes from where the query  *)
(* for one takes it.                                                       *)
LEMMA Agreement ==
  ASSUME IInv, NEW a \in Assets, NEW feeds \in Feeds,
         batched(a, cache[a], feeds).answer # None
  PROVE  /\ single(a, cache[a], feeds).answer # None =>
              single(a, cache[a], feeds).answer
                = batched(a, cache[a], feeds).answer
         /\ is_live(override_of(a)) =>
              batched(a, cache[a], feeds).answer.price = override_of(a).price
  <1> DEFINE one == single(a, cache[a], feeds)
             many == batched(a, cache[a], feeds)
  <1>1. /\ last_price[a] \in baselines(a)
        /\ override_of(a) \in {None, override_of(a)}
    BY DEF baselines
  <1>2. fresh(cache[a]) # None => ~is_live(override_of(a))
    BY AssetFacts DEF fresh
  <1>3. CASE /\ fresh(cache[a]) # None
             /\ many = from_cache(override_of(a), last_price[a], cache[a])
    <2>1. many.answer = fresh(cache[a])
      BY <1>1, <1>3, FromCacheSound
    <2>2. one.answer # None => one.answer = fresh(cache[a])
      <3>1. one.answer # None =>
              /\ config[a] # None
              /\ \E last \in baselines(a) :
                   \/ is_live(config[a].override)
                   \/ one = from_cache(None, last, cache[a])
        BY <1>3, SingleCases
      <3>2. config[a] # None => override_of(a) = config[a].override
        BY DEF override_of
      <3> QED
        BY <1>2, <1>3, <3>1, <3>2, FromCacheSound
    <2> QED
      BY <1>2, <1>3, <2>1, <2>2
  <1>4. CASE /\ fresh(cache[a]) = None /\ config[a] # None
             /\ is_live(config[a].override)
             /\ many = from_override(a, cache[a])
    <2>1. override_of(a) = config[a].override
      BY <1>4 DEF override_of
    <2>2. many.answer = [price |-> override_of(a).price,
                         timestamp |-> override_of(a).set_at]
      BY <1>4, <2>1 DEF from_override, Failed, Outcome
    <2>3. one.answer # None => one = from_override(a, cache[a])
      BY <1>4, <2>1, SingleCases
    <2> QED
      BY <1>4, <2>2, <2>3
  <1>5. CASE /\ fresh(cache[a]) = None /\ config[a] # None
             /\ ~is_live(override_of(a))
             /\ many = from_feed(a, override_of(a), last_price[a], feeds)
    <2>1. many.answer = resolve(config[a], feeds)
      BY <1>1, <1>5, FromFeedSound
    <2>2. one.answer # None =>
            \E last \in baselines(a) : one = from_feed(a, None, last, feeds)
      <3>1. override_of(a) = config[a].override
        BY <1>5 DEF override_of
      <3> QED
        BY <1>5, <3>1, SingleCases
    <2>3. one.answer # None => one.answer = resolve(config[a], feeds)
      BY <1>5, <2>2, FromFeedSound
    <2> QED
      BY <1>5, <2>1, <2>3
  <1>6. CASE many = one /\ ~is_live(override_of(a))
    BY <1>6
  <1> HIDE DEF one, many
  <1>7. \/ /\ fresh(cache[a]) # None
           /\ many = from_cache(override_of(a), last_price[a], cache[a])
        \/ /\ fresh(cache[a]) = None /\ config[a] # None
           /\ is_live(config[a].override)
           /\ many = from_override(a, cache[a])
        \/ /\ fresh(cache[a]) = None /\ config[a] # None
           /\ ~is_live(override_of(a))
           /\ many = from_feed(a, override_of(a), last_price[a], feeds)
        \/ many = one /\ ~is_live(override_of(a))
    BY BatchedCases DEF one, many
  <1> QED
    BY <1>3, <1>4, <1>5, <1>6, <1>7 DEF one, many

(* One answer for the user who asks for one price and the router that asks *)
(* for several, and while an override is live, that override's             *)
(* (contract.rs:318-427, 429-536).                                         *)
THEOREM QueriesAgree == Spec => []SingleAndBatchAgree
  <1>1. IInv => SingleAndBatchAgree
    <2> SUFFICES ASSUME IInv, NEW a \in Assets, NEW feeds \in Feeds,
                        batched(a, cache[a], feeds).answer # None
                 PROVE  /\ single(a, cache[a], feeds).answer # None =>
                             single(a, cache[a], feeds).answer
                               = batched(a, cache[a], feeds).answer
                        /\ config[a] # None /\ is_live(config[a].override) =>
                             batched(a, cache[a], feeds).answer.price
                               = config[a].override.price
      BY DEF SingleAndBatchAgree
    <2> QED
      BY Agreement DEF override_of
  <1> QED
    BY <1>1, Inductive, PTL

=============================================================================
