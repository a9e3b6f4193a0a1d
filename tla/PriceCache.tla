----------------------------- MODULE PriceCache -----------------------------
(***************************************************************************)
(* The unified price cache of pricefeed/price_cache.go: a two-level map of *)
(* prices, the list of monitored feeds of each network, and a size limit   *)
(* that a write enforces by pruning.  Any number of goroutines (the price  *)
(* monitors and the loops of main.go) call it at the same time.            *)
(*                                                                         *)
(* A write takes the mutex, stores the price, measures the cache and, when *)
(* it is too large, gives the mutex up so that prune can take it, and      *)
(* takes it again only for the deferred Unlock to have something to        *)
(* release.  Each stretch of code between two operations of the mutex is   *)
(* one action; reads take the read lock for one instant and change         *)
(* nothing, so they are state functions.                                   *)
(*                                                                         *)
(* A price is represented by its timestamp: no other field of it decides   *)
(* anything in this code.                                                  *)
(***************************************************************************)
EXTENDS Integers, Sequences, SequencesExt, FiniteSetsExt, TLC

CONSTANTS Callers,           \* goroutines that use the cache
          Networks, Sources, Ids,
          Times,             \* timestamps of prices
          NoPrice, NoMap,    \* an absent entry, an absent inner map
          Free,              \* the value of an unlocked mutex
          MaxCacheSizeBytes,
          MapBytes,          \* bytes counted for each network of a map
          KeyBytes,          \* bytes counted for a prefixed identifier
          InfoBytes          \* bytes counted for a price, by its source

ASSUME DistinctNames == NoPrice \notin Times /\ Free \notin Callers

ASSUME SizesAreNat == /\ MaxCacheSizeBytes \in Nat
                      /\ MapBytes \in Nat
                      /\ KeyBytes \in Nat
                      /\ InfoBytes \in [Sources -> Nat]
                      /\ Times \subseteq Nat

VARIABLES mu,     \* the caller that holds pc.mu for writing, or Free
          data,   \* network -> NoMap, or prefixed identifier -> price
          feeds,  \* network -> sequence of prefixed identifiers
          pc      \* where each caller is in the code

vars == <<mu, data, feeds, pc>>

\* The prefix keeps the identifiers of different sources apart, because no
\* source has a ':' in its name: the pair is what the string stands for.
Keys == [source : Sources, id : Ids]

Feeds == Networks \X Keys

\* The inner maps: the price of each prefixed identifier, if it has one.
Prices == [Keys -> Times \cup {NoPrice}]

ASSUME NoMapIsNoMap == NoMap \notin Prices

-----------------------------------------------------------------------------
(* Reads *)

GetPrice(n, k) == IF data[n] = NoMap THEN NoPrice ELSE data[n][k]

GetAllPrices(n) == {k \in Keys : GetPrice(n, k) # NoPrice}

Entries == {e \in Feeds : GetPrice(e[1], e[2]) # NoPrice}

Time(e) == GetPrice(e[1], e[2])

EntryBytes(e) == KeyBytes + InfoBytes[e[2].source]

NetworkBytes(n) == (IF data[n] = NoMap THEN 0 ELSE MapBytes)
                     + (IF feeds[n] = <<>> THEN 0 ELSE MapBytes)
                     + Len(feeds[n]) * KeyBytes

EstimateSize == MapThenSumSet(EntryBytes, Entries)
                  + MapThenSumSet(NetworkBytes, Networks)

-----------------------------------------------------------------------------
Init == /\ mu = Free
        /\ data = [n \in Networks |-> NoMap]
        /\ feeds = [n \in Networks |-> <<>>]
        /\ pc = [c \in Callers |-> "idle"]

EmptyMap == [k \in Keys |-> NoPrice]

MutListedBlind(s, k) == Append(s, k)

Listed(s, k) == IF Contains(s, k) THEN s ELSE Append(s, k)

AddFeed(c, n, k) ==
  /\ pc[c] = "idle"
  /\ mu = Free
  /\ IF data[n] = NoMap
       THEN /\ data' = [data EXCEPT ![n] = EmptyMap]
            /\ feeds' = [feeds EXCEPT ![n] = Listed(<<>>, k)]
       ELSE /\ feeds' = [feeds EXCEPT ![n] = Listed(@, k)]
            /\ UNCHANGED data
  /\ UNCHANGED <<mu, pc>>

MutStoreUnprefixed(n, k, t) ==
  /\ data' = [data EXCEPT ![n] = (k.id :> t) @@ (IF @ = NoMap THEN EmptyMap ELSE @)]
  /\ feeds' = [feeds EXCEPT ![n] = Listed(@, k)]

MutStoreUnlisted(n, k, t) ==
  /\ data' = [data EXCEPT ![n] = IF @ = NoMap THEN [EmptyMap EXCEPT ![k] = t]
                                              ELSE [@ EXCEPT ![k] = t]]
  /\ feeds' = [feeds EXCEPT ![n] = IF data[n] = NoMap THEN Listed(@, k) ELSE @]

Store(n, k, t) ==
  /\ data' = [data EXCEPT ![n] = IF @ = NoMap THEN [EmptyMap EXCEPT ![k] = t]
                                              ELSE [@ EXCEPT ![k] = t]]
  /\ feeds' = [feeds EXCEPT ![n] = Listed(@, k)]

UpdatePrice(c, n, k, t) ==
  /\ pc[c] = "idle"
  /\ mu = Free
  /\ mu' = c
  /\ pc' = [pc EXCEPT ![c] = "check"]
  /\ Store(n, k, t)

MutKeepLockForPrune(c) ==
  /\ pc[c] = "check"
  /\ IF EstimateSize > MaxCacheSizeBytes
       THEN pc' = [pc EXCEPT ![c] = "prune"] /\ mu' = mu
       ELSE pc' = [pc EXCEPT ![c] = "idle"] /\ mu' = Free
  /\ UNCHANGED <<data, feeds>>

CheckSize(c) ==
  /\ pc[c] = "check"
  /\ pc' = [pc EXCEPT ![c] = IF EstimateSize > MaxCacheSizeBytes
                               THEN "prune" ELSE "idle"]
  /\ mu' = Free
  /\ UNCHANGED <<data, feeds>>

-----------------------------------------------------------------------------
(* Pruning: the oldest entries go first, until what is left fits, except   *)
(* that an entry that is the newest of its feed stays.                     *)

MutFeedKeyNoNetwork(e) == e[2]

\* The key of latestEntries: the network and the prefixed identifier.
FeedKey(e) == <<e[1], e[2]>>

Removable == {e \in Entries : \E f \in Entries : /\ FeedKey(f) = FeedKey(e)
                                                 /\ Time(f) > Time(e)}

Left(removed) == MapThenSumSet(EntryBytes, Entries \ removed)

PruneChoices ==
  {removed \in SUBSET Removable :
     /\ \A e \in removed, f \in Removable : Time(f) < Time(e) => f \in removed
     /\ removed = Removable \/ Left(removed) <= MaxCacheSizeBytes
     /\ removed = {} \/ \E last \in removed :
          /\ \A e \in removed : Time(e) <= Time(last)
          /\ Left(removed \ {last}) > MaxCacheSizeBytes}

\* Deletes the entries and the inner map of a network that loses its last.
Without(removed) ==
  [n \in Networks |->
     LET gone == {k \in Keys : <<n, k>> \in removed}
     IN IF gone # {} /\ GetAllPrices(n) \subseteq gone
          THEN NoMap
          ELSE IF gone = {} THEN data[n]
          ELSE [k \in Keys |-> IF k \in gone THEN NoPrice ELSE data[n][k]]]

Prune == \E removed \in PruneChoices : data' = Without(removed)

\* prune as the last part of a write: it locks and unlocks on its own.
PruneAfterUpdate(c) ==
  /\ pc[c] = "prune"
  /\ mu = Free
  /\ pc' = [pc EXCEPT ![c] = "relock"]
  /\ Prune
  /\ UNCHANGED <<mu, feeds>>

PruneCache(c) ==
  /\ pc[c] = "idle"
  /\ mu = Free
  /\ Prune
  /\ UNCHANGED <<mu, pc, feeds>>

MutNoRelock(c) ==
  /\ pc[c] = "relock"
  /\ pc' = [pc EXCEPT ![c] = "unlock"]
  /\ UNCHANGED <<mu, data, feeds>>

Relock(c) ==
  /\ pc[c] = "relock"
  /\ mu = Free
  /\ mu' = c
  /\ pc' = [pc EXCEPT ![c] = "unlock"]
  /\ UNCHANGED <<data, feeds>>

DeferredUnlock(c) ==
  /\ pc[c] = "unlock"
  /\ mu' = Free
  /\ pc' = [pc EXCEPT ![c] = "idle"]
  /\ UNCHANGED <<data, feeds>>

-----------------------------------------------------------------------------
\* What a caller does once it is inside UpdatePrice.
Continue(c) == \/ CheckSize(c)
               \/ PruneAfterUpdate(c)
               \/ Relock(c)
               \/ DeferredUnlock(c)

Next == \E c \in Callers :
          \/ \E n \in Networks, k \in Keys :
               \/ AddFeed(c, n, k)
               \/ \E t \in Times : UpdatePrice(c, n, k, t)
          \/ PruneCache(c)
          \/ Continue(c)

Spec == Init /\ [][Next]_vars

\* A goroutine inside UpdatePrice is scheduled, and Go's mutex hands itself
\* to a waiter that was overtaken for a millisecond (starvation mode), so a
\* lock that is free again and again is obtained.
Fairness == \A c \in Callers : SF_vars(Continue(c))

FairSpec == Spec /\ Fairness

-----------------------------------------------------------------------------
(* Properties *)

TypeOK == /\ mu \in Callers \cup {Free}
          /\ data \in [Networks -> Prices \cup {NoMap}]
          /\ feeds \in [Networks -> Seq(Keys)]
          /\ pc \in [Callers -> {"idle", "check", "prune", "relock", "unlock"}]

\* The mutex is held exactly by a caller that is between a Lock and an
\* Unlock of UpdatePrice: two writers never overlap, the deferred Unlock
\* never releases a mutex its goroutine does not hold (a fatal error in Go),
\* and prune is entered with the mutex given up (price_cache.go:147-153).
LockDiscipline ==
  \A c \in Callers : mu = c <=> pc[c] \in {"check", "unlock"}

\* A network without an inner map has no feeds: AddFeed starts the list of
\* such a network afresh (price_cache.go:46-49), which would drop the feeds
\* that are on it.
FeedsNeedMap == \A n \in Networks : data[n] = NoMap => feeds[n] = <<>>

\* Every price that can be read belongs to a feed the monitors iterate over:
\* no interleaving of AddFeed, UpdatePrice and prune leaves a priced feed
\* that is never refreshed again (price_cache.go:135-145).
FeedsCoverData ==
  \A n \in Networks : \A k \in Keys :
     GetPrice(n, k) # NoPrice => \E i \in DOMAIN feeds[n] : feeds[n][i] = k

\* No feed is listed twice, so an update round starts one fetch for each
\* feed (price_cache.go:52-57 and 135-145).
NoDuplicateFeeds ==
  \A n \in Networks : \A i, j \in DOMAIN feeds[n] :
     feeds[n][i] = feeds[n][j] => i = j

\* The list of monitored feeds of a network only grows at its end.  AddFeed
\* empties it when the network has no inner map (price_cache.go:46-49), so
\* this depends on prune never emptying a network that has feeds.
FeedsAppendOnly ==
  [][\A n \in Networks : IsPrefix(feeds[n], feeds'[n])]_vars

\* The inductive invariant behind the safety properties.
IInv == /\ TypeOK
        /\ LockDiscipline
        /\ FeedsNeedMap
        /\ FeedsCoverData
        /\ NoDuplicateFeeds

\* A call of UpdatePrice returns, however the others contend for the mutex:
\* the window in which it gives the mutex up never becomes a deadlock.
UpdatesReturn == \A c \in Callers : pc[c] # "idle" ~> pc[c] = "idle"

\* The cache implements the atomic store: the locking is invisible, and
\* pruning never loses the latest price of a feed (price_cache.go:196-197).
Store_ == INSTANCE AtomicPriceStore
            WITH latest <- [f \in Feeds |-> GetPrice(f[1], f[2])],
                 monitored <- {f \in Feeds :
                                 \E i \in DOMAIN feeds[f[1]] :
                                    feeds[f[1]][i] = f[2]}

ImplementsAtomicStore == Store_!Spec

\* A prune run by a write leaves no more than MaxCacheSizeBytes of prices
\* ("prune removes old entries from the cache to keep it under the size
\* limit", price_cache.go:196).  The code does not do it: the map has one
\* entry for each feed, that entry is the newest of the feed, and the
\* newest is always kept.
PruneEnforcesLimit ==
  [][\A c \in Callers : pc[c] = "prune" /\ pc'[c] = "relock"
                        => Left({})' <= MaxCacheSizeBytes]_vars
=============================================================================
