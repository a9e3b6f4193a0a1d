-------------------------- MODULE PriceCacheProofs --------------------------
(***************************************************************************)
(* Proofs about PriceCache, for any number of goroutines, networks, feeds  *)
(* and timestamps and any size limit.  Everything rests on the first       *)
(* lemma: the cache holds one entry for each feed, that entry is the       *)
(* newest of its feed, and so pruning never finds anything to remove.      *)
(***************************************************************************)
EXTENDS PriceCache, TLAPS

-----------------------------------------------------------------------------
(* Helpers *)

\* A read returns a timestamp or nothing, also for a network without a map.
LEMMA ReadType ==
  ASSUME TypeOK, NEW n \in Networks, NEW k \in Keys
  PROVE  GetPrice(n, k) \in Times \cup {NoPrice}
BY DEF TypeOK, Prices, GetPrice

\* No entry is older than another entry of the same feed.
LEMMA NothingRemovable ==
  ASSUME TypeOK
  PROVE  Removable = {}
<1>1. SUFFICES ASSUME NEW e \in Entries, NEW f \in Entries,
                      FeedKey(f) = FeedKey(e), Time(f) > Time(e)
               PROVE  FALSE
  BY DEF Removable
<1>2. e = f
  BY <1>1 DEF FeedKey, Entries, Feeds
<1>3. Time(e) \in Nat
  <2>1. Time(e) \in Times \cup {NoPrice}
    BY ReadType DEF Entries, Feeds, Time
  <2>2. Time(e) # NoPrice
    BY DEF Entries, Time
  <2>3. QED
    BY <2>1, <2>2, SizesAreNat
<1>4. QED
  BY <1>1, <1>2, <1>3

\* Pruning leaves the prices as they are.
LEMMA PruneRemovesNothing ==
  ASSUME TypeOK, Prune
  PROVE  data' = data
<1>1. PICK removed \in PruneChoices : data' = Without(removed)
  BY DEF Prune
<1>2. removed = {}
  BY NothingRemovable, <1>1 DEF PruneChoices
<1>3. Without({}) = [n \in Networks |-> data[n]]
  BY DEF Without
<1>4. data = [n \in Networks |-> data[n]]
  BY DEF TypeOK
<1>5. QED
  BY <1>1, <1>2, <1>3, <1>4

\* Listing a feed keeps the list a list, keeps what was on it at its place
\* and adds nothing but the feed.
LEMMA ListedAppends ==
  ASSUME NEW s \in Seq(Keys), NEW k \in Keys
  PROVE  /\ Listed(s, k) \in Seq(Keys)
         /\ DOMAIN s \subseteq DOMAIN Listed(s, k)
         /\ \A i \in DOMAIN s : Listed(s, k)[i] = s[i]
         /\ \E i \in DOMAIN Listed(s, k) : Listed(s, k)[i] = k
         /\ \A i \in DOMAIN Listed(s, k) \ DOMAIN s :
               /\ Listed(s, k)[i] = k
               /\ \A j \in DOMAIN s : s[j] # k
               /\ \A j \in DOMAIN Listed(s, k) \ DOMAIN s : j = i
         /\ IsPrefix(s, Listed(s, k))
<1>1. CASE Contains(s, k)
  BY <1>1 DEF Listed, Contains, IsPrefix
<1>2. CASE ~Contains(s, k)
  <2>1. Listed(s, k) = Append(s, k)
    BY <1>2 DEF Listed
  <2>2. \A j \in DOMAIN s : s[j] # k
    BY <1>2 DEF Contains
  <2>3. /\ Append(s, k) \in Seq(Keys)
        /\ DOMAIN Append(s, k) = 1 .. Len(s) + 1
        /\ Append(s, k)[Len(s) + 1] = k
        /\ \A i \in 1 .. Len(s) : Append(s, k)[i] = s[i]
        /\ DOMAIN s = 1 .. Len(s)
        /\ Len(s) \in Nat
    OBVIOUS
  <2>4. IsPrefix(s, Append(s, k))
    BY <2>3 DEF IsPrefix
  <2>5. QED
    BY <2>1, <2>2, <2>3, <2>4
<1>3. QED
  BY <1>1, <1>2

\* A sequence is a prefix of itself.
LEMMA PrefixOfItself ==
  ASSUME NEW s \in Seq(Keys)
  PROVE  IsPrefix(s, s)
BY DEF IsPrefix

-----------------------------------------------------------------------------
(* Invariants *)

\* What every step does to the prices and the lists, in the two forms the
\* later proofs need: one feed is listed, or listed and priced, or nothing.
LEMMA StepCases ==
  ASSUME TypeOK, Next
  PROVE  \/ /\ data' = data
            /\ feeds' = feeds
         \/ \E c \in Callers, n \in Networks, k \in Keys : AddFeed(c, n, k)
         \/ \E n \in Networks, k \in Keys, t \in Times : Store(n, k, t)
<1>1. ASSUME NEW c \in Callers, Continue(c)
      PROVE  data' = data /\ feeds' = feeds
  BY <1>1, PruneRemovesNothing
     DEF Continue, CheckSize, PruneAfterUpdate, Relock, DeferredUnlock
<1>2. ASSUME NEW c \in Callers, PruneCache(c)
      PROVE  data' = data /\ feeds' = feeds
  BY <1>2, PruneRemovesNothing DEF PruneCache
<1>3. ASSUME NEW c \in Callers, NEW n \in Networks, NEW k \in Keys,
             NEW t \in Times, UpdatePrice(c, n, k, t)
      PROVE  Store(n, k, t)
  BY <1>3 DEF UpdatePrice
<1>4. QED
  BY <1>1, <1>2, <1>3 DEF Next

\* A stored price replaces the entry of its feed and no other.
LEMMA StoreReads ==
  ASSUME TypeOK, NEW n \in Networks, NEW k \in Keys, NEW t \in Times,
         Store(n, k, t)
  PROVE  /\ data' \in [Networks -> Prices \cup {NoMap}]
         /\ feeds' = [feeds EXCEPT ![n] = Listed(feeds[n], k)]
         /\ \A m \in Networks, j \in Keys :
              GetPrice(m, j)' = IF m = n /\ j = k THEN t ELSE GetPrice(m, j)
<1> DEFINE new == IF data[n] = NoMap THEN [EmptyMap EXCEPT ![k] = t]
                                     ELSE [data[n] EXCEPT ![k] = t]
<1>1. /\ data' = [data EXCEPT ![n] = new]
      /\ feeds' = [feeds EXCEPT ![n] = Listed(feeds[n], k)]
  BY DEF Store
<1>2. data \in [Networks -> Prices \cup {NoMap}] /\ feeds \in [Networks -> Seq(Keys)]
  BY DEF TypeOK
<1>3. new \in Prices /\ new[k] = t
  BY <1>2 DEF Prices, EmptyMap
<1>4. \A j \in Keys : j # k => new[j] = GetPrice(n, j)
  BY <1>2 DEF Prices, EmptyMap, GetPrice
<1>5. new # NoMap
  BY <1>3, NoMapIsNoMap DEF Prices
<1>6. QED
  BY <1>1, <1>2, <1>3, <1>4, <1>5 DEF GetPrice

\* Adding a feed leaves every price as it is.
LEMMA AddFeedReads ==
  ASSUME TypeOK, NEW c \in Callers, NEW n \in Networks, NEW k \in Keys,
         AddFeed(c, n, k)
  PROVE  /\ data' \in [Networks -> Prices \cup {NoMap}]
         /\ \A m \in Networks, j \in Keys : GetPrice(m, j)' = GetPrice(m, j)
<1>1. data \in [Networks -> Prices \cup {NoMap}]
  BY DEF TypeOK
<1>2. EmptyMap \in Prices /\ EmptyMap # NoMap /\ \A j \in Keys : EmptyMap[j] = NoPrice
  BY NoMapIsNoMap DEF Prices, EmptyMap
<1>3. CASE data[n] = NoMap
  BY <1>1, <1>2, <1>3 DEF AddFeed, GetPrice
<1>4. CASE data[n] # NoMap
  BY <1>1, <1>4 DEF AddFeed, GetPrice
<1>5. QED
  BY <1>3, <1>4

\* The list of a network stays as it is or has one feed listed.
LEMMA FeedsStep ==
  ASSUME TypeOK, FeedsNeedMap, Next
  PROVE  \/ feeds' = feeds
         \/ \E n \in Networks, k \in Keys :
               feeds' = [feeds EXCEPT ![n] = Listed(feeds[n], k)]
<1>1. ASSUME NEW c \in Callers, NEW n \in Networks, NEW k \in Keys,
             AddFeed(c, n, k)
      PROVE  feeds' = [feeds EXCEPT ![n] = Listed(feeds[n], k)]
  BY <1>1 DEF AddFeed, FeedsNeedMap
<1>2. ASSUME NEW n \in Networks, NEW k \in Keys, NEW t \in Times,
             Store(n, k, t)
      PROVE  feeds' = [feeds EXCEPT ![n] = Listed(feeds[n], k)]
  BY <1>2, StoreReads
<1>3. QED
  BY <1>1, <1>2, StepCases

\* The same for one network, with what listing a feed is known to do.
LEMMA ListStep ==
  ASSUME TypeOK, FeedsNeedMap, Next, NEW n \in Networks
  PROVE  /\ feeds'[n] \in Seq(Keys)
         /\ DOMAIN feeds[n] \subseteq DOMAIN feeds'[n]
         /\ \A i \in DOMAIN feeds[n] : feeds'[n][i] = feeds[n][i]
         /\ IsPrefix(feeds[n], feeds'[n])
<1>1. feeds[n] \in Seq(Keys)
  BY DEF TypeOK
<1>2. CASE feeds'[n] = feeds[n]
  BY <1>1, <1>2, PrefixOfItself
<1>3. ASSUME NEW k \in Keys, feeds'[n] = Listed(feeds[n], k)
      PROVE  /\ feeds'[n] \in Seq(Keys)
             /\ DOMAIN feeds[n] \subseteq DOMAIN feeds'[n]
             /\ \A i \in DOMAIN feeds[n] : feeds'[n][i] = feeds[n][i]
             /\ IsPrefix(feeds[n], feeds'[n])
  <2> DEFINE s == feeds[n]
             u == Listed(s, k)
  <2>1. /\ u \in Seq(Keys)
        /\ DOMAIN s \subseteq DOMAIN u
        /\ \A i \in DOMAIN s : u[i] = s[i]
        /\ IsPrefix(s, u)
    BY <1>1, ListedAppends
  <2> HIDE DEF u
  <2>2. feeds'[n] = u
    BY <1>3 DEF u
  <2>3. QED
    BY <2>1, <2>2
<1>4. feeds'[n] = feeds[n] \/ \E k \in Keys : feeds'[n] = Listed(feeds[n], k)
  BY FeedsStep DEF TypeOK
<1>5. QED
  BY <1>2, <1>3, <1>4

\* No step takes a variable out of its type.
LEMMA TypeStep ==
  ASSUME TypeOK, FeedsNeedMap, Next
  PROVE  TypeOK'
<1>1. data' \in [Networks -> Prices \cup {NoMap}]
  BY StepCases, StoreReads, AddFeedReads DEF TypeOK
<1>2. feeds' \in [Networks -> Seq(Keys)]
  <2>1. feeds' = [n \in Networks |-> feeds'[n]]
    BY FeedsStep DEF TypeOK
  <2>2. QED
    BY <2>1, ListStep
<1>3. /\ mu' \in Callers \cup {Free}
      /\ pc' \in [Callers -> {"idle", "check", "prune", "relock", "unlock"}]
  <2>1. ASSUME NEW c \in Callers, NEW n \in Networks, NEW k \in Keys
        PROVE  /\ AddFeed(c, n, k) => <1>3!1 /\ <1>3!2
               /\ \A t \in Times : UpdatePrice(c, n, k, t) => <1>3!1 /\ <1>3!2
    BY DEF TypeOK, AddFeed, UpdatePrice
  <2>2. ASSUME NEW c \in Callers
        PROVE  PruneCache(c) \/ Continue(c) => <1>3!1 /\ <1>3!2
    BY DEF TypeOK, PruneCache, Continue, CheckSize, PruneAfterUpdate, Relock,
           DeferredUnlock
  <2>3. QED
    BY <2>1, <2>2 DEF Next
<1>4. QED
  BY <1>1, <1>2, <1>3 DEF TypeOK

\* Every step that takes or releases the mutex is made by the goroutine that
\* may do so, and the others do not touch it.
LEMMA LockStep ==
  ASSUME TypeOK, LockDiscipline, Next
  PROVE  LockDiscipline'
<1> USE DistinctNames DEF TypeOK, LockDiscipline
<1>1. ASSUME NEW c \in Callers, NEW n \in Networks, NEW k \in Keys,
             AddFeed(c, n, k)
      PROVE  LockDiscipline'
  BY <1>1 DEF AddFeed
<1>2. ASSUME NEW c \in Callers, NEW n \in Networks, NEW k \in Keys,
             NEW t \in Times, UpdatePrice(c, n, k, t)
      PROVE  LockDiscipline'
  BY <1>2 DEF UpdatePrice
<1>3. ASSUME NEW c \in Callers, PruneCache(c)
      PROVE  LockDiscipline'
  BY <1>3 DEF PruneCache
<1>4. ASSUME NEW c \in Callers, CheckSize(c)
      PROVE  LockDiscipline'
  BY <1>4 DEF CheckSize
<1>5. ASSUME NEW c \in Callers, PruneAfterUpdate(c)
      PROVE  LockDiscipline'
  BY <1>5 DEF PruneAfterUpdate
<1>6. ASSUME NEW c \in Callers, Relock(c)
      PROVE  LockDiscipline'
  BY <1>6 DEF Relock
<1>7. ASSUME NEW c \in Callers, DeferredUnlock(c)
      PROVE  LockDiscipline'
  BY <1>7 DEF DeferredUnlock
<1>8. QED
  BY <1>1, <1>2, <1>3, <1>4, <1>5, <1>6, <1>7 DEF Next, Continue

\* A step that lists a feed makes the inner map, and pruning removes none.
LEMMA FeedsNeedMapStep ==
  ASSUME TypeOK, FeedsNeedMap, Next
  PROVE  FeedsNeedMap'
<1>1. ASSUME NEW c \in Callers, NEW n \in Networks, NEW k \in Keys,
             AddFeed(c, n, k)
      PROVE  FeedsNeedMap'
  <2>1. EmptyMap # NoMap
    BY NoMapIsNoMap DEF EmptyMap, Prices
  <2>2. QED
    BY <1>1, <2>1 DEF AddFeed, TypeOK, FeedsNeedMap
<1>2. ASSUME NEW n \in Networks, NEW k \in Keys, NEW t \in Times,
             Store(n, k, t)
      PROVE  FeedsNeedMap'
  <2>1. data'[n] # NoMap
    <3>1. GetPrice(n, k)' = t /\ t # NoPrice
      BY <1>2, StoreReads, DistinctNames
    <3>2. QED
      BY <3>1 DEF GetPrice
  <2>2. \A m \in Networks : m # n => data'[m] = data[m] /\ feeds'[m] = feeds[m]
    BY <1>2 DEF Store, TypeOK
  <2>3. QED
    BY <2>1, <2>2 DEF FeedsNeedMap
<1>3. QED
  BY <1>1, <1>2, StepCases DEF FeedsNeedMap

\* A step that stores a price lists its feed, and no list loses a feed.
LEMMA CoverStep ==
  ASSUME TypeOK, FeedsNeedMap, FeedsCoverData, Next
  PROVE  FeedsCoverData'
<1>1. ASSUME NEW m \in Networks, NEW j \in Keys,
             \E i \in DOMAIN feeds[m] : feeds[m][i] = j
      PROVE  \E i \in DOMAIN feeds'[m] : feeds'[m][i] = j
  BY <1>1, ListStep
<1>2. ASSUME NEW n \in Networks, NEW k \in Keys, NEW t \in Times,
             Store(n, k, t)
      PROVE  FeedsCoverData'
  <2>1. \E i \in DOMAIN feeds'[n] : feeds'[n][i] = k
    <3> DEFINE u == Listed(feeds[n], k)
    <3>1. \E i \in DOMAIN u : u[i] = k
      BY ListedAppends DEF TypeOK
    <3> HIDE DEF u
    <3>2. feeds'[n] = u
      BY <1>2, StoreReads DEF TypeOK, u
    <3>3. QED
      BY <3>1, <3>2
  <2>2. QED
    BY <1>1, <1>2, <2>1, StoreReads DEF FeedsCoverData
<1>3. ASSUME NEW c \in Callers, NEW n \in Networks, NEW k \in Keys,
             AddFeed(c, n, k)
      PROVE  FeedsCoverData'
  BY <1>1, <1>3, AddFeedReads DEF FeedsCoverData
<1>4. CASE data' = data /\ feeds' = feeds
  BY <1>4 DEF FeedsCoverData, GetPrice
<1>5. QED
  BY <1>2, <1>3, <1>4, StepCases

\* A feed is appended only to a list it is not on.
LEMMA NoDuplicateStep ==
  ASSUME TypeOK, FeedsNeedMap, NoDuplicateFeeds, Next
  PROVE  NoDuplicateFeeds'
<1>1. CASE feeds' = feeds
  BY <1>1 DEF NoDuplicateFeeds
<1>2. ASSUME NEW n \in Networks, NEW k \in Keys,
             feeds' = [feeds EXCEPT ![n] = Listed(feeds[n], k)]
      PROVE  NoDuplicateFeeds'
  <2> DEFINE s == feeds[n]
             u == Listed(s, k)
  <2>1. s \in Seq(Keys) /\ \A i, j \in DOMAIN s : s[i] = s[j] => i = j
    BY DEF TypeOK, NoDuplicateFeeds
  <2>2. /\ DOMAIN s \subseteq DOMAIN u
        /\ \A i \in DOMAIN s : u[i] = s[i]
        /\ \A i \in DOMAIN u \ DOMAIN s :
              /\ u[i] = k
              /\ \A j \in DOMAIN s : s[j] # k
              /\ \A j \in DOMAIN u \ DOMAIN s : j = i
    BY <2>1, ListedAppends
  <2> HIDE DEF s, u
  <2>3. \A i, j \in DOMAIN u : u[i] = u[j] => i = j
    BY <2>1, <2>2
  <2>4. feeds'[n] = u /\ \A m \in Networks \ {n} : feeds'[m] = feeds[m]
    BY <1>2 DEF TypeOK, s, u
  <2>5. QED
    BY <2>3, <2>4 DEF NoDuplicateFeeds
<1>3. QED
  BY <1>1, <1>2, FeedsStep

-----------------------------------------------------------------------------
(* Theorems *)

\* The inductive invariant holds in every reachable state.
THEOREM Invariance == Spec => []IInv
<1>1. Init => IInv
  <2>1. Init => TypeOK /\ FeedsNeedMap
    BY DEF Init, TypeOK, FeedsNeedMap
  <2>2. Init => LockDiscipline
    BY DistinctNames DEF Init, LockDiscipline
  <2>3. Init => FeedsCoverData /\ NoDuplicateFeeds
    BY DEF Init, FeedsCoverData, NoDuplicateFeeds, GetPrice
  <2>4. QED
    BY <2>1, <2>2, <2>3 DEF IInv
<1>2. IInv /\ Next => IInv'
  BY TypeStep, LockStep, FeedsNeedMapStep, CoverStep, NoDuplicateStep DEF IInv
<1>3. IInv /\ UNCHANGED vars => IInv'
  BY DEF IInv, TypeOK, LockDiscipline, FeedsNeedMap, FeedsCoverData,
         NoDuplicateFeeds, GetPrice, vars
<1>4. QED
  BY <1>1, <1>2, <1>3, PTL DEF Spec

\* Every variable of the cache keeps its type.
THEOREM TypeCorrect == Spec => []TypeOK
BY Invariance, PTL DEF IInv

\* The mutex of the cache is held exactly between a Lock and an Unlock, for
\* any number of goroutines.
THEOREM MutexSafe == Spec => []LockDiscipline
BY Invariance, PTL DEF IInv

\* Every feed that has a price is monitored.
THEOREM PricedFeedsMonitored == Spec => []FeedsCoverData
BY Invariance, PTL DEF IInv

\* No feed is listed twice.
THEOREM FeedsListedOnce == Spec => []NoDuplicateFeeds
BY Invariance, PTL DEF IInv

\* A network without an inner map has no feeds, so AddFeed, which starts the
\* list of such a network afresh, drops none.
THEOREM FeedsHaveMap == Spec => []FeedsNeedMap
BY Invariance, PTL DEF IInv

\* The lists of monitored feeds only grow at their end.
THEOREM FeedsOnlyGrow == Spec => FeedsAppendOnly
<1>1. ASSUME IInv, Next
      PROVE  \A n \in Networks : IsPrefix(feeds[n], feeds'[n])
  BY <1>1, ListStep DEF IInv
<1>2. IInv /\ [Next]_vars
        => [\A n \in Networks : IsPrefix(feeds[n], feeds'[n])]_vars
  BY <1>1
<1>3. QED
  BY <1>2, Invariance, PTL DEF Spec, FeedsAppendOnly

-----------------------------------------------------------------------------
(* Refinement *)

\* Listing a feed adds that feed to the monitored ones.
LEMMA MonitoredStep ==
  ASSUME TypeOK, NEW n \in Networks, NEW k \in Keys,
         feeds' = [feeds EXCEPT ![n] = Listed(feeds[n], k)]
  PROVE  {f \in Feeds : \E i \in DOMAIN feeds[f[1]] : feeds[f[1]][i] = f[2]}'
           = {f \in Feeds : \E i \in DOMAIN feeds[f[1]] : feeds[f[1]][i] = f[2]}
               \cup {<<n, k>>}
<1> DEFINE s == feeds[n]
           u == Listed(s, k)
<1>1. /\ DOMAIN s \subseteq DOMAIN u
      /\ \A i \in DOMAIN s : u[i] = s[i]
      /\ \E i \in DOMAIN u : u[i] = k
      /\ \A i \in DOMAIN u \ DOMAIN s : u[i] = k
  <2>1. s \in Seq(Keys)
    BY DEF TypeOK
  <2>2. QED
    BY <2>1, ListedAppends
<1> HIDE DEF u
<1>2. feeds'[n] = u /\ \A m \in Networks \ {n} : feeds'[m] = feeds[m]
  BY DEF TypeOK, u
<1>3. ASSUME NEW m \in Networks, NEW j \in Keys
      PROVE  (\E i \in DOMAIN feeds'[m] : feeds'[m][i] = j)
               <=> \/ \E i \in DOMAIN feeds[m] : feeds[m][i] = j
                   \/ m = n /\ j = k
  BY <1>1, <1>2
<1>4. \A f \in Feeds : /\ f[1] \in Networks /\ f[2] \in Keys
                       /\ f = <<n, k>> <=> f[1] = n /\ f[2] = k
  BY DEF Feeds
<1>5. <<n, k>> \in Feeds
  BY DEF Feeds
<1>6. \A f \in Feeds : (\E i \in DOMAIN feeds'[f[1]] : feeds'[f[1]][i] = f[2])
                       <=> \/ \E i \in DOMAIN feeds[f[1]] : feeds[f[1]][i] = f[2]
                           \/ f = <<n, k>>
  BY <1>3, <1>4
<1>7. QED
  BY <1>5, <1>6 DEF Feeds

\* Every behavior of the cache is one of the atomic store: whatever the
\* goroutines do, an update takes effect at once, at the write under the
\* mutex, and neither the unlock window nor pruning can be observed.
THEOREM CacheImplementsStore == Spec => ImplementsAtomicStore
<1> DEFINE latest == [f \in Feeds |-> GetPrice(f[1], f[2])]
           monitored == {f \in Feeds :
                           \E i \in DOMAIN feeds[f[1]] : feeds[f[1]][i] = f[2]}
<1>1. Init => Store_!Init
  BY DEF Init, Store_!Init, GetPrice, Store_!Feeds, Feeds
<1>2. ASSUME IInv, Next
      PROVE  [Store_!Next]_(Store_!storeVars)
  <2>1. CASE data' = data /\ feeds' = feeds
    BY <2>1 DEF Store_!storeVars, GetPrice
  <2>2. ASSUME NEW c \in Callers, NEW n \in Networks, NEW k \in Keys,
               AddFeed(c, n, k)
        PROVE  Store_!AddFeed(<<n, k>>)
    <3>1. feeds' = [feeds EXCEPT ![n] = Listed(feeds[n], k)]
      BY <1>2, <2>2 DEF IInv, AddFeed, FeedsNeedMap
    <3>2. monitored' = monitored \cup {<<n, k>>}
      BY <1>2, <3>1, MonitoredStep DEF IInv
    <3>3. latest' = latest
      BY <1>2, <2>2, AddFeedReads DEF IInv, Feeds
    <3>4. QED
      BY <3>2, <3>3 DEF Store_!AddFeed
  <2>3. ASSUME NEW n \in Networks, NEW k \in Keys, NEW t \in Times,
               Store(n, k, t)
        PROVE  Store_!UpdatePrice(<<n, k>>, t)
    <3>1. feeds' = [feeds EXCEPT ![n] = Listed(feeds[n], k)]
      BY <1>2, <2>3, StoreReads DEF IInv
    <3>2. monitored' = monitored \cup {<<n, k>>}
      BY <1>2, <3>1, MonitoredStep DEF IInv
    <3>3. latest' = [latest EXCEPT ![<<n, k>>] = t]
      <4>1. \A m \in Networks, j \in Keys :
               GetPrice(m, j)' = IF m = n /\ j = k THEN t ELSE GetPrice(m, j)
        BY <1>2, <2>3, StoreReads DEF IInv
      <4>2. latest' = [f \in Feeds |-> GetPrice(f[1], f[2])']
        OBVIOUS
      <4>3. \A f \in Feeds : GetPrice(f[1], f[2])'
                                = IF f = <<n, k>> THEN t ELSE GetPrice(f[1], f[2])
        BY <4>1 DEF Feeds
      <4>4. QED
        BY <4>2, <4>3
    <3>4. QED
      BY <3>2, <3>3 DEF Store_!UpdatePrice
  <2>4. QED
    BY <1>2, <2>1, <2>2, <2>3, StepCases DEF IInv, Store_!Next, Store_!Feeds
<1>3. UNCHANGED vars => UNCHANGED Store_!storeVars
  BY DEF vars, Store_!storeVars, GetPrice
<1>4. QED
  BY <1>1, <1>2, <1>3, Invariance, PTL
     DEF Spec, ImplementsAtomicStore, Store_!Spec

-----------------------------------------------------------------------------
(* Pruning *)

\* A prune, by a write or on its own, leaves every price where it was: the
\* reason why PruneEnforcesLimit does not hold (price_cache.go:196-239).
PruneChangesNothing ==
  [][\A c \in Callers : PruneCache(c) \/ PruneAfterUpdate(c) => data' = data]_vars

\* However large the cache has become, pruning finds nothing to remove.
THEOREM PruneIsVoid == Spec => PruneChangesNothing
<1>1. ASSUME TypeOK
      PROVE  \A c \in Callers : PruneCache(c) \/ PruneAfterUpdate(c) => data' = data
  BY <1>1, PruneRemovesNothing DEF PruneCache, PruneAfterUpdate
<1>2. TypeOK /\ [Next]_vars
        => [\A c \in Callers : PruneCache(c) \/ PruneAfterUpdate(c) => data' = data]_vars
  BY <1>1
<1>3. QED
  BY <1>2, TypeCorrect, PTL DEF Spec, PruneChangesNothing

-----------------------------------------------------------------------------
(* No writer waits for ever for another *)

\* A caller inside UpdatePrice that nothing holds up: it has the mutex, or it
\* wants it, nobody has it, and a prune that it may be about to run has an
\* outcome.
GoesOn(c) == \/ pc[c] \in {"check", "unlock"}
             \/ pc[c] = "prune" /\ mu = Free /\ PruneChoices # {}
             \/ pc[c] = "relock" /\ mu = Free

\* While a writer is inside UpdatePrice, or anybody waits for the mutex,
\* someone can go on: prune is entered with the mutex given up, and so a
\* writer never waits for itself (price_cache.go:147-153).
SomeoneGoesOn ==
  (mu # Free \/ \E c \in Callers : pc[c] # "idle") => \E c \in Callers : GoesOn(c)

\* The steps of UpdatePrice that a caller has before it.
Effort(c) == CASE pc[c] = "check"  -> 4
               [] pc[c] = "prune"  -> 3
               [] pc[c] = "relock" -> 2
               [] pc[c] = "unlock" -> 1
               [] pc[c] = "idle"   -> 0

\* Nobody else gives a writer more to do, and each step of its own leaves it
\* less: with SomeoneGoesOn, what UpdatesReturn says but for the fairness of
\* the mutex.
EffortFalls ==
  [][\A c \in Callers : pc[c] # "idle" => /\ Effort(c)' <= Effort(c)
                                          /\ Continue(c) => Effort(c)' < Effort(c)]_vars

\* An outcome of prune always exists: it leaves everything as it is.
LEMMA PruneHasOutcome ==
  ASSUME TypeOK
  PROVE  PruneChoices # {}
<1>1. {} \in PruneChoices
  BY NothingRemovable DEF PruneChoices
<1>2. QED
  BY <1>1

\* The window in which UpdatePrice gives the mutex up is not a deadlock.
THEOREM WritersGoOn == Spec => []SomeoneGoesOn
<1>1. ASSUME IInv
      PROVE  SomeoneGoesOn
  <2> SUFFICES ASSUME mu # Free \/ \E c \in Callers : pc[c] # "idle"
               PROVE  \E c \in Callers : GoesOn(c)
    BY DEF SomeoneGoesOn
  <2> USE <1>1 DEF IInv
  <2>1. CASE mu # Free
    <3>1. mu \in Callers /\ pc[mu] \in {"check", "unlock"}
      BY <2>1 DEF TypeOK, LockDiscipline
    <3>2. QED
      BY <3>1 DEF GoesOn
  <2>2. ASSUME mu = Free, NEW c \in Callers, pc[c] # "idle"
        PROVE  GoesOn(c)
    BY <2>2, PruneHasOutcome DEF TypeOK, GoesOn
  <2>3. QED
    BY <2>1, <2>2
<1>2. QED
  BY <1>1, Invariance, PTL

\* A call of UpdatePrice takes four steps at the most, whatever the other
\* goroutines do in between.
THEOREM UpdatesAreFinite == Spec => EffortFalls
<1>1. ASSUME TypeOK, Next, NEW c \in Callers, pc[c] # "idle"
      PROVE  Effort(c)' <= Effort(c) /\ (Continue(c) => Effort(c)' < Effort(c))
  <2> USE <1>1 DEF TypeOK, Effort
  <2>1. CASE Continue(c)
    BY <2>1 DEF Continue, CheckSize, PruneAfterUpdate, Relock, DeferredUnlock
  <2>2. CASE ~Continue(c)
    <3>1. pc'[c] = pc[c]
      BY <2>2 DEF Next, AddFeed, UpdatePrice, PruneCache, Continue, CheckSize,
                  PruneAfterUpdate, Relock, DeferredUnlock
    <3>2. QED
      BY <2>2, <3>1
  <2>3. QED
    BY <2>1, <2>2
<1>2. TypeOK /\ [Next]_vars
        => [\A c \in Callers : pc[c] # "idle" => /\ Effort(c)' <= Effort(c)
                                                 /\ Continue(c) => Effort(c)' < Effort(c)]_vars
  BY <1>1
<1>3. QED
  BY <1>2, TypeCorrect, PTL DEF Spec, EffortFalls
=============================================================================
