--------------------------- MODULE ConcurrentMap ---------------------------
(***************************************************************************)
(* The sharded concurrent map (shared/patterns/concurrent.go).             *)
(*                                                                         *)
(* A write locks the shard of its key, so writes and look-ups of one key   *)
(* are atomic.  The calls that look at all shards are not: Count visits    *)
(* one shard after the other; Items (and MarshalJSON, which does the same) *)
(* and Keys first count and then start one collector for each shard, which *)
(* sends what the shard holds into a channel of the size of that count     *)
(* while it keeps the shard's read lock.  Items receives until all         *)
(* collectors are done and the channel is closed.  Keys receives exactly   *)
(* as often as it counted and returns, whatever the collectors still do.   *)
(*                                                                         *)
(* A waiting writer keeps new readers out, as in Go's RWMutex.  A key is   *)
(* in one shard and collected once, so what is in a channel is a set.      *)
(***************************************************************************)
EXTENDS Integers, FiniteSets

CONSTANTS Names,       \* keys of the map
          Values,
          ShardCount,  \* SHARD_COUNT
          ShardOf,     \* GetShard
          Writers,     \* goroutines that write
          Calls,       \* bound: calls of Count, Keys and Items at a time
          None         \* no value, and no write

Shards == 1 .. ShardCount

ASSUME MapAssumption == /\ IsFiniteSet(Names)
                        /\ ShardCount \in Nat \ {0}
                        /\ ShardOf \in [Names -> Shards]
                        /\ None \notin Values

VARIABLES items,      \* what the shards hold
          pending,    \* each writer's write that waits for its lock
          leaked,     \* shards read-locked by collectors of forgotten calls
          kind,       \* what each call is of: "Count", "Keys" or "Items"
          stage,      \* "idle", "count", "collect" or "returned"
          at,         \* the shard that the call counts next
          count,      \* what it has counted
          collector,  \* its collectors: "ready", "ranging" or "done"
          todo,       \* the entries its collectors still have to send
          channel,    \* the entries in its channel
          got,        \* the entries it has received
          taken,      \* how often Keys has received
          always,     \* history: the keys present throughout the call
          ever        \* history: the entries present at some time in it

collectVars == <<collector, todo, channel, got, taken>>
callVars == <<kind, stage, at, count, collectVars, always, ever>>
vars == <<items, pending, leaked, callVars>>

NamesOf(entries) == {e[1] : e \in entries}

\* The entries of map m, all of them and those of one shard.
Entries(m) == {<<n, m[n]>> : n \in {x \in Names : m[x] # None}}
EntriesIn(s) == {e \in Entries(items) : ShardOf[e[1]] = s}

NoCollectors == [s \in Shards |-> "done"]

Init == /\ items = [n \in Names |-> None]
        /\ pending = [w \in Writers |-> None]
        /\ leaked = {}
        /\ kind = [c \in Calls |-> "Count"]
        /\ stage = [c \in Calls |-> "idle"]
        /\ at = [c \in Calls |-> 1]
        /\ count = [c \in Calls |-> 0]
        /\ collector = [c \in Calls |-> NoCollectors]
        /\ todo = [c \in Calls |-> {}]
        /\ channel = [c \in Calls |-> {}]
        /\ got = [c \in Calls |-> {}]
        /\ taken = [c \in Calls |-> 0]
        /\ always = [c \in Calls |-> {}]
        /\ ever = [c \in Calls |-> {}]

-----------------------------------------------------------------------------
(* Writes *)

ReadLocked(s) == s \in leaked \/ \E c \in Calls : collector[c][s] = "ranging"

\* New readers of a shard wait behind a writer.
WriterWaits(s) == \E w \in Writers : pending[w] # None /\ ShardOf[pending[w].name] = s

\* Set, an Upsert, whose callback chooses the value, or SetIfAbsent.
SetTo(w, n, v, absentOnly) ==
  /\ pending[w] = None
  /\ pending' = [pending EXCEPT ![w] = [name |-> n, value |-> v, absentOnly |-> absentOnly]]
  /\ UNCHANGED <<items, leaked, callVars>>

\* Remove or Pop.
Remove(w, n) ==
  /\ pending[w] = None
  /\ pending' = [pending EXCEPT ![w] = [name |-> n, value |-> None, absentOnly |-> FALSE]]
  /\ UNCHANGED <<items, leaked, callVars>>

UnderWay(c) == stage[c] \in {"count", "collect"}

\* The write has its lock, writes and returns.
Apply(w) ==
  /\ pending[w] # None
  /\ LET n == pending[w].name IN
       /\ ~ReadLocked(ShardOf[n])
       /\ items' = IF pending[w].absentOnly /\ items[n] # None
                     THEN items
                     ELSE [items EXCEPT ![n] = pending[w].value]
  /\ pending' = [pending EXCEPT ![w] = None]
  /\ always' = [c \in Calls |-> IF UnderWay(c) THEN always[c] \cap NamesOf(Entries(items'))
                                               ELSE always[c]]
  /\ ever' = [c \in Calls |-> IF UnderWay(c) THEN ever[c] \cup Entries(items')
                                             ELSE ever[c]]
  /\ UNCHANGED <<leaked, kind, stage, at, count, collectVars>>

-----------------------------------------------------------------------------
(* Count, and the beginning of the other two *)

Call(c, k) == /\ stage[c] = "idle"
              /\ kind' = [kind EXCEPT ![c] = k]
              /\ stage' = [stage EXCEPT ![c] = "count"]
              /\ always' = [always EXCEPT ![c] = NamesOf(Entries(items))]
              /\ ever' = [ever EXCEPT ![c] = Entries(items)]
              /\ UNCHANGED <<items, pending, leaked, at, count, collectVars>>

MutCountedTwice(c) == 2 * Cardinality(EntriesIn(at[c]))

MutCountedButLast(c) == IF at[c] < ShardCount THEN Cardinality(EntriesIn(at[c])) ELSE 0

Counted(c) == Cardinality(EntriesIn(at[c]))

\* After the last shard, Count returns, and the others make the channel and
\* start the collectors.
CountShard(c) ==
  /\ stage[c] = "count"
  /\ ~WriterWaits(at[c])
  /\ count' = [count EXCEPT ![c] = @ + Counted(c)]
  /\ at' = [at EXCEPT ![c] = @ + 1]
  /\ IF at[c] < ShardCount THEN UNCHANGED <<stage, collector>>
     ELSE IF kind[c] = "Count"
       THEN stage' = [stage EXCEPT ![c] = "returned"] /\ UNCHANGED collector
       ELSE /\ stage' = [stage EXCEPT ![c] = "collect"]
            /\ collector' = [collector EXCEPT ![c] = [s \in Shards |-> "ready"]]
  /\ UNCHANGED <<items, pending, leaked, kind, todo, channel, got, taken, always, ever>>

-----------------------------------------------------------------------------
(* The collectors *)

Moves(c, s, state) == collector' = [collector EXCEPT ![c][s] = state]

StartRange(c, s) == /\ collector[c][s] = "ready"
                    /\ ~WriterWaits(s)
                    /\ Moves(c, s, "ranging")
                    /\ todo' = [todo EXCEPT ![c] = @ \cup EntriesIn(s)]
                    /\ UNCHANGED <<items, pending, leaked, kind, stage, at, count,
                                   channel, got, taken, always, ever>>

TodoIn(c, s) == {e \in todo[c] : ShardOf[e[1]] = s}

\* Keys only receives as often as it has counted.
Receiving(c) == /\ stage[c] = "collect"
                /\ kind[c] = "Keys" => taken[c] < count[c]

\* There is room in the channel, or a receiver that waits for this entry.
Room(c) == \/ Cardinality(channel[c]) < count[c]
           \/ channel[c] = {} /\ Receiving(c)

Send(c, s) == /\ collector[c][s] = "ranging"
              /\ Room(c)
              /\ \E e \in TodoIn(c, s) :
                   /\ todo' = [todo EXCEPT ![c] = @ \ {e}]
                   /\ channel' = [channel EXCEPT ![c] = @ \cup {e}]
              /\ UNCHANGED <<items, pending, leaked, kind, stage, at, count,
                             collector, got, taken, always, ever>>

EndRange(c, s) == /\ collector[c][s] = "ranging"
                  /\ TodoIn(c, s) = {}
                  /\ Moves(c, s, "done")
                  /\ UNCHANGED <<items, pending, leaked, kind, stage, at, count,
                                 todo, channel, got, taken, always, ever>>

-----------------------------------------------------------------------------
(* What Keys and Items receive *)

AllDone(c) == \A s \in Shards : collector[c][s] = "done"

MutReceiveCounted(c) == /\ Receiving(c)
                        /\ taken[c] < count[c]
                        /\ \E e \in channel[c] :
                             /\ channel' = [channel EXCEPT ![c] = @ \ {e}]
                             /\ got' = [got EXCEPT ![c] = @ \cup {e}]
                        /\ taken' = [taken EXCEPT ![c] = @ + 1]
                        /\ UNCHANGED <<items, pending, leaked, kind, stage, at, count,
                                       collector, todo, always, ever>>

Receive(c) == /\ Receiving(c)
              /\ \E e \in channel[c] :
                   /\ channel' = [channel EXCEPT ![c] = @ \ {e}]
                   /\ got' = [got EXCEPT ![c] = @ \cup {e}]
              /\ taken' = [taken EXCEPT ![c] = IF kind[c] = "Keys" THEN @ + 1 ELSE @]
              /\ UNCHANGED <<items, pending, leaked, kind, stage, at, count,
                             collector, todo, always, ever>>

\* From the closed channel Keys receives the empty key.
ReceiveEmpty(c) == /\ Receiving(c)
                   /\ kind[c] = "Keys"
                   /\ channel[c] = {} /\ AllDone(c)
                   /\ taken' = [taken EXCEPT ![c] = @ + 1]
                   /\ UNCHANGED <<items, pending, leaked, kind, stage, at, count,
                                  collector, todo, channel, got, always, ever>>

Returns(c) == /\ stage' = [stage EXCEPT ![c] = "returned"]
              /\ UNCHANGED <<items, pending, leaked, kind, at, count, collectVars, always, ever>>

KeysReturns(c) == /\ stage[c] = "collect" /\ kind[c] = "Keys"
                  /\ taken[c] = count[c]
                  /\ Returns(c)

MutItemsReturnsWhenEmpty(c) == /\ stage[c] = "collect" /\ kind[c] = "Items"
                               /\ channel[c] = {}
                               /\ Returns(c)

ItemsReturns(c) == /\ stage[c] = "collect" /\ kind[c] = "Items"
                   /\ channel[c] = {} /\ AllDone(c)
                   /\ Returns(c)

\* A collector that nobody receives from any more keeps its shard locked.
LeftBlocked(c, s) == /\ kind[c] = "Keys" /\ stage[c] = "returned"
                     /\ collector[c][s] = "ranging" /\ TodoIn(c, s) # {} /\ ~Room(c)

\* The caller has its result, and its collectors are done or blocked for
\* good: the call's place is free for another.
Forget(c) ==
  /\ stage[c] = "returned"
  /\ \A s \in Shards : collector[c][s] = "done" \/ LeftBlocked(c, s)
  /\ leaked' = leaked \cup {s \in Shards : collector[c][s] = "ranging"}
  /\ stage' = [stage EXCEPT ![c] = "idle"]
  /\ kind' = [kind EXCEPT ![c] = "Count"]
  /\ at' = [at EXCEPT ![c] = 1]
  /\ count' = [count EXCEPT ![c] = 0]
  /\ collector' = [collector EXCEPT ![c] = NoCollectors]
  /\ todo' = [todo EXCEPT ![c] = {}]
  /\ channel' = [channel EXCEPT ![c] = {}]
  /\ got' = [got EXCEPT ![c] = {}]
  /\ taken' = [taken EXCEPT ![c] = 0]
  /\ always' = [always EXCEPT ![c] = {}]
  /\ ever' = [ever EXCEPT ![c] = {}]
  /\ UNCHANGED <<items, pending>>

-----------------------------------------------------------------------------
Caller(c) == CountShard(c) \/ Receive(c) \/ ReceiveEmpty(c)
               \/ KeysReturns(c) \/ ItemsReturns(c)

Collector(c, s) == StartRange(c, s) \/ Send(c, s) \/ EndRange(c, s)

Next == \/ \E w \in Writers, n \in Names :
             \/ \E v \in Values, b \in BOOLEAN : SetTo(w, n, v, b)
             \/ Remove(w, n)
        \/ \E w \in Writers : Apply(w)
        \/ \E c \in Calls, k \in {"Count", "Keys", "Items"} : Call(c, k)
        \/ \E c \in Calls : Caller(c) \/ Forget(c)
        \/ \E c \in Calls, s \in Shards : Collector(c, s)

Spec == Init /\ [][Next]_vars

\* Goroutines are scheduled; a lock is obtained in the end by a reader that
\* waits for writers again and again (Go's RWMutex lets the readers that wait
\* in before the next writer), and by a writer once the readers before it
\* are gone.  Nobody has to call or to write.
FairSpec == /\ Spec
            /\ \A w \in Writers : WF_vars(Apply(w))
            /\ \A c \in Calls : SF_vars(Caller(c))
            /\ \A c \in Calls, s \in Shards : SF_vars(Collector(c, s))

-----------------------------------------------------------------------------
(* Properties *)

AllEntries == Names \X Values

Writes == [name : Names, value : Values \cup {None}, absentOnly : BOOLEAN]

TypeOK ==
  /\ items \in [Names -> Values \cup {None}]
  /\ pending \in [Writers -> Writes \cup {None}]
  /\ leaked \subseteq Shards
  /\ kind \in [Calls -> {"Count", "Keys", "Items"}]
  /\ stage \in [Calls -> {"idle", "count", "collect", "returned"}]
  /\ at \in [Calls -> 1 .. ShardCount + 1]
  /\ count \in [Calls -> 0 .. Cardinality(Names)]
  /\ collector \in [Calls -> [Shards -> {"ready", "ranging", "done"}]]
  /\ todo \in [Calls -> SUBSET AllEntries]
  /\ channel \in [Calls -> SUBSET AllEntries]
  /\ got \in [Calls -> SUBSET AllEntries]
  /\ taken \in [Calls -> 0 .. Cardinality(Names)]
  /\ always \in [Calls -> SUBSET Names]
  /\ ever \in [Calls -> SUBSET AllEntries]

\* "callback sees consistent view of a shard, but not across the shards"
\* (concurrent.go:209-212), as every reader of all shards does.  Still, what
\* Items returns has every key that was in the map throughout the call, and
\* nothing that was not there with that value at some time during it.
ItemsConsistent ==
  \A c \in Calls : stage[c] = "returned" /\ kind[c] = "Items"
    => always[c] \subseteq NamesOf(got[c]) /\ got[c] \subseteq ever[c]

\* "Return all keys" (concurrent.go:228) is true of a call of Keys during
\* which no key is added or removed; any other returns no key that was not
\* there, but may have empty ones or lack some.
KeysConsistent ==
  \A c \in Calls : stage[c] = "returned" /\ kind[c] = "Keys"
    => /\ got[c] \subseteq ever[c]
       /\ always[c] = NamesOf(ever[c]) => NamesOf(got[c]) = always[c]

SomeLeftBlocked == leaked # {} \/ \E c \in Calls, s \in Shards : LeftBlocked(c, s)

\* Every write gets its lock and every call returns, also the ones that wait
\* for a writer that waits for a collector; unless a call of Keys has counted
\* fewer keys than it then collected and left a collector blocked behind
\* (concurrent.go:238-254).
CallsReturn ==
  /\ \A w \in Writers : pending[w] # None
       ~> pending[w] = None \/ SomeLeftBlocked
  /\ \A c \in Calls : UnderWay(c) ~> ~UnderWay(c) \/ SomeLeftBlocked
=============================================================================
