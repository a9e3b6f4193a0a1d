-------------------------- MODULE AtomicPriceStore --------------------------
(***************************************************************************)
(* What the price cache promises to the monitors and to the readers of     *)
(* prices: every operation takes effect at one instant, the last price     *)
(* written for a feed is the one that is read, no price is ever lost, and  *)
(* a feed that is monitored stays monitored.  There is no locking, no size *)
(* limit and no pruning at this level.                                     *)
(***************************************************************************)
CONSTANTS Networks,  \* network identifiers
          Keys,      \* prefixed identifiers of price feeds
          Times,     \* the prices, each named by its timestamp
          NoPrice    \* nothing was written yet

VARIABLES latest,    \* the price of every feed
          monitored  \* the feeds, as pairs of a network and a key

storeVars == <<latest, monitored>>

Feeds == Networks \X Keys

Init == /\ latest = [f \in Feeds |-> NoPrice]
        /\ monitored = {}

AddFeed(f) == /\ monitored' = monitored \cup {f}
              /\ UNCHANGED latest

UpdatePrice(f, t) == /\ latest' = [latest EXCEPT ![f] = t]
                     /\ monitored' = monitored \cup {f}

Next == \E f \in Feeds : \/ AddFeed(f)
                         \/ \E t \in Times : UpdatePrice(f, t)

Spec == Init /\ [][Next]_storeVars
=============================================================================
