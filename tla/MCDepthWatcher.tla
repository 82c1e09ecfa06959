--------------------------- MODULE MCDepthWatcher ---------------------------
(* The instance of DepthWatcher that TLC explores. *)
EXTENDS DepthWatcher, TLC

CONSTANTS s1, BTC, g1, g2, c1, c2

\* The manager makes a watcher for one signal: here both triggers are set, the
\* order is a bid of 2 and half of it eaten is enough.
MCSig == s1 :> [symbol |-> BTC, price |-> 1, side |-> "BUY", qty |-> 2,
                onCancel |-> TRUE, onEat |-> TRUE, eatPercent |-> 50]

\* What the exchange reports: the order gone, half of it left, an order on the
\* other side at the same price, a change at other prices only.
Change(delta) == [symbol |-> BTC, delta |-> delta]
MCFeed == { Change(<<"BUY", 1>> :> 0), Change(<<"BUY", 1>> :> 1),
            Change(<<"SELL", 1>> :> 2), Change(<< >>) }

Interchangeable == Permutations(Starters) \cup Permutations(Conns)
=============================================================================
