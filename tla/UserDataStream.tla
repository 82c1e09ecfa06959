--------------------------- MODULE UserDataStream ---------------------------
(***************************************************************************)
(* One UserDataStream of the Binance service: the goroutine that starts it,*)
(* its keep-alive loop, the goroutine that waits for its WebSocket, and the*)
(* callers of StopWithContext.                                             *)
(*                                                                         *)
(* Every section of u.mu is one action, except recreateStream, which keeps *)
(* the mutex over its HTTP request and over runWs.  The manager calls Start*)
(* once per stream, so there is one dialled connection at most.  The proxy *)
(* variables of the environment and the position events are not modelled.  *)
(***************************************************************************)
EXTENDS Naturals

CONSTANTS
    Keys,        \* listen keys the exchange may issue
    NoKey,       \* the empty listen key
    Stoppers     \* concurrent StopWithContext calls

ASSUME KeysAssumption == NoKey \notin Keys

VARIABLES
    mu,              \* u.mu: "free", or "loop" while recreateStream holds it
    isStopped,       \* u.isStopped
    stopChan,        \* u.stopChan: "open", or "nil" once it was closed
    stopWsChan,      \* u.stopWsChan: "set", or "nil"
    listenKey,       \* u.listenKey
    keys,            \* listen keys alive at the exchange
    ws,              \* the WebSocket: "none", "open" or "closed"
    stopChanCloses,  \* calls of close(u.stopChan)
    stopCCloses,     \* calls of close on the stopC of the WebSocket
    start, startKey, \* where Start is, and the key it was given
    loop,            \* where keepAliveLoop is
    waiter,          \* where the goroutine launched by runWs is
    stop, stopKey    \* where each stop is, and the key the stop took

chanVars == <<stopChan, stopChanCloses>>
wsVars == <<stopWsChan, ws, stopCCloses>>
startVars == <<start, startKey>>
stopVars == <<stop, stopKey>>
vars == <<mu, isStopped, chanVars, wsVars, listenKey, keys, startVars, loop, waiter, stopVars>>

Free == mu = "free"

Init ==
    /\ mu = "free" /\ isStopped = FALSE
    /\ stopChan = "open" /\ stopChanCloses = 0
    /\ stopWsChan = "nil" /\ ws = "none" /\ stopCCloses = 0
    /\ listenKey = NoKey /\ keys = {}
    /\ start = "check" /\ startKey = NoKey
    /\ loop = "none" /\ waiter = "none"
    /\ stop = [p \in Stoppers |-> "idle"] /\ stopKey = NoKey

\* Mutation: the field keeps the closed channel.
CloseKeepsField ==
    /\ stopCCloses' = IF stopWsChan = "set" THEN stopCCloses + 1 ELSE stopCCloses
    /\ UNCHANGED <<stopWsChan, ws>>

\* "if u.stopWsChan != nil { close(u.stopWsChan); u.stopWsChan = nil }", under u.mu.
CloseWs ==
    /\ stopCCloses' = IF stopWsChan = "set" THEN stopCCloses + 1 ELSE stopCCloses
    /\ stopWsChan' = "nil"
    /\ UNCHANGED ws

-----------------------------------------------------------------------------
(* Start and runWs *)

StartCheck ==
    /\ start = "check" /\ Free
    /\ start' = IF isStopped THEN "done" ELSE "key"
    /\ UNCHANGED <<mu, isStopped, chanVars, wsVars, listenKey, keys, startKey, loop, waiter, stopVars>>

\* The exchange issues a listen key, or the request fails.
StartKey ==
    /\ start = "key"
    /\ \/ \E k \in Keys : /\ keys' = keys \cup {k}
                          /\ startKey' = k
                          /\ start' = "hold"
       \/ start' = "done" /\ UNCHANGED <<keys, startKey>>
    /\ UNCHANGED <<mu, isStopped, chanVars, wsVars, listenKey, loop, waiter, stopVars>>

\* The key is stored without the mutex and without looking at isStopped again;
\* the keep-alive loop is launched.
StartKeep ==
    /\ start = "hold"
    /\ listenKey' = startKey
    /\ loop' = "top"
    /\ start' = "run"
    /\ UNCHANGED <<mu, isStopped, chanVars, wsVars, keys, startKey, waiter, stopVars>>

RunCheck ==
    /\ start = "run" /\ Free
    /\ start' = IF isStopped THEN "done" ELSE "dial"
    /\ UNCHANGED <<mu, isStopped, chanVars, wsVars, listenKey, keys, startKey, loop, waiter, stopVars>>

\* WsUserDataServe, tried again without the proxy when it fails.
RunDial ==
    /\ start = "dial"
    /\ \/ ws' = "open" /\ start' = "store"
       \/ start' = "done" /\ UNCHANGED ws
    /\ UNCHANGED <<mu, isStopped, chanVars, stopWsChan, stopCCloses, listenKey, keys, startKey,
                   loop, waiter, stopVars>>

\* Mutation: the second look at isStopped is forgotten.
RunStoreUnchecked ==
    /\ start = "store" /\ Free
    /\ start' = "done"
    /\ stopWsChan' = "set" /\ waiter' = "new"
    /\ UNCHANGED <<mu, isStopped, chanVars, ws, stopCCloses, listenKey, keys, startKey, loop, stopVars>>

\* The connection is kept, unless the stream was stopped during the dial.
RunStore ==
    /\ start = "store" /\ Free
    /\ start' = "done"
    /\ IF isStopped
       THEN /\ stopCCloses' = stopCCloses + 1
            /\ UNCHANGED <<stopWsChan, waiter>>
       ELSE /\ stopWsChan' = "set"
            /\ waiter' = "new"
            /\ UNCHANGED stopCCloses
    /\ UNCHANGED <<mu, isStopped, chanVars, ws, listenKey, keys, startKey, loop, stopVars>>

-----------------------------------------------------------------------------
(* The WebSocket and the goroutine that waits for it *)

\* The library closes the connection some time after its stopC was closed.
WsObey ==
    /\ ws = "open" /\ stopCCloses > 0
    /\ ws' = "closed"
    /\ UNCHANGED <<mu, isStopped, chanVars, stopWsChan, stopCCloses, listenKey, keys, startVars,
                   loop, waiter, stopVars>>

\* The connection breaks.
WsDrop ==
    /\ ws = "open"
    /\ ws' = "closed"
    /\ UNCHANGED <<mu, isStopped, chanVars, stopWsChan, stopCCloses, listenKey, keys, startVars,
                   loop, waiter, stopVars>>

\* The select evaluates u.stopChan once, when it is reached; nil never fires.
WaiterSelect ==
    /\ waiter = "new"
    /\ waiter' = IF stopChan = "open" THEN "hears" ELSE "deaf"
    /\ UNCHANGED <<mu, isStopped, chanVars, wsVars, listenKey, keys, startVars, loop, stopVars>>

\* doneC was closed.
WaiterDone ==
    /\ waiter \in {"hears", "deaf"} /\ ws = "closed"
    /\ waiter' = "gone"
    /\ UNCHANGED <<mu, isStopped, chanVars, wsVars, listenKey, keys, startVars, loop, stopVars>>

WaiterWoken ==
    /\ waiter = "hears" /\ stopChan = "nil"
    /\ waiter' = "woken"
    /\ UNCHANGED <<mu, isStopped, chanVars, wsVars, listenKey, keys, startVars, loop, stopVars>>

WaiterClose ==
    /\ waiter = "woken" /\ Free
    /\ CloseWs
    /\ waiter' = "gone"
    /\ UNCHANGED <<mu, isStopped, chanVars, listenKey, keys, startVars, loop, stopVars>>

-----------------------------------------------------------------------------
(* Keep-alive *)

LoopSelect ==
    /\ loop = "top"
    /\ loop' = IF stopChan = "open" THEN "wait" ELSE "deaf"
    /\ UNCHANGED <<mu, isStopped, chanVars, wsVars, listenKey, keys, startVars, waiter, stopVars>>

LoopStop ==
    /\ loop = "wait" /\ stopChan = "nil"
    /\ loop' = "off"
    /\ UNCHANGED <<mu, isStopped, chanVars, wsVars, listenKey, keys, startVars, waiter, stopVars>>

\* Mutation: the tick does not look at isStopped.
LoopTickUnchecked ==
    /\ loop \in {"wait", "deaf"} /\ start = "done" /\ Free
    /\ loop' = IF listenKey = NoKey THEN "top" ELSE "renew"
    /\ UNCHANGED <<mu, isStopped, chanVars, wsVars, listenKey, keys, startVars, waiter, stopVars>>

\* A tick, every 50 minutes: Start's dial has ended by then.
LoopTick ==
    /\ loop \in {"wait", "deaf"} /\ start = "done" /\ Free
    /\ loop' = CASE isStopped -> "off"
                 [] ~isStopped /\ listenKey = NoKey -> "top"
                 [] OTHER -> "renew"
    /\ UNCHANGED <<mu, isStopped, chanVars, wsVars, listenKey, keys, startVars, waiter, stopVars>>

\* The keep-alive request succeeds or fails.
LoopRenew ==
    /\ loop = "renew"
    /\ loop' \in {"top", "recreate"}
    /\ UNCHANGED <<mu, isStopped, chanVars, wsVars, listenKey, keys, startVars, waiter, stopVars>>

\* recreateStream takes the mutex and closes the old connection.
Recreate ==
    /\ loop = "recreate" /\ Free
    /\ IF isStopped
       THEN /\ loop' = "top"
            /\ UNCHANGED <<mu, wsVars>>
       ELSE /\ loop' = "newkey" /\ mu' = "loop"
            /\ CloseWs
    /\ UNCHANGED <<isStopped, chanVars, listenKey, keys, startVars, waiter, stopVars>>

\* Mutation: the failed request returns without giving the mutex back.
RecreateKeyKeepsMutex ==
    /\ loop = "newkey"
    /\ \/ \E k \in Keys : /\ keys' = keys \cup {k}
                          /\ listenKey' = k
                          /\ loop' = "rerun"
       \/ loop' = "top" /\ UNCHANGED <<keys, listenKey>>
    /\ UNCHANGED <<mu, isStopped, chanVars, wsVars, startVars, waiter, stopVars>>

\* With the new key runWs is called, which locks u.mu: the goroutine already
\* holds it, so no action leaves "rerun".  A failed request gives the mutex back.
RecreateKey ==
    /\ loop = "newkey"
    /\ \/ \E k \in Keys : /\ keys' = keys \cup {k}
                          /\ listenKey' = k
                          /\ loop' = "rerun"
                          /\ UNCHANGED mu
       \/ /\ mu' = "free" /\ loop' = "top"
          /\ UNCHANGED <<keys, listenKey>>
    /\ UNCHANGED <<isStopped, chanVars, wsVars, startVars, waiter, stopVars>>

-----------------------------------------------------------------------------
(* StopWithContext *)

\* StopWithContext is called and waits for the mutex.
StopCall(p) ==
    /\ stop[p] = "idle"
    /\ stop' = [stop EXCEPT ![p] = "claim"]
    /\ UNCHANGED <<mu, isStopped, chanVars, wsVars, listenKey, keys, startVars, loop, waiter, stopKey>>

\* Only the first caller stops the stream; later ones return at once.
StopClaim(p) ==
    /\ stop[p] = "claim" /\ Free
    /\ isStopped' = TRUE
    /\ stop' = [stop EXCEPT ![p] = IF isStopped THEN "returned" ELSE "key"]
    /\ UNCHANGED <<mu, chanVars, wsVars, listenKey, keys, startVars, loop, waiter, stopKey>>

\* Mutation: an empty key is deleted too.
StopTakeAnyKey(p) ==
    /\ stop[p] = "key" /\ Free
    /\ stopKey' = listenKey /\ listenKey' = NoKey
    /\ stop' = [stop EXCEPT ![p] = "delete"]
    /\ UNCHANGED <<mu, isStopped, chanVars, wsVars, keys, startVars, loop, waiter>>

StopTakeKey(p) ==
    /\ stop[p] = "key" /\ Free
    /\ stopKey' = listenKey /\ listenKey' = NoKey
    /\ stop' = [stop EXCEPT ![p] = IF listenKey = NoKey THEN "chan" ELSE "delete"]
    /\ UNCHANGED <<mu, isStopped, chanVars, wsVars, keys, startVars, loop, waiter>>

\* The request that deletes the key; its failure is only logged.
StopDeleteKey(p) ==
    /\ stop[p] = "delete"
    /\ keys' \in {keys, keys \ {stopKey}}
    /\ stop' = [stop EXCEPT ![p] = "chan"]
    /\ UNCHANGED <<mu, isStopped, chanVars, wsVars, listenKey, startVars, loop, waiter, stopKey>>

StopCloseChan(p) ==
    /\ stop[p] = "chan" /\ Free
    /\ stopChanCloses' = IF stopChan = "open" THEN stopChanCloses + 1 ELSE stopChanCloses
    /\ stopChan' = "nil"
    /\ stop' = [stop EXCEPT ![p] = "ws"]
    /\ UNCHANGED <<mu, isStopped, wsVars, listenKey, keys, startVars, loop, waiter, stopKey>>

StopCloseWs(p) ==
    /\ stop[p] = "ws" /\ Free
    /\ CloseWs
    /\ stop' = [stop EXCEPT ![p] = "wait"]
    /\ UNCHANGED <<mu, isStopped, chanVars, listenKey, keys, startVars, loop, waiter, stopKey>>

\* Three seconds, or the end of the caller's context.
StopWait(p) ==
    /\ stop[p] = "wait"
    /\ stop' = [stop EXCEPT ![p] = "returned"]
    /\ UNCHANGED <<mu, isStopped, chanVars, wsVars, listenKey, keys, startVars, loop, waiter, stopKey>>

StopStep(p) ==
    \/ StopClaim(p) \/ StopTakeKey(p) \/ StopDeleteKey(p)
    \/ StopCloseChan(p) \/ StopCloseWs(p) \/ StopWait(p)

-----------------------------------------------------------------------------
StartStep == StartCheck \/ StartKey \/ StartKeep \/ RunCheck \/ RunDial \/ RunStore
WaiterStep == WaiterSelect \/ WaiterDone \/ WaiterWoken \/ WaiterClose
LoopStep == LoopSelect \/ LoopStop \/ LoopTick \/ LoopRenew \/ Recreate \/ RecreateKey

Next ==
    \/ StartStep \/ WaiterStep \/ LoopStep \/ WsObey \/ WsDrop
    \/ \E p \in Stoppers : StopCall(p) \/ StopStep(p)

Spec == Init /\ [][Next]_vars

\* The goroutines are scheduled, requests are answered or fail, the ticker ticks
\* and timers expire.  Go's mutex hands itself to a waiter that is passed over,
\* hence SF for what waits for u.mu.  Nothing makes a caller stop the stream.
Fairness ==
    /\ SF_vars(StartStep) /\ SF_vars(WaiterStep) /\ SF_vars(LoopStep) /\ WF_vars(WsObey)
    /\ \A p \in Stoppers : SF_vars(StopStep(p))

FairSpec == Spec /\ Fairness

-----------------------------------------------------------------------------
(* Properties *)

\* Type invariant of the stream and of its goroutines; a request that names a
\* listen key names one the exchange issued.
TypeOK ==
    /\ mu \in {"free", "loop"} /\ isStopped \in BOOLEAN
    /\ stopChan \in {"open", "nil"} /\ stopChanCloses \in Nat
    /\ stopWsChan \in {"set", "nil"} /\ ws \in {"none", "open", "closed"} /\ stopCCloses \in Nat
    /\ listenKey \in Keys \cup {NoKey} /\ keys \subseteq Keys
    /\ start \in {"check", "key", "hold", "run", "dial", "store", "done"}
    /\ startKey \in Keys \cup {NoKey} /\ stopKey \in Keys \cup {NoKey}
    /\ loop \in {"none", "top", "wait", "deaf", "renew", "recreate", "newkey", "rerun", "off"}
    /\ waiter \in {"none", "new", "hears", "deaf", "woken", "gone"}
    /\ stop \in [Stoppers -> {"idle", "claim", "key", "delete", "chan", "ws", "wait", "returned"}]
    /\ start = "hold" => startKey \in Keys
    /\ \A p \in Stoppers : stop[p] = "delete" => stopKey \in Keys

\* Closing a closed channel panics and takes the whole server down: three
\* goroutines close the WebSocket's stopC and any number of stops run, and yet
\* each channel is closed once.
ClosedOnce == stopChanCloses <= 1 /\ stopCCloses <= 1

\* The stop has gone past the WebSocket.
StopDone == stopChan = "nil" /\ \A p \in Stoppers : stop[p] # "ws"

\* A connection that Start dials while the stream is being stopped is not left
\* behind: after both, an open WebSocket has been told to close.
NothingSurvivesStop ==
    StopDone /\ start = "done" => stopWsChan = "nil" /\ (ws = "open" => stopCCloses = 1)

\* Once stopped, the stream's goroutines and its connection all end, whatever
\* each of them was doing, unless recreateStream blocked on its own mutex.
StopEndsEverything ==
    <>[](isStopped => \/ loop = "rerun"
                      \/ /\ loop \in {"none", "off"} /\ waiter \in {"none", "gone"}
                         /\ start = "done" /\ ws # "open")

\* StopWithContext returns to every caller, unless recreateStream blocked.
StopReturnsUnlessStuck ==
    \A p \in Stoppers : stop[p] = "claim" ~> (stop[p] = "returned" \/ loop = "rerun")

-----------------------------------------------------------------------------
(* Inductive invariant *)

BeforeStore == {"check", "key", "hold", "run", "dial", "store"}
Stopping == {"key", "delete", "chan", "ws", "wait"}

\* The stopC has an owner until somebody closes it: Start before it is stored,
\* the field afterwards.
StopCOwned ==
    /\ start \in BeforeStore => stopCCloses = 0 /\ stopWsChan = "nil"
    /\ start \in BeforeStore \ {"store"} => ws = "none"
    /\ stopWsChan = "set" => stopCCloses = 0
    /\ ws = "open" => start = "store" \/ stopWsChan = "set" \/ stopCCloses = 1

\* stopChan is closed by the one stop that claimed the stream, and the field is
\* not set again after that stop cleared it.
StopOrdered ==
    /\ stopChanCloses = IF stopChan = "open" THEN 0 ELSE 1
    /\ stopChan = "nil" => isStopped
    /\ \A p \in Stoppers : stop[p] \in Stopping => isStopped
    /\ StopDone => stopWsChan = "nil"

\* One stop at most is at work, so the key it took is its own.
OneStop == \A p, q \in Stoppers : stop[p] \in Stopping /\ stop[q] \in Stopping => p = q

\* What the safety proofs carry from step to step.
IInv == TypeOK /\ ClosedOnce /\ StopCOwned /\ StopOrdered /\ OneStop
=============================================================================
