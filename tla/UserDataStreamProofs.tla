------------------------ MODULE UserDataStreamProofs ------------------------
(***************************************************************************)
(* The safety of UserDataStream for any number of listen keys and stops.   *)
(* IInv says who owns the stopC of the WebSocket at every moment.          *)
(***************************************************************************)
EXTENDS UserDataStream, TLAPS

USE DEF vars, chanVars, wsVars, startVars, stopVars

\* The owner of stopC and the order of the stop, initially.
LEMMA Initially == Init => IInv
  <1> SUFFICES ASSUME Init PROVE IInv
    OBVIOUS
  <1>1. TypeOK
    BY DEF Init, TypeOK
  <1>2. ClosedOnce /\ StopCOwned
    BY DEF Init, ClosedOnce, StopCOwned
  <1>3. StopOrdered /\ OneStop
    BY DEF Init, StopOrdered, OneStop, Stopping, StopDone
  <1>4. QED
    BY <1>1, <1>2, <1>3 DEF IInv

\* Start and runWs keep the invariant: stopC is stored only if nobody stopped.
LEMMA StartKeeps == IInv /\ StartStep => IInv'
  <1> SUFFICES ASSUME IInv, StartStep PROVE IInv'
    OBVIOUS
  <1> USE DEF IInv, TypeOK, ClosedOnce, StopCOwned, StopOrdered, OneStop, BeforeStore,
              Stopping, StopDone
  <1>1. CASE StartCheck
    BY <1>1 DEF StartCheck
  <1>2. CASE StartKey
    BY <1>2 DEF StartKey
  <1>3. CASE StartKeep
    BY <1>3 DEF StartKeep
  <1>4. CASE RunCheck
    BY <1>4 DEF RunCheck
  <1>5. CASE RunDial
    BY <1>5 DEF RunDial
  <1>6. CASE RunStore
    BY <1>6 DEF RunStore
  <1>7. QED
    BY <1>1, <1>2, <1>3, <1>4, <1>5, <1>6 DEF StartStep

\* The connection, its goroutine and the keep-alive loop keep the invariant:
\* they close stopC only through the field, which they clear.
LEMMA LoopKeeps == IInv /\ (WaiterStep \/ LoopStep \/ WsObey \/ WsDrop) => IInv'
  <1> SUFFICES ASSUME IInv, WaiterStep \/ LoopStep \/ WsObey \/ WsDrop PROVE IInv'
    OBVIOUS
  <1> USE DEF IInv, TypeOK, ClosedOnce, StopCOwned, StopOrdered, OneStop, BeforeStore,
              Stopping, StopDone
  <1>1. CASE WaiterStep
    BY <1>1 DEF WaiterStep, WaiterSelect, WaiterDone, WaiterWoken, WaiterClose, CloseWs
  <1>2. CASE LoopSelect \/ LoopStop \/ LoopTick \/ LoopRenew
    BY <1>2 DEF LoopSelect, LoopStop, LoopTick, LoopRenew
  <1>3. CASE Recreate
    BY <1>3 DEF Recreate, CloseWs
  <1>4. CASE RecreateKey
    BY <1>4 DEF RecreateKey
  <1>5. CASE WsObey \/ WsDrop
    BY <1>5 DEF WsObey, WsDrop
  <1>6. QED
    BY <1>1, <1>2, <1>3, <1>4, <1>5 DEF LoopStep

\* A stop keeps the invariant: only one of them gets past the claim.
LEMMA StopKeeps == ASSUME IInv, NEW p \in Stoppers, StopCall(p) \/ StopStep(p) PROVE IInv'
  <1> USE DEF IInv, TypeOK, ClosedOnce, StopCOwned, StopOrdered, OneStop, BeforeStore,
              Stopping, StopDone
  <1>1. CASE StopCall(p)
    BY <1>1 DEF StopCall
  <1>2. CASE StopClaim(p)
    BY <1>2 DEF StopClaim
  <1>3. CASE StopTakeKey(p)
    BY <1>3 DEF StopTakeKey
  <1>4. CASE StopDeleteKey(p)
    BY <1>4 DEF StopDeleteKey
  <1>5. CASE StopCloseChan(p)
    BY <1>5 DEF StopCloseChan
  <1>6. CASE StopCloseWs(p)
    BY <1>6 DEF StopCloseWs, CloseWs
  <1>7. CASE StopWait(p)
    BY <1>7 DEF StopWait
  <1>8. QED
    BY <1>1, <1>2, <1>3, <1>4, <1>5, <1>6, <1>7 DEF StopStep

\* The inductive invariant is an invariant.
LEMMA Invariance == Spec => []IInv
  <1>1. IInv /\ [Next]_vars => IInv'
    <2>1. IInv /\ UNCHANGED vars => IInv'
      BY DEF IInv, TypeOK, ClosedOnce, StopCOwned, StopOrdered, OneStop, StopDone
    <2>2. QED
      BY <2>1, StartKeeps, LoopKeeps, StopKeeps DEF Next
  <1>2. QED
    BY <1>1, Initially, PTL DEF Spec

\* The stream's fields always hold values of their types.
THEOREM TypeCorrect == Spec => []TypeOK
  <1>1. IInv => TypeOK
    BY DEF IInv
  <1>2. QED
    BY <1>1, Invariance, PTL

\* No interleaving of Start, the keep-alive loop, the waiting goroutine and any
\* number of stops closes a channel twice.
THEOREM ChannelsCloseOnce == Spec => []ClosedOnce
  <1>1. IInv => ClosedOnce
    BY DEF IInv
  <1>2. QED
    BY <1>1, Invariance, PTL

\* A stop during Start leaves no WebSocket that was not told to close.
THEOREM StopLeavesNothing == Spec => []NothingSurvivesStop
  <1>1. IInv => NothingSurvivesStop
    BY DEF IInv, StopCOwned, StopOrdered, NothingSurvivesStop
  <1>2. QED
    BY <1>1, Invariance, PTL
=============================================================================
