-------------------------- MODULE DualStreamProofs --------------------------
(***************************************************************************)
(* Proofs about DualStream for both values of First: its types, the        *)
(* inductive invariant behind its safety properties, those properties, and *)
(* that it implements DisconnectPromise.                                   *)
(***************************************************************************)
EXTENDS DualStream, TLAPS

(* What a worker's place in stream_worker says of the shared state: it has  *)
(* received and stored its event when it signals, and it leaves the block   *)
(* without an exception only through its gate.                              *)
WorkerInv ==
    \A s \in Slots :
        /\ wpc[s] = "errorSignal" => s \in errors
        /\ wpc[s] \in {"store", "signal", "gate"} => s \in got
        /\ wpc[s] \in {"signal", "gate"} => firstEvent[s] = event[s]
        /\ wpc[s] = "gate" => ready[s]
        /\ wpc[s] \in {"response", "register", "read", "store", "signal", "gate"} =>
              client[s] # "none"
        /\ (wpc[s] \in {"close", "done"} /\ s \notin errors) =>
              /\ s \in got /\ firstEvent[s] = event[s]
              /\ gate[s] /\ client[s] # "none"
        /\ wpc[s] = "done" => client[s] # "open"
        /\ ready[s] => wpc[s] \in {"gate", "close", "done"} \/ s \in Failing

(* Who may have closed a stream; what the server must have done before.     *)
StreamInv ==
    \A s \in Slots :
        /\ client[s] = "closed" => s \in Failing \/ wpc[s] = "done" \/ pc \in Ended
        /\ s \in got => event[s] # "none"
        /\ event[s] # "none" => slot[s] \in {"busy", "released"}
        /\ wpc[s] \in {"unstarted", "arrive", "waiting", "open"} =>
              slot[s] = "unused" /\ client[s] = "none" /\ s \notin registered

(* How far the caller is: what it has waited for and what it has opened.    *)
MainInv ==
    /\ failed => pc \in {"finally", "cleanup", "close", "raised"}
    /\ pc = "start" => wpc[First] = "unstarted"
    /\ pc \in {"start", "startSecond"} => wpc[Survivor] = "unstarted"
    /\ pc \in {"cancel", "cancelled", "survivor", "join"} =>
          report["bothFirstEvents"] /\ \A s \in Slots : ready[s]
    /\ pc \in {"start", "startSecond", "arrive", "waiting", "observe", "observed",
               "ready", "cancel", "cancelled", "survivor"} => ~gate[Survivor]
    /\ (pc \in {"drain", "drained", "returned"}
          \/ (pc \in {"finally", "cleanup", "close"} /\ ~failed)) =>
          /\ report["bothFirstEvents"] /\ errors = {}
          /\ \A s \in Slots : wpc[s] = "done"
    /\ \A s \in Slots : gate[s] =>
          failed \/ pc = "raised" \/ \A t \in Slots : ready[t]

(* A disconnection before both events means that a failure is recorded, or  *)
(* that the call raises.                                                    *)
SpoiledInv == spoiled => Failing # {} \/ failed \/ pc = "raised"

(* The idle flags the caller holds in its last loop stay true.              *)
IdleInv ==
    /\ pc = "drained" =>
          \A s \in Slots : view[s] => slot[s] = "released"
    /\ report["bothIdle"] => \A s \in Slots : slot[s] = "released"

IInv == TypeOK /\ WorkerInv /\ StreamInv /\ MainInv /\ SpoiledInv /\ IdleInv

-----------------------------------------------------------------------------
(* Types                                                                    *)

(* The types hold at the start.                                             *)
LEMMA InitTypeOK == Init => TypeOK
<1>. SUFFICES ASSUME Init PROVE TypeOK
  OBVIOUS
<1>1. /\ view \in [Slots -> BOOLEAN]
      /\ ready \in [Slots -> BOOLEAN]
      /\ gate \in [Slots -> BOOLEAN]
  BY DEF Init, NoView
<1>2. report \in [Flags -> BOOLEAN]
  BY DEF Init
<1>3. QED
  BY <1>1, <1>2 DEF Init, TypeOK, MainPcs, WorkerPcs, Events

(* Every step keeps the types: one step of the proof per action, and under  *)
(* it one per variable the action assigns.                                  *)
LEMMA NextTypeOK == TypeOK /\ [Next]_vars => TypeOK'
<1>. SUFFICES ASSUME TypeOK, [Next]_vars PROVE TypeOK'
  OBVIOUS
<1>1. ASSUME NEW s \in Slots, WorkerArrive(s) PROVE TypeOK'
  <2>1. wpc' \in [Slots -> WorkerPcs]
    BY <1>1 DEF WorkerArrive, TypeOK, WorkerPcs, Move
  <2>2. barrier' \in {"filling", "released", "broken"}
    BY <1>1 DEF WorkerArrive, TypeOK
  <2>3. QED
    BY <1>1, <2>1, <2>2
    DEF TypeOK, WorkerArrive, Move, mainVars, syncVars, sharedVars, wireVars, history
<1>2. ASSUME NEW s \in Slots, WorkerWake(s) PROVE TypeOK'
  <2>1. wpc' \in [Slots -> WorkerPcs]
    BY <1>2 DEF WorkerWake, TypeOK, WorkerPcs, Move
  <2>2. barrier' \in {"filling", "released", "broken"}
    BY <1>2 DEF WorkerWake, TypeOK
  <2>3. QED
    BY <1>2, <2>1, <2>2
    DEF TypeOK, WorkerWake, Move, mainVars, syncVars, sharedVars, wireVars, history
<1>3. ASSUME NEW s \in Slots, WorkerConnect(s) PROVE TypeOK'
  <2>1. wpc' \in [Slots -> WorkerPcs]
    BY <1>3 DEF WorkerConnect, TypeOK, WorkerPcs, Move
  <2>2. client' \in [Slots -> {"none", "open", "closed"}]
    BY <1>3 DEF WorkerConnect, TypeOK, Disconnect
  <2>3. slot' \in [Slots -> {"unused", "pending", "busy", "released"}]
    BY <1>3 DEF WorkerConnect, TypeOK
  <2>4. QED
    BY <1>3, <2>1, <2>2, <2>3
    DEF TypeOK, WorkerConnect, Move, mainVars, syncVars, sharedVars, wireVars, history
<1>4. ASSUME NEW s \in Slots, WorkerResponse(s) PROVE TypeOK'
  <2>1. wpc' \in [Slots -> WorkerPcs]
    BY <1>4 DEF WorkerResponse, TypeOK, WorkerPcs, Move
  <2>2. client' \in [Slots -> {"none", "open", "closed"}]
    BY <1>4 DEF WorkerResponse, TypeOK, Disconnect
  <2>3. spoiled' \in BOOLEAN
    BY <1>4 DEF WorkerResponse, TypeOK, Disconnect
  <2>4. QED
    BY <1>4, <2>1, <2>2, <2>3
    DEF TypeOK, WorkerResponse, Move, Disconnect, mainVars, syncVars, sharedVars,
      wireVars, history
<1>5. ASSUME NEW s \in Slots, WorkerRegister(s) PROVE TypeOK'
  <2>1. wpc' \in [Slots -> WorkerPcs]
    BY <1>5 DEF WorkerRegister, TypeOK, WorkerPcs, Move
  <2>2. registered' \in SUBSET Slots
    BY <1>5 DEF WorkerRegister, TypeOK
  <2>3. QED
    BY <1>5, <2>1, <2>2
    DEF TypeOK, WorkerRegister, Move, mainVars, syncVars, sharedVars, wireVars, history
<1>6. ASSUME NEW s \in Slots, WorkerRead(s) PROVE TypeOK'
  <2>1. wpc' \in [Slots -> WorkerPcs]
    BY <1>6 DEF WorkerRead, TypeOK, WorkerPcs, Move
  <2>2. got' \in SUBSET Slots
    BY <1>6 DEF WorkerRead, TypeOK
  <2>3. QED
    BY <1>6, <2>1, <2>2
    DEF TypeOK, WorkerRead, Move, mainVars, syncVars, sharedVars, wireVars, history
<1>7. ASSUME NEW s \in Slots, WorkerStore(s) PROVE TypeOK'
  <2>1. wpc' \in [Slots -> WorkerPcs]
    BY <1>7 DEF WorkerStore, TypeOK, WorkerPcs, Move
  <2>2. firstEvent' \in [Slots -> Events \cup {"none"}]
    BY <1>7 DEF WorkerStore, TypeOK, Events
  <2>3. QED
    BY <1>7, <2>1, <2>2
    DEF TypeOK, WorkerStore, Move, mainVars, syncVars, sharedVars, wireVars, history
<1>8. ASSUME NEW s \in Slots, WorkerSignal(s) PROVE TypeOK'
  <2>1. wpc' \in [Slots -> WorkerPcs]
    BY <1>8 DEF WorkerSignal, TypeOK, WorkerPcs, Move
  <2>2. ready' \in [Slots -> BOOLEAN]
    BY <1>8 DEF WorkerSignal, TypeOK
  <2>3. QED
    BY <1>8, <2>1, <2>2
    DEF TypeOK, WorkerSignal, Move, mainVars, syncVars, sharedVars, wireVars, history
<1>9. ASSUME NEW s \in Slots, WorkerGate(s) PROVE TypeOK'
  <2>1. wpc' \in [Slots -> WorkerPcs]
    BY <1>9 DEF WorkerGate, TypeOK, WorkerPcs, Move
  <2>2. QED
    BY <1>9, <2>1
    DEF TypeOK, WorkerGate, Move, mainVars, syncVars, sharedVars, wireVars, history
<1>10. ASSUME NEW s \in Slots, WorkerError(s) PROVE TypeOK'
  <2>1. wpc' \in [Slots -> WorkerPcs]
    BY <1>10 DEF WorkerError, TypeOK, WorkerPcs, Move
  <2>2. errors' \in SUBSET Slots
    BY <1>10 DEF WorkerError, TypeOK
  <2>3. QED
    BY <1>10, <2>1, <2>2
    DEF TypeOK, WorkerError, Move, mainVars, syncVars, sharedVars, wireVars, history
<1>11. ASSUME NEW s \in Slots, WorkerClose(s) PROVE TypeOK'
  <2>1. wpc' \in [Slots -> WorkerPcs]
    BY <1>11 DEF WorkerClose, TypeOK, WorkerPcs, Move
  <2>2. client' \in [Slots -> {"none", "open", "closed"}]
    BY <1>11 DEF WorkerClose, TypeOK, Disconnect
  <2>3. spoiled' \in BOOLEAN
    BY <1>11 DEF WorkerClose, TypeOK, Disconnect
  <2>4. QED
    BY <1>11, <2>1, <2>2, <2>3
    DEF TypeOK, WorkerClose, Move, Disconnect, mainVars, syncVars, sharedVars, wireVars,
      history
<1>12. CASE StartWorker
  <2>1. pc' \in MainPcs
    BY <1>12 DEF StartWorker, MainPcs, Raise, TypeOK
  <2>2. failed' \in BOOLEAN
    BY <1>12 DEF StartWorker, TypeOK, Raise
  <2>3. wpc' \in [Slots -> WorkerPcs]
    BY <1>12, FirstAssumption DEF StartWorker, TypeOK, WorkerPcs, Move
  <2>4. QED
    BY <1>12, <2>1, <2>2, <2>3
    DEF TypeOK, StartWorker, mainVars, syncVars, sharedVars, wireVars, history
<1>13. CASE MainArrive
  <2>1. pc' \in MainPcs
    BY <1>13 DEF MainArrive, MainPcs, Raise, TypeOK
  <2>2. failed' \in BOOLEAN
    BY <1>13 DEF MainArrive, TypeOK, Raise
  <2>3. barrier' \in {"filling", "released", "broken"}
    BY <1>13 DEF MainArrive, TypeOK
  <2>4. QED
    BY <1>13, <2>1, <2>2, <2>3
    DEF TypeOK, MainArrive, mainVars, syncVars, sharedVars, wireVars, history
<1>14. CASE MainWake
  <2>1. pc' \in MainPcs
    BY <1>14 DEF MainWake, MainPcs, Raise, TypeOK
  <2>2. failed' \in BOOLEAN
    BY <1>14 DEF MainWake, TypeOK, Raise
  <2>3. barrier' \in {"filling", "released", "broken"}
    BY <1>14 DEF MainWake, TypeOK
  <2>4. QED
    BY <1>14, <2>1, <2>2, <2>3
    DEF TypeOK, MainWake, mainVars, syncVars, sharedVars, wireVars, history
<1>15. CASE Sample
  <2>1. pc' \in MainPcs
    BY <1>15 DEF Sample, MainPcs, Raise, Polling, TypeOK
  <2>2. failed' \in BOOLEAN
    BY <1>15 DEF Sample, TypeOK, Raise
  <2>3. view' \in [Slots -> BOOLEAN]
    BY <1>15 DEF Sample, TypeOK, NoView
  <2>4. QED
    BY <1>15, <2>1, <2>2, <2>3
    DEF TypeOK, Sample, mainVars, syncVars, sharedVars, wireVars, history
<1>16. CASE Expire
  <2>1. pc' \in MainPcs
    BY <1>16 DEF Expire, MainPcs, Raise, Polling, NextPhase, TypeOK
  <2>2. QED
    BY <1>16, <2>1
    DEF TypeOK, Expire, mainVars, syncVars, sharedVars, wireVars, history
<1>17. CASE UseObserved
  <2>1. pc' \in MainPcs
    BY <1>17 DEF UseObserved, MainPcs, Raise, TypeOK
  <2>2. report' \in [Flags -> BOOLEAN]
    BY <1>17 DEF UseObserved, TypeOK
  <2>3. view' \in [Slots -> BOOLEAN]
    BY <1>17 DEF UseObserved, TypeOK, NoView
  <2>4. QED
    BY <1>17, <2>1, <2>2, <2>3
    DEF TypeOK, UseObserved, mainVars, syncVars, sharedVars, wireVars, history
<1>18. CASE UseCancelled
  <2>1. pc' \in MainPcs
    BY <1>18 DEF UseCancelled, MainPcs, Raise, TypeOK
  <2>2. report' \in [Flags -> BOOLEAN]
    BY <1>18 DEF UseCancelled, TypeOK
  <2>3. view' \in [Slots -> BOOLEAN]
    BY <1>18 DEF UseCancelled, TypeOK, NoView
  <2>4. QED
    BY <1>18, <2>1, <2>2, <2>3
    DEF TypeOK, UseCancelled, mainVars, syncVars, sharedVars, wireVars, history
<1>19. CASE UseDrained
  <2>1. pc' \in MainPcs
    BY <1>19 DEF UseDrained, MainPcs, Raise, TypeOK
  <2>2. report' \in [Flags -> BOOLEAN]
    BY <1>19 DEF UseDrained, TypeOK
  <2>3. view' \in [Slots -> BOOLEAN]
    BY <1>19 DEF UseDrained, TypeOK, NoView
  <2>4. QED
    BY <1>19, <2>1, <2>2, <2>3
    DEF TypeOK, UseDrained, mainVars, syncVars, sharedVars, wireVars, history
<1>20. CASE AwaitTimeout
  <2>1. pc' \in MainPcs
    BY <1>20 DEF AwaitTimeout, MainPcs, Raise, TypeOK
  <2>2. failed' \in BOOLEAN
    BY <1>20 DEF AwaitTimeout, TypeOK, Raise
  <2>3. QED
    BY <1>20, <2>1, <2>2
    DEF TypeOK, AwaitTimeout, mainVars, syncVars, sharedVars, wireVars, history
<1>21. CASE ReleaseFirst
  <2>1. pc' \in MainPcs
    BY <1>21 DEF ReleaseFirst, MainPcs, Raise, TypeOK
  <2>2. report' \in [Flags -> BOOLEAN]
    BY <1>21 DEF ReleaseFirst, TypeOK
  <2>3. gate' \in [Slots -> BOOLEAN]
    BY <1>21 DEF ReleaseFirst, TypeOK
  <2>4. QED
    BY <1>21, <2>1, <2>2, <2>3
    DEF TypeOK, ReleaseFirst, mainVars, syncVars, sharedVars, wireVars, history
<1>22. CASE ReleaseSurvivor
  <2>1. pc' \in MainPcs
    BY <1>22 DEF ReleaseSurvivor, MainPcs, Raise, TypeOK
  <2>2. gate' \in [Slots -> BOOLEAN]
    BY <1>22 DEF ReleaseSurvivor, TypeOK
  <2>3. QED
    BY <1>22, <2>1, <2>2
    DEF TypeOK, ReleaseSurvivor, mainVars, syncVars, sharedVars, wireVars, history
<1>23. CASE Join
  <2>1. pc' \in MainPcs
    BY <1>23 DEF Join, MainPcs, Raise, TypeOK
  <2>2. failed' \in BOOLEAN
    BY <1>23 DEF Join, TypeOK, Raise
  <2>3. QED
    BY <1>23, <2>1, <2>2
    DEF TypeOK, Join, mainVars, syncVars, sharedVars, wireVars, history
<1>24. CASE OpenGates
  <2>1. pc' \in MainPcs
    BY <1>24 DEF OpenGates, MainPcs, Raise, TypeOK
  <2>2. gate' \in [Slots -> BOOLEAN]
    BY <1>24 DEF OpenGates, TypeOK
  <2>3. QED
    BY <1>24, <2>1, <2>2
    DEF TypeOK, OpenGates, mainVars, syncVars, sharedVars, wireVars, history
<1>25. CASE JoinAgain
  <2>1. pc' \in MainPcs
    BY <1>25 DEF JoinAgain, MainPcs, Raise, TypeOK
  <2>2. QED
    BY <1>25, <2>1
    DEF TypeOK, JoinAgain, mainVars, syncVars, sharedVars, wireVars, history
<1>26. CASE CloseAll
  <2>1. pc' \in MainPcs
    BY <1>26 DEF CloseAll, MainPcs, Raise, TypeOK
  <2>2. client' \in [Slots -> {"none", "open", "closed"}]
    BY <1>26 DEF CloseAll, TypeOK, Disconnect
  <2>3. spoiled' \in BOOLEAN
    BY <1>26 DEF CloseAll, TypeOK, Disconnect
  <2>4. QED
    BY <1>26, <2>1, <2>2, <2>3
    DEF TypeOK, CloseAll, Disconnect, mainVars, syncVars, sharedVars, wireVars, history
<1>27. ASSUME NEW s \in Slots, Server(s) PROVE TypeOK'
  <2>1. slot' \in [Slots -> {"unused", "pending", "busy", "released"}]
    BY <1>27 DEF Server, Accept, Emit, EmitLast, Finish, NoticeClose, TypeOK
  <2>2. event' \in [Slots -> Events \cup {"none"}]
    BY <1>27 DEF Server, Accept, Emit, EmitLast, Finish, NoticeClose, TypeOK, Events
  <2>3. client' = client
    BY <1>27 DEF Server, Accept, Emit, EmitLast, Finish, NoticeClose
  <2>4. QED
    BY <1>27, <2>1, <2>2, <2>3 DEF TypeOK, Server, mainVars, syncVars, sharedVars,
      wireVars, history
<1>28. CASE UNCHANGED vars
  BY <1>28 DEF TypeOK, vars, mainVars, syncVars, sharedVars, wireVars, history
<1>29. QED
  BY <1>1, <1>2, <1>3, <1>4, <1>5, <1>6, <1>7, <1>8, <1>9, <1>10, <1>11, <1>12, <1>13,
    <1>14, <1>15, <1>16, <1>17, <1>18, <1>19, <1>20, <1>21, <1>22, <1>23, <1>24, <1>25,
    <1>26, <1>27, <1>28 DEF Next, Main, Worker, AllOver

(* Every variable keeps its type, for both values of First.                 *)
THEOREM TypeCorrect == Spec => []TypeOK
BY InitTypeOK, NextTypeOK, PTL DEF Spec

-----------------------------------------------------------------------------
(* The inductive invariant is kept by every step, part by part              *)

(* What a worker's place says of the shared state is kept by every step of  *)
(* every thread.                                                            *)
LEMMA WorkerInvStep ==
    TypeOK /\ WorkerInv /\ StreamInv /\ MainInv /\ [Next]_vars => WorkerInv'
<1>. SUFFICES ASSUME TypeOK, WorkerInv, StreamInv, MainInv, [Next]_vars PROVE WorkerInv'
  OBVIOUS
<1>. USE FirstAssumption DEF TypeOK, WorkerInv, StreamInv, MainInv, Failing, Slots,
  Survivor, Ended, mainVars, syncVars, sharedVars, wireVars, history
<1>1. ASSUME NEW s \in Slots, WorkerArrive(s) PROVE WorkerInv'
  BY <1>1 DEF WorkerArrive, Move
<1>2. ASSUME NEW s \in Slots, WorkerWake(s) PROVE WorkerInv'
  BY <1>2 DEF WorkerWake, Move
<1>3. ASSUME NEW s \in Slots, WorkerConnect(s) PROVE WorkerInv'
  BY <1>3 DEF WorkerConnect, Move
<1>4. ASSUME NEW s \in Slots, WorkerResponse(s) PROVE WorkerInv'
  <2>1. CASE Move(s, "response", "register") /\ UNCHANGED <<client, spoiled>>
    BY <1>4, <2>1 DEF WorkerResponse, Move
  <2>2. CASE Move(s, "response", "error") /\ Disconnect({s})
    <3>1. \A t \in Slots : client'[t] = IF t = s THEN "closed" ELSE client[t]
      BY <2>2 DEF Disconnect
    <3>2. QED
      BY <1>4, <2>2, <3>1 DEF WorkerResponse, Move
  <2>3. QED
    BY <1>4, <2>1, <2>2 DEF WorkerResponse
<1>5. ASSUME NEW s \in Slots, WorkerRegister(s) PROVE WorkerInv'
  BY <1>5 DEF WorkerRegister, Move
<1>6. ASSUME NEW s \in Slots, WorkerRead(s) PROVE WorkerInv'
  BY <1>6 DEF WorkerRead, Move
<1>7. ASSUME NEW s \in Slots, WorkerStore(s) PROVE WorkerInv'
  BY <1>7 DEF WorkerStore, Move
<1>8. ASSUME NEW s \in Slots, WorkerSignal(s) PROVE WorkerInv'
  BY <1>8 DEF WorkerSignal, Move
<1>9. ASSUME NEW s \in Slots, WorkerGate(s) PROVE WorkerInv'
  BY <1>9 DEF WorkerGate, Move
<1>10. ASSUME NEW s \in Slots, WorkerError(s) PROVE WorkerInv'
  BY <1>10 DEF WorkerError, Move
<1>11. ASSUME NEW s \in Slots, WorkerClose(s) PROVE WorkerInv'
  BY <1>11 DEF WorkerClose, Move, Disconnect
<1>12. CASE StartWorker
  BY <1>12 DEF StartWorker, Raise
<1>13. CASE MainArrive
  BY <1>13 DEF MainArrive, Raise
<1>14. CASE MainWake
  BY <1>14 DEF MainWake, Raise
<1>15. CASE Sample
  BY <1>15 DEF Sample, Raise, Polling
<1>16. CASE Expire
  BY <1>16 DEF Expire, Polling, NextPhase
<1>17. CASE UseObserved
  BY <1>17 DEF UseObserved, NoView
<1>18. CASE UseCancelled
  BY <1>18 DEF UseCancelled, NoView
<1>19. CASE UseDrained
  BY <1>19 DEF UseDrained, NoView
<1>20. CASE AwaitTimeout
  BY <1>20 DEF AwaitTimeout, Raise, Awaited
<1>21. CASE ReleaseFirst
  BY <1>21 DEF ReleaseFirst, Awaited
<1>22. CASE ReleaseSurvivor
  BY <1>22 DEF ReleaseSurvivor, Awaited
<1>23. CASE Join
  BY <1>23 DEF Join, Raise
<1>24. CASE OpenGates
  BY <1>24 DEF OpenGates
<1>25. CASE JoinAgain
  BY <1>25 DEF JoinAgain
<1>26. CASE CloseAll
  BY <1>26 DEF CloseAll, Disconnect
<1>27. ASSUME NEW s \in Slots, Server(s) PROVE WorkerInv'
  BY <1>27 DEF Server, Accept, Emit, EmitLast, Finish, NoticeClose
<1>28. CASE UNCHANGED vars
  BY <1>28 DEF vars
<1>29. QED
  BY <1>1, <1>2, <1>3, <1>4, <1>5, <1>6, <1>7, <1>8, <1>9, <1>10, <1>11, <1>12, <1>13,
    <1>14, <1>15, <1>16, <1>17, <1>18, <1>19, <1>20, <1>21, <1>22, <1>23, <1>24, <1>25,
    <1>26, <1>27, <1>28 DEF Next, Main, Worker, AllOver

(* Streams are closed only by a failure, by a worker that is done, or at    *)
(* the end of the call.                                                     *)
LEMMA StreamInvStep ==
    TypeOK /\ WorkerInv /\ StreamInv /\ MainInv /\ [Next]_vars => StreamInv'
<1>. SUFFICES ASSUME TypeOK, WorkerInv, StreamInv, MainInv, [Next]_vars PROVE StreamInv'
  OBVIOUS
<1>. USE FirstAssumption DEF TypeOK, WorkerInv, StreamInv, MainInv, Failing, Slots,
  Survivor, Ended, mainVars, syncVars, sharedVars, wireVars, history
<1>1. ASSUME NEW s \in Slots, WorkerArrive(s) PROVE StreamInv'
  BY <1>1 DEF WorkerArrive, Move
<1>2. ASSUME NEW s \in Slots, WorkerWake(s) PROVE StreamInv'
  BY <1>2 DEF WorkerWake, Move
<1>3. ASSUME NEW s \in Slots, WorkerConnect(s) PROVE StreamInv'
  BY <1>3 DEF WorkerConnect, Move
<1>4. ASSUME NEW s \in Slots, WorkerResponse(s) PROVE StreamInv'
  BY <1>4 DEF WorkerResponse, Move, Disconnect
<1>5. ASSUME NEW s \in Slots, WorkerRegister(s) PROVE StreamInv'
  BY <1>5 DEF WorkerRegister, Move
<1>6. ASSUME NEW s \in Slots, WorkerRead(s) PROVE StreamInv'
  BY <1>6 DEF WorkerRead, Move
<1>7. ASSUME NEW s \in Slots, WorkerStore(s) PROVE StreamInv'
  BY <1>7 DEF WorkerStore, Move
<1>8. ASSUME NEW s \in Slots, WorkerSignal(s) PROVE StreamInv'
  BY <1>8 DEF WorkerSignal, Move
<1>9. ASSUME NEW s \in Slots, WorkerGate(s) PROVE StreamInv'
  BY <1>9 DEF WorkerGate, Move
<1>10. ASSUME NEW s \in Slots, WorkerError(s) PROVE StreamInv'
  BY <1>10 DEF WorkerError, Move
<1>11. ASSUME NEW s \in Slots, WorkerClose(s) PROVE StreamInv'
  BY <1>11 DEF WorkerClose, Move, Disconnect
<1>12. CASE StartWorker
  BY <1>12 DEF StartWorker, Raise
<1>13. CASE MainArrive
  BY <1>13 DEF MainArrive, Raise
<1>14. CASE MainWake
  BY <1>14 DEF MainWake, Raise
<1>15. CASE Sample
  BY <1>15 DEF Sample, Raise, Polling
<1>16. CASE Expire
  BY <1>16 DEF Expire, Polling, NextPhase
<1>17. CASE UseObserved
  BY <1>17 DEF UseObserved, NoView
<1>18. CASE UseCancelled
  BY <1>18 DEF UseCancelled, NoView
<1>19. CASE UseDrained
  BY <1>19 DEF UseDrained, NoView
<1>20. CASE AwaitTimeout
  BY <1>20 DEF AwaitTimeout, Raise, Awaited
<1>21. CASE ReleaseFirst
  BY <1>21 DEF ReleaseFirst, Awaited
<1>22. CASE ReleaseSurvivor
  BY <1>22 DEF ReleaseSurvivor, Awaited
<1>23. CASE Join
  BY <1>23 DEF Join, Raise
<1>24. CASE OpenGates
  BY <1>24 DEF OpenGates
<1>25. CASE JoinAgain
  BY <1>25 DEF JoinAgain
<1>26. CASE CloseAll
  BY <1>26 DEF CloseAll, Disconnect
<1>27. ASSUME NEW s \in Slots, Server(s) PROVE StreamInv'
  BY <1>27 DEF Server, Accept, Emit, EmitLast, Finish, NoticeClose
<1>28. CASE UNCHANGED vars
  BY <1>28 DEF vars
<1>29. QED
  BY <1>1, <1>2, <1>3, <1>4, <1>5, <1>6, <1>7, <1>8, <1>9, <1>10, <1>11, <1>12, <1>13,
    <1>14, <1>15, <1>16, <1>17, <1>18, <1>19, <1>20, <1>21, <1>22, <1>23, <1>24, <1>25,
    <1>26, <1>27, <1>28 DEF Next, Main, Worker, AllOver

(* The caller releases gates only after both ready events, and drains only  *)
(* after both workers ended well.                                           *)
LEMMA MainInvStep ==
    TypeOK /\ WorkerInv /\ StreamInv /\ MainInv /\ [Next]_vars => MainInv'
<1>. SUFFICES ASSUME TypeOK, WorkerInv, StreamInv, MainInv, [Next]_vars PROVE MainInv'
  OBVIOUS
<1>. USE FirstAssumption DEF TypeOK, WorkerInv, StreamInv, MainInv, Failing, Slots,
  Survivor, Ended, mainVars, syncVars, sharedVars, wireVars, history
<1>1. ASSUME NEW s \in Slots, WorkerArrive(s) PROVE MainInv'
  BY <1>1 DEF WorkerArrive, Move
<1>2. ASSUME NEW s \in Slots, WorkerWake(s) PROVE MainInv'
  BY <1>2 DEF WorkerWake, Move
<1>3. ASSUME NEW s \in Slots, WorkerConnect(s) PROVE MainInv'
  BY <1>3 DEF WorkerConnect, Move
<1>4. ASSUME NEW s \in Slots, WorkerResponse(s) PROVE MainInv'
  BY <1>4 DEF WorkerResponse, Move, Disconnect
<1>5. ASSUME NEW s \in Slots, WorkerRegister(s) PROVE MainInv'
  BY <1>5 DEF WorkerRegister, Move
<1>6. ASSUME NEW s \in Slots, WorkerRead(s) PROVE MainInv'
  BY <1>6 DEF WorkerRead, Move
<1>7. ASSUME NEW s \in Slots, WorkerStore(s) PROVE MainInv'
  BY <1>7 DEF WorkerStore, Move
<1>8. ASSUME NEW s \in Slots, WorkerSignal(s) PROVE MainInv'
  BY <1>8 DEF WorkerSignal, Move
<1>9. ASSUME NEW s \in Slots, WorkerGate(s) PROVE MainInv'
  BY <1>9 DEF WorkerGate, Move
<1>10. ASSUME NEW s \in Slots, WorkerError(s) PROVE MainInv'
  BY <1>10 DEF WorkerError, Move
<1>11. ASSUME NEW s \in Slots, WorkerClose(s) PROVE MainInv'
  BY <1>11 DEF WorkerClose, Move, Disconnect
<1>12. CASE StartWorker
  BY <1>12 DEF StartWorker, Raise
<1>13. CASE MainArrive
  BY <1>13 DEF MainArrive, Raise
<1>14. CASE MainWake
  BY <1>14 DEF MainWake, Raise
<1>15. CASE Sample
  BY <1>15 DEF Sample, Raise, Polling
<1>16. CASE Expire
  BY <1>16 DEF Expire, Polling, NextPhase
<1>17. CASE UseObserved
  BY <1>17 DEF UseObserved, NoView
<1>18. CASE UseCancelled
  <2>1. report'["bothFirstEvents"] = report["bothFirstEvents"]
    BY <1>18 DEF UseCancelled, Flags
  <2>2. pc = "cancelled" /\ pc' \in {"survivor", "cancel"}
    BY <1>18 DEF UseCancelled
  <2>3. QED
    BY <1>18, <2>1, <2>2 DEF UseCancelled
<1>19. CASE UseDrained
  <2>1. report'["bothFirstEvents"] = report["bothFirstEvents"]
    BY <1>19 DEF UseDrained, Flags
  <2>2. pc = "drained" /\ pc' \in {"finally", "drain"}
    BY <1>19 DEF UseDrained
  <2>3. QED
    BY <1>19, <2>1, <2>2 DEF UseDrained
<1>20. CASE AwaitTimeout
  BY <1>20 DEF AwaitTimeout, Raise, Awaited
<1>21. CASE ReleaseFirst
  <2>1. report'["bothFirstEvents"]
    BY <1>21 DEF ReleaseFirst, Flags
  <2>2. pc' = "cancel" /\ \A t \in Slots : ready'[t]
    BY <1>21 DEF ReleaseFirst, Awaited
  <2>3. ~failed'
    BY <1>21 DEF ReleaseFirst
  <2>4. ~gate[Survivor]
    BY <1>21 DEF ReleaseFirst
  <2>5. ~gate'[Survivor]
    <3>1. gate' = [gate EXCEPT ![First] = TRUE] /\ Survivor # First /\ Survivor \in Slots
      BY <1>21 DEF ReleaseFirst
    <3>2. QED
      BY <2>4, <3>1
  <2>6. QED
    BY <2>1, <2>2, <2>3, <2>4, <2>5
<1>22. CASE ReleaseSurvivor
  BY <1>22 DEF ReleaseSurvivor, Awaited
<1>23. CASE Join
  BY <1>23 DEF Join, Raise
<1>24. CASE OpenGates
  BY <1>24 DEF OpenGates
<1>25. CASE JoinAgain
  BY <1>25 DEF JoinAgain
<1>26. CASE CloseAll
  BY <1>26 DEF CloseAll, Disconnect
<1>27. ASSUME NEW s \in Slots, Server(s) PROVE MainInv'
  BY <1>27 DEF Server, Accept, Emit, EmitLast, Finish, NoticeClose
<1>28. CASE UNCHANGED vars
  BY <1>28 DEF vars
<1>29. QED
  BY <1>1, <1>2, <1>3, <1>4, <1>5, <1>6, <1>7, <1>8, <1>9, <1>10, <1>11, <1>12, <1>13,
    <1>14, <1>15, <1>16, <1>17, <1>18, <1>19, <1>20, <1>21, <1>22, <1>23, <1>24, <1>25,
    <1>26, <1>27, <1>28 DEF Next, Main, Worker, AllOver

(* An early disconnection always leaves a trace the caller will find.       *)
LEMMA SpoiledInvStep ==
    TypeOK /\ WorkerInv /\ StreamInv /\ MainInv /\ SpoiledInv /\ [Next]_vars => SpoiledInv'
<1>. SUFFICES ASSUME TypeOK, WorkerInv, StreamInv, MainInv, SpoiledInv, [Next]_vars
  PROVE SpoiledInv'
  OBVIOUS
<1>. USE FirstAssumption DEF TypeOK, WorkerInv, StreamInv, MainInv, SpoiledInv, Failing,
  Slots, Survivor, Ended, mainVars, syncVars, sharedVars, wireVars, history
<1>1. ASSUME NEW s \in Slots, WorkerArrive(s) PROVE SpoiledInv'
  BY <1>1 DEF WorkerArrive, Move
<1>2. ASSUME NEW s \in Slots, WorkerWake(s) PROVE SpoiledInv'
  BY <1>2 DEF WorkerWake, Move
<1>3. ASSUME NEW s \in Slots, WorkerConnect(s) PROVE SpoiledInv'
  BY <1>3 DEF WorkerConnect, Move
<1>4. ASSUME NEW s \in Slots, WorkerResponse(s) PROVE SpoiledInv'
  <2>1. CASE Move(s, "response", "register") /\ UNCHANGED <<client, spoiled>>
    BY <1>4, <2>1 DEF WorkerResponse, Move
  <2>2. CASE Move(s, "response", "error")
    <3>1. s \in Failing'
      BY <2>2 DEF Move
    <3>2. QED
      BY <3>1
  <2>3. QED
    BY <1>4, <2>1, <2>2 DEF WorkerResponse
<1>5. ASSUME NEW s \in Slots, WorkerRegister(s) PROVE SpoiledInv'
  BY <1>5 DEF WorkerRegister, Move
<1>6. ASSUME NEW s \in Slots, WorkerRead(s) PROVE SpoiledInv'
  BY <1>6 DEF WorkerRead, Move
<1>7. ASSUME NEW s \in Slots, WorkerStore(s) PROVE SpoiledInv'
  BY <1>7 DEF WorkerStore, Move
<1>8. ASSUME NEW s \in Slots, WorkerSignal(s) PROVE SpoiledInv'
  BY <1>8 DEF WorkerSignal, Move
<1>9. ASSUME NEW s \in Slots, WorkerGate(s) PROVE SpoiledInv'
  BY <1>9 DEF WorkerGate, Move
<1>10. ASSUME NEW s \in Slots, WorkerError(s) PROVE SpoiledInv'
  BY <1>10 DEF WorkerError, Move
<1>11. ASSUME NEW s \in Slots, WorkerClose(s) PROVE SpoiledInv'
  <2>1. Failing' = Failing
    BY <1>11 DEF WorkerClose, Move
  <2>2. CASE s \in errors
    BY <2>1, <2>2
  <2>3. CASE s \notin errors
    <3>1. failed \/ pc = "raised" \/ \A t \in Slots : t \in got \/ t \in Failing
      BY <1>11, <2>3 DEF WorkerClose, Move
    <3>2. CASE got = Slots
      BY <1>11, <2>1, <3>2 DEF WorkerClose, Disconnect
    <3>3. CASE got # Slots
      BY <1>11, <2>1, <3>1, <3>3 DEF WorkerClose
    <3>4. QED
      BY <3>2, <3>3
  <2>4. QED
    BY <2>2, <2>3
<1>12. CASE StartWorker
  BY <1>12 DEF StartWorker, Raise
<1>13. CASE MainArrive
  BY <1>13 DEF MainArrive, Raise
<1>14. CASE MainWake
  BY <1>14 DEF MainWake, Raise
<1>15. CASE Sample
  BY <1>15 DEF Sample, Raise, Polling
<1>16. CASE Expire
  BY <1>16 DEF Expire, Polling, NextPhase
<1>17. CASE UseObserved
  BY <1>17 DEF UseObserved, NoView
<1>18. CASE UseCancelled
  BY <1>18 DEF UseCancelled, NoView
<1>19. CASE UseDrained
  BY <1>19 DEF UseDrained, NoView
<1>20. CASE AwaitTimeout
  BY <1>20 DEF AwaitTimeout, Raise, Awaited
<1>21. CASE ReleaseFirst
  BY <1>21 DEF ReleaseFirst, Awaited
<1>22. CASE ReleaseSurvivor
  BY <1>22 DEF ReleaseSurvivor, Awaited
<1>23. CASE Join
  BY <1>23 DEF Join, Raise
<1>24. CASE OpenGates
  BY <1>24 DEF OpenGates
<1>25. CASE JoinAgain
  BY <1>25 DEF JoinAgain
<1>26. CASE CloseAll
  BY <1>26 DEF CloseAll, Disconnect
<1>27. ASSUME NEW s \in Slots, Server(s) PROVE SpoiledInv'
  BY <1>27 DEF Server, Accept, Emit, EmitLast, Finish, NoticeClose
<1>28. CASE UNCHANGED vars
  BY <1>28 DEF vars
<1>29. QED
  BY <1>1, <1>2, <1>3, <1>4, <1>5, <1>6, <1>7, <1>8, <1>9, <1>10, <1>11, <1>12, <1>13,
    <1>14, <1>15, <1>16, <1>17, <1>18, <1>19, <1>20, <1>21, <1>22, <1>23, <1>24, <1>25,
    <1>26, <1>27, <1>28 DEF Next, Main, Worker, AllOver

(* A slot seen idle after both disconnections stays idle.                   *)
LEMMA IdleInvStep ==
    TypeOK /\ WorkerInv /\ StreamInv /\ MainInv /\ IdleInv /\ [Next]_vars => IdleInv'
<1>. SUFFICES ASSUME TypeOK, WorkerInv, StreamInv, MainInv, IdleInv, [Next]_vars PROVE
  IdleInv'
  OBVIOUS
<1>. USE FirstAssumption DEF TypeOK, WorkerInv, StreamInv, MainInv, IdleInv, Failing,
  Slots, Survivor, Ended, mainVars, syncVars, sharedVars, wireVars, history
<1>1. ASSUME NEW s \in Slots, WorkerArrive(s) PROVE IdleInv'
  BY <1>1 DEF WorkerArrive, Move
<1>2. ASSUME NEW s \in Slots, WorkerWake(s) PROVE IdleInv'
  BY <1>2 DEF WorkerWake, Move
<1>3. ASSUME NEW s \in Slots, WorkerConnect(s) PROVE IdleInv'
  BY <1>3 DEF WorkerConnect, Move
<1>4. ASSUME NEW s \in Slots, WorkerResponse(s) PROVE IdleInv'
  BY <1>4 DEF WorkerResponse, Move, Disconnect
<1>5. ASSUME NEW s \in Slots, WorkerRegister(s) PROVE IdleInv'
  BY <1>5 DEF WorkerRegister, Move
<1>6. ASSUME NEW s \in Slots, WorkerRead(s) PROVE IdleInv'
  BY <1>6 DEF WorkerRead, Move
<1>7. ASSUME NEW s \in Slots, WorkerStore(s) PROVE IdleInv'
  BY <1>7 DEF WorkerStore, Move
<1>8. ASSUME NEW s \in Slots, WorkerSignal(s) PROVE IdleInv'
  BY <1>8 DEF WorkerSignal, Move
<1>9. ASSUME NEW s \in Slots, WorkerGate(s) PROVE IdleInv'
  BY <1>9 DEF WorkerGate, Move
<1>10. ASSUME NEW s \in Slots, WorkerError(s) PROVE IdleInv'
  BY <1>10 DEF WorkerError, Move
<1>11. ASSUME NEW s \in Slots, WorkerClose(s) PROVE IdleInv'
  BY <1>11 DEF WorkerClose, Move, Disconnect
<1>12. CASE StartWorker
  BY <1>12 DEF StartWorker, Raise
<1>13. CASE MainArrive
  BY <1>13 DEF MainArrive, Raise
<1>14. CASE MainWake
  BY <1>14 DEF MainWake, Raise
<1>15. CASE Sample
  BY <1>15 DEF Sample, Raise, Polling
<1>16. CASE Expire
  BY <1>16 DEF Expire, Polling, NextPhase
<1>17. CASE UseObserved
  <2>1. report'["bothIdle"] = report["bothIdle"]
    BY <1>17 DEF UseObserved, Flags
  <2>2. QED
    BY <1>17, <2>1 DEF UseObserved
<1>18. CASE UseCancelled
  <2>1. report'["bothIdle"] = report["bothIdle"]
    BY <1>18 DEF UseCancelled, Flags
  <2>2. QED
    BY <1>18, <2>1 DEF UseCancelled
<1>19. CASE UseDrained
  BY <1>19 DEF UseDrained, NoView
<1>20. CASE AwaitTimeout
  BY <1>20 DEF AwaitTimeout, Raise, Awaited
<1>21. CASE ReleaseFirst
  BY <1>21 DEF ReleaseFirst, Awaited
<1>22. CASE ReleaseSurvivor
  BY <1>22 DEF ReleaseSurvivor, Awaited
<1>23. CASE Join
  BY <1>23 DEF Join, Raise
<1>24. CASE OpenGates
  BY <1>24 DEF OpenGates
<1>25. CASE JoinAgain
  BY <1>25 DEF JoinAgain
<1>26. CASE CloseAll
  BY <1>26 DEF CloseAll, Disconnect
<1>27. ASSUME NEW s \in Slots, Server(s) PROVE IdleInv'
  BY <1>27 DEF Server, Accept, Emit, EmitLast, Finish, NoticeClose
<1>28. CASE UNCHANGED vars
  BY <1>28 DEF vars
<1>29. QED
  BY <1>1, <1>2, <1>3, <1>4, <1>5, <1>6, <1>7, <1>8, <1>9, <1>10, <1>11, <1>12, <1>13,
    <1>14, <1>15, <1>16, <1>17, <1>18, <1>19, <1>20, <1>21, <1>22, <1>23, <1>24, <1>25,
    <1>26, <1>27, <1>28 DEF Next, Main, Worker, AllOver

(* The inductive invariant holds at the start.                              *)
LEMMA InitIInv == Init => IInv
<1>. SUFFICES ASSUME Init PROVE IInv
  OBVIOUS
<1>1. TypeOK
  BY InitTypeOK
<1>2. WorkerInv /\ StreamInv
  BY DEF Init, WorkerInv, StreamInv, Slots, Failing
<1>3. MainInv
  BY FirstAssumption DEF Init, MainInv, Survivor, Slots
<1>4. SpoiledInv
  BY DEF Init, SpoiledInv
<1>5. IdleInv
  BY DEF Init, IdleInv, Flags
<1>6. QED
  BY <1>1, <1>2, <1>3, <1>4, <1>5 DEF IInv

(* Every step keeps the inductive invariant.                                *)
LEMMA NextIInv == IInv /\ [Next]_vars => IInv'
BY NextTypeOK, WorkerInvStep, StreamInvStep, MainInvStep, SpoiledInvStep, IdleInvStep
  DEF IInv

(* The inductive invariant holds in every reachable state: the safety       *)
(* properties below are its consequences.                                   *)
THEOREM Inductive == Spec => []IInv
BY InitIInv, NextIInv, PTL DEF Spec

-----------------------------------------------------------------------------
(* The safety properties                                                    *)

(* A report is returned only after both clients received an event and only  *)
(* then disconnected, although failing workers set the ready events too.    *)
THEOREM ReportIsTruthful == Spec => []ReportTruthful
<1>1. IInv => ReportTruthful
  BY DEF IInv, TypeOK, WorkerInv, StreamInv, MainInv, SpoiledInv, ReportTruthful,
    Failing
<1>2. QED
  BY <1>1, Inductive, PTL

(* An exception of either worker, whenever it comes, reaches the caller.    *)
THEOREM ErrorsAreRaised == Spec => []NoErrorSwallowed
<1>1. IInv => NoErrorSwallowed
  BY DEF IInv, TypeOK, MainInv, NoErrorSwallowed, Failing
<1>2. QED
  BY <1>1, Inductive, PTL

(* A reported return to idle of both slots is lasting.                      *)
THEOREM IdleReportIsLasting == Spec => []IdleReportLasts
<1>1. IInv => IdleReportLasts
  BY DEF IInv, IdleInv, IdleReportLasts
<1>2. QED
  BY <1>1, Inductive, PTL

(* The survivor's stream is held while the cancelled slot is watched.       *)
THEOREM SurvivorIsHeld == Spec => []SurvivorHeld
<1>1. IInv => SurvivorHeld
  <2>. SUFFICES ASSUME IInv, pc \in {"cancel", "cancelled"}, Survivor \notin Failing
                PROVE  client[Survivor] = "open"
    BY DEF SurvivorHeld
  <2>1. Survivor \in Slots
    BY FirstAssumption DEF Survivor, Slots
  <2>2. ready[Survivor] /\ ~gate[Survivor]
    BY <2>1 DEF IInv, MainInv
  <2>3. wpc[Survivor] = "gate"
    BY <2>1, <2>2 DEF IInv, WorkerInv, Failing
  <2>4. client[Survivor] \notin {"none", "closed"}
    BY <2>1, <2>3 DEF IInv, WorkerInv, StreamInv, Ended
  <2>5. QED
    BY <2>1, <2>4 DEF IInv, TypeOK
<1>2. QED
  BY <1>1, Inductive, PTL

-----------------------------------------------------------------------------
(* DualStream implements DisconnectPromise                                  *)

Gone == {s \in Slots : client[s] = "closed"}

(* A step that moves no client and does not end the call is a stutter.      *)
LEMMA QuietStep ==
    ASSUME UNCHANGED <<got, client, spoiled>>,
           pc \in Ended \/ pc' \in Ended => pc' = pc
    PROVE  UNCHANGED Promise!promiseVars
<1>1. Outcome' = Outcome
  BY DEF Outcome, Ended
<1>2. QED
  BY <1>1 DEF Promise!promiseVars

(* No thread moves a client once a report has been returned.                *)
LEMMA ReturnedIsOver ==
    ASSUME IInv, pc = "returned"
    PROVE  \A s \in Slots : wpc[s] = "done"
BY DEF IInv, MainInv

(* Every step maps to a step of the promise or to a stutter.                *)
LEMMA StepsRefine ==
    IInv /\ [Next]_vars => [Promise!PromiseNext]_(Promise!promiseVars)
<1>. SUFFICES ASSUME IInv, [Next]_vars
              PROVE  Promise!PromiseNext \/ UNCHANGED Promise!promiseVars
  OBVIOUS
<1>1. ASSUME NEW s \in Slots, WorkerArrive(s)
      PROVE  Promise!PromiseNext \/ UNCHANGED Promise!promiseVars
  BY <1>1, QuietStep DEF WorkerArrive, Move, Ended, mainVars, syncVars, sharedVars,
    wireVars, history
<1>2. ASSUME NEW s \in Slots, WorkerWake(s)
      PROVE  Promise!PromiseNext \/ UNCHANGED Promise!promiseVars
  BY <1>2, QuietStep DEF WorkerWake, Move, Ended, mainVars, syncVars, sharedVars,
    wireVars, history
<1>3. ASSUME NEW s \in Slots, WorkerConnect(s)
      PROVE  Promise!PromiseNext \/ UNCHANGED Promise!promiseVars
  <2>1. UNCHANGED <<Gone, got, spoiled, pc>>
    BY <1>3 DEF WorkerConnect, Move, Gone, IInv, TypeOK, WorkerInv, StreamInv, mainVars,
      history
  <2>2. QED
    BY <2>1 DEF Promise!promiseVars, Gone, Outcome
<1>4. ASSUME NEW s \in Slots, WorkerResponse(s)
      PROVE  Promise!PromiseNext \/ UNCHANGED Promise!promiseVars
  <2>1. CASE UNCHANGED <<client, spoiled>>
    BY <1>4, <2>1, QuietStep DEF WorkerResponse, mainVars
  <2>2. CASE ~UNCHANGED <<client, spoiled>>
    <3>1. Disconnect({s})
      BY <1>4, <2>2 DEF WorkerResponse, Disconnect, IInv, TypeOK
    <3>2. Gone' = Gone \cup {s} /\ spoiled' = (spoiled \/ got # Slots)
      BY <3>1 DEF Disconnect, Gone
    <3>3. Outcome # "report" /\ Outcome' = Outcome /\ got' = got
      <4>1. pc # "returned"
        BY <1>4, ReturnedIsOver DEF WorkerResponse, Move
      <4>2. QED
        BY <1>4, <4>1 DEF WorkerResponse, Outcome, mainVars
    <3>4. Promise!Leave({s})
      BY <3>2, <3>3 DEF Promise!Leave, Gone
    <3>5. QED
      BY <3>4 DEF Promise!PromiseNext
  <2>3. QED
    BY <2>1, <2>2
<1>5. ASSUME NEW s \in Slots, WorkerRegister(s)
      PROVE  Promise!PromiseNext \/ UNCHANGED Promise!promiseVars
  BY <1>5, QuietStep DEF WorkerRegister, Move, Ended, mainVars, syncVars, sharedVars,
    wireVars, history
<1>6. ASSUME NEW s \in Slots, WorkerRead(s)
      PROVE  Promise!PromiseNext \/ UNCHANGED Promise!promiseVars
  <2>1. CASE UNCHANGED got
    BY <1>6, <2>1, QuietStep DEF WorkerRead, mainVars, wireVars
  <2>2. CASE ~UNCHANGED got
    <3>1. s \notin Gone /\ got' = got \cup {s} /\ UNCHANGED <<client, spoiled, pc>>
      BY <1>6, <2>2 DEF WorkerRead, Gone, mainVars, wireVars
    <3>2. pc # "returned"
      BY <1>6, ReturnedIsOver DEF WorkerRead, Move
    <3>3. Promise!Receive(s)
      BY <3>1, <3>2 DEF Promise!Receive, Gone, Outcome
    <3>4. QED
      BY <3>3 DEF Promise!PromiseNext
  <2>3. QED
    BY <2>1, <2>2
<1>7. ASSUME NEW s \in Slots, WorkerStore(s)
      PROVE  Promise!PromiseNext \/ UNCHANGED Promise!promiseVars
  BY <1>7, QuietStep DEF WorkerStore, Move, Ended, mainVars, syncVars, sharedVars,
    wireVars, history
<1>8. ASSUME NEW s \in Slots, WorkerSignal(s)
      PROVE  Promise!PromiseNext \/ UNCHANGED Promise!promiseVars
  BY <1>8, QuietStep DEF WorkerSignal, Move, Ended, mainVars, syncVars, sharedVars,
    wireVars, history
<1>9. ASSUME NEW s \in Slots, WorkerGate(s)
      PROVE  Promise!PromiseNext \/ UNCHANGED Promise!promiseVars
  BY <1>9, QuietStep DEF WorkerGate, Move, Ended, mainVars, syncVars, sharedVars,
    wireVars, history
<1>10. ASSUME NEW s \in Slots, WorkerError(s)
      PROVE  Promise!PromiseNext \/ UNCHANGED Promise!promiseVars
  BY <1>10, QuietStep DEF WorkerError, Move, Ended, mainVars, syncVars, sharedVars,
    wireVars, history
<1>11. ASSUME NEW s \in Slots, WorkerClose(s)
      PROVE  Promise!PromiseNext \/ UNCHANGED Promise!promiseVars
  <2>1. CASE UNCHANGED <<client, spoiled>>
    BY <1>11, <2>1, QuietStep DEF WorkerClose, mainVars
  <2>2. CASE ~UNCHANGED <<client, spoiled>>
    <3>1. Disconnect({s})
      BY <1>11, <2>2 DEF WorkerClose, Disconnect, IInv, TypeOK
    <3>2. Gone' = Gone \cup {s} /\ spoiled' = (spoiled \/ got # Slots)
      BY <3>1 DEF Disconnect, Gone
    <3>3. Outcome # "report" /\ Outcome' = Outcome /\ got' = got
      <4>1. pc # "returned"
        BY <1>11, ReturnedIsOver DEF WorkerClose, Move
      <4>2. QED
        BY <1>11, <4>1 DEF WorkerClose, Outcome, mainVars
    <3>4. Promise!Leave({s})
      BY <3>2, <3>3 DEF Promise!Leave, Gone
    <3>5. QED
      BY <3>4 DEF Promise!PromiseNext
  <2>3. QED
    BY <2>1, <2>2
<1>12. CASE StartWorker
  BY <1>12, QuietStep DEF StartWorker, Raise, Ended, mainVars, syncVars, sharedVars,
    wireVars, history
<1>13. CASE MainArrive
  BY <1>13, QuietStep DEF MainArrive, Raise, Ended, mainVars, syncVars, sharedVars,
    wireVars, history
<1>14. CASE MainWake
  BY <1>14, QuietStep DEF MainWake, Raise, Ended, mainVars, syncVars, sharedVars,
    wireVars, history
<1>15. CASE Sample
  BY <1>15, QuietStep DEF Sample, Raise, Polling, Ended, mainVars, syncVars, sharedVars,
    wireVars, history
<1>16. CASE Expire
  BY <1>16, QuietStep DEF Expire, Polling, NextPhase, Ended, mainVars, syncVars,
    sharedVars, wireVars, history
<1>17. CASE UseObserved
  BY <1>17, QuietStep DEF UseObserved, Ended, mainVars, syncVars, sharedVars, wireVars,
    history
<1>18. CASE UseCancelled
  BY <1>18, QuietStep DEF UseCancelled, Ended, mainVars, syncVars, sharedVars, wireVars,
    history
<1>19. CASE UseDrained
  BY <1>19, QuietStep DEF UseDrained, Ended, mainVars, syncVars, sharedVars, wireVars,
    history
<1>20. CASE AwaitTimeout
  BY <1>20, QuietStep DEF AwaitTimeout, Raise, Ended, mainVars, syncVars, sharedVars,
    wireVars, history
<1>21. CASE ReleaseFirst
  BY <1>21, QuietStep DEF ReleaseFirst, Ended, mainVars, syncVars, sharedVars, wireVars,
    history
<1>22. CASE ReleaseSurvivor
  BY <1>22, QuietStep DEF ReleaseSurvivor, Ended, mainVars, syncVars, sharedVars,
    wireVars, history
<1>23. CASE Join
  BY <1>23, QuietStep DEF Join, Raise, Ended, mainVars, syncVars, sharedVars, wireVars,
    history
<1>24. CASE OpenGates
  BY <1>24, QuietStep DEF OpenGates, Ended, mainVars, syncVars, sharedVars, wireVars,
    history
<1>25. CASE JoinAgain
  <2>1. CASE pc' = "close"
    BY <1>25, <2>1, QuietStep DEF JoinAgain, Ended, wireVars, history
  <2>2. CASE pc' = "raised"
    <3>1. Promise!Fail({})
      BY <1>25, <2>2 DEF Promise!Fail, JoinAgain, Outcome, wireVars, history, IInv,
        TypeOK
    <3>2. QED
      BY <3>1 DEF Promise!PromiseNext
  <2>3. QED
    BY <1>25, <2>1, <2>2 DEF JoinAgain
<1>26. CASE CloseAll
  <2>. DEFINE Held == {t \in registered : client[t] = "open"}
  <2>1. /\ Gone' = Gone \cup Held /\ Held \subseteq Slots
        /\ spoiled' = (spoiled \/ (Held # {} /\ got # Slots))
        /\ got' = got /\ Outcome = "pending"
    BY <1>26 DEF CloseAll, Disconnect, Gone, Outcome, IInv, TypeOK
  <2>2. CASE failed
    <3>1. Outcome' = "error"
      BY <1>26, <2>2 DEF CloseAll, Outcome
    <3>2. PICK T \in SUBSET Slots : T = Held
      BY <2>1
    <3>3. Promise!Fail(T)
      BY <2>1, <3>1, <3>2 DEF Promise!Fail, Gone
    <3>4. QED
      BY <3>3 DEF Promise!PromiseNext
  <2>3. CASE ~failed
    <3>1. \A t \in Slots : wpc[t] = "done" /\ t \notin errors
      BY <1>26, <2>3 DEF CloseAll, IInv, MainInv
    <3>2. Failing = {} /\ ~spoiled
      BY <1>26, <2>3, <3>1 DEF CloseAll, Failing, IInv, TypeOK, SpoiledInv
    <3>3. got = Slots /\ Gone = Slots /\ Held = {}
      BY <2>1, <3>1 DEF IInv, TypeOK, WorkerInv, Gone
    <3>4. Outcome' = "report"
      BY <1>26, <2>3 DEF CloseAll, Outcome
    <3>5. UNCHANGED <<got, Gone, spoiled>>
      BY <1>26, <2>1, <3>2, <3>3 DEF IInv, TypeOK
    <3>6. Promise!Report
      BY <2>1, <3>2, <3>3, <3>4, <3>5 DEF Promise!Report, Gone
    <3>7. QED
      BY <3>6 DEF Promise!PromiseNext
  <2>4. QED
    BY <2>2, <2>3
<1>27. ASSUME NEW s \in Slots, Server(s)
      PROVE  Promise!PromiseNext \/ UNCHANGED Promise!promiseVars
  BY <1>27, QuietStep DEF Server, Accept, Emit, EmitLast, Finish, NoticeClose, mainVars,
    syncVars, sharedVars, wireVars, history
<1>28. CASE UNCHANGED vars
  BY <1>28, QuietStep DEF vars, mainVars, syncVars, sharedVars, wireVars, history
<1>29. QED
  BY <1>1, <1>2, <1>3, <1>4, <1>5, <1>6, <1>7, <1>8, <1>9, <1>10, <1>11, <1>12, <1>13,
    <1>14, <1>15, <1>16, <1>17, <1>18, <1>19, <1>20, <1>21, <1>22, <1>23, <1>24, <1>25,
    <1>26, <1>27, <1>28 DEF Next, Main, Worker, AllOver

(* Every behaviour of the three threads and the server is one that          *)
(* DisconnectPromise allows: the call keeps its promise to its caller.      *)
THEOREM PromiseIsKept == Spec => KeepsPromise
<1>1. Init => Promise!PromiseInit
  BY DEF Init, Promise!PromiseInit, Outcome
<1>2. QED
  BY <1>1, StepsRefine, Inductive, PTL DEF Spec, KeepsPromise, Promise!PromiseSpec
=============================================================================
