------------------------- MODULE CancelStreamProofs -------------------------
(***************************************************************************)
(* Proofs about CancelStream: its types, the inductive invariant behind    *)
(* what a returned report says, that invariant, and that a call of a       *)
(* single client keeps the promise of DisconnectPromise.                   *)
(***************************************************************************)
EXTENDS CancelStream, TLAPS

BeforeOpen == {"start", "sampling", "giveUp", "giveUpJoin", "open"}

(* How far the caller is with its stream: it has not opened it, it has not  *)
(* read from it, or it has its first event and has closed it.               *)
StreamInv ==
    /\ pc \in BeforeOpen =>
          /\ client = "none" /\ slot = "unused" /\ event = "none" /\ line = "none"
          /\ ~early
    /\ pc \in {"response", "observe", "read"} =>
          client = "open" /\ line = "none" /\ ~early
    /\ pc = "close" /\ ~failed => client = "open" /\ line # "none" /\ ~early
    /\ pc \in {"stop", "join", "drain", "drained", "returned"} /\ ~failed =>
          client = "closed" /\ line # "none" /\ ~early
    /\ failed => pc \in {"close", "stop", "join", "raised"}

(* What the client read is what the server sent, which it sends from a slot *)
(* that is busy with the request and may have let go of it since.           *)
EventInv ==
    /\ line # "none" => line = event
    /\ event # "none" => slot \in {"busy", "released"}

(* The caller polls for an idle slot only after the sampler has ended, and  *)
(* only with an event in hand, so that "not busy" can only mean "released". *)
DrainInv ==
    /\ pc \in {"drain", "drained", "returned"} => spc = "done"
    /\ pc = "drained" /\ idleSeen => slot = "released"
    /\ idleReport => slot = "released"

IInv == TypeOK /\ StreamInv /\ EventInv /\ DrainInv

-----------------------------------------------------------------------------
(* Types                                                                    *)

(* The types hold at the start.                                             *)
LEMMA InitTypeOK == Init => TypeOK
BY DEF Init, TypeOK, MainPcs, SamplerPcs

(* Every step keeps the types: one step of the proof per action.            *)
LEMMA NextTypeOK == TypeOK /\ [Next]_vars => TypeOK'
<1>. SUFFICES ASSUME TypeOK, [Next]_vars PROVE TypeOK'
  OBVIOUS
<1>. USE DEF TypeOK, MainPcs, SamplerPcs, Events, mainVars, samplerVars, eventVars,
  wireVars, history
<1>1. CASE Start
  BY <1>1 DEF Start, Move
<1>2. CASE AwaitSampler
  BY <1>2 DEF AwaitSampler, Move
<1>3. CASE GiveUp
  BY <1>3 DEF GiveUp, Move
<1>4. CASE GiveUpJoin
  BY <1>4 DEF GiveUpJoin, Move
<1>5. CASE Open
  <2>1. pc' \in MainPcs
    BY <1>5 DEF Open, Move
  <2>2. client' \in {"none", "open", "closed"}
    BY <1>5 DEF Open, Move
  <2>3. slot' \in {"unused", "pending", "busy", "released"}
    BY <1>5 DEF Open, Move
  <2>4. failed' \in BOOLEAN
    BY <1>5 DEF Open, Move
  <2>5. UNCHANGED <<idleSeen, idleReport, line, samplerVars, eventVars, event, history>>
    BY <1>5 DEF Open, Move
  <2>6. QED
    BY <2>1, <2>2, <2>3, <2>4, <2>5
<1>6. CASE Response
  <2>1. pc' \in MainPcs
    BY <1>6 DEF Response, Move
  <2>2. client' \in {"none", "open", "closed"}
    BY <1>6 DEF Response, Move
  <2>3. failed' \in BOOLEAN /\ early' \in BOOLEAN
    BY <1>6 DEF Response, Move
  <2>4. UNCHANGED <<idleSeen, idleReport, line, samplerVars, eventVars, slot, event, readFirst>>
    BY <1>6 DEF Response, Move
  <2>5. QED
    BY <2>1, <2>2, <2>3, <2>4
<1>7. CASE Observe
  BY <1>7 DEF Observe, Move
<1>8. CASE Read
  <2>1. pc' \in MainPcs
    BY <1>8 DEF Read, Move
  <2>2. line' \in Events \cup {"none"}
    BY <1>8 DEF Read, Move
  <2>3. failed' \in BOOLEAN
    BY <1>8 DEF Read, Move
  <2>4. UNCHANGED <<idleSeen, idleReport, samplerVars, eventVars, wireVars, history>>
    BY <1>8 DEF Read, Move
  <2>5. QED
    BY <2>1, <2>2, <2>3, <2>4
<1>9. CASE Close
  BY <1>9 DEF Close, Move
<1>10. CASE StopSampler
  BY <1>10 DEF StopSampler, Move
<1>11. CASE Join
  BY <1>11 DEF Join
<1>12. CASE Sample
  <2>1. pc' \in MainPcs
    BY <1>12 DEF Sample, Move
  <2>2. idleSeen' \in BOOLEAN
    BY <1>12 DEF Sample, Move
  <2>3. UNCHANGED <<failed, idleReport, line, samplerVars, eventVars, wireVars, history>>
    BY <1>12 DEF Sample, Move
  <2>4. QED
    BY <2>1, <2>2, <2>3
<1>13. CASE UseSample
  <2>1. pc' \in MainPcs
    BY <1>13 DEF UseSample, Move
  <2>2. idleReport' \in BOOLEAN
    BY <1>13 DEF UseSample, Move
  <2>3. UNCHANGED <<failed, idleSeen, line, samplerVars, eventVars, wireVars, history>>
    BY <1>13 DEF UseSample, Move
  <2>4. QED
    BY <2>1, <2>2, <2>3
<1>14. CASE Expire
  BY <1>14 DEF Expire, Move
<1>15. CASE SamplerLoop
  BY <1>15 DEF SamplerLoop, SamplerMove
<1>16. CASE SamplerRequest
  <2>1. spc' \in SamplerPcs
    BY <1>16 DEF SamplerRequest, SamplerMove
  <2>2. busySeen' \in BOOLEAN
    BY <1>16 DEF SamplerRequest, SamplerMove
  <2>3. UNCHANGED <<mainVars, eventVars, wireVars, history>>
    BY <1>16 DEF SamplerRequest, SamplerMove
  <2>4. QED
    BY <2>1, <2>2, <2>3
<1>17. CASE SamplerReady
  BY <1>17 DEF SamplerReady, SamplerMove
<1>18. CASE SamplerActive
  BY <1>18 DEF SamplerActive, SamplerMove
<1>19. CASE Server
  BY <1>19 DEF Server, Accept, Emit, Finish, NoticeClose
<1>20. CASE UNCHANGED vars
  BY <1>20 DEF vars
<1>21. QED
  BY <1>1, <1>2, <1>3, <1>4, <1>5, <1>6, <1>7, <1>8, <1>9, <1>10, <1>11, <1>12, <1>13,
    <1>14, <1>15, <1>16, <1>17, <1>18, <1>19, <1>20 DEF Next, Main, Sampler, AllOver

-----------------------------------------------------------------------------
(* The inductive invariant                                                  *)

(* The caller opens, reads and closes its stream in that order.             *)
LEMMA StreamInvStep == TypeOK /\ StreamInv /\ [Next]_vars => StreamInv'
<1>. SUFFICES ASSUME TypeOK, StreamInv, [Next]_vars PROVE StreamInv'
  OBVIOUS
<1>. USE DEF StreamInv, BeforeOpen, Events, mainVars, samplerVars, eventVars, wireVars,
  history
<1>1. CASE Start
  BY <1>1 DEF Start, Move
<1>2. CASE AwaitSampler
  BY <1>2 DEF AwaitSampler, Move
<1>3. CASE GiveUp
  BY <1>3 DEF GiveUp, Move
<1>4. CASE GiveUpJoin
  BY <1>4 DEF GiveUpJoin, Move
<1>5. CASE Open
  BY <1>5 DEF Open, Move
<1>6. CASE Response
  BY <1>6 DEF Response, Move
<1>7. CASE Observe
  BY <1>7 DEF Observe, Move
<1>8. CASE Read
  BY <1>8 DEF Read, Move
<1>9. CASE Close
  BY <1>9 DEF Close, Move
<1>10. CASE StopSampler
  BY <1>10 DEF StopSampler, Move
<1>11. CASE Join
  BY <1>11 DEF Join
<1>12. CASE Sample
  BY <1>12 DEF Sample, Move
<1>13. CASE UseSample
  BY <1>13 DEF UseSample, Move
<1>14. CASE Expire
  BY <1>14 DEF Expire, Move
<1>15. CASE SamplerLoop
  BY <1>15 DEF SamplerLoop, SamplerMove
<1>16. CASE SamplerRequest
  BY <1>16 DEF SamplerRequest, SamplerMove
<1>17. CASE SamplerReady
  BY <1>17 DEF SamplerReady, SamplerMove
<1>18. CASE SamplerActive
  BY <1>18 DEF SamplerActive, SamplerMove
<1>19. CASE Server
  BY <1>19 DEF Server, Accept, Emit, Finish, NoticeClose
<1>20. CASE UNCHANGED vars
  BY <1>20 DEF vars
<1>21. QED
  BY <1>1, <1>2, <1>3, <1>4, <1>5, <1>6, <1>7, <1>8, <1>9, <1>10, <1>11, <1>12, <1>13,
    <1>14, <1>15, <1>16, <1>17, <1>18, <1>19, <1>20 DEF Next, Main, Sampler, AllOver

(* The server sends its one event from a busy slot; the caller reads it.    *)
LEMMA EventInvStep == TypeOK /\ StreamInv /\ EventInv /\ [Next]_vars => EventInv'
<1>. SUFFICES ASSUME TypeOK, StreamInv, EventInv, [Next]_vars PROVE EventInv'
  OBVIOUS
<1>. USE DEF EventInv, mainVars, samplerVars, eventVars, wireVars, history
<1>1. CASE Start
  BY <1>1 DEF Start, Move
<1>2. CASE AwaitSampler
  BY <1>2 DEF AwaitSampler, Move
<1>3. CASE GiveUp
  BY <1>3 DEF GiveUp, Move
<1>4. CASE GiveUpJoin
  BY <1>4 DEF GiveUpJoin, Move
<1>5. CASE Open
  BY <1>5 DEF Open, Move, StreamInv, BeforeOpen
<1>6. CASE Response
  BY <1>6 DEF Response, Move
<1>7. CASE Observe
  BY <1>7 DEF Observe, Move
<1>8. CASE Read
  BY <1>8 DEF Read, Move
<1>9. CASE Close
  BY <1>9 DEF Close, Move
<1>10. CASE StopSampler
  BY <1>10 DEF StopSampler, Move
<1>11. CASE Join
  BY <1>11 DEF Join
<1>12. CASE Sample
  BY <1>12 DEF Sample, Move
<1>13. CASE UseSample
  BY <1>13 DEF UseSample, Move
<1>14. CASE Expire
  BY <1>14 DEF Expire, Move
<1>15. CASE SamplerLoop
  BY <1>15 DEF SamplerLoop, SamplerMove
<1>16. CASE SamplerRequest
  BY <1>16 DEF SamplerRequest, SamplerMove
<1>17. CASE SamplerReady
  BY <1>17 DEF SamplerReady, SamplerMove
<1>18. CASE SamplerActive
  BY <1>18 DEF SamplerActive, SamplerMove
<1>19. CASE Server
  BY <1>19 DEF Server, Accept, Emit, Finish, NoticeClose
<1>20. CASE UNCHANGED vars
  BY <1>20 DEF vars
<1>21. QED
  BY <1>1, <1>2, <1>3, <1>4, <1>5, <1>6, <1>7, <1>8, <1>9, <1>10, <1>11, <1>12, <1>13,
    <1>14, <1>15, <1>16, <1>17, <1>18, <1>19, <1>20 DEF Next, Main, Sampler, AllOver

(* Past the join the sampler has ended; a slot that was let go stays so.    *)
LEMMA DrainInvStep == TypeOK /\ StreamInv /\ EventInv /\ DrainInv /\ [Next]_vars => DrainInv'
<1>. SUFFICES ASSUME TypeOK, StreamInv, EventInv, DrainInv, [Next]_vars PROVE DrainInv'
  OBVIOUS
<1>. USE DEF DrainInv, mainVars, samplerVars, eventVars, wireVars, history
<1>1. CASE Start
  BY <1>1 DEF Start, Move
<1>2. CASE AwaitSampler
  BY <1>2 DEF AwaitSampler, Move
<1>3. CASE GiveUp
  BY <1>3 DEF GiveUp, Move
<1>4. CASE GiveUpJoin
  BY <1>4 DEF GiveUpJoin, Move
<1>5. CASE Open
  BY <1>5 DEF Open, Move, StreamInv, BeforeOpen
<1>6. CASE Response
  BY <1>6 DEF Response, Move
<1>7. CASE Observe
  BY <1>7 DEF Observe, Move
<1>8. CASE Read
  BY <1>8 DEF Read, Move
<1>9. CASE Close
  BY <1>9 DEF Close, Move
<1>10. CASE StopSampler
  BY <1>10 DEF StopSampler, Move
<1>11. CASE Join
  BY <1>11 DEF Join
<1>12. CASE Sample
  <2>1. CASE pc' = "drained"
    <3>1. slot \in {"busy", "released"}
      BY <1>12 DEF Sample, Move, StreamInv, EventInv
    <3>2. idleSeen' = (slot # "busy") /\ UNCHANGED <<spc, slot, idleReport>> /\ pc = "drain"
      BY <1>12, <2>1 DEF Sample, Move
    <3>3. QED
      BY <2>1, <3>1, <3>2
  <2>2. CASE pc' # "drained"
    BY <1>12, <2>2 DEF Sample, Move
  <2>3. QED
    BY <2>1, <2>2
<1>13. CASE UseSample
  BY <1>13 DEF UseSample, Move
<1>14. CASE Expire
  BY <1>14 DEF Expire, Move
<1>15. CASE SamplerLoop
  BY <1>15 DEF SamplerLoop, SamplerMove
<1>16. CASE SamplerRequest
  BY <1>16 DEF SamplerRequest, SamplerMove
<1>17. CASE SamplerReady
  BY <1>17 DEF SamplerReady, SamplerMove
<1>18. CASE SamplerActive
  BY <1>18 DEF SamplerActive, SamplerMove
<1>19. CASE Server
  BY <1>19 DEF Server, Accept, Emit, Finish, NoticeClose
<1>20. CASE UNCHANGED vars
  BY <1>20 DEF vars
<1>21. QED
  BY <1>1, <1>2, <1>3, <1>4, <1>5, <1>6, <1>7, <1>8, <1>9, <1>10, <1>11, <1>12, <1>13,
    <1>14, <1>15, <1>16, <1>17, <1>18, <1>19, <1>20 DEF Next, Main, Sampler, AllOver

(* The inductive invariant holds at the start.                              *)
LEMMA InitIInv == Init => IInv
BY InitTypeOK DEF Init, IInv, StreamInv, BeforeOpen, EventInv, DrainInv

(* Every step keeps the inductive invariant.                                *)
LEMMA NextIInv == IInv /\ [Next]_vars => IInv'
BY NextTypeOK, StreamInvStep, EventInvStep, DrainInvStep DEF IInv

(* Every reachable state satisfies the inductive invariant.                 *)
THEOREM Inductive == Spec => []IInv
BY InitIInv, NextIInv, PTL DEF Spec

-----------------------------------------------------------------------------
(* What a report says                                                       *)

(* The variables of the caller, the sampler and the server keep their types.*)
THEOREM TypesHold == Spec => []TypeOK
<1>1. IInv => TypeOK
  BY DEF IInv
<1>2. QED
  BY <1>1, Inductive, PTL

(* stream_then_disconnect returns only a report that is final and true: the *)
(* sampler has ended, the event is the server's, the client disconnected    *)
(* after reading it, and a slot reported idle has let go of the request.    *)
THEOREM ReportsAreTruthful == Spec => []ReportTruthful
<1>1. IInv => ReportTruthful
  BY DEF IInv, ReportTruthful, StreamInv, EventInv, DrainInv
<1>2. QED
  BY <1>1, Inductive, PTL

-----------------------------------------------------------------------------
(* Refinement of DisconnectPromise                                          *)

Received == IF line = "none" THEN {} ELSE {"client"}
Gone == IF client = "closed" THEN {"client"} ELSE {}

(* A step that touches neither the stream's two ends nor the caller's end   *)
(* of the call does not show.                                               *)
LEMMA QuietStep ==
    ASSUME UNCHANGED <<line, client, early>>, pc \notin Ended, pc' \notin Ended
    PROVE  UNCHANGED Promise!promiseVars
BY DEF Promise!promiseVars, Outcome, Ended

(* A call that raises without closing anything fails in the promise too.    *)
LEMMA RaiseStep ==
    ASSUME UNCHANGED <<line, client, early>>, pc \notin Ended, pc' = "raised", TypeOK
    PROVE  Promise!PromiseNext
<1>1. Promise!Fail({})
  BY DEF Promise!Fail, Outcome, Ended, TypeOK
<1>2. QED
  BY <1>1 DEF Promise!PromiseNext

(* A call that returns reports: its client has its event and has closed.    *)
LEMMA ReturnStep ==
    ASSUME UNCHANGED <<line, client, early>>, pc \notin Ended, pc' = "returned", IInv'
    PROVE  Promise!PromiseNext
<1>1. client = "closed" /\ line # "none" /\ ~early
  BY DEF IInv, StreamInv
<1>2. Promise!Report
  BY <1>1 DEF Promise!Report, Outcome, Ended
<1>3. QED
  BY <1>2 DEF Promise!PromiseNext

(* Every step of the threads and the server is a step of DisconnectPromise  *)
(* for a single client, or does not show.                                   *)
LEMMA StepsRefine ==
    IInv /\ IInv' /\ [Next]_vars => Promise!PromiseNext \/ UNCHANGED Promise!promiseVars
<1>. SUFFICES ASSUME IInv, IInv', [Next]_vars
              PROVE  Promise!PromiseNext \/ UNCHANGED Promise!promiseVars
  OBVIOUS
<1>. USE DEF mainVars, samplerVars, eventVars, wireVars, history
<1>1. CASE Start
  <2>1. CASE pc' = "raised"
    BY <1>1, <2>1, RaiseStep DEF Start, Move, Ended, IInv
  <2>2. CASE pc' # "raised"
    BY <1>1, <2>2, QuietStep DEF Start, Move, Ended
  <2>3. QED
    BY <2>1, <2>2
<1>2. CASE AwaitSampler
  BY <1>2, QuietStep DEF AwaitSampler, Move, Ended
<1>3. CASE GiveUp
  BY <1>3, QuietStep DEF GiveUp, Move, Ended
<1>4. CASE GiveUpJoin
  BY <1>4, RaiseStep DEF GiveUpJoin, Move, Ended, IInv
<1>5. CASE Open
  <2>1. UNCHANGED <<line, early, Gone, Outcome>>
    BY <1>5 DEF Open, Move, Gone, Outcome, IInv, StreamInv, BeforeOpen
  <2>2. QED
    BY <2>1 DEF Promise!promiseVars, Gone
<1>6. CASE Response
  <2>1. CASE UNCHANGED client
    <3>1. UNCHANGED early
      BY <1>6, <2>1 DEF Response, Move, IInv, TypeOK, StreamInv
    <3>2. QED
      BY <1>6, <2>1, <3>1, QuietStep DEF Response, Move, Ended
  <2>2. CASE ~UNCHANGED client
    <3>1. client = "open" /\ client' = "closed"
      BY <1>6, <2>2 DEF Response, Move, IInv, StreamInv
    <3>2. early' = (early \/ line = "none") /\ UNCHANGED line
      BY <1>6, <2>2, <3>1 DEF Response, Move, IInv, TypeOK, StreamInv
    <3>3. Outcome = "pending" /\ Outcome' = "pending"
      BY <1>6 DEF Response, Move, Outcome
    <3>4. Promise!Leave({"client"})
      BY <3>1, <3>2, <3>3 DEF Promise!Leave
    <3>5. QED
      BY <3>4 DEF Promise!PromiseNext
  <2>3. QED
    BY <2>1, <2>2
<1>7. CASE Observe
  BY <1>7, QuietStep DEF Observe, Move, Ended
<1>8. CASE Read
  <2>1. CASE UNCHANGED line
    BY <1>8, <2>1, QuietStep DEF Read, Move, Ended
  <2>2. CASE ~UNCHANGED line
    <3>1. line = "none" /\ line' # "none" /\ client = "open"
      BY <1>8, <2>2 DEF Read, Move, IInv, StreamInv
    <3>2. Outcome = "pending" /\ Outcome' = "pending" /\ UNCHANGED <<client, early>>
      BY <1>8 DEF Read, Move, Outcome
    <3>3. Promise!Receive("client")
      BY <3>1, <3>2 DEF Promise!Receive
    <3>4. QED
      BY <3>3 DEF Promise!PromiseNext
  <2>3. QED
    BY <2>1, <2>2
<1>9. CASE Close
  <2>1. CASE UNCHANGED client
    <3>1. UNCHANGED early
      BY <1>9, <2>1 DEF Close, Move, IInv, TypeOK, StreamInv
    <3>2. QED
      BY <1>9, <2>1, <3>1, QuietStep DEF Close, Move, Ended
  <2>2. CASE ~UNCHANGED client
    <3>1. client = "open" /\ client' = "closed"
      BY <1>9, <2>2 DEF Close, Move, IInv, StreamInv
    <3>2. early' = (early \/ line = "none") /\ UNCHANGED line
      BY <1>9, <2>2, <3>1 DEF Close, Move, IInv, TypeOK, StreamInv
    <3>3. Outcome = "pending" /\ Outcome' = "pending"
      BY <1>9 DEF Close, Move, Outcome
    <3>4. Promise!Leave({"client"})
      BY <3>1, <3>2, <3>3 DEF Promise!Leave
    <3>5. QED
      BY <3>4 DEF Promise!PromiseNext
  <2>3. QED
    BY <2>1, <2>2
<1>10. CASE StopSampler
  BY <1>10, QuietStep DEF StopSampler, Move, Ended
<1>11. CASE Join
  <2>1. CASE pc' = "raised"
    BY <1>11, <2>1, RaiseStep DEF Join, Ended, IInv
  <2>2. CASE pc' # "raised"
    BY <1>11, <2>2, QuietStep DEF Join, Ended
  <2>3. QED
    BY <2>1, <2>2
<1>12. CASE Sample
  <2>1. CASE pc' = "raised"
    BY <1>12, <2>1, RaiseStep DEF Sample, Move, Ended, IInv
  <2>2. CASE pc' # "raised"
    BY <1>12, <2>2, QuietStep DEF Sample, Move, Ended
  <2>3. QED
    BY <2>1, <2>2
<1>13. CASE UseSample
  <2>1. CASE pc' = "returned"
    BY <1>13, <2>1, ReturnStep DEF UseSample, Move, Ended
  <2>2. CASE pc' # "returned"
    BY <1>13, <2>2, QuietStep DEF UseSample, Move, Ended
  <2>3. QED
    BY <2>1, <2>2
<1>14. CASE Expire
  BY <1>14, ReturnStep DEF Expire, Move, Ended
<1>15. CASE Sampler \/ Server
  <2>1. UNCHANGED <<pc, line, client, early>>
    BY <1>15 DEF Sampler, SamplerLoop, SamplerRequest, SamplerReady, SamplerActive,
      Server, Accept, Emit, Finish, NoticeClose
  <2>2. QED
    BY <2>1 DEF Promise!promiseVars, Outcome
<1>16. CASE UNCHANGED vars
  BY <1>16 DEF vars, Promise!promiseVars, Outcome
<1>17. QED
  BY <1>1, <1>2, <1>3, <1>4, <1>5, <1>6, <1>7, <1>8, <1>9, <1>10, <1>11,
    <1>12, <1>13, <1>14, <1>15, <1>16 DEF Next, Main, AllOver

(* Every behaviour of the caller, the sampler and the server is one that    *)
(* DisconnectPromise allows: a report means that the client had its event   *)
(* before it disconnected, every other way out raises.                      *)
THEOREM PromiseIsKept == Spec => KeepsPromise
<1>1. Init => Promise!PromiseInit
  BY DEF Init, Promise!PromiseInit, Outcome
<1>2. QED
  BY <1>1, StepsRefine, Inductive, PTL DEF Spec, KeepsPromise, Promise!PromiseSpec
=============================================================================
