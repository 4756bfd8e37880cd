----------------------------- MODULE DualStream -----------------------------
(***************************************************************************)
(* LlamaCppClient.dual_stream_disconnect (adapter.py): three threads of the*)
(* client - the caller and one worker per server slot - run two streaming  *)
(* completions against an external server, and the caller disconnects them *)
(* one after the other: the slot First, then the other one, Survivor.      *)
(*                                                                         *)
(* One step is one shared operation of one thread (a barrier, an event, a  *)
(* section under state_lock, a socket call).  A bounded wait may time out  *)
(* whenever what it waits for has not happened, so no deadline of the code *)
(* is compared with another.  An event line is "nonterminal" or "terminal" *)
(* and a malformed, oversized or missing one is a failed read.             *)
(***************************************************************************)
EXTENDS Naturals, FiniteSets

CONSTANT First            \* first_disconnect_slot

Slots == {0, 1}

ASSUME FirstAssumption == First \in Slots

Survivor == 1 - First

VARIABLES
    pc,          \* where the caller is
    failed,      \* the caller is unwinding an exception
    view,        \* the idle flags of the last GET /slots of the caller
    report,      \* the booleans the caller returns
    wpc,         \* where each worker is
    barrier,     \* start_barrier
    ready,       \* first_event_ready
    gate,        \* release_stream
    firstEvent,  \* first_events
    errors,      \* the workers that appended to worker_errors
    registered,  \* the slots whose connection and response main can see
    client,      \* the client's end of each stream
    slot,        \* the server's slot: what became of the slot's request
    event,       \* the first event line the server sent on each stream
    got,         \* history: the clients whose readline returned a valid event
    spoiled      \* history: a client disconnected while some got was missing

mainVars   == <<pc, failed, view, report>>
syncVars   == <<barrier, ready, gate>>
sharedVars == <<firstEvent, errors, registered>>
wireVars   == <<client, slot, event>>
history    == <<got, spoiled>>
vars == <<mainVars, wpc, syncVars, sharedVars, wireVars, history>>

Events == {"nonterminal", "terminal"}

MainPcs == {"start", "startSecond", "arrive", "waiting", "observe", "observed",
            "ready", "cancel", "cancelled", "survivor", "join", "drain",
            "drained", "finally", "cleanup", "close", "returned", "raised"}

Ended == {"returned", "raised"}

WorkerPcs == {"unstarted", "arrive", "waiting", "open", "response", "register",
              "read", "store", "signal", "gate", "error", "errorSignal",
              "close", "done"}

Flags == {"bothFirstEvents", "bothProcessing", "cancelledIdle",
          "survivorActive", "bothIdle"}

NoView == [s \in Slots |-> FALSE]

TypeOK ==
    /\ pc \in MainPcs
    /\ failed \in BOOLEAN
    /\ view \in [Slots -> BOOLEAN]
    /\ report \in [Flags -> BOOLEAN]
    /\ wpc \in [Slots -> WorkerPcs]
    /\ barrier \in {"filling", "released", "broken"}
    /\ ready \in [Slots -> BOOLEAN]
    /\ gate \in [Slots -> BOOLEAN]
    /\ firstEvent \in [Slots -> Events \cup {"none"}]
    /\ errors \in SUBSET Slots
    /\ registered \in SUBSET Slots
    /\ client \in [Slots -> {"none", "open", "closed"}]
    /\ slot \in [Slots -> {"unused", "pending", "busy", "released"}]
    /\ event \in [Slots -> Events \cup {"none"}]
    /\ got \in SUBSET Slots
    /\ spoiled \in BOOLEAN

Init ==
    /\ pc = "start"
    /\ failed = FALSE
    /\ view = NoView
    /\ report = [f \in Flags |-> FALSE]
    /\ wpc = [s \in Slots |-> "unstarted"]
    /\ barrier = "filling"
    /\ ready = [s \in Slots |-> FALSE]
    /\ gate = [s \in Slots |-> FALSE]
    /\ firstEvent = [s \in Slots |-> "none"]
    /\ errors = {}
    /\ registered = {}
    /\ client = [s \in Slots |-> "none"]
    /\ slot = [s \in Slots |-> "unused"]
    /\ event = [s \in Slots |-> "none"]
    /\ got = {}
    /\ spoiled = FALSE

-----------------------------------------------------------------------------
(* Closing the client's end of the streams of S: what every close() does.   *)

Disconnect(S) ==
    /\ client' = [s \in Slots |-> IF s \in S THEN "closed" ELSE client[s]]
    /\ spoiled' = (spoiled \/ (S # {} /\ got # Slots))

Move(s, from, to) ==
    /\ wpc[s] = from
    /\ wpc' = [wpc EXCEPT ![s] = to]

(* An exception of the caller enters its finally block.                     *)
Raise ==
    /\ pc' = "finally"
    /\ failed' = TRUE

-----------------------------------------------------------------------------
(* stream_worker                                                            *)

(* start_barrier.wait(2.0): three parties, the last one releases the others. *)
WorkerArrive(s) ==
    /\ \/ /\ barrier = "broken"
          /\ Move(s, "arrive", "error")
          /\ UNCHANGED barrier
       \/ /\ barrier = "filling"
          /\ pc = "waiting" /\ wpc[1 - s] = "waiting"
          /\ Move(s, "arrive", "open")
          /\ barrier' = "released"
       \/ /\ barrier = "filling"
          /\ ~(pc = "waiting" /\ wpc[1 - s] = "waiting")
          /\ Move(s, "arrive", "waiting")
          /\ UNCHANGED barrier
    /\ UNCHANGED <<mainVars, ready, gate, sharedVars, wireVars, history>>

WorkerWake(s) ==
    /\ \/ barrier = "released" /\ Move(s, "waiting", "open") /\ UNCHANGED barrier
       \/ barrier = "broken" /\ Move(s, "waiting", "error") /\ UNCHANGED barrier
       \/ barrier = "filling" /\ Move(s, "waiting", "error") /\ barrier' = "broken"
    /\ UNCHANGED <<mainVars, ready, gate, sharedVars, wireVars, history>>

(* _open_registered_stream: connect and send the request, then read the     *)
(* response head; a failure closes the connection before it is raised.      *)
WorkerConnect(s) ==
    /\ \/ /\ Move(s, "open", "response")
          /\ client' = [client EXCEPT ![s] = "open"]
          /\ slot' = [slot EXCEPT ![s] = "pending"]
       \/ /\ Move(s, "open", "error")
          /\ UNCHANGED <<client, slot>>
    /\ UNCHANGED <<mainVars, syncVars, sharedVars, event, history>>

WorkerResponse(s) ==
    /\ \/ /\ Move(s, "response", "register")
          /\ UNCHANGED <<client, spoiled>>
       \/ /\ Move(s, "response", "error")
          /\ Disconnect({s})
    /\ UNCHANGED <<mainVars, syncVars, sharedVars, slot, event, got>>

WorkerRegister(s) ==
    /\ Move(s, "register", "read")
    /\ registered' = registered \cup {s}
    /\ UNCHANGED <<mainVars, syncVars, firstEvent, errors, wireVars, history>>

(* readline, the size check and _stream_event_is_nonterminal, whose result  *)
(* the worker drops: it only has to parse.                                  *)
WorkerRead(s) ==
    /\ \/ /\ client[s] = "open" /\ event[s] # "none"
          /\ Move(s, "read", "store")
          /\ got' = got \cup {s}
       \/ /\ Move(s, "read", "error")
          /\ UNCHANGED got
    /\ UNCHANGED <<mainVars, syncVars, sharedVars, wireVars, spoiled>>

(* Mutation of WorkerStore: the slot's state is kept as its first event.    *)
WorkerStoreState(s) ==
    /\ Move(s, "store", "signal")
    /\ firstEvent' = [firstEvent EXCEPT ![s] = slot[s]]
    /\ UNCHANGED <<mainVars, syncVars, errors, registered, wireVars, history>>

WorkerStore(s) ==
    /\ Move(s, "store", "signal")
    /\ firstEvent' = [firstEvent EXCEPT ![s] = event[s]]
    /\ UNCHANGED <<mainVars, syncVars, errors, registered, wireVars, history>>

WorkerSignal(s) ==
    /\ \/ Move(s, "signal", "gate")
       \/ Move(s, "errorSignal", "close")
    /\ ready' = [ready EXCEPT ![s] = TRUE]
    /\ UNCHANGED <<mainVars, barrier, gate, sharedVars, wireVars, history>>

(* Mutation of WorkerGate: the result of the wait is not looked at.         *)
WorkerGateUnchecked(s) ==
    /\ Move(s, "gate", "close")
    /\ UNCHANGED <<mainVars, syncVars, sharedVars, wireVars, history>>

(* release_stream[slot_id].wait(20.0)                                       *)
WorkerGate(s) ==
    /\ \/ gate[s] /\ Move(s, "gate", "close")
       \/ ~gate[s] /\ Move(s, "gate", "error")
    /\ UNCHANGED <<mainVars, syncVars, sharedVars, wireVars, history>>

(* except BaseException: append under the lock, then set the ready event.   *)
WorkerError(s) ==
    /\ Move(s, "error", "errorSignal")
    /\ errors' = errors \cup {s}
    /\ UNCHANGED <<mainVars, syncVars, firstEvent, registered, wireVars, history>>

(* Mutation of WorkerClose: the worker leaves the closing to the caller.    *)
WorkerEndUnclosed(s) ==
    /\ Move(s, "close", "done")
    /\ UNCHANGED <<mainVars, syncVars, sharedVars, wireVars, history>>

(* finally: close the response and the connection, and the thread ends.     *)
WorkerClose(s) ==
    /\ Move(s, "close", "done")
    /\ Disconnect({s} \cap {t \in Slots : client[t] = "open"})
    /\ UNCHANGED <<mainVars, syncVars, sharedVars, slot, event, got>>

Worker(s) ==
    \/ WorkerArrive(s) \/ WorkerWake(s)
    \/ WorkerConnect(s) \/ WorkerResponse(s) \/ WorkerRegister(s)
    \/ WorkerRead(s) \/ WorkerStore(s) \/ WorkerSignal(s) \/ WorkerGate(s)
    \/ WorkerError(s) \/ WorkerClose(s)

-----------------------------------------------------------------------------
(* The caller                                                               *)

(* Thread.start for the first slot's worker, then for the survivor's; a     *)
(* thread that cannot be started raises.                                    *)
StartWorker ==
    /\ \/ /\ pc = "start"
          /\ wpc' = [wpc EXCEPT ![First] = "arrive"]
          /\ pc' = "startSecond" /\ UNCHANGED failed
       \/ /\ pc = "startSecond"
          /\ wpc' = [wpc EXCEPT ![Survivor] = "arrive"]
          /\ pc' = "arrive" /\ UNCHANGED failed
       \/ /\ pc \in {"start", "startSecond"}
          /\ Raise /\ UNCHANGED wpc
    /\ UNCHANGED <<view, report, syncVars, sharedVars, wireVars, history>>

MainArrive ==
    /\ pc = "arrive"
    /\ \/ barrier = "broken" /\ Raise /\ UNCHANGED barrier
       \/ /\ barrier = "filling"
          /\ \A s \in Slots : wpc[s] = "waiting"
          /\ barrier' = "released"
          /\ pc' = "observe" /\ UNCHANGED failed
       \/ /\ barrier = "filling"
          /\ \E s \in Slots : wpc[s] # "waiting"
          /\ pc' = "waiting" /\ UNCHANGED <<barrier, failed>>
    /\ UNCHANGED <<view, report, wpc, ready, gate, sharedVars, wireVars, history>>

MainWake ==
    /\ pc = "waiting"
    /\ \/ barrier = "released" /\ pc' = "observe" /\ UNCHANGED <<barrier, failed>>
       \/ barrier = "broken" /\ Raise /\ UNCHANGED barrier
       \/ barrier = "filling" /\ Raise /\ barrier' = "broken"
    /\ UNCHANGED <<view, report, wpc, ready, gate, sharedVars, wireVars, history>>

(* The three polling loops: GET /slots answers with the server's state at   *)
(* one moment, and the caller acts on that answer in a later step; a failed *)
(* request raises, and a loop whose time is up goes on without a result.    *)
Polling == [observe |-> "observed", cancel |-> "cancelled", drain |-> "drained"]

Sample ==
    /\ pc \in DOMAIN Polling
    /\ \/ /\ view' = [s \in Slots |-> slot[s] # "busy"]
          /\ pc' = Polling[pc]
          /\ UNCHANGED failed
       \/ Raise /\ UNCHANGED view
    /\ UNCHANGED <<report, wpc, syncVars, sharedVars, wireVars, history>>

NextPhase == [observe |-> "ready", cancel |-> "survivor", drain |-> "finally"]

Expire ==
    /\ pc \in DOMAIN Polling
    /\ pc' = NextPhase[pc]
    /\ UNCHANGED <<failed, view, report, wpc, syncVars, sharedVars, wireVars, history>>

(* Until both slots are seen busy, or both workers are ready.               *)
UseObserved ==
    /\ pc = "observed"
    /\ \/ /\ \A s \in Slots : ~view[s]
          /\ report' = [report EXCEPT !["bothProcessing"] = TRUE]
          /\ pc' = "ready"
       \/ /\ \E s \in Slots : view[s]
          /\ pc' = IF \A s \in Slots : ready[s] THEN "ready" ELSE "observe"
          /\ UNCHANGED report
    /\ view' = NoView
    /\ UNCHANGED <<failed, wpc, syncVars, sharedVars, wireVars, history>>

(* first_event_ready[...].wait(5.0) for both slots before the first         *)
(* disconnect, and once more for the survivor before the second one.        *)
Awaited == IF pc = "ready" THEN Slots ELSE {Survivor}

AwaitTimeout ==
    /\ pc \in {"ready", "survivor"}
    /\ \E s \in Awaited : ~ready[s]
    /\ Raise
    /\ UNCHANGED <<view, report, wpc, syncVars, sharedVars, wireVars, history>>

(* Mutations of ReleaseFirst: any instead of all, and both gates at once.   *)
ReleaseFirstOnAny ==
    /\ pc = "ready"
    /\ \E s \in Awaited : ready[s]
    /\ report' = [report EXCEPT !["bothFirstEvents"] = TRUE]
    /\ gate' = [gate EXCEPT ![First] = TRUE]
    /\ pc' = "cancel"
    /\ UNCHANGED <<failed, view, wpc, barrier, ready, sharedVars, wireVars, history>>

ReleaseBoth ==
    /\ pc = "ready"
    /\ \A s \in Awaited : ready[s]
    /\ report' = [report EXCEPT !["bothFirstEvents"] = TRUE]
    /\ gate' = [s \in Slots |-> TRUE]
    /\ pc' = "cancel"
    /\ UNCHANGED <<failed, view, wpc, barrier, ready, sharedVars, wireVars, history>>

ReleaseFirst ==
    /\ pc = "ready"
    /\ \A s \in Awaited : ready[s]
    /\ report' = [report EXCEPT !["bothFirstEvents"] = TRUE]
    /\ gate' = [gate EXCEPT ![First] = TRUE]
    /\ pc' = "cancel"
    /\ UNCHANGED <<failed, view, wpc, barrier, ready, sharedVars, wireVars, history>>

UseCancelled ==
    /\ pc = "cancelled"
    /\ \/ /\ view[First]
          /\ report' = [report EXCEPT !["cancelledIdle"] = TRUE,
                                      !["survivorActive"] = ~view[Survivor]]
          /\ pc' = "survivor"
       \/ /\ ~view[First]
          /\ pc' = "cancel"
          /\ UNCHANGED report
    /\ view' = NoView
    /\ UNCHANGED <<failed, wpc, syncVars, sharedVars, wireVars, history>>

ReleaseSurvivor ==
    /\ pc = "survivor"
    /\ \A s \in Awaited : ready[s]
    /\ gate' = [gate EXCEPT ![Survivor] = TRUE]
    /\ pc' = "join"
    /\ UNCHANGED <<failed, view, report, wpc, barrier, ready, sharedVars, wireVars, history>>

(* Mutation of Join: worker_errors is never looked at.                      *)
JoinOnly ==
    /\ pc = "join"
    /\ \/ (\A s \in Slots : wpc[s] = "done") /\ pc' = "drain" /\ UNCHANGED failed
       \/ (\E s \in Slots : wpc[s] # "done") /\ Raise
    /\ UNCHANGED <<view, report, wpc, syncVars, sharedVars, wireVars, history>>

(* Join both workers and look at worker_errors.                             *)
Join ==
    /\ pc = "join"
    /\ \/ /\ \A s \in Slots : wpc[s] = "done"
          /\ errors = {}
          /\ pc' = "drain" /\ UNCHANGED failed
       \/ /\ \/ \E s \in Slots : wpc[s] # "done"
             \/ errors # {}
          /\ Raise
    /\ UNCHANGED <<view, report, wpc, syncVars, sharedVars, wireVars, history>>

(* Mutation of UseDrained: any slot instead of all.                         *)
UseDrainedAny ==
    /\ pc = "drained"
    /\ \/ /\ \E s \in Slots : view[s]
          /\ report' = [report EXCEPT !["bothIdle"] = TRUE]
          /\ pc' = "finally"
       \/ /\ \A s \in Slots : ~view[s]
          /\ pc' = "drain"
          /\ UNCHANGED report
    /\ view' = NoView
    /\ UNCHANGED <<failed, wpc, syncVars, sharedVars, wireVars, history>>

UseDrained ==
    /\ pc = "drained"
    /\ \/ /\ \A s \in Slots : view[s]
          /\ report' = [report EXCEPT !["bothIdle"] = TRUE]
          /\ pc' = "finally"
       \/ /\ \E s \in Slots : ~view[s]
          /\ pc' = "drain"
          /\ UNCHANGED report
    /\ view' = NoView
    /\ UNCHANGED <<failed, wpc, syncVars, sharedVars, wireVars, history>>

(* finally: open both gates, join both workers for a bounded time (joining  *)
(* a thread that was never started raises out of the block), close what is  *)
(* registered, and leave by the return or by the exception.                 *)
OpenGates ==
    /\ pc = "finally"
    /\ gate' = [s \in Slots |-> TRUE]
    /\ pc' = "cleanup"
    /\ UNCHANGED <<failed, view, report, wpc, barrier, ready, sharedVars, wireVars, history>>

JoinAgain ==
    /\ pc = "cleanup"
    /\ pc' = IF \E s \in Slots : wpc[s] = "unstarted" THEN "raised" ELSE "close"
    /\ UNCHANGED <<failed, view, report, wpc, syncVars, sharedVars, wireVars, history>>

CloseAll ==
    /\ pc = "close"
    /\ Disconnect({s \in registered : client[s] = "open"})
    /\ pc' = IF failed THEN "raised" ELSE "returned"
    /\ UNCHANGED <<failed, view, report, wpc, syncVars, sharedVars, slot, event, got>>

Main ==
    \/ StartWorker \/ MainArrive \/ MainWake
    \/ Sample \/ Expire \/ UseObserved \/ UseCancelled \/ UseDrained
    \/ AwaitTimeout \/ ReleaseFirst \/ ReleaseSurvivor \/ Join
    \/ OpenGates \/ JoinAgain \/ CloseAll

-----------------------------------------------------------------------------
(* The external server, as the code observes it: a request occupies its     *)
(* slot for a while, its first event is sent then, and the slot is idle     *)
(* again when the generation ends or the server notices a closed client.    *)

Accept(s) ==
    /\ slot[s] = "pending"
    /\ slot' = [slot EXCEPT ![s] = "busy"]
    /\ UNCHANGED <<client, event>>

Emit(s) ==
    /\ slot[s] = "busy" /\ event[s] = "none"
    /\ event' = [event EXCEPT ![s] = "nonterminal"]
    /\ UNCHANGED <<client, slot>>

EmitLast(s) ==
    /\ slot[s] = "busy" /\ event[s] = "none"
    /\ event' = [event EXCEPT ![s] = "terminal"]
    /\ UNCHANGED <<client, slot>>

Finish(s) ==
    /\ slot[s] = "busy" /\ event[s] # "none"
    /\ slot' = [slot EXCEPT ![s] = "released"]
    /\ UNCHANGED <<client, event>>

NoticeClose(s) ==
    /\ slot[s] = "busy" /\ client[s] = "closed"
    /\ slot' = [slot EXCEPT ![s] = "released"]
    /\ UNCHANGED <<client, event>>

Server(s) ==
    /\ Accept(s) \/ Emit(s) \/ EmitLast(s) \/ Finish(s) \/ NoticeClose(s)
    /\ UNCHANGED <<mainVars, wpc, syncVars, sharedVars, history>>

(* Every thread has ended: the call is over.                                *)
AllOver ==
    /\ pc \in Ended
    /\ \A s \in Slots : wpc[s] \in {"unstarted", "done"}
    /\ UNCHANGED vars

Next ==
    \/ Main
    \/ \E s \in Slots : Worker(s)
    \/ \E s \in Slots : Server(s)
    \/ AllOver

(* Threads are scheduled, every socket call and wait of the code has a time *)
(* limit (so a blocked step fails rather than waits for ever), each polling *)
(* loop runs against time.monotonic(), and the server notices a close.      *)
Fairness ==
    /\ WF_vars(Main)
    /\ SF_vars(Expire)
    /\ \A s \in Slots : WF_vars(Worker(s))
    /\ \A s \in Slots : WF_vars(Server(s) /\ NoticeClose(s))

Spec == Init /\ [][Next]_vars

FairSpec == Spec /\ Fairness
-----------------------------------------------------------------------------
(* Properties                                                               *)

(* The workers that failed or are about to record that they did.            *)
Failing == errors \cup {s \in Slots : wpc[s] = "error"}

(* A returned report is true of what happened: no client of a registered    *)
(* pair disconnected before both had their first event, although the flag   *)
(* is set from ready events that a failing worker sets too; both clients    *)
(* are disconnected, and the events the caller parses are those the server  *)
(* sent.                                                                     *)
ReportTruthful ==
    pc = "returned" =>
        /\ report["bothFirstEvents"] /\ ~spoiled
        /\ \A s \in Slots : /\ client[s] = "closed" /\ wpc[s] = "done"
                            /\ firstEvent[s] = event[s] /\ event[s] # "none"

(* No failure of a worker is swallowed: a call that returns had two workers *)
(* that ended without an exception, at whatever moment the exception came.  *)
NoErrorSwallowed == pc = "returned" => Failing = {}

(* both_idle_after_second_disconnect says something lasting: once it is     *)
(* reported, neither slot of the pair is busy, and none becomes busy.       *)
IdleReportLasts ==
    (pc = "returned" /\ report["bothIdle"]) => \A s \in Slots : slot[s] = "released"

(* The survivor is still connected while the caller looks for the first     *)
(* slot to turn idle, unless its worker failed: the sample behind           *)
(* survivor_active_after_first_disconnect is of a stream the client holds.  *)
SurvivorHeld ==
    pc \in {"cancel", "cancelled"} =>
        client[Survivor] = "open" \/ Survivor \in Failing

(* Every call ends, and everything it started ends too: both threads stop,  *)
(* no client socket stays open, no slot stays busy, even if the caller gave *)
(* up on a worker that was still inside a socket call.                      *)
Quiesces ==
    <>[](/\ pc \in Ended
         /\ \A s \in Slots : /\ wpc[s] \in {"unstarted", "done"}
                             /\ client[s] # "open"
                             /\ slot[s] # "busy")

(* The call keeps the promise stated in DisconnectPromise.                  *)
Outcome == CASE pc = "returned" -> "report"
             [] pc = "raised" -> "error"
             [] OTHER -> "pending"

Promise == INSTANCE DisconnectPromise WITH
    Clients <- Slots, received <- got,
    gone <- {s \in Slots : client[s] = "closed"},
    early <- spoiled, outcome <- Outcome

KeepsPromise == Promise!PromiseSpec
=============================================================================
