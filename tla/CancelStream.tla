---------------------------- MODULE CancelStream ----------------------------
(***************************************************************************)
(* LlamaCppClient.stream_then_disconnect (adapter.py): the caller streams  *)
(* one completion and disconnects after its first event, while a sampler   *)
(* thread of the client polls GET /slots to see the slot processing.       *)
(*                                                                         *)
(* One step is one shared operation of one thread.  A bounded wait may     *)
(* time out whenever what it waits for has not happened.  The slot is idle *)
(* before the call (the runner erases it first) and serves only its        *)
(* request.                                                                *)
(***************************************************************************)
VARIABLES
    pc,         \* where the caller is
    failed,     \* the caller is unwinding an exception
    idleSeen,   \* the idle flag of the caller's last GET /slots
    idleReport, \* idle_observed
    line,       \* first_event, by its stop flag; "none" until it is read
    spc,        \* where the sampler is
    busySeen,   \* what the sampler's last GET /slots said
    ready,      \* sampler_ready
    active,     \* active_observed
    stop,       \* sampler_stop
    client,     \* the client's end of the stream
    slot,       \* what became of the request in the server's slot
    event,      \* the first event line the server sent
    readFirst,  \* history: the first event had been read when active was set
    early       \* history: the client disconnected before its first event

mainVars == <<pc, failed, idleSeen, idleReport, line>>
samplerVars == <<spc, busySeen>>
eventVars == <<ready, active, stop>>
wireVars == <<client, slot, event>>
history == <<readFirst, early>>
vars == <<mainVars, samplerVars, eventVars, wireVars, history>>

Events == {"nonterminal", "terminal"}

MainPcs == {"start", "sampling", "open", "response", "observe", "read", "close",
            "stop", "join", "giveUp", "giveUpJoin", "drain", "drained",
            "returned", "raised"}

Ended == {"returned", "raised"}

SamplerPcs == {"unstarted", "loop", "request", "answered", "seen", "done"}

TypeOK ==
    /\ pc \in MainPcs /\ failed \in BOOLEAN
    /\ idleSeen \in BOOLEAN /\ idleReport \in BOOLEAN
    /\ line \in Events \cup {"none"}
    /\ spc \in SamplerPcs /\ busySeen \in BOOLEAN
    /\ ready \in BOOLEAN /\ active \in BOOLEAN /\ stop \in BOOLEAN
    /\ client \in {"none", "open", "closed"}
    /\ slot \in {"unused", "pending", "busy", "released"}
    /\ event \in Events \cup {"none"}
    /\ readFirst \in BOOLEAN /\ early \in BOOLEAN

Init ==
    /\ pc = "start" /\ failed = FALSE
    /\ idleSeen = FALSE /\ idleReport = FALSE /\ line = "none"
    /\ spc = "unstarted" /\ busySeen = FALSE
    /\ ready = FALSE /\ active = FALSE /\ stop = FALSE
    /\ client = "none" /\ slot = "unused" /\ event = "none"
    /\ readFirst = FALSE /\ early = FALSE

-----------------------------------------------------------------------------
(* sample_processing_state                                                  *)

SamplerMove(from, to) == spc = from /\ spc' = to

(* while not sampler_stop.is_set()                                          *)
SamplerLoop ==
    /\ \/ ~stop /\ SamplerMove("loop", "request")
       \/ stop /\ SamplerMove("loop", "done")
    /\ UNCHANGED <<mainVars, busySeen, eventVars, wireVars, history>>

(* The request is answered with the slot's state at that moment; or it      *)
(* fails with a handled error, the sampler reconnects and tries again; or   *)
(* it fails with an http.client error, none of the three handled kinds, and *)
(* the thread ends.                                                         *)
SamplerRequest ==
    /\ \/ SamplerMove("request", "answered") /\ busySeen' = (slot = "busy")
       \/ SamplerMove("request", "loop") /\ UNCHANGED busySeen
       \/ SamplerMove("request", "done") /\ UNCHANGED busySeen
    /\ UNCHANGED <<mainVars, eventVars, wireVars, history>>

SamplerReady ==
    /\ \/ busySeen /\ SamplerMove("answered", "seen")
       \/ ~busySeen /\ SamplerMove("answered", "loop")
    /\ ready' = TRUE
    /\ UNCHANGED <<mainVars, busySeen, active, stop, wireVars, history>>

SamplerActive ==
    /\ SamplerMove("seen", "done")
    /\ active' = TRUE
    /\ readFirst' = (line # "none")
    /\ UNCHANGED <<mainVars, busySeen, ready, stop, wireVars, early>>

Sampler == SamplerLoop \/ SamplerRequest \/ SamplerReady \/ SamplerActive

-----------------------------------------------------------------------------
(* The caller                                                               *)

Move(from, to) == pc = from /\ pc' = to

(* Thread.start, which may itself raise.                                    *)
Start ==
    /\ \/ Move("start", "sampling") /\ spc' = "loop"
       \/ Move("start", "raised") /\ UNCHANGED spc
    /\ UNCHANGED <<failed, idleSeen, idleReport, line, busySeen, eventVars, wireVars, history>>

(* sampler_ready.wait(2.0)                                                  *)
AwaitSampler ==
    /\ \/ ready /\ Move("sampling", "open")
       \/ ~ready /\ Move("sampling", "giveUp")
    /\ UNCHANGED <<failed, idleSeen, idleReport, line, samplerVars, eventVars, wireVars, history>>

(* No ready sampler: stop it, join it for a bounded time and raise.         *)
GiveUp ==
    /\ Move("giveUp", "giveUpJoin")
    /\ stop' = TRUE
    /\ UNCHANGED <<failed, idleSeen, idleReport, line, samplerVars, ready, active, wireVars, history>>

GiveUpJoin ==
    /\ Move("giveUpJoin", "raised")
    /\ UNCHANGED <<failed, idleSeen, idleReport, line, samplerVars, eventVars, wireVars, history>>

(* _open_registered_stream in two steps: the request is sent, the response  *)
(* head is read; a failure closes the connection before it is raised.       *)
Open ==
    /\ \/ /\ Move("open", "response")
          /\ client' = "open" /\ slot' = "pending"
          /\ UNCHANGED failed
       \/ /\ Move("open", "close")
          /\ failed' = TRUE
          /\ UNCHANGED <<client, slot>>
    /\ UNCHANGED <<idleSeen, idleReport, line, samplerVars, eventVars, event, history>>

Response ==
    /\ \/ /\ Move("response", "observe")
          /\ UNCHANGED <<failed, client, early>>
       \/ /\ Move("response", "close")
          /\ failed' = TRUE
          /\ client' = "closed" /\ early' = TRUE
    /\ UNCHANGED <<idleSeen, idleReport, line, samplerVars, eventVars, slot, event, readFirst>>

(* active_observed.wait(...), whose result nobody looks at.                 *)
Observe ==
    /\ Move("observe", "read")
    /\ UNCHANGED <<failed, idleSeen, idleReport, line, samplerVars, eventVars, wireVars, history>>

(* readline, the size check and the parse of the first event.               *)
Read ==
    /\ Move("read", "close")
    /\ \/ event # "none" /\ line' = event /\ UNCHANGED failed
       \/ failed' = TRUE /\ UNCHANGED line
    /\ UNCHANGED <<idleSeen, idleReport, samplerVars, eventVars, wireVars, history>>

(* Mutation of Close: the stream is left to the garbage collector.          *)
CloseNothing ==
    /\ Move("close", "stop")
    /\ UNCHANGED <<failed, idleSeen, idleReport, line, samplerVars, eventVars, wireVars, history>>

(* finally: close what is open, stop the sampler and join it.               *)
Close ==
    /\ Move("close", "stop")
    /\ client' = IF client = "open" THEN "closed" ELSE client
    /\ early' = (early \/ (client = "open" /\ line = "none"))
    /\ UNCHANGED <<failed, idleSeen, idleReport, line, samplerVars, eventVars, slot, event, readFirst>>

(* Mutation of StopSampler: the stop event is not set.                      *)
StopNothing ==
    /\ Move("stop", "join")
    /\ UNCHANGED <<failed, idleSeen, idleReport, line, samplerVars, eventVars, wireVars, history>>

StopSampler ==
    /\ Move("stop", "join")
    /\ stop' = TRUE
    /\ UNCHANGED <<failed, idleSeen, idleReport, line, samplerVars, ready, active, wireVars, history>>

(* Mutation of Join: is_alive is not asked after the bounded join.          *)
JoinUnchecked ==
    /\ pc = "join"
    /\ pc' = IF failed THEN "raised" ELSE "drain"
    /\ UNCHANGED <<failed, idleSeen, idleReport, line, samplerVars, eventVars, wireVars, history>>

Join ==
    /\ pc = "join"
    /\ \/ spc = "done" /\ pc' = IF failed THEN "raised" ELSE "drain"
       \/ spc # "done" /\ pc' = "raised"
    /\ UNCHANGED <<failed, idleSeen, idleReport, line, samplerVars, eventVars, wireVars, history>>

(* The last loop: ask for the slot, act on the answer, give up after 15 s.  *)
Sample ==
    /\ \/ Move("drain", "drained") /\ idleSeen' = (slot # "busy")
       \/ Move("drain", "raised") /\ UNCHANGED idleSeen
    /\ UNCHANGED <<failed, idleReport, line, samplerVars, eventVars, wireVars, history>>

UseSample ==
    /\ \/ idleSeen /\ Move("drained", "returned") /\ idleReport' = TRUE
       \/ ~idleSeen /\ Move("drained", "drain") /\ UNCHANGED idleReport
    /\ UNCHANGED <<failed, idleSeen, line, samplerVars, eventVars, wireVars, history>>

Expire ==
    /\ Move("drain", "returned")
    /\ UNCHANGED <<failed, idleSeen, idleReport, line, samplerVars, eventVars, wireVars, history>>

Main ==
    \/ Start \/ AwaitSampler \/ GiveUp \/ GiveUpJoin
    \/ Open \/ Response \/ Observe \/ Read
    \/ Close \/ StopSampler \/ Join
    \/ Sample \/ UseSample \/ Expire

-----------------------------------------------------------------------------
(* The external server, as in DualStream but for one slot                   *)

Accept == slot = "pending" /\ slot' = "busy" /\ UNCHANGED event

Emit ==
    /\ slot = "busy" /\ event = "none"
    /\ event' \in Events
    /\ UNCHANGED slot

Finish == slot = "busy" /\ event # "none" /\ slot' = "released" /\ UNCHANGED event

NoticeClose == slot = "busy" /\ client = "closed" /\ slot' = "released" /\ UNCHANGED event

Server ==
    /\ Accept \/ Emit \/ Finish \/ NoticeClose
    /\ UNCHANGED <<mainVars, samplerVars, eventVars, client, history>>

AllOver ==
    /\ pc \in Ended
    /\ spc \in {"unstarted", "done"}
    /\ UNCHANGED vars

Next == Main \/ Sampler \/ Server \/ AllOver

(* The threads are scheduled; the polling loop ends by time.monotonic(); a  *)
(* sampler that goes round its loop for ever sees the stop event, and the   *)
(* server notices that its client is gone.                                  *)
Fairness ==
    /\ WF_vars(Main) /\ SF_vars(Expire)
    /\ WF_vars(Sampler)
    /\ WF_vars(Server /\ NoticeClose)

Spec == Init /\ [][Next]_vars

FairSpec == Spec /\ Fairness

-----------------------------------------------------------------------------
(* Properties                                                               *)

(* A returned report is final and true.  The sampler that could still set   *)
(* active_processing_observed has ended, whatever it was waiting for when   *)
(* the caller told it to stop; what is said of the first event is what the  *)
(* server sent, and the client disconnected only after it had read it; and  *)
(* a slot that is reported idle is not busy with this request any more.     *)
ReportTruthful ==
    pc = "returned" =>
        /\ spc = "done" /\ ~failed
        /\ line = event /\ event # "none" /\ client = "closed" /\ ~early
        /\ idleReport => slot = "released"

(* A call that returns or raises leaves nothing behind: the sampler stops,  *)
(* the stream is closed and the slot comes free.                            *)
Quiesces ==
    <>[](/\ pc \in Ended
         /\ spc \in {"unstarted", "done"}
         /\ client # "open"
         /\ slot # "busy")

(* docs/ARCHITECTURE.md, "Trust boundaries": the lane requires a concurrent *)
(* /slots observation before the first event is read.                       *)
ObservedBeforeFirstEvent == pc = "returned" /\ active => ~readFirst

(* The promise of DisconnectPromise, for a single client.                   *)
Outcome == CASE pc = "returned" -> "report"
             [] pc = "raised" -> "error"
             [] OTHER -> "pending"

Promise == INSTANCE DisconnectPromise WITH
    Clients <- {"client"},
    received <- IF line = "none" THEN {} ELSE {"client"},
    gone <- IF client = "closed" THEN {"client"} ELSE {},
    early <- early, outcome <- Outcome

KeepsPromise == Promise!PromiseSpec
=============================================================================
