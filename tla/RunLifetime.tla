----------------------------- MODULE RunLifetime -----------------------------
(***************************************************************************)
(* runner.run_scenarios as the owner of two server lifetimes: the lock is  *)
(* resolved, a temporary directory made and a runtime extracted in it; the *)
(* first server answers the calls of the five lanes, the second those of   *)
(* the restart; each is chosen a port before it is launched, and anybody   *)
(* may listen on that port before the server does, or after it.            *)
(*                                                                         *)
(* What the calls are is Scenarios' business, how a server is started and  *)
(* stopped is ServerProcess'; here each server is a ServerPromise, which   *)
(* ServerProcess is checked to implement, and a call is who answers it.    *)
(***************************************************************************)
EXTENDS Naturals

CONSTANTS
    Ports,        \* the loopback ports the system hands out
    CallsOfBody   \* bound: the calls in the body of each with statement

ASSUME CallsOfBodyAssumption == CallsOfBody \in Nat \ {0}

VARIABLES
    pc,          \* where run_scenarios is
    raising,     \* an exception passes through it
    directory,   \* the temporary directory: "none", "present" or "removed"
    port,        \* self.port of each ServerProcess, "none" before its making
    listener,    \* who listens on each port
    calls,       \* the calls answered in the present body
    answeredBy,  \* history: who answered the calls of each server's client
    confirmed,   \* process_restart_confirmed
    wholeGroup,  \* POSIX: stop() looks for the whole process group
    phase1, running1, family1, found1,   \* the first server
    phase2, running2, family2, found2    \* the second

first == <<phase1, running1, family1, found1, wholeGroup>>
second == <<phase2, running2, family2, found2, wholeGroup>>
runner == <<raising, directory, port, calls, answeredBy, confirmed>>
vars == <<pc, runner, listener, first, second>>

First == INSTANCE ServerPromise WITH
    phase <- phase1, running <- running1, family <- family1, found <- found1
Second == INSTANCE ServerPromise WITH
    phase <- phase2, running <- running2, family <- family2, found <- found2

Servers == {"one", "two"}
Ended == {"returned", "raised"}

Phase == [one |-> phase1, two |-> phase2]
Running == [one |-> running1, two |-> running2]

Phases == {"new", "starting", "up", "stopping", "givingUp"} \cup First!Ended

TypeOK ==
    /\ pc \in {"prepare", "makeFirst", "first", "hashBefore", "makeSecond",
               "second", "hashAfter", "build", "leave"} \cup Ended
    /\ raising \in BOOLEAN /\ confirmed \in BOOLEAN
    /\ directory \in {"none", "present", "removed"}
    /\ port \in [Servers -> Ports \cup {"none"}]
    /\ listener \in [Ports -> Servers \cup {"nobody", "stranger"}]
    /\ calls \in 0 .. CallsOfBody
    /\ answeredBy \in [Servers -> SUBSET (Servers \cup {"stranger"})]
    /\ phase1 \in Phases /\ phase2 \in Phases
    /\ running1 \in BOOLEAN /\ family1 \in BOOLEAN /\ found1 \in BOOLEAN
    /\ running2 \in BOOLEAN /\ family2 \in BOOLEAN /\ found2 \in BOOLEAN
    /\ wholeGroup \in BOOLEAN

Init ==
    /\ pc = "prepare" /\ raising = FALSE /\ directory = "none"
    /\ port = [s \in Servers |-> "none"]
    /\ listener = [p \in Ports |-> "nobody"]
    /\ calls = 0
    /\ answeredBy = [s \in Servers |-> {}]
    /\ confirmed = FALSE
    /\ First!Init /\ Second!Init

-----------------------------------------------------------------------------
(* The system                                                               *)

(* A process that ends gives up the port that it listens on.                *)
Without(s) == [p \in Ports |-> IF listener[p] = s THEN "nobody" ELSE listener[p]]

(* The server listens on its port if nobody else does (else it exits).      *)
Listen(s) ==
    /\ Running[s] /\ listener[port[s]] = "nobody"
    /\ listener' = [listener EXCEPT ![port[s]] = s]
    /\ UNCHANGED <<pc, runner, first, second>>

StrangerListens(p) ==
    /\ listener[p] = "nobody"
    /\ listener' = [listener EXCEPT ![p] = "stranger"]
    /\ UNCHANGED <<pc, runner, first, second>>

StrangerLeaves(p) ==
    /\ listener[p] = "stranger"
    /\ listener' = [listener EXCEPT ![p] = "nobody"]
    /\ UNCHANGED <<pc, runner, first, second>>

ServerDies ==
    \/ First!Die /\ listener' = Without("one") /\ UNCHANGED <<pc, runner, second>>
    \/ Second!Die /\ listener' = Without("two") /\ UNCHANGED <<pc, runner, first>>

FamilyMoves ==
    \/ (First!Spawn \/ First!FamilyDies) /\ UNCHANGED <<pc, runner, listener, second>>
    \/ (Second!Spawn \/ Second!FamilyDies) /\ UNCHANGED <<pc, runner, listener, first>>

System ==
    \/ \E s \in Servers : Listen(s)
    \/ \E p \in Ports : StrangerListens(p) \/ StrangerLeaves(p)
    \/ ServerDies \/ FamilyMoves

-----------------------------------------------------------------------------
(* run_scenarios                                                            *)

Fail(at) == pc' = at /\ raising' = TRUE

(* The lock, the temporary directory and the fresh runtime.                 *)
Prepare ==
    /\ pc = "prepare"
    /\ \/ Fail("raised") /\ UNCHANGED directory
       \/ Fail("leave") /\ directory' = "present"
       \/ pc' = "makeFirst" /\ directory' = "present" /\ UNCHANGED raising
    /\ UNCHANGED <<port, calls, answeredBy, confirmed, listener, first, second>>

(* ServerProcess(): a port that is free at this moment; the probe is closed *)
(* at once, so nothing holds it for the server.                             *)
Make(s, at, next) ==
    /\ pc = at
    /\ \/ /\ \E p \in Ports : listener[p] = "nobody" /\ port' = [port EXCEPT ![s] = p]
          /\ pc' = next
          /\ UNCHANGED raising
       \/ Fail("leave") /\ UNCHANGED port
    /\ UNCHANGED <<directory, calls, answeredBy, confirmed, listener, first, second>>

(* Any listener may answer GET /health as a server that is ready does, and  *)
(* any other request as well: the key in it tells the server who asks, and  *)
(* nothing in an answer tells the client who answers.                       *)
Answered(s) == listener[port[s]] # "nobody"

(* A call of the body is answered, or raises.                               *)
CallServer(s) ==
    /\ Phase[s] = "up" /\ ~raising /\ calls < CallsOfBody
    /\ \/ /\ Answered(s)
          /\ calls' = calls + 1
          /\ answeredBy' = [answeredBy EXCEPT ![s] = @ \cup {listener[port[s]]}]
          /\ UNCHANGED raising
       \/ raising' = TRUE /\ UNCHANGED <<calls, answeredBy>>
    /\ UNCHANGED <<pc, directory, port, confirmed, listener, first, second>>

(* Mutation of BodyOver: an exception does not end the body.                *)
BodyOverQuietly == calls = CallsOfBody

(* The with statement stops the server however its body ends.               *)
BodyOver == raising \/ calls = CallsOfBody

FirstServer ==
    /\ pc = "first"
    /\ \/ First!Launch \/ First!GiveUp \/ First!Abandon \/ First!Stopping
       \/ Answered("one") /\ First!Ready
       \/ BodyOver /\ First!Leave
    /\ UNCHANGED <<pc, runner, listener, second>>

SecondServer ==
    /\ pc = "second"
    /\ \/ Second!Launch \/ Second!GiveUp \/ Second!Abandon \/ Second!Stopping
       \/ Answered("two") /\ Second!Ready
       \/ BodyOver /\ Second!Leave
    /\ UNCHANGED <<pc, runner, listener, first>>

(* self.process of a server whose stop() has returned                       *)
Forgotten(s) == Phase[s] \in {"new", "stopped", "failed"}

(* Mutation of EndsWell: what stop() raises is suppressed.                  *)
EndsWellAnyway(s) == Phase[s] \in {"stopped", "stuck"} /\ ~raising

(* The with statement is left without an exception.                         *)
EndsWell(s) == Phase[s] = "stopped" /\ ~raising

(* Mutation of FirstOver: the with statement is left without its stop().    *)
FirstOverUnstopped ==
    /\ pc = "first" /\ Phase["one"] \in First!Ended \cup {"up"}
    /\ \/ EndsWell("one") /\ pc' = "hashBefore" /\ calls' = 0 /\ UNCHANGED raising
       \/ ~EndsWell("one") /\ Fail("leave") /\ UNCHANGED calls
    /\ confirmed' = Forgotten("one")
    /\ UNCHANGED <<directory, port, answeredBy, listener, first, second>>

FirstOver ==
    /\ pc = "first" /\ Phase["one"] \in First!Ended
    /\ \/ /\ EndsWell("one")
          /\ pc' = "hashBefore" /\ calls' = 0
          /\ confirmed' = Forgotten("one")
          /\ UNCHANGED raising
       \/ ~EndsWell("one") /\ Fail("leave") /\ UNCHANGED <<calls, confirmed>>
    /\ UNCHANGED <<directory, port, answeredBy, listener, first, second>>

SecondOver ==
    /\ pc = "second" /\ Phase["two"] \in Second!Ended
    /\ \/ /\ EndsWell("two")
          /\ pc' = "hashAfter"
          /\ confirmed' = (confirmed /\ Forgotten("two"))
          /\ UNCHANGED raising
       \/ ~EndsWell("two") /\ Fail("leave") /\ UNCHANGED confirmed
    /\ UNCHANGED <<directory, port, calls, answeredBy, listener, first, second>>

(* The saved slot state is a regular file, is measured and hashed; at the   *)
(* end the trace is compared, the evidence built and its invariants hold.   *)
Plain(at, next) ==
    /\ pc = at
    /\ (pc' = next /\ UNCHANGED raising) \/ Fail("leave")
    /\ UNCHANGED <<directory, port, calls, answeredBy, confirmed, listener, first, second>>

(* The end of TemporaryDirectory: it may fail while a server is using it.   *)
Survivor == \E s \in Servers : Running[s]

LeaveDirectory ==
    /\ pc = "leave"
    /\ \/ directory' = "removed" /\ pc' = IF raising THEN "raised" ELSE "returned"
       \/ Survivor /\ pc' = "raised" /\ UNCHANGED directory
    /\ UNCHANGED <<raising, port, calls, answeredBy, confirmed, listener, first, second>>

Runner ==
    \/ Prepare
    \/ Make("one", "makeFirst", "first") \/ Make("two", "makeSecond", "second")
    \/ \E s \in Servers : CallServer(s)
    \/ FirstServer \/ SecondServer \/ FirstOver \/ SecondOver
    \/ Plain("hashBefore", "makeSecond") \/ Plain("hashAfter", "build")
    \/ Plain("build", "leave")
    \/ LeaveDirectory

Next == Runner \/ System

(* The runner is a sequential program whose every wait has a time limit.    *)
Spec == Init /\ [][Next]_vars /\ WF_vars(Runner)

-----------------------------------------------------------------------------
(* Properties                                                               *)

(* process_restart_confirmed cannot be false where it is computed (the      *)
(* handle has just been cleared), so what it tells a reader rests on stop():*)
(* from the moment the first hash is taken the first server has exited,     *)
(* and what stop() undertook to end with it, while the second server runs.  *)
RestartIsReal ==
    confirmed \/ pc \in {"hashBefore", "makeSecond", "second"} =>
        ~running1 /\ (found1 /\ wholeGroup => ~family1)

(* What was asked after the restart is never answered by the process before *)
(* it, and evidence is only returned when both bodies had answers: although *)
(* anybody may listen on a port between its choice and the server's         *)
(* listening, both servers may be given one port, and any listener can      *)
(* answer, the first server is gone before the second is asked, and an      *)
(* exception of a body is never lost on its way out.                        *)
ServersAreKeptApart ==
    /\ "one" \notin answeredBy["two"]
    /\ pc = "returned" => \A s \in Servers : answeredBy[s] # {}

(* run_scenarios leaves a server running, in a directory that it removes,   *)
(* only when an exception went through start() without its stop(), or       *)
(* through stop(); it never does when it returns.                           *)
SurvivorsHaveAReason ==
    pc \in Ended => \A s \in Servers :
        Running[s] => pc = "raised" /\ Phase[s] \in {"abandoned", "stuck"}

(* run_scenarios comes to an end, whoever listens and whatever crashes.     *)
RunEnds == <>(pc \in Ended)
=============================================================================
