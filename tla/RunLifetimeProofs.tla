-------------------------- MODULE RunLifetimeProofs --------------------------
(***************************************************************************)
(* Proofs about RunLifetime for any set of ports and any number of calls   *)
(* in a body: its types, the inductive invariant behind its three safety   *)
(* invariants, and those invariants.                                       *)
(***************************************************************************)
EXTENDS RunLifetime, TLAPS

Busy == {"starting", "up", "stopping", "givingUp"}

(* Where run_scenarios is when a with statement has ended without an        *)
(* exception, for the first server and for the second.                      *)
AfterFirst ==
    pc \in {"hashBefore", "makeSecond", "second", "hashAfter", "build", "returned"}
      \/ (pc = "leave" /\ ~raising)

AfterSecond == pc \in {"hashAfter", "build", "returned"} \/ (pc = "leave" /\ ~raising)

(* What a server's phase says of its process, as ServerPromise promises it. *)
GoneInv(phase, running, family, found) ==
    /\ phase \in {"new", "stopped", "failed"} => ~running
    /\ phase = "stopped" => (found /\ wholeGroup => ~family)

ServersInv ==
    /\ GoneInv(phase1, running1, family1, found1)
    /\ GoneInv(phase2, running2, family2, found2)

(* Which with statement run_scenarios is in when a server is not idle, and  *)
(* how the servers it is done with have ended.                              *)
PlaceInv ==
    /\ pc \in {"prepare", "makeFirst"} => phase1 = "new"
    /\ pc \in {"prepare", "makeFirst", "first", "hashBefore", "makeSecond"} =>
          phase2 = "new"
    /\ phase1 \in Busy => pc = "first"
    /\ phase2 \in Busy => pc = "second"
    /\ AfterFirst => phase1 = "stopped"
    /\ AfterSecond => phase2 = "stopped"
    /\ raising => pc \in {"first", "second", "leave", "raised"}
    /\ confirmed => phase1 = "stopped"

(* A server has been given a port when it is launched.                      *)
PortInv ==
    /\ phase1 # "new" \/ pc = "first" => port["one"] \in Ports
    /\ phase2 # "new" \/ pc = "second" => port["two"] \in Ports

(* Only a running server listens.                                           *)
ListenInv == \A p \in Ports : listener[p] \in Servers => Running[listener[p]]

(* A with statement that ended without an exception has had all its calls   *)
(* answered, those of the second by somebody else than the first server.    *)
CallsInv ==
    /\ "one" \notin answeredBy["two"]
    /\ pc \in {"prepare", "makeFirst", "hashBefore", "makeSecond"} => calls = 0
    /\ pc = "first" /\ calls > 0 => answeredBy["one"] # {}
    /\ pc = "second" /\ calls > 0 => answeredBy["two"] # {}
    /\ pc = "first" /\ phase1 \in {"stopping", "stopped"} /\ ~raising =>
          calls = CallsOfBody
    /\ pc = "second" /\ phase2 \in {"stopping", "stopped"} /\ ~raising =>
          calls = CallsOfBody
    /\ AfterFirst => answeredBy["one"] # {}
    /\ AfterSecond => answeredBy["two"] # {}

IInv == TypeOK /\ PortInv /\ ServersInv /\ PlaceInv /\ ListenInv /\ CallsInv

-----------------------------------------------------------------------------
(* Types                                                                    *)

(* The types hold at the start.                                             *)
LEMMA InitTypeOK == Init => TypeOK
<1>. SUFFICES ASSUME Init PROVE TypeOK
  OBVIOUS
<1>1. /\ port \in [Servers -> Ports \cup {"none"}]
      /\ listener \in [Ports -> Servers \cup {"nobody", "stranger"}]
      /\ answeredBy \in [Servers -> SUBSET (Servers \cup {"stranger"})]
  BY DEF Init
<1>2. calls \in 0 .. CallsOfBody
  BY CallsOfBodyAssumption DEF Init
<1>3. QED
  BY <1>1, <1>2 DEF Init, TypeOK, Phases, First!Init, Second!Init

(* Every step keeps the types: one step of the proof per action.            *)
LEMMA NextTypeOK == TypeOK /\ PortInv /\ [Next]_vars => TypeOK'
<1>. SUFFICES ASSUME TypeOK, PortInv, [Next]_vars PROVE TypeOK'
  OBVIOUS
<1>. USE DEF TypeOK, first, second, runner
<1>1. ASSUME NEW s \in Servers, Listen(s) PROVE TypeOK'
  <2>1. listener' \in [Ports -> Servers \cup {"nobody", "stranger"}]
    BY <1>1 DEF Listen
  <2>2. UNCHANGED <<pc, runner, first, second>>
    BY <1>1 DEF Listen
  <2>3. QED
    BY <2>1, <2>2
<1>2. ASSUME NEW p \in Ports, StrangerListens(p) \/ StrangerLeaves(p) PROVE TypeOK'
  BY <1>2 DEF StrangerListens, StrangerLeaves
<1>3. CASE ServerDies
  <2>1. running1' \in BOOLEAN /\ running2' \in BOOLEAN
    BY <1>3 DEF ServerDies, First!Die, Second!Die
  <2>2. listener' \in [Ports -> Servers \cup {"nobody", "stranger"}]
    BY <1>3 DEF ServerDies, Without
  <2>3. UNCHANGED <<pc, runner, wholeGroup, phase1, family1, found1, phase2, family2, found2>>
    BY <1>3 DEF ServerDies, First!Die, Second!Die
  <2>4. QED
    BY <2>1, <2>2, <2>3
<1>4. CASE FamilyMoves
  <2>1. family1' \in BOOLEAN /\ family2' \in BOOLEAN
    BY <1>4 DEF FamilyMoves, First!Spawn, Second!Spawn, First!FamilyDies,
      Second!FamilyDies
  <2>2. UNCHANGED <<pc, runner, listener, wholeGroup, phase1, running1, found1,
                    phase2, running2, found2>>
    BY <1>4 DEF FamilyMoves, First!Spawn, Second!Spawn, First!FamilyDies,
      Second!FamilyDies
  <2>3. QED
    BY <2>1, <2>2
<1>5. CASE Prepare
  <2>1. raising' \in BOOLEAN
    BY <1>5 DEF Prepare, Fail
  <2>2. pc' \in {"raised", "leave", "makeFirst"} /\ directory' \in {"none", "present", "removed"}
    BY <1>5 DEF Prepare, Fail
  <2>3. UNCHANGED <<port, calls, answeredBy, confirmed, listener, first, second>>
    BY <1>5 DEF Prepare
  <2>4. QED
    BY <2>1, <2>2, <2>3 DEF Ended
<1>6. CASE Make("one", "makeFirst", "first")
  <2>1. raising' \in BOOLEAN
    BY <1>6 DEF Make, Fail
  <2>2. pc' \in {"first", "leave"} /\ port' \in [Servers -> Ports \cup {"none"}]
    BY <1>6 DEF Make, Fail
  <2>3. UNCHANGED <<directory, calls, answeredBy, confirmed, listener, first, second>>
    BY <1>6 DEF Make
  <2>4. QED
    BY <2>1, <2>2, <2>3
<1>7. CASE Make("two", "makeSecond", "second")
  <2>1. raising' \in BOOLEAN
    BY <1>7 DEF Make, Fail
  <2>2. pc' \in {"second", "leave"} /\ port' \in [Servers -> Ports \cup {"none"}]
    BY <1>7 DEF Make, Fail
  <2>3. UNCHANGED <<directory, calls, answeredBy, confirmed, listener, first, second>>
    BY <1>7 DEF Make
  <2>4. QED
    BY <2>1, <2>2, <2>3
<1>8. ASSUME NEW s \in Servers, CallServer(s) PROVE TypeOK'
  <2>1. raising' \in BOOLEAN
    BY <1>8 DEF CallServer
  <2>2. calls' \in 0 .. CallsOfBody
    BY <1>8, CallsOfBodyAssumption DEF CallServer
  <2>3. answeredBy' \in [Servers -> SUBSET (Servers \cup {"stranger"})]
    <3>1. CASE UNCHANGED answeredBy
      BY <3>1
    <3>2. CASE Answered(s) /\ answeredBy' = [answeredBy EXCEPT ![s] = @ \cup {listener[port[s]]}]
      <4>1. port[s] \in Ports /\ listener[port[s]] \in Servers \cup {"stranger"}
        BY <1>8, <3>2 DEF Answered, CallServer, Phase, Servers, PortInv
      <4>2. QED
        BY <3>2, <4>1
    <3>3. QED
      BY <1>8, <3>1, <3>2 DEF CallServer
  <2>4. UNCHANGED <<pc, directory, port, confirmed, listener, first, second>>
    BY <1>8 DEF CallServer
  <2>5. QED
    BY <2>1, <2>2, <2>3, <2>4
<1>9. CASE FirstServer
  <2>1. phase1' \in Phases
    BY <1>9 DEF FirstServer, First!Launch, First!GiveUp, First!Abandon, First!Stopping,
      First!FindRunning,
      First!Stop, First!Stick, First!Ready, First!Leave, Phases, First!Ended
  <2>2. running1' \in BOOLEAN /\ found1' \in BOOLEAN
    BY <1>9 DEF FirstServer, First!Launch, First!GiveUp, First!Abandon, First!Stopping,
      First!FindRunning,
      First!Stop, First!Stick, First!Ready, First!Leave
  <2>3. UNCHANGED <<pc, runner, listener, family1, wholeGroup, second>>
    BY <1>9 DEF FirstServer, First!Launch, First!GiveUp, First!Abandon, First!Stopping,
      First!FindRunning,
      First!Stop, First!Stick, First!Ready, First!Leave
  <2>4. QED
    BY <2>1, <2>2, <2>3
<1>10. CASE SecondServer
  <2>1. phase2' \in Phases
    BY <1>10 DEF SecondServer, Second!Launch, Second!GiveUp, Second!Abandon,
      Second!Stopping, Second!FindRunning,
      Second!Stop, Second!Stick, Second!Ready, Second!Leave, Phases, First!Ended
  <2>2. running2' \in BOOLEAN /\ found2' \in BOOLEAN
    BY <1>10 DEF SecondServer, Second!Launch, Second!GiveUp, Second!Abandon,
      Second!Stopping, Second!FindRunning,
      Second!Stop, Second!Stick, Second!Ready, Second!Leave
  <2>3. UNCHANGED <<pc, runner, listener, family2, wholeGroup, first>>
    BY <1>10 DEF SecondServer, Second!Launch, Second!GiveUp, Second!Abandon,
      Second!Stopping, Second!FindRunning,
      Second!Stop, Second!Stick, Second!Ready, Second!Leave
  <2>4. QED
    BY <2>1, <2>2, <2>3
<1>11. CASE FirstOver
  <2>1. raising' \in BOOLEAN /\ confirmed' \in BOOLEAN
    <3>1. CASE ~EndsWell("one")
      BY <1>11, <3>1 DEF FirstOver, Fail
    <3>2. CASE EndsWell("one")
      <4>1. confirmed' = Forgotten("one") /\ UNCHANGED raising
        BY <1>11, <3>2 DEF FirstOver
      <4>2. Forgotten("one") \in BOOLEAN
        BY DEF Forgotten
      <4>3. QED
        BY <4>1, <4>2
    <3>3. QED
      BY <3>1, <3>2
  <2>2. pc' \in {"hashBefore", "leave"}
    BY <1>11 DEF FirstOver, Fail
  <2>3. calls' \in 0 .. CallsOfBody
    <3>1. calls' = 0 \/ calls' = calls
      BY <1>11 DEF FirstOver
    <3>2. QED
      BY <3>1, CallsOfBodyAssumption
  <2>4. UNCHANGED <<directory, port, answeredBy, listener, first, second>>
    BY <1>11 DEF FirstOver
  <2>5. QED
    BY <2>1, <2>2, <2>3, <2>4
<1>12. CASE SecondOver
  <2>1. raising' \in BOOLEAN /\ confirmed' \in BOOLEAN
    BY <1>12 DEF SecondOver, Fail, Forgotten
  <2>2. pc' \in {"hashAfter", "leave"}
    BY <1>12 DEF SecondOver, Fail
  <2>3. UNCHANGED <<directory, port, calls, answeredBy, listener, first, second>>
    BY <1>12 DEF SecondOver
  <2>4. QED
    BY <2>1, <2>2, <2>3
<1>13. CASE \/ Plain("hashBefore", "makeSecond") \/ Plain("hashAfter", "build")
            \/ Plain("build", "leave")
  <2>1. raising' \in BOOLEAN
    BY <1>13 DEF Plain, Fail
  <2>2. pc' \in {"makeSecond", "build", "leave"}
    BY <1>13 DEF Plain, Fail
  <2>3. UNCHANGED <<directory, port, calls, answeredBy, confirmed, listener, first, second>>
    BY <1>13 DEF Plain
  <2>4. QED
    BY <2>1, <2>2, <2>3
<1>14. CASE LeaveDirectory
  BY <1>14 DEF LeaveDirectory, Ended
<1>15. CASE UNCHANGED vars
  BY <1>15 DEF vars
<1>16. QED
  BY <1>1, <1>2, <1>3, <1>4, <1>5, <1>6, <1>7, <1>8, <1>9, <1>10, <1>11, <1>12, <1>13,
    <1>14, <1>15 DEF Next, Runner, System

-----------------------------------------------------------------------------
(* The inductive invariant                                                  *)

(* A port is chosen before the with statement is entered, and kept.         *)
LEMMA PortInvStep == TypeOK /\ PortInv /\ [Next]_vars => PortInv'
<1>. SUFFICES ASSUME TypeOK, PortInv, [Next]_vars PROVE PortInv'
  OBVIOUS
<1>. USE DEF PortInv, first, second, runner
<1>1. CASE UNCHANGED <<pc, port, phase1, phase2>>
  BY <1>1
<1>2. CASE Make("one", "makeFirst", "first") \/ Make("two", "makeSecond", "second")
  BY <1>2 DEF Make, Fail, TypeOK, Servers
<1>3. CASE FirstServer \/ SecondServer
  <2>1. UNCHANGED <<pc, port>>
    BY <1>3 DEF FirstServer, SecondServer
  <2>2. /\ phase1' # phase1 => pc = "first"
        /\ phase2' # phase2 => pc = "second"
    BY <1>3 DEF FirstServer, SecondServer
  <2>3. QED
    BY <2>1, <2>2
<1>4. CASE Prepare \/ FirstOver \/ SecondOver \/ LeaveDirectory
  BY <1>4 DEF Prepare, Fail, FirstOver, SecondOver, LeaveDirectory
<1>5. CASE \/ Plain("hashBefore", "makeSecond") \/ Plain("hashAfter", "build")
           \/ Plain("build", "leave")
  BY <1>5 DEF Plain, Fail
<1>6. QED
  BY <1>1, <1>2, <1>3, <1>4, <1>5
  DEF Next, Runner, System, Listen, StrangerListens, StrangerLeaves, ServerDies,
    FamilyMoves, First!Die, Second!Die, First!Spawn, Second!Spawn, First!FamilyDies,
    Second!FamilyDies, CallServer, vars

(* ServersInv is what each ServerPromise keeps by itself.                   *)
LEMMA ServersInvStep == TypeOK /\ ServersInv /\ [Next]_vars => ServersInv'
<1>. SUFFICES ASSUME TypeOK, ServersInv, [Next]_vars PROVE ServersInv'
  OBVIOUS
<1>. USE DEF ServersInv, GoneInv, first, second, runner
<1>1. CASE UNCHANGED <<first, second>>
  BY <1>1
<1>2. CASE ServerDies
  BY <1>2 DEF ServerDies, First!Die, Second!Die
<1>3. CASE FamilyMoves
  BY <1>3 DEF FamilyMoves, First!Spawn, Second!Spawn, First!FamilyDies,
    Second!FamilyDies
<1>4. CASE FirstServer
  BY <1>4 DEF FirstServer, First!Launch, First!GiveUp, First!Abandon, First!Stopping,
    First!FindRunning, First!Stop, First!Stick, First!Ready, First!Leave
<1>5. CASE SecondServer
  BY <1>5 DEF SecondServer, Second!Launch, Second!GiveUp, Second!Abandon,
    Second!Stopping, Second!FindRunning, Second!Stop, Second!Stick, Second!Ready,
    Second!Leave
<1>6. QED
  BY <1>1, <1>2, <1>3, <1>4, <1>5 DEF Next, Runner, System, Listen, StrangerListens,
    StrangerLeaves, Prepare, Make, CallServer, FirstOver, SecondOver, Plain,
    LeaveDirectory, vars

(* A server changes its phase only in its own with statement.               *)
LEMMA PlaceInvStep == TypeOK /\ PlaceInv /\ [Next]_vars => PlaceInv'
<1>. SUFFICES ASSUME TypeOK, PlaceInv, [Next]_vars PROVE PlaceInv'
  OBVIOUS
<1>. USE DEF PlaceInv, AfterFirst, AfterSecond, Busy, first, second, runner
<1>1. CASE UNCHANGED <<pc, raising, confirmed, phase1, phase2>>
  BY <1>1
<1>2. CASE Prepare
  BY <1>2 DEF Prepare, Fail
<1>3. CASE Make("one", "makeFirst", "first") \/ Make("two", "makeSecond", "second")
  BY <1>3 DEF Make, Fail
<1>4. ASSUME NEW s \in Servers, CallServer(s) PROVE PlaceInv'
  BY <1>4 DEF CallServer, Servers, Phase
<1>5. CASE FirstServer
  BY <1>5 DEF FirstServer, First!Launch, First!GiveUp, First!Abandon, First!Stopping,
    First!FindRunning, First!Stop, First!Stick, First!Ready, First!Leave
<1>6. CASE SecondServer
  BY <1>6 DEF SecondServer, Second!Launch, Second!GiveUp, Second!Abandon,
    Second!Stopping, Second!FindRunning, Second!Stop, Second!Stick, Second!Ready,
    Second!Leave
<1>7. CASE FirstOver
  BY <1>7 DEF FirstOver, Fail, EndsWell, Phase, First!Ended
<1>8. CASE SecondOver
  BY <1>8 DEF SecondOver, Fail, EndsWell, Phase, Second!Ended
<1>9. CASE \/ Plain("hashBefore", "makeSecond") \/ Plain("hashAfter", "build")
           \/ Plain("build", "leave")
  BY <1>9 DEF Plain, Fail
<1>10. CASE LeaveDirectory
  BY <1>10 DEF LeaveDirectory
<1>11. QED
  BY <1>1, <1>2, <1>3, <1>4, <1>5, <1>6, <1>7, <1>8, <1>9, <1>10
  DEF Next, Runner, System, Listen, StrangerListens, StrangerLeaves, ServerDies,
    FamilyMoves, First!Die, Second!Die, First!Spawn, Second!Spawn, First!FamilyDies,
    Second!FamilyDies, vars

(* A process that ends gives up its port, and none listens before it runs.  *)
LEMMA ListenInvStep == TypeOK /\ ListenInv /\ [Next]_vars => ListenInv'
<1>. SUFFICES ASSUME TypeOK, ListenInv, [Next]_vars PROVE ListenInv'
  OBVIOUS
<1>. USE DEF ListenInv, Servers, Running, first, second, runner
<1>1. CASE UNCHANGED <<listener, running1, running2>>
  BY <1>1
<1>2. ASSUME NEW s \in Servers, Listen(s) PROVE ListenInv'
  BY <1>2 DEF Listen, TypeOK
<1>3. ASSUME NEW p \in Ports, StrangerListens(p) \/ StrangerLeaves(p) PROVE ListenInv'
  BY <1>3 DEF StrangerListens, StrangerLeaves, TypeOK
<1>4. CASE ServerDies
  BY <1>4 DEF ServerDies, First!Die, Second!Die, Without, TypeOK
<1>5. CASE FirstServer \/ SecondServer
  <2>1. UNCHANGED listener
    BY <1>5 DEF FirstServer, SecondServer
  <2>2. (running1 => running1') /\ (running2 => running2')
    BY <1>5 DEF FirstServer, First!Launch, First!GiveUp, First!Abandon, First!Stopping,
      First!FindRunning, First!Stop, First!Stick, First!Ready, First!Leave,
      SecondServer, Second!Launch, Second!GiveUp, Second!Abandon, Second!Stopping,
      Second!FindRunning, Second!Stop, Second!Stick, Second!Ready, Second!Leave
  <2>3. QED
    BY <2>1, <2>2
<1>6. QED
  BY <1>1, <1>2, <1>3, <1>4, <1>5
  DEF Next, Runner, System, FamilyMoves, First!Spawn, Second!Spawn, First!FamilyDies,
    Second!FamilyDies, Prepare, Make, CallServer, FirstOver, SecondOver, Plain,
    LeaveDirectory, vars

(* Calls are counted in the body that they belong to; the first server is   *)
(* gone when those of the second are answered.                              *)
LEMMA CallsInvStep ==
    TypeOK /\ PortInv /\ ServersInv /\ PlaceInv /\ ListenInv /\ CallsInv /\ [Next]_vars
      => CallsInv'
<1>. SUFFICES ASSUME TypeOK, PortInv, ServersInv, PlaceInv, ListenInv, CallsInv, [Next]_vars
              PROVE  CallsInv'
  OBVIOUS
<1>. USE CallsOfBodyAssumption
     DEF CallsInv, AfterFirst, AfterSecond, first, second, runner
<1>1. CASE UNCHANGED <<pc, raising, calls, answeredBy, phase1, phase2>>
  BY <1>1
<1>2. CASE Prepare
  BY <1>2 DEF Prepare, Fail, PlaceInv
<1>3. CASE Make("one", "makeFirst", "first") \/ Make("two", "makeSecond", "second")
  BY <1>3 DEF Make, Fail, PlaceInv
<1>4. ASSUME NEW s \in Servers, CallServer(s) PROVE CallsInv'
  <2>. DEFINE who == listener[port[s]]
  <2>1. /\ s = "one" => pc = "first" /\ phase1 = "up"
        /\ s = "two" => pc = "second" /\ phase2 = "up"
    BY <1>4 DEF CallServer, Phase, Servers, PlaceInv, Busy
  <2>2. CASE UNCHANGED <<calls, answeredBy>>
    BY <1>4, <2>1, <2>2 DEF CallServer, Servers, PlaceInv, Busy, TypeOK
  <2>3. CASE ~UNCHANGED <<calls, answeredBy>>
    <3>1. /\ calls' = calls + 1
          /\ answeredBy' = [answeredBy EXCEPT ![s] = @ \cup {who}]
          /\ UNCHANGED <<pc, raising, phase1, phase2>>
      BY <1>4, <2>3 DEF CallServer
    <3>2. ~(s = "two" /\ who = "one")
      <4>1. s = "two" => port[s] \in Ports /\ phase1 = "stopped"
        BY <2>1 DEF PortInv, PlaceInv, AfterFirst
      <4>2. s = "two" => ~running1
        BY <4>1 DEF ServersInv, GoneInv
      <4>3. QED
        BY <4>1, <4>2 DEF ListenInv, Servers, Running
    <3>3. "one" \notin answeredBy'["two"]
      BY <3>1, <3>2 DEF TypeOK, Servers
    <3>4. /\ answeredBy'[s] # {}
          /\ \A t \in Servers : answeredBy[t] # {} => answeredBy'[t] # {}
      BY <3>1 DEF TypeOK
    <3>5. QED
      BY <2>1, <3>1, <3>3, <3>4 DEF Servers, TypeOK
  <2>4. QED
    BY <2>2, <2>3
<1>5. CASE FirstServer
  BY <1>5 DEF FirstServer, First!Launch, First!GiveUp, First!Abandon, First!Stopping,
    First!FindRunning, First!Stop, First!Stick, First!Ready, First!Leave, BodyOver
<1>6. CASE SecondServer
  BY <1>6 DEF SecondServer, Second!Launch, Second!GiveUp, Second!Abandon,
    Second!Stopping, Second!FindRunning, Second!Stop, Second!Stick, Second!Ready,
    Second!Leave, BodyOver
<1>7. CASE FirstOver
  BY <1>7 DEF FirstOver, Fail, EndsWell, Phase, First!Ended, TypeOK
<1>8. CASE SecondOver
  BY <1>8 DEF SecondOver, Fail, EndsWell, Phase, Second!Ended, TypeOK
<1>9. CASE \/ Plain("hashBefore", "makeSecond") \/ Plain("hashAfter", "build")
           \/ Plain("build", "leave")
  BY <1>9 DEF Plain, Fail, PlaceInv
<1>10. CASE LeaveDirectory
  BY <1>10 DEF LeaveDirectory
<1>11. QED
  BY <1>1, <1>2, <1>3, <1>4, <1>5, <1>6, <1>7, <1>8, <1>9, <1>10
  DEF Next, Runner, System, Listen, StrangerListens, StrangerLeaves, ServerDies,
    FamilyMoves, First!Die, Second!Die, First!Spawn, Second!Spawn, First!FamilyDies,
    Second!FamilyDies, vars

(* The inductive invariant holds at the start.                              *)
LEMMA InitIInv == Init => IInv
BY InitTypeOK
DEF Init, IInv, PortInv, ServersInv, GoneInv, PlaceInv, ListenInv, AfterFirst,
  AfterSecond, Busy, CallsInv, Servers, First!Init, Second!Init

(* Every step keeps the inductive invariant.                                *)
LEMMA NextIInv == IInv /\ [Next]_vars => IInv'
BY NextTypeOK, PortInvStep, ServersInvStep, PlaceInvStep, ListenInvStep, CallsInvStep
DEF IInv

(* Every reachable state of run_scenarios satisfies the inductive invariant.*)
THEOREM Inductive == Spec => []IInv
BY InitIInv, NextIInv, PTL DEF Spec

-----------------------------------------------------------------------------
(* What run_scenarios relies on                                             *)

(* The variables of run_scenarios and of its servers keep their types.      *)
THEOREM TypesHold == Spec => []TypeOK
<1>1. IInv => TypeOK
  BY DEF IInv
<1>2. QED
  BY <1>1, Inductive, PTL

(* The evidence says that the process was restarted only when the first     *)
(* server has exited, with its whole group where stop() looks for it.       *)
THEOREM RestartsAreReal == Spec => []RestartIsReal
<1>1. IInv => RestartIsReal
  BY DEF IInv, RestartIsReal, ServersInv, GoneInv, PlaceInv, AfterFirst
<1>2. QED
  BY <1>1, Inductive, PTL

(* No answer after the restart comes from the process before it, and a run  *)
(* that returns has had answers to both bodies, whatever the number of      *)
(* ports and whoever else listens on them.                                  *)
THEOREM AnswersAreKeptApart == Spec => []ServersAreKeptApart
<1>1. IInv => ServersAreKeptApart
  BY DEF IInv, ServersAreKeptApart, CallsInv, AfterFirst, AfterSecond, Servers
<1>2. QED
  BY <1>1, Inductive, PTL

(* A server is left running only when an exception went through its start() *)
(* without a stop(), or through its stop().                                 *)
THEOREM SurvivorsAreExplained == Spec => []SurvivorsHaveAReason
<1>1. IInv => SurvivorsHaveAReason
  <2>. SUFFICES ASSUME IInv, pc \in Ended, NEW s \in Servers, Running[s]
                PROVE  pc = "raised" /\ Phase[s] \in {"abandoned", "stuck"}
    BY DEF SurvivorsHaveAReason
  <2>1. Phase[s] \in {"abandoned", "stuck"}
    BY DEF IInv, TypeOK, ServersInv, GoneInv, PlaceInv, Busy, Ended, Servers, Phase,
      Phases, First!Ended, Running
  <2>2. pc = "raised"
    BY <2>1 DEF IInv, PlaceInv, AfterFirst, AfterSecond, Ended, Servers, Phase
  <2>3. QED
    BY <2>1, <2>2
<1>2. QED
  BY <1>1, Inductive, PTL
=============================================================================
