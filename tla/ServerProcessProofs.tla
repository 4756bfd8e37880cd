------------------------- MODULE ServerProcessProofs -------------------------
(***************************************************************************)
(* Proofs about ServerProcess for any set of processes that the server may *)
(* spawn, on both platforms: its types, the inductive invariant behind its *)
(* safety invariants, those invariants, and that every step of the caller  *)
(* and of the operating system is one that ServerPromise allows.           *)
(***************************************************************************)
EXTENDS ServerProcess, TLAPS

OnPosix == {"term", "wait", "kill", "waitKilled", "check"}
OnWindows == {"tree", "handles", "taskkill", "waitRoot", "waitTree"}
BeforeStop == {"new", "poll", "health", "running"}

(* How far the caller is, and what it knows there.                          *)
PlaceInv ==
    /\ pc = "new" => alive = {} /\ zombies = {} /\ ~stranger
    /\ pc \in {"new", "stopped"} => ~handle
    /\ pc \notin {"new"} \cup Ended => handle
    /\ pc \in BeforeStop => ~raising
    /\ pc \in BeforeStop \cup {"stop"} => ~wasRunning
    /\ pc \in OnPosix => platform = "posix"
    /\ pc \in OnWindows => platform # "posix"

(* A child is spawned once: until then nothing of it exists, and what stop()*)
(* undertook to end is a process that has been spawned.                     *)
SpawnInv == \A c \in Children : parent[c] = c => c \notin Group \cup captured

(* The leader holds the number of its group until the caller reaps it.      *)
LeaderInv ==
    /\ Leader \in Group => ~stranger
    /\ pc \in {"term", "wait", "kill", "waitKilled"} => Leader \in Group
    /\ pc \in {"check", "waitTree", "clear", "stopped"} => Leader \notin alive
    /\ ~handle => Leader \notin alive

(* On Windows the handles are of the snapshot's running processes, and open *)
(* until the end of the wait.                                               *)
HandleInv ==
    /\ pc \in {"taskkill", "waitRoot", "waitTree"} => captured \cap alive \subseteq waitable
    /\ waitable # {} =>
          pc \in {"taskkill", "waitRoot", "waitTree", "leftBeforeWaits"}

(* From the check at its end on, stop() knows that what it found running is *)
(* gone.                                                                    *)
GoneInv ==
    wasRunning /\ (pc = "clear" \/ ~handle) =>
        /\ captured \cap alive = {}
        /\ platform = "posix" => alive = {}

IInv == TypeOK /\ PlaceInv /\ SpawnInv /\ LeaderInv /\ HandleInv /\ GoneInv

-----------------------------------------------------------------------------
(* Operators                                                                *)

(* A snapshot of the process tree holds the leader and running children.    *)
LEMMA TreeBound == Tree \subseteq Procs /\ Tree \subseteq {Leader} \cup (alive \cap Children)
<1>. DEFINE S == {Leader} \cup (alive \cap Children)
<1>1. S \in SUBSET Procs /\ ClosedTree(S)
  BY DEF Procs, ClosedTree
<1>2. QED
  BY <1>1 DEF Tree

-----------------------------------------------------------------------------
(* Types                                                                    *)

(* The types hold at the start.                                             *)
LEMMA InitTypeOK == Init => TypeOK
BY DEF Init, TypeOK, Pcs, Procs

(* Every step keeps the types: one step of the proof per action.            *)
LEMMA NextTypeOK == TypeOK /\ [Next]_vars => TypeOK'
<1>. SUFFICES ASSUME TypeOK, [Next]_vars PROVE TypeOK'
  OBVIOUS
<1>. USE DEF TypeOK, Pcs, osVars, stopVars
<1>1. CASE Launch
  <2>1. pc' \in Pcs
    BY <1>1 DEF Launch
  <2>2. alive' \in SUBSET Procs
    BY <1>1 DEF Launch, Procs
  <2>3. handle' \in BOOLEAN
    BY <1>1 DEF Launch
  <2>4. UNCHANGED <<platform, raising, zombies, doomed, parent, stranger, stopVars>>
    BY <1>1 DEF Launch
  <2>5. QED
    BY <2>1, <2>2, <2>3, <2>4
<1>2. CASE PollReady
  <2>1. pc' \in Pcs
    BY <1>2 DEF PollReady
  <2>2. zombies' \in SUBSET Procs
    BY <1>2 DEF PollReady, Reaped
  <2>3. raising' \in BOOLEAN
    BY <1>2 DEF PollReady
  <2>4. UNCHANGED <<platform, handle, alive, doomed, parent, stranger, stopVars>>
    BY <1>2 DEF PollReady
  <2>5. QED
    BY <2>1, <2>2, <2>3, <2>4
<1>3. CASE StartExpire
  BY <1>3 DEF StartExpire
<1>4. CASE Health
  BY <1>4 DEF Health
<1>5. CASE LeaveBody
  BY <1>5 DEF LeaveBody
<1>6. CASE StopPoll
  <2>1. pc' \in Pcs
    BY <1>6 DEF StopPoll
  <2>2. zombies' \in SUBSET Procs
    BY <1>6 DEF StopPoll, Reaped
  <2>3. wasRunning' \in BOOLEAN
    BY <1>6 DEF StopPoll
  <2>4. UNCHANGED <<platform, handle, raising, alive, doomed, parent, stranger, captured, waitable>>
    BY <1>6 DEF StopPoll
  <2>5. QED
    BY <2>1, <2>2, <2>3, <2>4
<1>7. CASE Terminate
  BY <1>7 DEF Terminate, Group
<1>8. CASE WaitLeader
  BY <1>8 DEF WaitLeader, Reaped
<1>9. CASE Kill
  BY <1>9 DEF Kill
<1>10. CASE CheckGroup
  BY <1>10 DEF CheckGroup
<1>11. CASE Snapshot
  BY <1>11, TreeBound DEF Snapshot
<1>12. CASE OpenHandles
  BY <1>12 DEF OpenHandles
<1>13. CASE Taskkill
  <2>1. pc' \in Pcs /\ doomed' \in SUBSET Procs /\ waitable' \in SUBSET Procs
    BY <1>13 DEF Taskkill
  <2>2. UNCHANGED <<platform, handle, raising, alive, zombies, parent, stranger, captured, wasRunning>>
    BY <1>13 DEF Taskkill
  <2>3. QED
    BY <2>1, <2>2
<1>14. CASE WaitRoot
  BY <1>14 DEF WaitRoot, Reaped
<1>15. CASE WaitTree
  BY <1>15 DEF WaitTree
<1>16. CASE Clear
  BY <1>16 DEF Clear
<1>17. CASE Spawn
  BY <1>17 DEF Spawn, Procs
<1>18. CASE ReuseNumber
  BY <1>18 DEF ReuseNumber
<1>19. ASSUME NEW p \in Procs, Exit(p) PROVE TypeOK'
  BY <1>19 DEF Exit
<1>20. ASSUME NEW c \in Children, ReapChild(c) PROVE TypeOK'
  BY <1>20 DEF ReapChild
<1>21. CASE UNCHANGED vars
  BY <1>21 DEF vars
<1>22. CASE Interrupt
  BY <1>22 DEF Interrupt
<1>23. QED
  BY <1>1, <1>2, <1>3, <1>4, <1>5, <1>6, <1>7, <1>8, <1>9, <1>10, <1>11, <1>12, <1>13,
    <1>14, <1>15, <1>16, <1>17, <1>18, <1>19, <1>20, <1>21, <1>22 DEF Next, Caller, System,
    AllOver

-----------------------------------------------------------------------------
(* The inductive invariant                                                  *)

(* start(), the body and stop() follow each other; POSIX and Windows part at*)
(* the poll of stop().                                                      *)
LEMMA PlaceInvStep == TypeOK /\ PlaceInv /\ [Next]_vars => PlaceInv'
<1>. SUFFICES ASSUME TypeOK, PlaceInv, [Next]_vars PROVE PlaceInv'
  OBVIOUS
<1>. USE DEF PlaceInv, BeforeStop, OnPosix, OnWindows, Ended, osVars, stopVars
<1>1. CASE Launch
  BY <1>1 DEF Launch
<1>2. CASE PollReady
  BY <1>2 DEF PollReady
<1>3. CASE StartExpire
  BY <1>3 DEF StartExpire
<1>4. CASE Health
  BY <1>4 DEF Health
<1>5. CASE LeaveBody
  BY <1>5 DEF LeaveBody
<1>6. CASE StopPoll
  BY <1>6 DEF StopPoll
<1>7. CASE Terminate
  BY <1>7 DEF Terminate
<1>8. CASE WaitLeader
  BY <1>8 DEF WaitLeader
<1>9. CASE Kill
  BY <1>9 DEF Kill
<1>10. CASE CheckGroup
  BY <1>10 DEF CheckGroup
<1>11. CASE Snapshot
  BY <1>11 DEF Snapshot
<1>12. CASE OpenHandles
  BY <1>12 DEF OpenHandles
<1>13. CASE Taskkill
  BY <1>13 DEF Taskkill
<1>14. CASE WaitRoot
  BY <1>14 DEF WaitRoot
<1>15. CASE WaitTree
  BY <1>15 DEF WaitTree
<1>16. CASE Clear
  BY <1>16 DEF Clear
<1>17. CASE Spawn
  BY <1>17 DEF Spawn
<1>18. CASE ReuseNumber
  BY <1>18 DEF ReuseNumber
<1>19. ASSUME NEW p \in Procs, Exit(p) PROVE PlaceInv'
  BY <1>19 DEF Exit
<1>20. ASSUME NEW c \in Children, ReapChild(c) PROVE PlaceInv'
  BY <1>20 DEF ReapChild
<1>21. CASE UNCHANGED vars
  BY <1>21 DEF vars
<1>22. CASE Interrupt
  BY <1>22 DEF Interrupt
<1>23. QED
  BY <1>1, <1>2, <1>3, <1>4, <1>5, <1>6, <1>7, <1>8, <1>9, <1>10, <1>11, <1>12, <1>13,
    <1>14, <1>15, <1>16, <1>17, <1>18, <1>19, <1>20, <1>21, <1>22 DEF Next, Caller, System,
    AllOver

(* Only Spawn starts a child, one that has not been spawned.                *)
LEMMA SpawnInvStep == TypeOK /\ PlaceInv /\ SpawnInv /\ [Next]_vars => SpawnInv'
<1>. SUFFICES ASSUME TypeOK, PlaceInv, SpawnInv, [Next]_vars PROVE SpawnInv'
  OBVIOUS
<1>. USE DEF TypeOK, SpawnInv, Group, osVars, stopVars
<1>1. CASE Launch
  BY <1>1, ProcsAssumption DEF Launch, PlaceInv
<1>2. CASE PollReady
  BY <1>2 DEF PollReady, Reaped
<1>3. CASE StartExpire
  BY <1>3 DEF StartExpire
<1>4. CASE Health
  BY <1>4 DEF Health
<1>5. CASE LeaveBody
  BY <1>5 DEF LeaveBody
<1>6. CASE StopPoll
  BY <1>6 DEF StopPoll, Reaped
<1>7. CASE Terminate
  BY <1>7 DEF Terminate
<1>8. CASE WaitLeader
  BY <1>8 DEF WaitLeader, Reaped
<1>9. CASE Kill
  BY <1>9 DEF Kill
<1>10. CASE CheckGroup
  BY <1>10 DEF CheckGroup
<1>11. CASE Snapshot
  BY <1>11, TreeBound, ProcsAssumption DEF Snapshot
<1>12. CASE OpenHandles
  BY <1>12 DEF OpenHandles
<1>13. CASE Taskkill
  BY <1>13 DEF Taskkill
<1>14. CASE WaitRoot
  BY <1>14 DEF WaitRoot, Reaped
<1>15. CASE WaitTree
  BY <1>15 DEF WaitTree
<1>16. CASE Clear
  BY <1>16 DEF Clear
<1>17. CASE Spawn
  BY <1>17 DEF Spawn
<1>18. CASE ReuseNumber
  BY <1>18 DEF ReuseNumber
<1>19. ASSUME NEW p \in Procs, Exit(p) PROVE SpawnInv'
  BY <1>19 DEF Exit, Procs
<1>20. ASSUME NEW c \in Children, ReapChild(c) PROVE SpawnInv'
  BY <1>20 DEF ReapChild
<1>21. CASE UNCHANGED vars
  BY <1>21 DEF vars
<1>22. CASE Interrupt
  BY <1>22 DEF Interrupt
<1>23. QED
  BY <1>1, <1>2, <1>3, <1>4, <1>5, <1>6, <1>7, <1>8, <1>9, <1>10, <1>11, <1>12, <1>13,
    <1>14, <1>15, <1>16, <1>17, <1>18, <1>19, <1>20, <1>21, <1>22 DEF Next, Caller, System,
    AllOver

(* The leader is launched into a number of its own, exits once and is       *)
(* reaped by the caller only.                                               *)
LEMMA LeaderInvStep == TypeOK /\ PlaceInv /\ LeaderInv /\ [Next]_vars => LeaderInv'
<1>. SUFFICES ASSUME TypeOK, PlaceInv, LeaderInv, [Next]_vars PROVE LeaderInv'
  OBVIOUS
<1>. USE DEF PlaceInv, BeforeStop, Ended, LeaderInv, Group, LeaderExited, Reaped,
  osVars, stopVars
<1>1. CASE Launch
  BY <1>1 DEF Launch
<1>2. CASE PollReady
  BY <1>2 DEF PollReady
<1>3. CASE StartExpire
  BY <1>3 DEF StartExpire
<1>4. CASE Health
  BY <1>4 DEF Health
<1>5. CASE LeaveBody
  BY <1>5 DEF LeaveBody
<1>6. CASE StopPoll
  BY <1>6 DEF StopPoll
<1>7. CASE Terminate
  BY <1>7 DEF Terminate
<1>8. CASE WaitLeader
  BY <1>8 DEF WaitLeader
<1>9. CASE Kill
  BY <1>9 DEF Kill
<1>10. CASE CheckGroup
  BY <1>10 DEF CheckGroup
<1>11. CASE Snapshot
  BY <1>11 DEF Snapshot
<1>12. CASE OpenHandles
  BY <1>12 DEF OpenHandles
<1>13. CASE Taskkill
  BY <1>13 DEF Taskkill
<1>14. CASE WaitRoot
  BY <1>14 DEF WaitRoot
<1>15. CASE WaitTree
  BY <1>15 DEF WaitTree
<1>16. CASE Clear
  BY <1>16 DEF Clear
<1>17. CASE Spawn
  BY <1>17, ProcsAssumption DEF Spawn
<1>18. CASE ReuseNumber
  BY <1>18 DEF ReuseNumber
<1>19. ASSUME NEW p \in Procs, Exit(p) PROVE LeaderInv'
  BY <1>19 DEF Exit
<1>20. ASSUME NEW c \in Children, ReapChild(c) PROVE LeaderInv'
  BY <1>20 DEF ReapChild
<1>21. CASE UNCHANGED vars
  BY <1>21 DEF vars
<1>22. CASE Interrupt
  BY <1>22 DEF Interrupt
<1>23. QED
  BY <1>1, <1>2, <1>3, <1>4, <1>5, <1>6, <1>7, <1>8, <1>9, <1>10, <1>11, <1>12, <1>13,
    <1>14, <1>15, <1>16, <1>17, <1>18, <1>19, <1>20, <1>21, <1>22 DEF Next, Caller, System,
    AllOver

(* A running process never leaves the set of open handles before the wait.  *)
LEMMA HandleInvStep == TypeOK /\ SpawnInv /\ HandleInv /\ [Next]_vars => HandleInv'
<1>. SUFFICES ASSUME TypeOK, SpawnInv, HandleInv, [Next]_vars PROVE HandleInv'
  OBVIOUS
<1>. USE DEF HandleInv, osVars, stopVars
<1>1. CASE Launch
  BY <1>1 DEF Launch
<1>2. CASE PollReady
  BY <1>2 DEF PollReady
<1>3. CASE StartExpire
  BY <1>3 DEF StartExpire
<1>4. CASE Health
  BY <1>4 DEF Health
<1>5. CASE LeaveBody
  BY <1>5 DEF LeaveBody
<1>6. CASE StopPoll
  BY <1>6 DEF StopPoll
<1>7. CASE Terminate
  BY <1>7 DEF Terminate
<1>8. CASE WaitLeader
  BY <1>8 DEF WaitLeader
<1>9. CASE Kill
  BY <1>9 DEF Kill
<1>10. CASE CheckGroup
  BY <1>10 DEF CheckGroup
<1>11. CASE Snapshot
  BY <1>11 DEF Snapshot
<1>12. CASE OpenHandles
  BY <1>12 DEF OpenHandles
<1>13. CASE Taskkill
  BY <1>13 DEF Taskkill
<1>14. CASE WaitRoot
  BY <1>14 DEF WaitRoot
<1>15. CASE WaitTree
  BY <1>15 DEF WaitTree
<1>16. CASE Clear
  BY <1>16 DEF Clear
<1>17. CASE Spawn
  BY <1>17 DEF Spawn, SpawnInv, Group
<1>18. CASE ReuseNumber
  BY <1>18 DEF ReuseNumber
<1>19. ASSUME NEW p \in Procs, Exit(p) PROVE HandleInv'
  BY <1>19 DEF Exit
<1>20. ASSUME NEW c \in Children, ReapChild(c) PROVE HandleInv'
  BY <1>20 DEF ReapChild
<1>21. CASE UNCHANGED vars
  BY <1>21 DEF vars
<1>22. CASE Interrupt
  BY <1>22 DEF Interrupt
<1>23. QED
  BY <1>1, <1>2, <1>3, <1>4, <1>5, <1>6, <1>7, <1>8, <1>9, <1>10, <1>11, <1>12, <1>13,
    <1>14, <1>15, <1>16, <1>17, <1>18, <1>19, <1>20, <1>21, <1>22 DEF Next, Caller, System,
    AllOver

(* stop() returns from a check that found nothing running of what it had    *)
(* undertaken to end; nothing of that comes back.                           *)
LEMMA GoneInvStep == TypeOK /\ PlaceInv /\ SpawnInv /\ LeaderInv /\ HandleInv /\ GoneInv /\ [Next]_vars => GoneInv'
<1>. SUFFICES ASSUME TypeOK, PlaceInv, SpawnInv, LeaderInv, HandleInv, GoneInv, [Next]_vars PROVE GoneInv'
  OBVIOUS
<1>. USE DEF GoneInv, PlaceInv, BeforeStop, OnPosix, OnWindows, Ended, osVars, stopVars
<1>1. CASE Launch
  BY <1>1 DEF Launch
<1>2. CASE PollReady
  BY <1>2 DEF PollReady
<1>3. CASE StartExpire
  BY <1>3 DEF StartExpire
<1>4. CASE Health
  BY <1>4 DEF Health
<1>5. CASE LeaveBody
  BY <1>5 DEF LeaveBody
<1>6. CASE StopPoll
  BY <1>6 DEF StopPoll
<1>7. CASE Terminate
  BY <1>7 DEF Terminate
<1>8. CASE WaitLeader
  BY <1>8 DEF WaitLeader
<1>9. CASE Kill
  BY <1>9 DEF Kill
<1>10. CASE CheckGroup
  BY <1>10 DEF CheckGroup, Group
<1>11. CASE Snapshot
  BY <1>11 DEF Snapshot
<1>12. CASE OpenHandles
  BY <1>12 DEF OpenHandles
<1>13. CASE Taskkill
  BY <1>13 DEF Taskkill
<1>14. CASE WaitRoot
  BY <1>14 DEF WaitRoot
<1>15. CASE WaitTree
  BY <1>15 DEF WaitTree, HandleInv
<1>16. CASE Clear
  BY <1>16 DEF Clear
<1>17. CASE Spawn
  BY <1>17 DEF Spawn, SpawnInv, Group
<1>18. CASE ReuseNumber
  BY <1>18 DEF ReuseNumber
<1>19. ASSUME NEW p \in Procs, Exit(p) PROVE GoneInv'
  BY <1>19 DEF Exit
<1>20. ASSUME NEW c \in Children, ReapChild(c) PROVE GoneInv'
  BY <1>20 DEF ReapChild
<1>21. CASE UNCHANGED vars
  BY <1>21 DEF vars
<1>22. CASE Interrupt
  BY <1>22 DEF Interrupt
<1>23. QED
  BY <1>1, <1>2, <1>3, <1>4, <1>5, <1>6, <1>7, <1>8, <1>9, <1>10, <1>11, <1>12, <1>13,
    <1>14, <1>15, <1>16, <1>17, <1>18, <1>19, <1>20, <1>21, <1>22 DEF Next, Caller, System,
    AllOver

(* The inductive invariant holds at the start.                              *)
LEMMA InitIInv == Init => IInv
BY InitTypeOK
DEF Init, IInv, PlaceInv, SpawnInv, LeaderInv, HandleInv, GoneInv, Group, BeforeStop,
  OnPosix, OnWindows, Ended

(* Every step keeps the inductive invariant.                                *)
LEMMA NextIInv == IInv /\ [Next]_vars => IInv'
BY NextTypeOK, PlaceInvStep, SpawnInvStep, LeaderInvStep, HandleInvStep, GoneInvStep
DEF IInv

(* Every reachable state satisfies the inductive invariant.                 *)
THEOREM Inductive == Spec => []IInv
BY InitIInv, NextIInv, PTL DEF Spec

-----------------------------------------------------------------------------
(* What the caller of stop() relies on                                      *)

(* The variables of the caller and of the system keep their types.          *)
THEOREM TypesHold == Spec => []TypeOK
<1>1. IInv => TypeOK
  BY DEF IInv
<1>2. QED
  BY <1>1, Inductive, PTL

(* A stop() that found the server running and returned has ended the whole  *)
(* group, or on Windows every process of the snapshot, however many there   *)
(* are and whenever they were spawned.                                      *)
THEOREM TerminationIsVerified == Spec => []VerifiedTermination
<1>1. IInv => VerifiedTermination
  BY DEF IInv, GoneInv, VerifiedTermination
<1>2. QED
  BY <1>1, Inductive, PTL

(* killpg is only called while the server still holds its group's number.   *)
THEOREM OwnGroupIsSignalled == Spec => []SignalsOwnGroup
<1>1. IInv => SignalsOwnGroup
  BY DEF IInv, LeaderInv, SignalsOwnGroup
<1>2. QED
  BY <1>1, Inductive, PTL

(* Every handle that stop() opens is closed when it ends, however many      *)
(* processes there are, unless an exception comes between the opening of    *)
(* the handles and the waits: taskkill's, or an interrupt.                  *)
THEOREM HandlesAreClosed == Spec => []HandlesClosed
<1>1. IInv => HandlesClosed
  BY DEF IInv, HandleInv, HandlesClosed, Ended
<1>2. QED
  BY <1>1, Inductive, PTL

-----------------------------------------------------------------------------
(* Refinement of ServerPromise                                              *)

InStop == {"stop", "term", "wait", "kill", "waitKilled", "check", "tree", "handles",
           "taskkill", "waitRoot", "waitTree", "clear"}

(* The promise sees of the processes whether the leader runs, and whether   *)
(* any of its descendants does.                                             *)
LEMMA SameView ==
    ASSUME UNCHANGED <<platform, alive, wasRunning>>
    PROVE  UNCHANGED <<platform = "posix", Leader \in alive, alive \cap Children # {}, wasRunning>>
OBVIOUS

(* A step that changes nothing of what the promise speaks of does not show. *)
LEMMA QuietStep ==
    ASSUME UNCHANGED <<platform, alive, wasRunning>>, Phase' = Phase
    PROVE  UNCHANGED Promise!vars
BY DEF Promise!vars

(* Inside stop() the phase says who called it.                              *)
LEMMA PhaseInStop ==
    pc \in InStop => Phase = IF raising THEN "givingUp" ELSE "stopping"
BY DEF Phase, InStop

(* A step of stop() that ends nothing goes on, or makes stop() raise.       *)
LEMMA StopGoesOn ==
    ASSUME UNCHANGED <<platform, raising, alive, wasRunning>>, pc \in InStop,
           pc' \in InStop \cup {"stopRaised", "leftBeforeWaits"}
    PROVE  Promise!Next \/ UNCHANGED Promise!vars
<1>1. CASE pc' \in InStop
  <2>1. Phase' = Phase
    BY <1>1, PhaseInStop DEF Phase, InStop
  <2>2. QED
    BY <2>1, QuietStep
<1>2. CASE pc' \in {"stopRaised", "leftBeforeWaits"}
  <2>1. Phase \in {"stopping", "givingUp"} /\ Phase' = "stuck"
    BY <1>2, PhaseInStop DEF Phase
  <2>2. Promise!Stick
    BY <2>1, SameView DEF Promise!Stick
  <2>3. QED
    BY <2>2 DEF Promise!Next, Promise!Caller, Promise!Stopping
<1>3. QED
  BY <1>1, <1>2

(* Every step of the caller and of the operating system is a step of        *)
(* ServerPromise, or does not show.                                         *)
LEMMA StepsRefine ==
    IInv /\ [Next]_vars => Promise!Next \/ UNCHANGED Promise!vars
<1>. SUFFICES ASSUME IInv, [Next]_vars PROVE Promise!Next \/ UNCHANGED Promise!vars
  OBVIOUS
<1>. USE DEF osVars, stopVars
<1>1. CASE Launch
  <2>1. /\ Phase = "new" /\ ~handle
        /\ alive = {} /\ UNCHANGED <<platform, wasRunning>>
    BY <1>1 DEF Launch, Phase, IInv, PlaceInv
  <2>2. CASE alive' = {Leader} /\ handle' = TRUE /\ pc' \in {"poll", "startRaised"}
    <3>1. Phase' \in {"starting", "abandoned"}
      BY <2>2 DEF Phase
    <3>2. (Leader \in alive)' = TRUE
      BY <2>2
    <3>3. (alive \cap Children # {})' = (alive \cap Children # {})
      BY <2>1, <2>2, ProcsAssumption
    <3>4. Promise!Launch
      BY <2>1, <3>1, <3>2, <3>3 DEF Promise!Launch
    <3>5. QED
      BY <3>4 DEF Promise!Next, Promise!Caller
  <2>3. CASE pc' = "startRaised" /\ UNCHANGED <<alive, handle>>
    <3>1. Phase' = "failed"
      BY <2>1, <2>3 DEF Phase
    <3>2. Promise!Launch
      BY <2>1, <2>3, <3>1, SameView DEF Promise!Launch
    <3>3. QED
      BY <3>2 DEF Promise!Next, Promise!Caller
  <2>4. QED
    BY <1>1, <2>2, <2>3 DEF Launch
<1>2. CASE PollReady \/ StartExpire
  <2>1. Phase = "starting" /\ UNCHANGED <<platform, alive, wasRunning>>
    BY <1>2 DEF PollReady, StartExpire, Phase
  <2>2. CASE pc' = "health"
    BY <2>1, <2>2, QuietStep DEF Phase
  <2>3. CASE pc' = "stop" /\ raising'
    <3>1. Phase' = "givingUp"
      BY <2>3 DEF Phase
    <3>2. Promise!GiveUp
      BY <2>1, <3>1, SameView DEF Promise!GiveUp
    <3>3. QED
      BY <3>2 DEF Promise!Next, Promise!Caller
  <2>4. QED
    BY <1>2, <2>2, <2>3 DEF PollReady, StartExpire
<1>3. CASE Health
  <2>1. Phase = "starting" /\ handle /\ UNCHANGED <<platform, handle, alive, wasRunning>>
    BY <1>3 DEF Health, Phase, IInv, PlaceInv, Ended
  <2>2. CASE pc' = "poll"
    BY <2>1, <2>2, QuietStep DEF Phase
  <2>3. CASE pc' = "running"
    <3>1. Promise!Ready
      BY <2>1, <2>3, SameView DEF Promise!Ready, Phase
    <3>2. QED
      BY <3>1 DEF Promise!Next, Promise!Caller
  <2>4. CASE pc' = "startRaised"
    <3>1. Promise!Abandon
      BY <2>1, <2>4, SameView DEF Promise!Abandon, Phase
    <3>2. QED
      BY <3>1 DEF Promise!Next, Promise!Caller
  <2>5. QED
    BY <1>3, <2>2, <2>3, <2>4 DEF Health
<1>4. CASE LeaveBody
  <2>1. Phase = "up" /\ Phase' = "stopping"
    BY <1>4 DEF LeaveBody, Phase, IInv, PlaceInv, BeforeStop
  <2>2. Promise!Leave
    BY <1>4, <2>1, SameView DEF LeaveBody, Promise!Leave
  <2>3. QED
    BY <2>2 DEF Promise!Next, Promise!Caller
<1>5. CASE StopPoll
  <2>1. CASE LeaderExited
    BY <1>5, <2>1, StopGoesOn DEF StopPoll, InStop
  <2>2. CASE ~LeaderExited
    <3>1. Phase \in {"stopping", "givingUp"} /\ Phase' = Phase
      BY <1>5, <2>2 DEF StopPoll, Phase
    <3>2. ~wasRunning /\ wasRunning' = TRUE
      BY <1>5, <2>2 DEF StopPoll, IInv, PlaceInv
    <3>3. (Leader \in alive) = TRUE /\ UNCHANGED <<platform, alive>>
      BY <1>5, <2>2 DEF StopPoll, LeaderExited
    <3>4. Promise!FindRunning
      BY <3>1, <3>2, <3>3 DEF Promise!FindRunning
    <3>5. QED
      BY <3>4 DEF Promise!Next, Promise!Caller, Promise!Stopping
  <2>3. QED
    BY <2>1, <2>2
<1>6. CASE Terminate \/ WaitLeader \/ Kill \/ CheckGroup
  BY <1>6, StopGoesOn DEF Terminate, WaitLeader, Kill, CheckGroup, InStop
<1>7. CASE Snapshot \/ OpenHandles \/ Taskkill \/ WaitRoot \/ WaitTree
  BY <1>7, StopGoesOn DEF Snapshot, OpenHandles, Taskkill, WaitRoot, WaitTree, InStop
<1>8. CASE Clear
  <2>1. UNCHANGED <<platform, alive, wasRunning>>
    BY <1>8 DEF Clear
  <2>2. \/ Phase = "stopping" /\ Phase' = "stopped"
        \/ Phase = "givingUp" /\ Phase' = "failed"
    BY <1>8 DEF Clear, Phase
  <2>3. ~(Leader \in alive) /\ (wasRunning /\ platform = "posix" => ~(alive \cap Children # {}))
    BY <1>8 DEF Clear, IInv, LeaderInv, GoneInv
  <2>4. Promise!Stop
    BY <2>1, <2>2, <2>3, SameView DEF Promise!Stop
  <2>5. QED
    BY <2>4 DEF Promise!Next, Promise!Caller, Promise!Stopping
<1>9. CASE Spawn
  <2>1. PICK p \in alive \ doomed, c \in Children : alive' = alive \cup {c}
    BY <1>9 DEF Spawn
  <2>2. UNCHANGED <<platform, wasRunning>> /\ Phase' = Phase
    BY <1>9 DEF Spawn, Phase
  <2>3. Leader \in alive \/ alive \cap Children # {}
    BY <2>1 DEF IInv, TypeOK, Procs
  <2>4. (alive \cap Children # {})' = TRUE /\ (Leader \in alive)' = (Leader \in alive)
    BY <2>1, ProcsAssumption
  <2>5. Promise!Spawn
    BY <2>2, <2>3, <2>4 DEF Promise!Spawn
  <2>6. QED
    BY <2>5 DEF Promise!Next, Promise!System
<1>10. ASSUME NEW p \in Procs, Exit(p)
       PROVE  Promise!Next \/ UNCHANGED Promise!vars
  <2>1. p \in alive /\ alive' = alive \ {p} /\ UNCHANGED <<platform, wasRunning>> /\ Phase' = Phase
    BY <1>10 DEF Exit, Phase
  <2>2. CASE p = Leader
    <3>1. (Leader \in alive) = TRUE /\ (Leader \in alive)' = FALSE
      BY <2>1, <2>2
    <3>2. (alive \cap Children # {})' = (alive \cap Children # {})
      BY <2>1, <2>2, ProcsAssumption
    <3>3. Promise!Die
      BY <2>1, <3>1, <3>2 DEF Promise!Die
    <3>4. QED
      BY <3>3 DEF Promise!Next, Promise!System
  <2>3. CASE p # Leader
    <3>1. (alive \cap Children # {}) = TRUE /\ (Leader \in alive)' = (Leader \in alive)
      BY <2>1, <2>3 DEF Procs
    <3>2. CASE (alive \cap Children # {})' = FALSE
      <4>1. Promise!FamilyDies
        BY <2>1, <3>1, <3>2 DEF Promise!FamilyDies
      <4>2. QED
        BY <4>1 DEF Promise!Next, Promise!System
    <3>3. CASE (alive \cap Children # {})' = TRUE
      BY <2>1, <3>1, <3>3 DEF Promise!vars
    <3>4. QED
      BY <3>2, <3>3
  <2>4. QED
    BY <2>2, <2>3
<1>11. CASE ReuseNumber \/ \E c \in Children : ReapChild(c)
  BY <1>11, QuietStep DEF ReuseNumber, ReapChild, Phase
<1>12. CASE UNCHANGED vars
  BY <1>12, QuietStep DEF vars, Phase
<1>13. CASE Interrupt
  <2>1. UNCHANGED <<platform, handle, raising, alive, wasRunning>>
    BY <1>13 DEF Interrupt
  <2>2. CASE pc = "poll"
    <3>1. handle /\ pc' = "startRaised"
      BY <1>13, <2>2 DEF Interrupt, IInv, PlaceInv, Ended
    <3>2. Phase = "starting" /\ Phase' = "abandoned"
      BY <2>1, <2>2, <3>1 DEF Phase
    <3>3. Promise!Abandon
      BY <2>1, <3>2, SameView DEF Promise!Abandon
    <3>4. QED
      BY <3>3 DEF Promise!Next, Promise!Caller
  <2>3. CASE pc # "poll"
    <3>1. pc \in InStop /\ pc' \in {"stopRaised", "leftBeforeWaits"}
      BY <1>13, <2>3 DEF Interrupt, InStop
    <3>2. QED
      BY <2>1, <3>1, StopGoesOn
  <2>4. QED
    BY <2>2, <2>3
<1>14. QED
  BY <1>1, <1>2, <1>3, <1>4, <1>5, <1>6, <1>7, <1>8, <1>9, <1>10, <1>11, <1>12, <1>13
  DEF Next, Caller, System, AllOver

(* What run_scenarios is modelled to rely on - ServerPromise without its    *)
(* fairness - is what the code of start() and stop() does, for any number   *)
(* of processes, that exit, spawn and ignore signals at any moment.         *)
THEOREM PromiseIsKept == Spec => Promise!Spec
<1>1. Init => Promise!Init
  BY DEF Init, Promise!Init, Phase
<1>2. QED
  BY <1>1, StepsRefine, Inductive, PTL DEF Spec, Promise!Spec
=============================================================================
