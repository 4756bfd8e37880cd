---------------------------- MODULE ServerProcess ----------------------------
(***************************************************************************)
(* process.ServerProcess: one server process, started, waited for and      *)
(* stopped, with the processes it may spawn.  The caller runs start(), the *)
(* body of its with statement and stop(); the operating system runs the    *)
(* processes, which may exit, spawn or ignore SIGTERM at any moment.       *)
(*                                                                         *)
(* On POSIX the server leads a process group of its own; a process that    *)
(* exited stays in the group as a zombie until it is reaped, the leader by *)
(* poll() or wait() of the caller, the others by the system.  Once the     *)
(* leader is reaped and the group is empty its number may be given to      *)
(* somebody else's group.  On Windows stop() works from a snapshot of the  *)
(* process tree.                                                           *)
(***************************************************************************)
EXTENDS Naturals, FiniteSets

CONSTANTS
    Leader,      \* the process that Popen creates
    Children,    \* the processes that it or its children may spawn
    Platforms    \* the values of sys.platform, as far as the code asks

Procs == {Leader} \cup Children

ASSUME ProcsAssumption == Leader \notin Children
ASSUME PlatformsAssumption == Platforms \subseteq {"posix", "win32"}

VARIABLES
    platform,  \* sys.platform; it does not change
    pc,        \* where the caller is
    handle,    \* self.process is not None
    raising,   \* an exception follows once stop() has returned
    alive,     \* the processes that run
    zombies,   \* the processes that exited and are not reaped
    doomed,    \* the running processes that were killed
    parent,    \* who spawned each child; itself while it is not spawned
    stranger,  \* the group's number belongs to somebody else
    captured,  \* what stop() undertakes to end: the group, or its snapshot
    waitable,  \* the handles that stop() has open (Windows)
    wasRunning \* history: stop() found the leader running

osVars == <<alive, zombies, doomed, parent, stranger>>
stopVars == <<captured, waitable, wasRunning>>
vars == <<platform, pc, handle, raising, osVars, stopVars>>

Pcs == {"new", "poll", "health", "running", "stop", "term", "wait", "kill",
        "waitKilled", "check", "tree", "handles", "taskkill", "waitRoot",
        "waitTree", "clear", "stopped", "startRaised", "stopRaised",
        "leftBeforeWaits"}

Ended == {"stopped", "startRaised", "stopRaised", "leftBeforeWaits"}

TypeOK ==
    /\ platform \in Platforms
    /\ pc \in Pcs
    /\ handle \in BOOLEAN /\ raising \in BOOLEAN
    /\ alive \in SUBSET Procs /\ zombies \in SUBSET Procs
    /\ doomed \in SUBSET Procs
    /\ parent \in [Children -> Procs]
    /\ stranger \in BOOLEAN
    /\ captured \in SUBSET Procs /\ waitable \in SUBSET Procs
    /\ wasRunning \in BOOLEAN

Init ==
    /\ platform \in Platforms
    /\ pc = "new" /\ handle = FALSE /\ raising = FALSE
    /\ alive = {} /\ zombies = {} /\ doomed = {}
    /\ parent = [c \in Children |-> c]
    /\ stranger = FALSE
    /\ captured = {} /\ waitable = {} /\ wasRunning = FALSE

-----------------------------------------------------------------------------
(* The operating system                                                     *)

Group == alive \cup zombies

Spawn ==
    /\ \E p \in alive \ doomed, c \in Children :
          /\ parent[c] = c
          /\ parent' = [parent EXCEPT ![c] = p]
          /\ alive' = alive \cup {c}
    /\ UNCHANGED <<platform, pc, handle, raising, zombies, doomed, stranger, stopVars>>

Exit(p) ==
    /\ p \in alive
    /\ alive' = alive \ {p}
    /\ zombies' = zombies \cup {p}
    /\ doomed' = doomed \ {p}
    /\ UNCHANGED <<platform, pc, handle, raising, parent, stranger, stopVars>>

(* The system reaps a child; the leader waits for the caller.               *)
ReapChild(c) ==
    /\ c \in zombies \ {Leader}
    /\ zombies' = zombies \ {c}
    /\ UNCHANGED <<platform, pc, handle, raising, alive, doomed, parent, stranger, stopVars>>

ReuseNumber ==
    /\ platform = "posix"
    /\ handle /\ Group = {} /\ ~stranger
    /\ stranger' = TRUE
    /\ UNCHANGED <<platform, pc, handle, raising, alive, zombies, doomed, parent, stopVars>>

System ==
    \/ Spawn \/ ReuseNumber
    \/ \E p \in Procs : Exit(p)
    \/ \E c \in Children : ReapChild(c)

(* The leader has an exit status for poll() and wait(), which reap it.      *)
LeaderExited == Leader \notin alive
Reaped == zombies \ {Leader}

-----------------------------------------------------------------------------
(* start()                                                                  *)

(* Popen, then the two drain threads; either may raise, and no stop()       *)
(* follows: the with statement has not been entered.                        *)
Launch ==
    /\ pc = "new"
    /\ \/ /\ alive' = {Leader} /\ handle' = TRUE
          /\ pc' \in {"poll", "startRaised"}
       \/ /\ pc' = "startRaised"
          /\ UNCHANGED <<alive, handle>>
    /\ UNCHANGED <<platform, raising, zombies, doomed, parent, stranger, stopVars>>

(* Readiness: an early exit or the end of the 30 s stops and raises.        *)
PollReady ==
    /\ pc = "poll"
    /\ \/ /\ LeaderExited
          /\ zombies' = Reaped
          /\ pc' = "stop" /\ raising' = TRUE
       \/ /\ ~LeaderExited
          /\ pc' = "health"
          /\ UNCHANGED <<zombies, raising>>
    /\ UNCHANGED <<platform, handle, alive, doomed, parent, stranger, stopVars>>

StartExpire ==
    /\ pc = "poll"
    /\ pc' = "stop" /\ raising' = TRUE
    /\ UNCHANGED <<platform, handle, osVars, stopVars>>

(* health_ok answers yes or no; what it does not handle (an http.client     *)
(* error, an interrupt) leaves start() without stop(), and the with         *)
(* statement, not entered, does not call it either.                         *)
Health ==
    /\ pc = "health"
    /\ pc' \in {"running", "poll", "startRaised"}
    /\ UNCHANGED <<platform, handle, raising, osVars, stopVars>>

(* __exit__, after the body has ended in any way.                           *)
LeaveBody ==
    /\ pc = "running"
    /\ pc' = "stop"
    /\ UNCHANGED <<platform, handle, raising, osVars, stopVars>>

-----------------------------------------------------------------------------
(* stop()                                                                   *)

(* Mutation of StopPoll: the group is signalled even if the leader is gone. *)
StopPollNothing ==
    /\ pc = "stop"
    /\ pc' = IF platform = "posix" THEN "term" ELSE "tree"
    /\ zombies' = Reaped
    /\ wasRunning' = TRUE
    /\ UNCHANGED <<platform, handle, raising, alive, doomed, parent, stranger, captured, waitable>>

StopPoll ==
    /\ pc = "stop"
    /\ \/ /\ LeaderExited
          /\ zombies' = Reaped
          /\ pc' = "clear"
          /\ UNCHANGED wasRunning
       \/ /\ ~LeaderExited
          /\ pc' = IF platform = "posix" THEN "term" ELSE "tree"
          /\ wasRunning' = TRUE
          /\ UNCHANGED zombies
    /\ UNCHANGED <<platform, handle, raising, alive, doomed, parent, stranger, captured, waitable>>

(* killpg(SIGTERM): a process may ignore it, so it only lets them exit.     *)
Terminate ==
    /\ pc = "term"
    /\ captured' = Group
    /\ pc' = "wait"
    /\ UNCHANGED <<platform, handle, raising, osVars, waitable, wasRunning>>

(* Mutation of WaitLeader: the first wait has no time limit.                *)
WaitLeaderForever ==
    /\ pc \in {"wait", "waitKilled"} /\ LeaderExited
    /\ zombies' = Reaped
    /\ pc' = "check"
    /\ UNCHANGED <<platform, handle, raising, alive, doomed, parent, stranger, stopVars>>

(* process.wait, twice; the second time-out raises.                         *)
WaitLeader ==
    /\ pc \in {"wait", "waitKilled"}
    /\ \/ /\ LeaderExited
          /\ zombies' = Reaped
          /\ pc' = "check"
       \/ /\ ~LeaderExited
          /\ pc' = IF pc = "wait" THEN "kill" ELSE "stopRaised"
          /\ UNCHANGED zombies
    /\ UNCHANGED <<platform, handle, raising, alive, doomed, parent, stranger, stopVars>>

Kill ==
    /\ pc = "kill"
    /\ doomed' = alive
    /\ pc' = "waitKilled"
    /\ UNCHANGED <<platform, handle, raising, alive, zombies, parent, stranger, stopVars>>

(* Mutation of CheckGroup: the group is not looked for after the wait.      *)
CheckNothing ==
    /\ pc = "check"
    /\ pc' = "clear"
    /\ UNCHANGED <<platform, handle, raising, osVars, stopVars>>

(* killpg(pid, 0): whatever still has the number fails the stop.            *)
CheckGroup ==
    /\ pc = "check"
    /\ pc' = IF Group = {} /\ ~stranger THEN "clear" ELSE "stopRaised"
    /\ UNCHANGED <<platform, handle, raising, osVars, stopVars>>

(* _windows_process_tree: the root and, to a fixed point, the running       *)
(* processes whose recorded parent is in the result - the least set closed  *)
(* under that.                                                              *)
ClosedTree(S) ==
    Leader \in S /\ \A c \in alive \cap Children : parent[c] \in S => c \in S

Tree == {p \in Procs : \A S \in SUBSET Procs : ClosedTree(S) => p \in S}

(* The snapshot itself may fail.                                            *)
Snapshot ==
    /\ pc = "tree"
    /\ \/ captured' = Tree /\ pc' = "handles"
       \/ pc' = "stopRaised" /\ UNCHANGED captured
    /\ UNCHANGED <<platform, handle, raising, osVars, waitable, wasRunning>>

(* _windows_open_wait_handles: a process that exited since the snapshot is  *)
(* skipped, any other failure raises; a root without a handle must have     *)
(* exited.                                                                  *)
OpenHandles ==
    /\ pc = "handles"
    /\ \/ /\ waitable' = captured \cap alive
          /\ pc' = "taskkill"
       \/ /\ pc' = "stopRaised"
          /\ UNCHANGED waitable
    /\ UNCHANGED <<platform, handle, raising, osVars, captured, wasRunning>>

(* taskkill /T /F kills the tree it sees, if it works.  Without SystemRoot  *)
(* the handles are closed before the exception.  When taskkill cannot be    *)
(* started, or outlives its time limit, the exception leaves stop() before  *)
(* the try statement whose finally closes them.                             *)
Taskkill ==
    /\ pc = "taskkill"
    /\ \/ doomed' = doomed \cup (Tree \cap alive) /\ pc' = "waitRoot" /\ UNCHANGED waitable
       \/ UNCHANGED doomed /\ pc' = "waitRoot" /\ UNCHANGED waitable
       \/ UNCHANGED doomed /\ pc' = "stopRaised" /\ waitable' = {}
       \/ doomed' \in {doomed, doomed \cup (Tree \cap alive)}
          /\ pc' = "leftBeforeWaits" /\ UNCHANGED waitable
    /\ UNCHANGED <<platform, handle, raising, alive, zombies, parent, stranger, captured, wasRunning>>

(* Mutation of WaitRoot: a time-out raises before the handles are closed.   *)
WaitRootLeaks ==
    /\ pc = "waitRoot"
    /\ \/ LeaderExited /\ pc' = "waitTree" /\ zombies' = Reaped
       \/ ~LeaderExited /\ pc' = "stopRaised" /\ UNCHANGED zombies
    /\ UNCHANGED <<platform, handle, raising, alive, doomed, parent, stranger, stopVars>>

(* process.wait; when it times out the handles are closed and it raises.    *)
WaitRoot ==
    /\ pc = "waitRoot"
    /\ \/ /\ LeaderExited
          /\ pc' = "waitTree" /\ zombies' = Reaped
          /\ UNCHANGED waitable
       \/ /\ ~LeaderExited
          /\ pc' = "stopRaised" /\ waitable' = {}
          /\ UNCHANGED zombies
    /\ UNCHANGED <<platform, handle, raising, alive, doomed, parent, stranger, captured, wasRunning>>

(* _windows_wait_and_close: every handle signals within its time, or it     *)
(* raises; the handles are closed either way.                               *)
WaitTree ==
    /\ pc = "waitTree"
    /\ pc' = IF waitable \cap alive = {} THEN "clear" ELSE "stopRaised"
    /\ waitable' = {}
    /\ UNCHANGED <<platform, handle, raising, osVars, captured, wasRunning>>

(* Join the drain threads for a bounded time and forget the process.        *)
Clear ==
    /\ pc = "clear"
    /\ handle' = FALSE
    /\ pc' = IF raising THEN "startRaised" ELSE "stopped"
    /\ UNCHANGED <<platform, raising, osVars, stopVars>>

(* An interrupt of the caller inside start(), where nothing calls stop(), or *)
(* inside stop(), where only the finally of the waits does anything: the    *)
(* handles that were opened before it stay open.                            *)
Interrupt ==
    /\ \/ pc = "poll" /\ pc' = "startRaised" /\ UNCHANGED waitable
       \/ /\ pc \in {"stop", "term", "wait", "kill", "waitKilled", "check", "tree", "clear"}
          /\ pc' = "stopRaised" /\ UNCHANGED waitable
       \/ /\ pc = "handles"
          /\ pc' = "leftBeforeWaits" /\ waitable' \in SUBSET (captured \cap alive)
       \/ pc = "taskkill" /\ pc' = "leftBeforeWaits" /\ UNCHANGED waitable
       \/ pc \in {"waitRoot", "waitTree"} /\ pc' = "stopRaised" /\ waitable' = {}
    /\ UNCHANGED <<platform, handle, raising, osVars, captured, wasRunning>>

Caller ==
    \/ Launch \/ PollReady \/ StartExpire \/ Health \/ LeaveBody
    \/ StopPoll \/ Terminate \/ WaitLeader \/ Kill \/ CheckGroup
    \/ Snapshot \/ OpenHandles \/ Taskkill \/ WaitRoot \/ WaitTree
    \/ Clear

AllOver == pc \in Ended /\ UNCHANGED vars

Next == Caller \/ Interrupt \/ System \/ AllOver

(* The caller runs; its readiness loop ends by time.monotonic(); a killed   *)
(* process exits.  Nothing makes an interrupt come.                         *)
Fairness ==
    /\ WF_vars(Caller) /\ SF_vars(StartExpire)
    /\ \A p \in Procs : WF_vars(p \in doomed /\ Exit(p))

Spec == Init /\ [][Next]_vars

FairSpec == Spec /\ Fairness

-----------------------------------------------------------------------------
(* Properties                                                               *)

(* stop() that found the server running and returned has ended everything   *)
(* it undertook to end: the whole group, late spawns included, on POSIX;    *)
(* the snapshot's processes on Windows.                                     *)
VerifiedTermination ==
    (~handle /\ wasRunning) =>
        /\ captured \cap alive = {}
        /\ platform = "posix" => alive = {}

(* A signal is only ever sent to the server's own group, although the       *)
(* number of a group can change hands once its leader is reaped.            *)
SignalsOwnGroup == pc \in {"term", "kill"} => Leader \in Group /\ ~stranger

(* src/cache_invariant/runner.py, at the end of the first with statement:   *)
(* "ServerProcess.stop has verified termination, including the captured     *)
(* Windows process tree, before the second process is created."             *)
StoppedMeansGone == pc = "stopped" => alive = {}

(* stop() closes every handle that it opened, on every way out of it that   *)
(* the code foresees: a return, a refusal, a wait that timed out or was     *)
(* interrupted.  What is left out is an exception between the opening of    *)
(* the handles and the try statement of the waits, where a taskkill that    *)
(* cannot be started or does not come back, or an interrupt, leaves them.   *)
HandlesClosed == pc \in Ended \ {"leftBeforeWaits"} => waitable = {}

(* The code of this module keeps the promise that run_scenarios relies on:  *)
(* among others, that start(), the body and stop() come to an end whatever  *)
(* the server does, that no call of stop() returns while the server runs,   *)
(* and that start() only leaves a server behind when an exception that is   *)
(* not its own passes through it.                                           *)
Phase ==
    CASE pc = "new" -> "new"
      [] pc \in {"poll", "health"} -> "starting"
      [] pc = "running" -> "up"
      [] pc = "stopped" -> "stopped"
      [] pc = "startRaised" -> IF handle THEN "abandoned" ELSE "failed"
      [] pc \in {"stopRaised", "leftBeforeWaits"} -> "stuck"
      [] OTHER -> IF raising THEN "givingUp" ELSE "stopping"

Promise ==
    INSTANCE ServerPromise WITH
        wholeGroup <- platform = "posix",
        phase <- Phase,
        running <- Leader \in alive,
        family <- alive \cap Children # {},
        found <- wasRunning

KeepsPromise == Promise!FairSpec
=============================================================================
