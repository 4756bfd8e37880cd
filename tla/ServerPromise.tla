---------------------------- MODULE ServerPromise ----------------------------
(***************************************************************************)
(* What process.ServerProcess promises to the code that uses it: one       *)
(* server, started once, used in the body of a with statement and stopped. *)
(* ServerProcess implements it; RunLifetime is built from two of them.     *)
(*                                                                         *)
(* start() and stop() may fail.  What the caller can rely on is what holds *)
(* once they return: "stopped" and "failed" mean that the server is gone,  *)
(* "abandoned" (start() raised and did not stop) and "stuck" (stop()       *)
(* raised) mean nothing.                                                   *)
(***************************************************************************)

VARIABLES
    wholeGroup,  \* stop() speaks for every process the server spawned (POSIX)
    phase,       \* where the caller of this server is
    running,     \* the server process runs
    family,      \* a process that descends from it runs
    found        \* stop() found the server running

vars == <<wholeGroup, phase, running, family, found>>

Ended == {"stopped", "failed", "abandoned", "stuck"}

Init ==
    /\ wholeGroup \in BOOLEAN
    /\ phase = "new"
    /\ running = FALSE /\ family = FALSE /\ found = FALSE

(* The operating system: processes end, and spawn others.                   *)
Die == running /\ running' = FALSE /\ UNCHANGED <<wholeGroup, phase, family, found>>

Spawn ==
    /\ running \/ family
    /\ family' = TRUE
    /\ UNCHANGED <<wholeGroup, phase, running, found>>

FamilyDies == family /\ family' = FALSE /\ UNCHANGED <<wholeGroup, phase, running, found>>

(* start(): Popen, the drain threads.                                       *)
Launch ==
    /\ phase = "new"
    /\ \/ phase' \in {"starting", "abandoned"} /\ running' = TRUE
       \/ phase' = "failed" /\ UNCHANGED running
    /\ UNCHANGED <<wholeGroup, family, found>>

Ready == phase = "starting" /\ phase' = "up" /\ UNCHANGED <<wholeGroup, running, family, found>>

GiveUp == phase = "starting" /\ phase' = "givingUp" /\ UNCHANGED <<wholeGroup, running, family, found>>

(* What start() does not handle passes through it.                          *)
Abandon == phase = "starting" /\ phase' = "abandoned" /\ UNCHANGED <<wholeGroup, running, family, found>>

Leave == phase = "up" /\ phase' = "stopping" /\ UNCHANGED <<wholeGroup, running, family, found>>

FindRunning ==
    /\ phase \in {"stopping", "givingUp"} /\ running /\ ~found
    /\ found' = TRUE
    /\ UNCHANGED <<wholeGroup, phase, running, family>>

(* stop() returns: the server has exited, and so has everything it spawned  *)
(* if stop() looked for it.                                                 *)
Stop ==
    /\ phase \in {"stopping", "givingUp"}
    /\ ~running
    /\ found /\ wholeGroup => ~family
    /\ phase' = IF phase = "stopping" THEN "stopped" ELSE "failed"
    /\ UNCHANGED <<wholeGroup, running, family, found>>

Stick ==
    /\ phase \in {"stopping", "givingUp"}
    /\ phase' = "stuck"
    /\ UNCHANGED <<wholeGroup, running, family, found>>

(* A step of stop() that its caller does not see the result of.             *)
Stopping == FindRunning \/ Stop \/ Stick

System == Die \/ Spawn \/ FamilyDies

Caller == Launch \/ Ready \/ GiveUp \/ Abandon \/ Leave \/ Stopping

Next == Caller \/ System

Spec == Init /\ [][Next]_vars

(* The caller of a server comes to an end, whatever the server does.        *)
FairSpec == Spec /\ WF_vars(Caller)
=============================================================================
