------------------------------- MODULE Bundle -------------------------------
(***************************************************************************)
(* evidence.write_bundle, run by several processes for the same output     *)
(* path, and verify.verify_bundle, run by a reader of that path.           *)
(*                                                                         *)
(* A writer fills a staging directory of its own beside the output,        *)
(* verifies it there and renames it.  A directory is named by the writer   *)
(* that made it and keeps its content when it is renamed.  Any write may   *)
(* fail half way, any step in the try block may be interrupted, a process  *)
(* may die between any two steps, and somebody else may create the output  *)
(* directory.  Reparse points are left out: nothing here makes one.        *)
(***************************************************************************)
EXTENDS Naturals, FiniteSets

CONSTANTS
    Writers,        \* the processes that run write_bundle
    ReplacesEmpty   \* whether os.replace may replace an empty directory

ASSUME WritersAssumption == Writers # {}
ASSUME ReplaceAssumption == ReplacesEmpty \in BOOLEAN

Files == {"evidence.json", "junit.xml", "manifest.json"}

Absent == "absent"      \* nothing at the output path
Empty == "empty"        \* an empty directory made by somebody else
Foreign == "foreign"    \* a directory with other content

ASSUME NamesAssumption == {Absent, Empty, Foreign} \cap Writers = {}

VARIABLES
    pc,       \* where each writer is
    staging,  \* the writers whose staging directory exists under its name
    disk,     \* the content of each writer's directory, wherever it is
    output,   \* what is at the output path: a writer names its directory
    sound,    \* whether what a writer serialises verifies when read back
    rpc,      \* where the reader is
    seen      \* the directories in which the reader has read so far

vars == <<pc, staging, disk, output, sound, rpc, seen>>

WriterPcs == {"check", "mkdtemp", "plain", "evidence.json", "junit.xml",
              "manifest.json", "verify", "replace", "return", "cleanup",
              "published", "failed", "littered", "dead"}

Over == {"published", "failed", "littered", "dead"}

InTry == Files \cup {"verify", "replace", "return"}

ReaderPcs == {"list", "manifest", "evidence", "junit", "verified"}

TypeOK ==
    /\ pc \in [Writers -> WriterPcs]
    /\ staging \in SUBSET Writers
    /\ disk \in [Writers -> [Files -> {"absent", "partial", "whole"}]]
    /\ output \in Writers \cup {Absent, Empty, Foreign}
    /\ sound \in [Writers -> BOOLEAN]
    /\ rpc \in ReaderPcs
    /\ seen \in SUBSET (Writers \cup {Empty, Foreign})

Init ==
    /\ pc = [w \in Writers |-> "check"]
    /\ staging = {}
    /\ disk = [w \in Writers |-> [f \in Files |-> "absent"]]
    /\ output \in {Absent, Empty, Foreign}
    /\ sound \in [Writers -> BOOLEAN]
    /\ rpc = "list"
    /\ seen = {}

-----------------------------------------------------------------------------
(* write_bundle                                                             *)

Move(w, from, to) ==
    /\ pc[w] = from
    /\ pc' = [pc EXCEPT ![w] = to]

(* validate_evidence, the reparse check and output.exists(); any of them    *)
(* raises before anything is made.                                          *)
Check(w) ==
    /\ \/ output = Absent /\ Move(w, "check", "mkdtemp")
       \/ Move(w, "check", "failed")
    /\ UNCHANGED <<staging, disk, output, sound, rpc, seen>>

MakeStaging(w) ==
    /\ Move(w, "mkdtemp", "plain")
    /\ staging' = staging \cup {w}
    /\ UNCHANGED <<disk, output, sound, rpc, seen>>

(* require_plain_directory(staging): outside the try block, so that its     *)
(* failure leaves the directory behind.                                     *)
RequirePlain(w) ==
    /\ Move(w, "plain", "evidence.json") \/ Move(w, "plain", "littered")
    /\ UNCHANGED <<staging, disk, output, sound, rpc, seen>>

NextFile == [f \in Files |->
    CASE f = "evidence.json" -> "junit.xml"
      [] f = "junit.xml" -> "manifest.json"
      [] f = "manifest.json" -> "verify"]

(* write_new, file by file; a write that fails leaves part of the file.     *)
WriteFile(w) ==
    /\ \E f \in Files :
          \/ /\ Move(w, f, NextFile[f])
             /\ disk' = [disk EXCEPT ![w][f] = "whole"]
          \/ /\ Move(w, f, "cleanup")
             /\ disk' = [disk EXCEPT ![w][f] = "partial"]
    /\ UNCHANGED <<staging, output, sound, rpc, seen>>

Verifies(w) == sound[w] /\ \A f \in Files : disk[w][f] = "whole"

(* Mutation of VerifyStaged: the staged bundle is not read back.            *)
VerifyNothing(w) ==
    /\ Move(w, "verify", "replace")
    /\ UNCHANGED <<staging, disk, output, sound, rpc, seen>>

VerifyStaged(w) ==
    /\ \/ Verifies(w) /\ Move(w, "verify", "replace")
       \/ ~Verifies(w) /\ Move(w, "verify", "cleanup")
    /\ UNCHANGED <<staging, disk, output, sound, rpc, seen>>

(* os.replace(staging, output) succeeds on a free path, and on some systems *)
(* on an empty directory.                                                   *)
Replaceable == output = Absent \/ (ReplacesEmpty /\ output = Empty)

(* Mutation of Replace: what is in the way is replaced as well.             *)
ReplaceAnything(w) ==
    /\ Move(w, "replace", "return")
    /\ output' = w
    /\ staging' = staging \ {w}
    /\ UNCHANGED <<disk, sound, rpc, seen>>

(* Mutation of Replace: it waits until the path is free.                    *)
ReplaceWhenFree(w) ==
    /\ Replaceable
    /\ Move(w, "replace", "return")
    /\ output' = w
    /\ staging' = staging \ {w}
    /\ UNCHANGED <<disk, sound, rpc, seen>>

Replace(w) ==
    /\ \/ /\ Replaceable
          /\ Move(w, "replace", "return")
          /\ output' = w
          /\ staging' = staging \ {w}
       \/ /\ ~Replaceable
          /\ Move(w, "replace", "cleanup")
          /\ UNCHANGED <<output, staging>>
    /\ UNCHANGED <<disk, sound, rpc, seen>>

Return(w) ==
    /\ Move(w, "return", "published")
    /\ UNCHANGED <<staging, disk, output, sound, rpc, seen>>

(* Mutation of Interrupt: an interrupt is not what the handler handles.     *)
InterruptUnhandled(w) ==
    /\ pc[w] \in InTry
    /\ pc' = [pc EXCEPT ![w] = "failed"]
    /\ UNCHANGED <<staging, disk, output, sound, rpc, seen>>

(* except BaseException: any step of the try block may be interrupted, the  *)
(* one after the rename included.                                           *)
Interrupt(w) ==
    /\ pc[w] \in InTry
    /\ pc' = [pc EXCEPT ![w] = "cleanup"]
    /\ UNCHANGED <<staging, disk, output, sound, rpc, seen>>

(* if staging.exists(): rmtree - which may fail half way in its turn.       *)
Cleanup(w) ==
    /\ \/ Move(w, "cleanup", "failed") /\ staging' = staging \ {w}
       \/ w \in staging /\ Move(w, "cleanup", "littered") /\ UNCHANGED staging
    /\ UNCHANGED <<disk, output, sound, rpc, seen>>

Die(w) ==
    /\ pc[w] \notin Over
    /\ pc' = [pc EXCEPT ![w] = "dead"]
    /\ UNCHANGED <<staging, disk, output, sound, rpc, seen>>

Writer(w) ==
    \/ Check(w) \/ MakeStaging(w) \/ RequirePlain(w) \/ WriteFile(w)
    \/ VerifyStaged(w) \/ Replace(w) \/ Return(w) \/ Cleanup(w)

-----------------------------------------------------------------------------
(* verify_bundle(output): each step resolves the path again.  The reader    *)
(* that fails starts over: a person or a script calls verify once more.     *)

ReaderSteps == [list |-> "manifest", manifest |-> "evidence",
                evidence |-> "junit", junit |-> "verified"]

ReadStep ==
    /\ rpc \in DOMAIN ReaderSteps
    /\ \/ /\ output \in Writers /\ Verifies(output)
          /\ rpc' = ReaderSteps[rpc]
          /\ seen' = seen \cup {output}
       \/ /\ ~(output \in Writers /\ Verifies(output))
          /\ rpc' = "list" /\ seen' = {}
    /\ UNCHANGED <<pc, staging, disk, output, sound>>

(* Somebody makes the output directory, empty or with content of their own. *)
SomebodyElse ==
    /\ output = Absent
    /\ output' \in {Empty, Foreign}
    /\ UNCHANGED <<pc, staging, disk, sound, rpc, seen>>

AllOver ==
    /\ \A w \in Writers : pc[w] \in Over
    /\ UNCHANGED vars

Next ==
    \/ \E w \in Writers : Writer(w) \/ Interrupt(w) \/ Die(w)
    \/ ReadStep
    \/ SomebodyElse
    \/ AllOver

(* A process that is alive goes on; nothing makes it die or interrupts it.  *)
Fairness == \A w \in Writers : WF_vars(Writer(w))

Spec == Init /\ [][Next]_vars

FairSpec == Spec /\ Fairness

-----------------------------------------------------------------------------
(* Properties                                                               *)

(* A bundle that can be seen at the output path is complete and verifies,   *)
(* from the first moment on and whatever happens to its writer: evidence.py *)
(* calls itself an "atomic" bundle writer.  A call that reports success has *)
(* put its own bundle there, so of several writers at most one does, and its*)
(* directory has left the staging name.                                     *)
PublishedVerifies ==
    /\ output \in Writers => Verifies(output)
    /\ \A w \in Writers :
          pc[w] \in {"return", "published"} => output = w /\ w \notin staging

(* A verification that succeeds has read all its files in one bundle.       *)
ReaderSeesOneBundle == rpc = "verified" => seen = {output}

(* The staging directory is left behind by three things only: the process   *)
(* died, rmtree itself failed, or the check between mkdtemp and the try     *)
(* block did, which an interrupt there counts as.  Every other failure, and *)
(* an interrupt at any step of the try block, takes it away, and a published*)
(* bundle has left no second directory.                                     *)
LitterHasAReason ==
    \A w \in Writers : pc[w] \in {"published", "failed"} => w \notin staging

(* Every call ends, with a bundle, with an exception or with its process.   *)
WritersEnd == <>(\A w \in Writers : pc[w] \in Over)

(* The output path is written once: by a bundle that verifies, or by content*)
(* that somebody else put there.  Neither is ever replaced: "refusing to    *)
(* overwrite evidence output" holds although the check and the rename are   *)
(* far apart.                                                               *)
Once == INSTANCE WriteOnce WITH
    Nothing <- "nothing",
    place <- IF output \in Writers \cup {Foreign} THEN output ELSE "nothing",
    values <- {w \in Writers : Verifies(w)} \cup {Foreign}

IsWrittenOnce == Once!WriteSpec
=============================================================================
