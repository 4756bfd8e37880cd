------------------------------ MODULE Provision ------------------------------
(***************************************************************************)
(* The commands that share one destination directory: fetch (fetch.py),    *)
(* convert (convert.py) and the part of run that reads what they made      *)
(* (validate_lock, then the fresh extraction and the server's load).       *)
(*                                                                         *)
(* A file is an inode named by the process that created it; a path leads   *)
(* to one inode or to none, and unlinking it leaves a process that has the *)
(* file open with an inode nobody else sees, as POSIX does.  The registered*)
(* pins make "whole" the only content that a hash accepts.  A process may  *)
(* die between any two steps.  Nothing in the code keeps two commands from *)
(* running at once, so they overlap in any way; what is lost by that is    *)
(* recorded, so that the properties can tell it from what is lost else.    *)
(***************************************************************************)
EXTENDS Naturals, FiniteSets

CONSTANTS
    Fetchers, Converters, Runners   \* processes, one command each

Procs == Fetchers \cup Converters \cup Runners

ASSUME ProcsAssumption ==
    /\ Fetchers \cap Converters = {}
    /\ Fetchers \cap Runners = {}
    /\ Converters \cap Runners = {}

Downloads == {"archive", "checkpoint", "tokenizer"}
Files == Downloads \cup {"lock", "model"}

None == "none"

ASSUME NoneAssumption == None \notin Procs

VARIABLES
    pc,      \* where each process is
    target,  \* the artifact that each fetch is downloading
    path,    \* what each path leads to: the inode of a process, or None
    inode,   \* the content of each process's inode of each file
    dirty,   \* the destination directory is not empty
    writer,  \* the converter that opened the model's inode last
    met,     \* history: the pairs of commands of one kind that were under
             \* way at the same time
    lost     \* history: the files that a command has removed or truncated
             \* that another had made, where the two have met

vars == <<pc, target, path, inode, dirty, writer, met, lost>>

FetchPcs == {"request", "create", "fill", "check", "discard", "extract", "lock",
             "validate"}
ConvertPcs == {"inspect", "convert", "open", "body", "compare", "remove", "confirm"}
RunPcs == {"validateAll", "reExtract", "load", "reload"}
Over == {"ok", "failed", "withdrew", "dead"}
Pcs == {"start"} \cup FetchPcs \cup ConvertPcs \cup RunPcs \cup Over

TypeOK ==
    /\ pc \in [Procs -> Pcs]
    /\ target \in [Fetchers -> Downloads]
    /\ path \in [Files -> Procs \cup {None}]
    /\ inode \in [Procs -> [Files -> {"none", "partial", "whole", "wrong"}]]
    /\ dirty \in BOOLEAN
    /\ writer \in Converters \cup {None}
    /\ met \subseteq SUBSET Procs
    /\ lost \subseteq Files

Init ==
    /\ pc = [p \in Procs |-> "start"]
    /\ target = [f \in Fetchers |-> "archive"]
    /\ path = [f \in Files |-> None]
    /\ inode = [p \in Procs |-> [f \in Files |-> "none"]]
    /\ dirty = FALSE
    /\ writer = None
    /\ met = {} /\ lost = {}

-----------------------------------------------------------------------------
Move(p, from, to) ==
    /\ pc[p] = from
    /\ pc' = [pc EXCEPT ![p] = to]

Exists(f) == path[f] # None

(* What stat and the hash of a path find there.                             *)
Whole(f) == Exists(f) /\ inode[path[f]][f] = "whole"

Create(p, f, content) ==
    /\ path' = [path EXCEPT ![f] = p]
    /\ inode' = [inode EXCEPT ![p][f] = content]

Unlink(f) == path' = [path EXCEPT ![f] = None]

Active(p) == pc[p] \notin {"start"} \cup Over

Foreign(p, f) == path[f] \notin {p, None}

(* History: p begins, beside the commands of its kind that are under way.   *)
Meet(p, kind) == met' = met \cup {{p, q} : q \in {r \in kind \ {p} : Active(r)}}

(* History: p takes away, or truncates, what is at the path of f.           *)
Lose(p, f) ==
    lost' = IF Foreign(p, f) /\ {p, path[f]} \in met THEN lost \cup {f} ELSE lost

-----------------------------------------------------------------------------
(* fetch                                                                    *)

(* The destination must be empty; it is made if it is missing.              *)
FetchStart(p) ==
    /\ \/ ~dirty /\ Move(p, "start", "request") /\ Meet(p, Fetchers)
       \/ dirty /\ Move(p, "start", "failed") /\ UNCHANGED met
    /\ UNCHANGED <<target, path, inode, dirty, writer, lost>>

(* _download: the check for an existing file, its directory, the request.   *)
(* A request that fails is handled like any later failure.                  *)
Request(p) ==
    /\ \/ /\ Exists(target[p])
          /\ Move(p, "request", "failed")
          /\ UNCHANGED dirty
       \/ /\ ~Exists(target[p])
          /\ Move(p, "request", "create") \/ Move(p, "request", "discard")
          /\ dirty' = TRUE
    /\ UNCHANGED <<target, path, inode, writer, met, lost>>

(* open("xb")                                                               *)
CreateFile(p) ==
    /\ \/ /\ ~Exists(target[p])
          /\ Move(p, "create", "fill")
          /\ Create(p, target[p], "partial")
       \/ /\ Exists(target[p])
          /\ Move(p, "create", "discard")
          /\ UNCHANGED <<path, inode>>
    /\ UNCHANGED <<target, dirty, writer, met, lost>>

(* The blocks of the response: the registered bytes, other bytes of the     *)
(* same length, or too many or an error on the way.                         *)
Fill(p) ==
    /\ \/ /\ Move(p, "fill", "check")
          /\ \E content \in {"whole", "wrong"} :
                inode' = [inode EXCEPT ![p][target[p]] = content]
       \/ /\ Move(p, "fill", "discard")
          /\ UNCHANGED inode
    /\ UNCHANGED <<target, path, dirty, writer, met, lost>>

NextTarget == [archive |-> "checkpoint", checkpoint |-> "tokenizer"]

(* Mutation of CheckFile: a file of the right size is not hashed.           *)
CheckSizeOnly(p) ==
    /\ \/ /\ Exists(target[p])
          /\ \/ /\ target[p] \in DOMAIN NextTarget
                /\ Move(p, "check", "request")
                /\ target' = [target EXCEPT ![p] = NextTarget[@]]
             \/ /\ target[p] \notin DOMAIN NextTarget
                /\ Move(p, "check", "extract")
                /\ UNCHANGED target
       \/ /\ ~Exists(target[p])
          /\ Move(p, "check", "discard")
          /\ UNCHANGED target
    /\ UNCHANGED <<path, inode, dirty, writer, met, lost>>

(* The byte count and the hash of what is at the path now.                  *)
CheckFile(p) ==
    /\ \/ /\ Whole(target[p])
          /\ \/ /\ target[p] \in DOMAIN NextTarget
                /\ Move(p, "check", "request")
                /\ target' = [target EXCEPT ![p] = NextTarget[@]]
             \/ /\ target[p] \notin DOMAIN NextTarget
                /\ Move(p, "check", "extract")
                /\ UNCHANGED target
       \/ /\ ~Whole(target[p])
          /\ Move(p, "check", "discard")
          /\ UNCHANGED target
    /\ UNCHANGED <<path, inode, dirty, writer, met, lost>>

(* except BaseException: whatever is at the path is unlinked.               *)
Discard(p) ==
    /\ Move(p, "discard", "failed")
    /\ Unlink(target[p])
    /\ Lose(p, target[p])
    /\ UNCHANGED <<target, inode, dirty, writer, met>>

(* The registered runtime is extracted into a staging directory, its server *)
(* checked and asked for its version, and the directory removed.            *)
Extract(p) ==
    /\ \/ Whole("archive") /\ Move(p, "extract", "lock")
       \/ Move(p, "extract", "failed")
    /\ UNCHANGED <<target, path, inode, dirty, writer, met, lost>>

(* write_new: no handler removes a lock that is written in part.            *)
WriteLock(p) ==
    /\ \/ /\ ~Exists("lock")
          /\ \/ Move(p, "lock", "validate") /\ Create(p, "lock", "whole")
             \/ Move(p, "lock", "failed") /\ Create(p, "lock", "partial")
       \/ /\ Exists("lock")
          /\ Move(p, "lock", "failed")
          /\ UNCHANGED <<path, inode>>
    /\ UNCHANGED <<target, dirty, writer, met, lost>>

(* validate_lock                                                            *)
Inputs == Downloads \cup {"lock"}

Valid(requireModel) ==
    /\ \A f \in Inputs : Whole(f)
    /\ requireModel => Whole("model")

Validate(p) ==
    /\ \/ Valid(FALSE) /\ Move(p, "validate", "ok")
       \/ ~Valid(FALSE) /\ Move(p, "validate", "failed")
    /\ UNCHANGED <<target, path, inode, dirty, writer, met, lost>>

Fetch(p) ==
    \/ FetchStart(p) \/ Request(p) \/ CreateFile(p) \/ Fill(p) \/ CheckFile(p)
    \/ Discard(p) \/ Extract(p) \/ WriteLock(p) \/ Validate(p)

-----------------------------------------------------------------------------
(* convert_from_lock                                                        *)

ConvertStart(p) ==
    /\ \/ Valid(FALSE) /\ Move(p, "start", "inspect") /\ Meet(p, Converters)
       \/ ~Valid(FALSE) /\ Move(p, "start", "failed") /\ UNCHANGED met
    /\ UNCHANGED <<target, path, inode, dirty, writer, lost>>

(* Mutation of Inspect: an earlier output is not looked for.                *)
InspectVersions(p) ==
    /\ Move(p, "inspect", "convert") \/ Move(p, "inspect", "failed")
    /\ UNCHANGED <<target, path, inode, dirty, writer, met, lost>>

(* output.exists(), and the versions of the conversion's dependencies.      *)
Inspect(p) ==
    /\ \/ ~Exists("model") /\ Move(p, "inspect", "convert")
       \/ Move(p, "inspect", "failed")
    /\ UNCHANGED <<target, path, inode, dirty, writer, met, lost>>

(* The checkpoint and the tokenizer are loaded and hashed once more.        *)
LoadFixture(p) ==
    /\ \/ Whole("checkpoint") /\ Whole("tokenizer") /\ Move(p, "convert", "open")
       \/ Move(p, "convert", "remove")
    /\ UNCHANGED <<target, path, inode, dirty, writer, met, lost>>

(* The writer opens the output: an existing file is truncated, not refused. *)
OpenModel(p) ==
    /\ Move(p, "open", "body")
    /\ IF Exists("model")
       THEN inode' = [inode EXCEPT ![path["model"]]["model"] = "partial"] /\ UNCHANGED path
       ELSE Create(p, "model", "partial")
    /\ Lose(p, "model")
    /\ writer' = p
    /\ UNCHANGED <<target, dirty, met>>

(* Two writers of one inode write the same bytes, so it is complete when    *)
(* the last of them to open it has finished; or the conversion raises.      *)
WriteModel(p) ==
    /\ \/ /\ Move(p, "body", "compare")
          /\ IF writer = p /\ Exists("model")
             THEN inode' = [inode EXCEPT ![path["model"]]["model"] = "whole"]
             ELSE UNCHANGED inode
       \/ /\ Move(p, "body", "remove")
          /\ UNCHANGED inode
    /\ UNCHANGED <<target, path, dirty, writer, met, lost>>

(* The bytes and the hash of the output; an interrupt counts as a mismatch. *)
Compare(p) ==
    /\ \/ Whole("model") /\ Move(p, "compare", "confirm")
       \/ Move(p, "compare", "remove")
    /\ UNCHANGED <<target, path, inode, dirty, writer, met, lost>>

(* except BaseException: whatever is at the path is unlinked.               *)
Remove(p) ==
    /\ Move(p, "remove", "withdrew")
    /\ Unlink("model")
    /\ Lose(p, "model")
    /\ UNCHANGED <<target, inode, dirty, writer, met>>

Confirm(p) ==
    /\ \/ Valid(TRUE) /\ Move(p, "confirm", "ok")
       \/ ~Valid(TRUE) /\ Move(p, "confirm", "failed")
    /\ UNCHANGED <<target, path, inode, dirty, writer, met, lost>>

Convert(p) ==
    \/ ConvertStart(p) \/ Inspect(p) \/ LoadFixture(p) \/ OpenModel(p)
    \/ WriteModel(p) \/ Compare(p) \/ Remove(p) \/ Confirm(p)

-----------------------------------------------------------------------------
(* run_scenarios, up to the server's load of the model                      *)

RunStart(p) ==
    /\ Move(p, "start", "validateAll")
    /\ UNCHANGED <<target, path, inode, dirty, writer, met, lost>>

(* Mutation of ValidateAll: the lock is accepted because it exists.         *)
ValidateExists(p) ==
    /\ \/ (\A f \in Files : Exists(f)) /\ Move(p, "validateAll", "reExtract")
       \/ (\E f \in Files : ~Exists(f)) /\ Move(p, "validateAll", "failed")
    /\ UNCHANGED <<target, path, inode, dirty, writer, met, lost>>

ValidateAll(p) ==
    /\ \/ Valid(TRUE) /\ Move(p, "validateAll", "reExtract")
       \/ ~Valid(TRUE) /\ Move(p, "validateAll", "failed")
    /\ UNCHANGED <<target, path, inode, dirty, writer, met, lost>>

(* extract_fresh_runtime hashes the archive again and extracts it.          *)
ReExtract(p) ==
    /\ \/ Whole("archive") /\ Move(p, "reExtract", "load")
       \/ Move(p, "reExtract", "failed")
    /\ UNCHANGED <<target, path, inode, dirty, writer, met, lost>>

(* Each of the two servers opens the model by its path; nothing hashes it   *)
(* again.  The server may also fail for reasons of its own.                 *)
Load(p) ==
    /\ \/ Exists("model") /\ (Move(p, "load", "reload") \/ Move(p, "reload", "ok"))
       \/ Move(p, "load", "failed")
       \/ Move(p, "reload", "failed")
    /\ UNCHANGED <<target, path, inode, dirty, writer, met, lost>>

Run(p) == RunStart(p) \/ ValidateAll(p) \/ ReExtract(p) \/ Load(p)

-----------------------------------------------------------------------------
Die(p) ==
    /\ pc[p] \notin {"start"} \cup Over
    /\ pc' = [pc EXCEPT ![p] = "dead"]
    /\ UNCHANGED <<target, path, inode, dirty, writer, met, lost>>

AllOver ==
    /\ \A p \in Procs : pc[p] \in Over
    /\ UNCHANGED vars

Next ==
    \/ \E p \in Fetchers : Fetch(p)
    \/ \E p \in Converters : Convert(p)
    \/ \E p \in Runners : Run(p)
    \/ \E p \in Procs : Die(p)
    \/ AllOver

Spec == Init /\ [][Next]_vars

-----------------------------------------------------------------------------
(* Properties                                                               *)

(* The lock is written last (fetch.py 336): while a complete lock is there, *)
(* the three artifacts it pins are there too with the registered content,   *)
(* wherever a fetch or a conversion died or failed; only a fetch that was   *)
(* under way together with the one that wrote the lock may have taken one.  *)
LockMeansInputs == Whole("lock") => \A f \in Downloads : Whole(f) \/ f \in lost

(* What a command reported as verified (cli.py 75 and 78) stays so: no other*)
(* fetch or conversion, refused, failing or killed, changes it or takes it  *)
(* away, however many of them overlap with each other.  Only one that was   *)
(* under way together with the command itself may: a fetch discards, and a  *)
(* conversion truncates or removes, what is at its path.                    *)
VerifiedStays ==
    /\ \A p \in Fetchers : pc[p] = "ok" => \A f \in Inputs : Whole(f) \/ f \in lost
    /\ \A p \in Converters : pc[p] = "ok" => Whole("model") \/ "model" \in lost

(* The model is not hashed again after validate_lock (runner.py 354): the   *)
(* server loads it by its path, twice.  As long as no conversion has        *)
(* withdrawn its output, and none has opened that of one it was under way   *)
(* with, the file it finds has the registered bytes, even when a conversion *)
(* is still under way or has died.                                          *)
LoadsWholeModel ==
    (\A c \in Converters : pc[c] # "withdrew") /\ "model" \notin lost =>
        \A p \in Runners :
            pc[p] \in {"reExtract", "load", "reload"} /\ Exists("model") => Whole("model")

(* fetch.py 68: "refusing to overwrite": a download that finds its file     *)
(* there leaves it alone, so that no fetch takes away a file of another.    *)
DownloadsKeepForeignFiles ==
    [][\A p \in Fetchers : Discard(p) => ~Foreign(p, target[p])]_vars
=============================================================================
