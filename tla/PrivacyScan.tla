------------------------------ MODULE PrivacyScan ------------------------------
(***************************************************************************)
(* tools/privacy_scan.py: the scan of a source tree before publication,    *)
(* while somebody may still be working in the tree.                        *)
(*                                                                         *)
(* The paths are listed and sorted once.  Each is then looked at in steps -*)
(* its name, its lstat, its bytes, its lines - and any of them may say that*)
(* the rest is not looked at.  What a pattern matches is left out: a name  *)
(* or a text matches one, or it does not.                                  *)
(***************************************************************************)
EXTENDS Naturals, FiniteSets

CONSTANTS
    LastPath,   \* bound: the paths of the tree are 1 .. LastPath, in order
    MaxEdits    \* bound: the changes made while the scan runs

Paths == 1 .. LastPath

(* Where the name of a path puts it: below an excluded directory, itself    *)
(* called like one, sensitive, matched by a pattern, or of a binary file.   *)
Names == {"plain", "below", "excluded", "sensitive", "matched", "binary"}

(* The lines of a file: none matches, one does, or only audited ones do.    *)
Texts == {"clean", "hit", "audited"}
Unreadable == {"nul-byte", "non-utf8"}

(* What is at a path.  "grown" is a file of more than 2 MiB.                *)
Files == Texts \cup Unreadable \cup {"grown"}
Things == Files \cup {"directory", "link", "socket", "gone"}

VARIABLES
    name,      \* the name of each path
    thing,     \* what is at each path now
    listed,    \* the paths that rglob yielded
    at,        \* the path that is looked at; LastPath + 1 at the end
    step,      \* what is done with it next
    findings,  \* the categories found, each with its path
    met,       \* history: what lstat met at each path
    read,      \* history: the bytes that were read from each path
    edits

scanVars == <<listed, at, step, findings, met, read>>
vars == <<name, thing, scanVars, edits>>

Categories == {"sensitive-name", "label-in-name", "metadata-error", "reparse",
               "binary", "oversize-text", "read-error", "label"} \cup Unreadable

TypeOK ==
    /\ name \in [Paths -> Names] /\ thing \in [Paths -> Things]
    /\ listed \in SUBSET Paths
    /\ at \in 1 .. LastPath + 1
    /\ step \in {"list", "name", "lstat", "read", "lines", "failed"}
    /\ findings \in SUBSET (Categories \X Paths)
    /\ met \in [Paths -> Things \cup {"nothing"}]
    /\ read \in [Paths -> Files \cup {"nothing"}]
    /\ edits \in 0 .. MaxEdits

Init ==
    /\ name \in [Paths -> Names] /\ thing \in [Paths -> Things]
    /\ listed = {} /\ at = 1 /\ step = "list" /\ findings = {}
    /\ met = [p \in Paths |-> "nothing"] /\ read = met
    /\ edits = 0

(* Somebody replaces what is at a path.                                     *)
Edit ==
    /\ edits < MaxEdits
    /\ \E p \in Paths, t \in Things \ {"socket"} : thing' = [thing EXCEPT ![p] = t]
    /\ edits' = edits + 1
    /\ UNCHANGED <<name, scanVars>>

-----------------------------------------------------------------------------
Found(category) == findings' = findings \cup {<<category, at>>}
NothingFound == UNCHANGED findings

NextPath == at' = at + 1 /\ step' = "name"
Go(to) == at' = at /\ step' = to

Looking(s) == step = s /\ at \in listed

(* sorted(root.rglob("*")), which may raise; main then says that it failed. *)
(* rglob passes over a directory that it may not read without a word, so the*)
(* list may also lack any part of the tree.                                 *)
List ==
    /\ step = "list"
    /\ \/ listed' \in SUBSET {p \in Paths : thing[p] # "gone"} /\ step' = "name"
       \/ UNCHANGED listed /\ step' = "failed"
    /\ UNCHANGED <<name, thing, at, findings, met, read, edits>>

PassUnlisted ==
    /\ step = "name" /\ at \in Paths \ listed
    /\ NextPath
    /\ UNCHANGED <<name, thing, listed, findings, met, read, edits>>

(* Any part of the relative path, its last one included, is in              *)
(* SKIP_DIRECTORIES, whatever is at the path.                               *)
Skipped(p) == name[p] \in {"below", "excluded"}

LookAtName ==
    /\ Looking("name")
    /\ \/ Skipped(at) /\ NextPath /\ NothingFound
       \/ /\ ~Skipped(at)
          /\ Go("lstat")
          /\ CASE name[at] = "sensitive" -> Found("sensitive-name")
               [] name[at] = "matched" -> Found("label-in-name")
               [] OTHER -> NothingFound
    /\ UNCHANGED <<name, thing, listed, met, read, edits>>

(* What lstat says that ends the look at a path, if anything.               *)
StopsAtLstat(p) ==
    CASE thing[p] = "gone" -> "metadata-error"
      [] thing[p] = "link" -> "reparse"
      [] thing[p] \in Files /\ name[p] = "binary" -> "binary"
      [] thing[p] = "grown" -> "oversize-text"
      [] OTHER -> "nothing"

Lstat ==
    /\ Looking("lstat")
    /\ met' = [met EXCEPT ![at] = thing[at]]
    /\ \/ StopsAtLstat(at) # "nothing" /\ Found(StopsAtLstat(at)) /\ NextPath
       \/ thing[at] \in {"directory", "socket"} /\ NothingFound /\ NextPath
       \/ /\ StopsAtLstat(at) = "nothing" /\ thing[at] \in Files
          /\ NothingFound /\ Go("read")
    /\ UNCHANGED <<name, thing, listed, read, edits>>

(* What open finds: a link that has taken the file's place is followed.     *)
Opened(p) == IF thing[p] = "link" THEN Files ELSE {thing[p]} \cap Files

(* Mutation of Read: the size that lstat told is trusted, and what a grown  *)
(* file has beyond it is not seen.                                          *)
ReadTrusting ==
    /\ Looking("read")
    /\ \/ \E bytes \in Opened(at) :
             read' = [read EXCEPT ![at] = bytes] /\ NothingFound /\ Go("lines")
       \/ Opened(at) # Files /\ Found("read-error") /\ NextPath /\ UNCHANGED read
    /\ UNCHANGED <<name, thing, listed, met, edits>>

(* At most 2 MiB and one byte are read, so that a file which has grown since*)
(* lstat is seen to be too long; any read may fail.                         *)
Read ==
    /\ Looking("read")
    /\ \/ \E bytes \in Opened(at) :
             /\ read' = [read EXCEPT ![at] = bytes]
             /\ \/ bytes = "grown" /\ Found("oversize-text") /\ NextPath
                \/ bytes # "grown" /\ NothingFound /\ Go("lines")
       \/ Found("read-error") /\ NextPath /\ UNCHANGED read
    /\ UNCHANGED <<name, thing, listed, met, edits>>

(* NUL bytes, the decoding, then every line but the audited ones.           *)
Lines ==
    /\ Looking("lines")
    /\ CASE read[at] \in Unreadable -> Found(read[at])
         [] read[at] = "hit" -> Found("label")
         [] OTHER -> NothingFound
    /\ NextPath
    /\ UNCHANGED <<name, thing, listed, met, read, edits>>

Done == at = LastPath + 1 \/ step = "failed"

(* main reports a failure, the findings, or a clean tree.                   *)
AllOver == Done /\ UNCHANGED vars

Next ==
    \/ List \/ PassUnlisted \/ LookAtName \/ Lstat \/ Read \/ Lines
    \/ Edit
    \/ AllOver

Spec == Init /\ [][Next]_vars

-----------------------------------------------------------------------------
(* Properties                                                               *)

(* The scan fails closed on what it has listed: whatever is edited while it *)
(* runs and is found elsewhere, each listed path passed and not excluded    *)
(* either has a finding of its own, or it has an innocent name and was a    *)
(* directory or a socket, or it was a file whose whole text was read and    *)
(* matched by nothing that is not audited.                                  *)
Innocent(p) ==
    /\ name[p] \notin {"sensitive", "matched"}
    /\ \/ met[p] \in {"directory", "socket"}
       \/ name[p] # "binary" /\ met[p] \in Files /\ read[p] \in {"clean", "audited"}

EveryPathAccounted ==
    \A p \in listed : p < at /\ name[p] \notin {"below", "excluded"} =>
        Innocent(p) \/ \E c \in Categories : <<c, p>> \in findings

=============================================================================
