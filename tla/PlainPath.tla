------------------------------- MODULE PlainPath -------------------------------
(***************************************************************************)
(* The path guards of util.py: safe_relative_path, reject_reparse_chain,   *)
(* require_plain_path and require_regular_file, over a file system with    *)
(* directories, files and symbolic links, resolved as POSIX resolves it.   *)
(*                                                                         *)
(* A node is named by the real names on the way to it; a path is what a    *)
(* program writes, and may have "..".  A link leads to a node that is not  *)
(* a link itself.  Nothing changes while a guard looks (the guards that are*)
(* repeated before each use are in Provision and Bundle).                  *)
(***************************************************************************)
EXTENDS Naturals, Sequences, SequencesExt, FiniteSets

CONSTANTS
    Name,       \* the names of directory entries
    MaxLength   \* bound: the parts of a path

Up == ".."

(* The tree below the anchor has two levels.                                *)
Nodes == {<<n>> : n \in Name} \cup {<<m, n>> : m, n \in Name}

Path == UNION {[1 .. k -> Name \cup {Up}] : k \in 1 .. MaxLength}

Missing == [kind |-> "missing"]
File == [kind |-> "file"]
Directory == [kind |-> "directory"]
Link(target) == [kind |-> "link", target |-> target]

(* Trees in which what is missing or a file has nothing below it, and a link*)
(* leads to a directory or a file.                                          *)
Entries == {Missing, File, Directory} \cup {Link(t) : t \in Nodes}

IsTree(d) ==
    \A n \in Nodes :
        /\ Len(n) = 2 /\ d[n] # Missing => d[Front(n)] = Directory
        /\ d[n].kind = "link" => d[d[n].target].kind \in {"file", "directory"}

Trees == {d \in [Nodes -> Entries] : IsTree(d)}

VARIABLES
    disk,     \* what each node is
    path      \* the path that is guarded; empty before it is given

vars == <<disk, path>>

Init == disk \in Trees /\ path = <<>>

Give == path = <<>> /\ path' \in Path /\ UNCHANGED disk

Stay == path # <<>> /\ UNCHANGED vars

Next == Give \/ Stay

Spec == Init /\ [][Next]_vars

-----------------------------------------------------------------------------
(* The file system: the node a path leads to, following links or refusing   *)
(* them, and what lstat says of a path.                                     *)

Nowhere == <<Up>>

Enterable(at) == at = <<>> \/ (at \in Nodes /\ disk[at] = Directory)

Lead(follow, at, part) ==
    LET child == Append(at, part) IN
    CASE ~Enterable(at) -> Nowhere
      [] Enterable(at) /\ part = Up -> IF at = <<>> THEN at ELSE Front(at)
      [] OTHER ->
            IF child \notin Nodes \/ disk[child] = Missing THEN Nowhere
            ELSE IF disk[child].kind # "link" THEN child
            ELSE IF follow THEN disk[child].target ELSE Nowhere

Walk(follow, p) ==
    LET at[k \in 0 .. Len(p)] == IF k = 0 THEN <<>> ELSE Lead(follow, at[k - 1], p[k])
    IN  at[Len(p)]

Resolve(p) == Walk(TRUE, p)
ResolvePlainly(p) == Walk(FALSE, p)

(* "missing" is a FileNotFoundError, "no directory" another OSError.        *)
Lstat(p) ==
    LET at == Resolve(Front(p))
        child == Append(at, Last(p))
    IN  CASE at = Nowhere -> "missing"
          [] at # Nowhere /\ ~Enterable(at) -> "no directory"
          [] Enterable(at) /\ Last(p) = Up -> "directory"
          [] OTHER -> IF child \in Nodes THEN disk[child].kind ELSE "missing"

Prefix(p, k) == SubSeq(p, 1, k)

-----------------------------------------------------------------------------
(* The guards: TRUE where the code returns, FALSE where it raises.          *)

SafeRelativePath(p) == p # <<>> /\ Up \notin ToSet(p)

(* Mutation of RejectReparseChain: only the path itself is looked at.       *)
RejectReparseChainLast(p) == Lstat(p) \notin {"link", "no directory"}

(* Every prefix from the anchor on, up to the first that is missing.        *)
RejectReparseChain(p) ==
    \A k \in 1 .. Len(p) :
        (\A j \in 1 .. k - 1 : Lstat(Prefix(p, j)) # "missing") =>
            Lstat(Prefix(p, k)) \notin {"link", "no directory"}

RequireRegularFile(p) == Lstat(p) = "file"

(* The lexical test, every component below the root, and the real places.   *)
RequirePlainPath(root, p) ==
    /\ RejectReparseChain(root) /\ RejectReparseChain(p)
    /\ Resolve(root) # Nowhere
    /\ IsPrefix(root, p)
    /\ \A k \in Len(root) .. Len(p) :
          Lstat(Prefix(p, k)) \in {"file", "directory"}
    /\ Resolve(p) # Nowhere /\ IsPrefix(Resolve(root), Resolve(p))

-----------------------------------------------------------------------------
(* Properties                                                               *)

(* reject_reparse_chain looks at prefixes one by one, with links and ".." in*)
(* any place: what it lets through, if it exists, is reached without a link.*)
NoLinkIsFollowed ==
    path # <<>> /\ RejectReparseChain(path) /\ Resolve(path) # Nowhere =>
        Resolve(path) = ResolvePlainly(path)

(* A file record of the lock (fetch.py 361-371) is accepted just when its   *)
(* relative path, read below the lock's directory, is itself the name of a  *)
(* regular file: the guards leave no second name for a pinned file.         *)
RecordNamesItsFile ==
    \A k \in 1 .. Len(path) - 1 :
        LET root == Prefix(path, k)
            relative == SubSeq(path, k + 1, Len(path))
            resolved == root \in Nodes /\ disk[root] = Directory
        IN  resolved =>
            ( /\ SafeRelativePath(relative)
              /\ RequireRegularFile(path) /\ RequirePlainPath(root, path) )
            <=> ( path \in Nodes /\ disk[path] = File )

(* The guards leave a file one name: no link on the way and no second path. *)
GuardsLeaveOneName == NoLinkIsFollowed /\ RecordNamesItsFile
=============================================================================
