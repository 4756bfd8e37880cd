--------------------------- MODULE RuntimeArchive ---------------------------
(***************************************************************************)
(* fetch._extract_registered_runtime: a runtime archive is unpacked into   *)
(* an empty directory and the server is looked for in the result.          *)
(*                                                                         *)
(* No link is ever made.  The symbolic links of a tar archive are put off  *)
(* until its files are written and then copied, in passes over the links   *)
(* that are left: a link whose target exists becomes a copy of it, and a   *)
(* pass without a copy ends the extraction.  An archive is a sequence of   *)
(* members after _safe_member_parts has taken their names apart; the bytes *)
(* and the mode of a file member are known by its place in the archive.    *)
(***************************************************************************)
EXTENDS Naturals, Sequences, FiniteSets

CONSTANTS
    Names,       \* the parts of a path
    Elsewhere,   \* a link name that is empty, is . or .., or has a / \ or :
    PinnedPath,  \* the registered archive path of the server
    Archives     \* the archives explored: a format, and members in order

Members ==
    [kind : {"file", "dir", "link", "hardlink", "special", "unsafe"},
     path : Seq(Names), link : Names \cup {Elsewhere}]

ASSUME NamesAssumption == Elsewhere \notin Names
ASSUME PinnedPathAssumption == PinnedPath \in Seq(Names) \ {<<>>}
ASSUME ArchivesAssumption ==
    Archives \subseteq [format : {"zip", "tar"}, members : Seq(Members)]

Parent(p) == SubSeq(p, 1, Len(p) - 1)

Parents(p) == {SubSeq(p, 1, n) : n \in 1 .. Len(p) - 1}

(* The name of the server on this platform; its registered bytes, for which *)
(* those of the first member stand.                                         *)
Server == PinnedPath[Len(PinnedPath)]

PinnedBytes == 1

VARIABLES
    format,    \* zip or tar.gz
    archive,   \* the members, in order
    pc,
    next,      \* the members that were unpacked or put off, by count
    links,     \* the links of the current pass that were not looked at yet
    left,      \* the links that this pass has put off
    progress,  \* whether this pass has copied anything
    dirs,      \* the directories below the destination
    files      \* the files below it: where their bytes and their mode are from

vars == <<format, archive, pc, next, links, left, progress, dirs, files>>

Over == {"refused", "raised", "returned"}

Extracted == {"find", "version", "returned"}

TypeOK ==
    /\ [format |-> format, members |-> archive] \in Archives
    /\ pc \in {"check", "unpack", "alias"} \cup Extracted \cup Over
    /\ next \in 0 .. Len(archive)
    /\ links \in Seq(1 .. Len(archive)) /\ left \in Seq(1 .. Len(archive))
    /\ progress \in BOOLEAN
    /\ dirs \subseteq Seq(Names) /\ DOMAIN files \subseteq Seq(Names)
    /\ \A p \in DOMAIN files :
          files[p] \in [bytes : 0 .. Len(archive), mode : 0 .. Len(archive)]

(* The destination is empty, or holds a file that was there before.         *)
Leftovers == {[p \in P |-> [bytes |-> 0, mode |-> 0]] : P \in {{}, {<<Server>>}}}

Init ==
    /\ \E a \in Archives : format = a.format /\ archive = a.members
    /\ pc = "check"
    /\ next = 0
    /\ links = <<>> /\ left = <<>> /\ progress = FALSE
    /\ dirs = {}
    /\ files \in Leftovers

Move(from, to) == pc = from /\ pc' = to

-----------------------------------------------------------------------------
(* The file system                                                          *)

Taken(p) == p \in dirs \cup DOMAIN files

(* mkdir(parents=True, exist_ok=True)                                       *)
CanMake(p) == (Parents(p) \cup {p}) \cap DOMAIN files = {}

(* Mutation of CanCreate: open("wb").                                       *)
CanCreateOver(p) == p \notin dirs /\ Parents(p) \cap DOMAIN files = {}

(* The parents are made and the file is opened for exclusive creation.      *)
CanCreate(p) == ~Taken(p) /\ Parents(p) \cap DOMAIN files = {}

CreateFile(p, node) ==
    /\ dirs' = dirs \cup Parents(p)
    /\ files' = [q \in DOMAIN files \cup {p} |-> IF q = p THEN node ELSE files[q]]

-----------------------------------------------------------------------------
(* _extract_zip and the first loop of _extract_tar                          *)

(* The archive has its registered hash, the destination is plain and empty. *)
Check ==
    /\ \/ DOMAIN files = {} /\ Move("check", "unpack")
       \/ Move("check", "raised")
    /\ UNCHANGED <<format, archive, next, links, left, progress, dirs, files>>

Refused(m) ==
    \/ m.kind \in {"hardlink", "special", "unsafe"}
    \/ m.kind = "link" /\ format = "zip"
    \/ m.kind = "dir" /\ ~CanMake(m.path)
    \/ m.kind = "file" /\ ~CanCreate(m.path)

Refuse ==
    /\ Move("unpack", "refused")
    /\ next < Len(archive)
    /\ Refused(archive[next + 1])
    /\ UNCHANGED <<format, archive, next, links, left, progress, dirs, files>>

Unpack ==
    /\ pc = "unpack"
    /\ next < Len(archive)
    /\ LET m == archive[next + 1] IN
          /\ ~Refused(m)
          /\ \/ /\ m.kind = "dir"
                /\ dirs' = dirs \cup Parents(m.path) \cup {m.path}
                /\ UNCHANGED <<links, files>>
             \/ /\ m.kind = "file"
                /\ CreateFile(m.path, [bytes |-> next + 1,
                                       mode |-> IF format = "tar" THEN next + 1 ELSE 0])
                /\ UNCHANGED links
             \/ /\ m.kind = "link"
                /\ links' = Append(links, next + 1)
                /\ UNCHANGED <<dirs, files>>
    /\ next' = next + 1
    /\ UNCHANGED <<format, archive, pc, left, progress>>

EndUnpack ==
    /\ Move("unpack", IF links = <<>> THEN "find" ELSE "alias")
    /\ next = Len(archive)
    /\ UNCHANGED <<format, archive, next, links, left, progress, dirs, files>>

-----------------------------------------------------------------------------
(* The passes over the links                                                *)

Target(m) == Append(Parent(m.path), m.link)

RefusedAlias(m) ==
    \/ m.link = Elsewhere
    \/ Target(m) \in dirs
    \/ Target(m) \in DOMAIN files /\ ~CanCreate(m.path)

RefuseAlias ==
    /\ Move("alias", "refused")
    /\ links # <<>>
    /\ RefusedAlias(archive[Head(links)])
    /\ UNCHANGED <<format, archive, next, links, left, progress, dirs, files>>

(* Mutation of Alias: the mode of the copy is not set.                      *)
AliasModeless ==
    /\ pc = "alias"
    /\ links # <<>>
    /\ LET m == archive[Head(links)] IN
          /\ ~RefusedAlias(m)
          /\ \/ /\ Target(m) \in DOMAIN files
                /\ CreateFile(m.path, [files[Target(m)] EXCEPT !.mode = 0])
                /\ progress' = TRUE
                /\ UNCHANGED left
             \/ /\ Target(m) \notin DOMAIN files
                /\ left' = Append(left, Head(links))
                /\ UNCHANGED <<progress, dirs, files>>
    /\ links' = Tail(links)
    /\ UNCHANGED <<format, archive, pc, next>>

Alias ==
    /\ pc = "alias"
    /\ links # <<>>
    /\ LET m == archive[Head(links)] IN
          /\ ~RefusedAlias(m)
          /\ \/ /\ Target(m) \in DOMAIN files
                /\ CreateFile(m.path, files[Target(m)])
                /\ progress' = TRUE
                /\ UNCHANGED left
             \/ /\ Target(m) \notin DOMAIN files
                /\ left' = Append(left, Head(links))
                /\ UNCHANGED <<progress, dirs, files>>
    /\ links' = Tail(links)
    /\ UNCHANGED <<format, archive, pc, next>>

(* Mutation of EndPass: progress is set once, before the first pass.        *)
EndPassProgress ==
    /\ pc = "alias"
    /\ links = <<>>
    /\ pc' = IF ~progress THEN "refused" ELSE IF left = <<>> THEN "find" ELSE "alias"
    /\ links' = left /\ left' = <<>>
    /\ UNCHANGED <<format, archive, next, progress, dirs, files>>

EndPass ==
    /\ pc = "alias"
    /\ links = <<>>
    /\ pc' = IF ~progress THEN "refused" ELSE IF left = <<>> THEN "find" ELSE "alias"
    /\ links' = left /\ left' = <<>> /\ progress' = FALSE
    /\ UNCHANGED <<format, archive, next, dirs, files>>

(* A read or a write fails while a file is copied.                          *)
Fail ==
    /\ \/ /\ Move("unpack", "raised")
          /\ next < Len(archive)
          /\ LET m == archive[next + 1] IN
                /\ m.kind = "file" /\ ~Refused(m)
                /\ CreateFile(m.path, [bytes |-> 0, mode |-> 0])
       \/ /\ Move("alias", "raised")
          /\ links # <<>>
          /\ LET m == archive[Head(links)] IN
                /\ ~RefusedAlias(m) /\ Target(m) \in DOMAIN files
                /\ CreateFile(m.path, [bytes |-> 0, mode |-> 0])
    /\ UNCHANGED <<format, archive, next, links, left, progress>>

-----------------------------------------------------------------------------
(* _find_server and read_server_version                                     *)

Candidates == {p \in DOMAIN files : p[Len(p)] = Server}

FindServer ==
    /\ pc = "find"
    /\ pc' = IF Candidates = {PinnedPath} /\ files[PinnedPath].bytes = PinnedBytes
             THEN "version" ELSE "raised"
    /\ UNCHANGED <<format, archive, next, links, left, progress, dirs, files>>

ReadVersion ==
    /\ Move("version", "returned") \/ Move("version", "raised")
    /\ UNCHANGED <<format, archive, next, links, left, progress, dirs, files>>

Stop == pc \in Over /\ UNCHANGED vars

Next ==
    \/ Check \/ Refuse \/ Unpack \/ EndUnpack
    \/ RefuseAlias \/ Alias \/ EndPass \/ Fail
    \/ FindServer \/ ReadVersion \/ Stop

Spec == Init /\ [][Next]_vars /\ WF_vars(Next)

-----------------------------------------------------------------------------
(* What an archive says, without the order of its members                   *)

Of(kind) == {i \in DOMAIN archive : archive[i].kind = kind}

PathsOf(kind) == {archive[i].path : i \in Of(kind)}

Written == Of("file") \cup Of("link")

ImpliedDirs == PathsOf("dir") \cup UNION {Parents(archive[i].path) : i \in Of("file") \cup Of("dir")}

(* Every set of links has one that leads to a file or out of the set to     *)
(* another link: no link is on a cycle, or leads to one or to nothing.      *)
LinksLeadToFiles ==
    \A S \in (SUBSET Of("link")) \ {{}} :
        \E i \in S : \/ Target(archive[i]) \in PathsOf("file")
                     \/ \E j \in Of("link") \ S : archive[j].path = Target(archive[i])

Sound ==
    /\ \A i \in DOMAIN archive : archive[i].kind \in {"file", "dir", "link"}
    /\ format = "zip" => Of("link") = {}
    /\ \A i, j \in Written : archive[i].path = archive[j].path => i = j
    /\ {archive[i].path : i \in Written} \cap ImpliedDirs = {}
    /\ \A i \in Of("link") : archive[i].link # Elsewhere
    /\ LinksLeadToFiles

(* Whether an archive can be unpacked depends on its members and not on     *)
(* their order: links may come before, after or across what they lead to.   *)
OrderIsNoMatter ==
    /\ pc \in Extracted => Sound
    /\ pc = "refused" => ~Sound

(* A complete extraction has exactly the files and directories that the     *)
(* archive names; each file has the bytes and the mode of its member and    *)
(* each link is a file with the bytes and the mode of what it leads to.     *)
TreeIsArchive ==
    pc \in Extracted =>
        /\ DOMAIN files = {archive[i].path : i \in Written}
        /\ dirs = ImpliedDirs
        /\ \A i \in Of("file") : files[archive[i].path].bytes = i
        /\ \A i \in Of("file") : files[archive[i].path].mode = (IF format = "tar" THEN i ELSE 0)
        /\ \A i \in Of("link") : files[archive[i].path] = files[Target(archive[i])]

(* The passes over the links end, for cycles and missing targets as well.   *)
Ends == <>(pc \in Over)

=============================================================================
