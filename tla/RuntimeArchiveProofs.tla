------------------------- MODULE RuntimeArchiveProofs -------------------------
(***************************************************************************)
(* Proofs about RuntimeArchive for archives of any length and depth: its   *)
(* types, that whether an archive is unpacked is decided by its members    *)
(* and not by their order, and that a complete extraction is the tree that *)
(* the archive names.                                                      *)
(***************************************************************************)
EXTENDS RuntimeArchive, SequenceTheorems, TLAPS

Elems(s) == {s[i] : i \in DOMAIN s}

Distinct(s) == \A i, j \in DOMAIN s : s[i] = s[j] => i = j

Path(i) == archive[i].path

Goal(i) == Target(archive[i])

(* The members that were looked at; of them the links that are put off, the *)
(* links that were copied, and the members that have their file.            *)
Before == 1 .. next

Pending == Elems(links) \cup Elems(left)

Copied == (Of("link") \cap Before) \ Pending

Made == (Of("file") \cap Before) \cup Copied

(* While the tree is only what the members so far make of it.               *)
Growing == {"unpack", "alias"} \cup Extracted

(* The links that wait, each once.                                          *)
QueueInv ==
    /\ links \in Seq(Of("link") \cap Before) /\ left \in Seq(Of("link") \cap Before)
    /\ Distinct(links) /\ Distinct(left)
    /\ Elems(links) \cap Elems(left) = {}

(* What is known at each place of the program; a pass that has copied       *)
(* nothing still has a link, as no pass starts without one.                 *)
PlaceInv ==
    /\ pc = "check" => next = 0 /\ dirs = {}
    /\ pc \in {"check", "unpack"} => left = <<>> /\ ~progress /\ Copied = {}
    /\ pc = "alias" \/ pc \in Extracted => next = Len(archive)
    /\ pc \in Extracted => links = <<>> /\ left = <<>>
    /\ pc = "alias" /\ ~progress => links # <<>> \/ left # <<>>

(* No member that was looked at is one that is refused.                     *)
MembersInv ==
    \A i \in Before :
        /\ archive[i].kind \in {"file", "dir", "link"}
        /\ format = "zip" => archive[i].kind # "link"

(* The names in the tree: a file for each member in Made, the directories   *)
(* of the members so far, and no path that is both.                         *)
TreeSoFar ==
    /\ DOMAIN files = {Path(i) : i \in Made}
    /\ \A i, j \in Made : Path(i) = Path(j) => i = j
    /\ dirs = {Path(i) : i \in Of("dir") \cap Before}
              \cup UNION {Parents(Path(i)) : i \in (Of("file") \cup Of("dir")) \cap Before}
    /\ dirs \cap DOMAIN files = {}
    /\ \A p \in DOMAIN files : Parents(p) \subseteq dirs

TreeInv == pc \in Growing => TreeSoFar

(* The contents of the files: a member's own, or those of a link's target.  *)
ContentSoFar ==
    /\ \A i \in Of("file") \cap Before :
          /\ files[Path(i)].bytes = i
          /\ files[Path(i)].mode = (IF format = "tar" THEN i ELSE 0)
    /\ \A i \in Copied :
          /\ archive[i].link # Elsewhere
          /\ Goal(i) \in DOMAIN files
          /\ files[Path(i)] = files[Goal(i)]

ContentInv == pc \in Growing => ContentSoFar

(* The links that were copied lead to files: of any of them, one leads to a *)
(* file member or to another copied link.                                   *)
OrderInv ==
    \A S \in (SUBSET Copied) \ {{}} :
        \E i \in S : \/ Goal(i) \in PathsOf("file")
                     \/ \E j \in Copied \ S : Path(j) = Goal(i)

(* As long as a pass has copied nothing, what it put off still leads to     *)
(* nothing.                                                                 *)
PassInv ==
    pc = "alias" /\ ~progress => \A i \in Elems(left) : Goal(i) \notin DOMAIN files

RefusedInv == pc = "refused" => ~Sound

IInv ==
    /\ TypeOK /\ QueueInv /\ PlaceInv /\ MembersInv
    /\ TreeInv /\ ContentInv /\ OrderInv /\ PassInv /\ RefusedInv

-----------------------------------------------------------------------------
(* Lemmas on sequences and paths                                            *)

(* A new element at the end.                                                *)
LEMMA AppendElems ==
    ASSUME NEW S, NEW s \in Seq(S), NEW e \in S, Distinct(s), e \notin Elems(s)
    PROVE  /\ Append(s, e) \in Seq(S)
           /\ Elems(Append(s, e)) = Elems(s) \cup {e}
           /\ Distinct(Append(s, e))
<1>1. /\ Append(s, e) \in Seq(S) /\ Len(Append(s, e)) = Len(s) + 1
      /\ \A i \in 1 .. Len(s) : Append(s, e)[i] = s[i]
      /\ Append(s, e)[Len(s) + 1] = e
  BY AppendProperties
<1>2. DOMAIN s = 1 .. Len(s) /\ DOMAIN Append(s, e) = 1 .. Len(s) + 1 /\ Len(s) \in Nat
  BY <1>1, LenProperties
<1>3. Elems(Append(s, e)) = Elems(s) \cup {e}
  <2>1. Elems(Append(s, e)) = {Append(s, e)[i] : i \in 1 .. Len(s) + 1}
    BY <1>2 DEF Elems
  <2>2. Elems(s) = {s[i] : i \in 1 .. Len(s)}
    BY <1>2 DEF Elems
  <2>3. 1 .. Len(s) + 1 = (1 .. Len(s)) \cup {Len(s) + 1}
    BY <1>2
  <2>4. QED
    BY <2>1, <2>2, <2>3, <1>1
<1>4. Distinct(Append(s, e))
  BY <1>1, <1>2 DEF Distinct, Elems
<1>5. QED
  BY <1>1, <1>3, <1>4

(* The first element taken away.                                            *)
LEMMA TailElems ==
    ASSUME NEW S, NEW s \in Seq(S), s # <<>>, Distinct(s)
    PROVE  /\ Head(s) \in S /\ Head(s) \in Elems(s)
           /\ Tail(s) \in Seq(S)
           /\ Elems(Tail(s)) = Elems(s) \ {Head(s)}
           /\ Distinct(Tail(s))
<1>1. /\ Head(s) \in S /\ Tail(s) \in Seq(S) /\ Len(Tail(s)) = Len(s) - 1
      /\ \A i \in 1 .. Len(Tail(s)) : Tail(s)[i] = s[i + 1]
  BY HeadTailProperties
<1>2. /\ DOMAIN s = 1 .. Len(s) /\ DOMAIN Tail(s) = 1 .. Len(s) - 1
      /\ Len(s) \in Nat \ {0} /\ Head(s) = s[1]
  BY <1>1, LenProperties, EmptySeq
<1>3. Head(s) \in Elems(s)
  BY <1>2 DEF Elems
<1>4. Elems(Tail(s)) = Elems(s) \ {Head(s)}
  <2>1. ASSUME NEW x \in Elems(Tail(s)) PROVE x \in Elems(s) \ {Head(s)}
    <3>1. PICK i \in 1 .. Len(s) - 1 : x = s[i + 1]
      BY <1>1, <1>2 DEF Elems
    <3>2. i + 1 \in DOMAIN s /\ 1 \in DOMAIN s /\ i + 1 # 1
      BY <1>2
    <3>3. QED
      BY <3>1, <3>2, <1>2 DEF Distinct, Elems
  <2>2. ASSUME NEW x \in Elems(s) \ {Head(s)} PROVE x \in Elems(Tail(s))
    <3>1. PICK i \in 1 .. Len(s) : x = s[i] /\ i # 1
      BY <1>2 DEF Elems
    <3>2. i - 1 \in 1 .. Len(Tail(s)) /\ (i - 1) + 1 = i
      BY <3>1, <1>1, <1>2
    <3>3. x = Tail(s)[i - 1] /\ i - 1 \in DOMAIN Tail(s)
      BY <3>1, <3>2, <1>1, <1>2
    <3>4. QED
      BY <3>3 DEF Elems
  <2>3. QED
    BY <2>1, <2>2
<1>5. Distinct(Tail(s))
  <2>1. ASSUME NEW i \in DOMAIN Tail(s), NEW j \in DOMAIN Tail(s), Tail(s)[i] = Tail(s)[j]
        PROVE  i = j
    <3>1. i + 1 \in DOMAIN s /\ j + 1 \in DOMAIN s /\ i \in Nat /\ j \in Nat
      BY <1>2
    <3>2. s[i + 1] = s[j + 1]
      BY <2>1, <1>1, <1>2
    <3>3. QED
      BY <3>1, <3>2 DEF Distinct
  <2>2. QED
    BY <2>1 DEF Distinct
<1>6. QED
  BY <1>1, <1>3, <1>4, <1>5

(* Nothing is in the empty sequence.                                        *)
LEMMA EmptyElems == Elems(<<>>) = {} /\ Distinct(<<>>)
BY DEF Elems, Distinct

(* A link is in the directory of its target: they have the same parents.    *)
LEMMA TargetParents ==
    ASSUME NEW m \in Members
    PROVE  Parents(Target(m)) = Parents(m.path)
<1>. DEFINE S == Names \cup {Elsewhere}
<1>1. m.path \in Seq(S) /\ m.link \in S /\ m.path \in Seq(Names)
  BY SeqMonotonic DEF Members
<1>2. Len(m.path) \in Nat /\ DOMAIN m.path = 1 .. Len(m.path)
  BY <1>1, LenProperties
<1>3. CASE Len(m.path) = 0
  BY <1>1, <1>3, SMT DEF Parents, Target, Parent
<1>4. CASE Len(m.path) # 0
  <2>. DEFINE k == Len(m.path)
              q == SubSeq(m.path, 1, k - 1)
              t == Append(q, m.link)
  <2>1. /\ q \in Seq(S) /\ Len(q) = k - 1
        /\ \A i \in 1 .. k - 1 : q[i] = m.path[i]
    BY <1>1, <1>2, <1>4, SMT
  <2>2. /\ t \in Seq(S) /\ Len(t) = k
        /\ \A i \in 1 .. k - 1 : t[i] = m.path[i]
    BY <2>1, <1>1, <1>2, <1>4, AppendProperties
  <2>3. ASSUME NEW n \in 1 .. k - 1 PROVE SubSeq(t, 1, n) = SubSeq(m.path, 1, n)
    BY <2>2, <1>1, <1>2, SMT
  <2>4. Target(m) = t
    BY DEF Target, Parent
  <2>5. QED
    BY <2>2, <2>3, <2>4 DEF Parents
<1>5. QED
  BY <1>3, <1>4

(* A file that is created at a free path changes no other one.              *)
LEMMA CreateFileAdds ==
    ASSUME NEW p, NEW node, p \notin DOMAIN files, CreateFile(p, node)
    PROVE  /\ DOMAIN files' = DOMAIN files \cup {p}
           /\ files'[p] = node
           /\ \A q \in DOMAIN files : files'[q] = files[q]
           /\ dirs' = dirs \cup Parents(p)
BY DEF CreateFile

-----------------------------------------------------------------------------
(* Types                                                                    *)

(* The archive is a sequence of members.                                    *)
LEMMA ArchiveTyped ==
    ASSUME TypeOK
    PROVE  /\ archive \in Seq(Members) /\ format \in {"zip", "tar"}
           /\ Len(archive) \in Nat /\ DOMAIN archive = 1 .. Len(archive)
           /\ \A i \in 1 .. Len(archive) : archive[i] \in Members
<1>1. [format |-> format, members |-> archive] \in [format : {"zip", "tar"}, members : Seq(Members)]
  BY ArchivesAssumption DEF TypeOK
<1>2. archive \in Seq(Members) /\ format \in {"zip", "tar"}
  BY <1>1
<1>3. QED
  BY <1>2, LenProperties, ElementOfSeq

(* The parents of a path are paths.                                         *)
LEMMA ParentsTyped == ASSUME NEW p \in Seq(Names) PROVE Parents(p) \subseteq Seq(Names)
BY SMT DEF Parents

(* No path is a parent of itself.                                           *)
LEMMA NotOwnParent == ASSUME NEW p \in Seq(Names) PROVE p \notin Parents(p)
<1>1. Len(p) \in Nat
  BY LenProperties
<1>2. \A n \in 1 .. Len(p) - 1 : Len(SubSeq(p, 1, n)) = n
  BY <1>1, SMT
<1>3. QED
  BY <1>1, <1>2 DEF Parents

(* The types hold at the start.                                             *)
LEMMA InitTypeOK == Init => TypeOK
<1>. SUFFICES ASSUME Init PROVE TypeOK
  OBVIOUS
<1>1. PICK a \in Archives : format = a.format /\ archive = a.members
  BY DEF Init
<1>2. a \in [format : {"zip", "tar"}, members : Seq(Members)]
  BY ArchivesAssumption
<1>3. [format |-> format, members |-> archive] = a /\ archive \in Seq(Members)
  BY <1>1, <1>2
<1>4. Len(archive) \in Nat
  BY <1>3, LenProperties
<1>5. Server \in Names
  <2>1. Len(PinnedPath) \in Nat \ {0}
    BY PinnedPathAssumption, LenProperties, EmptySeq
  <2>2. QED
    BY <2>1, PinnedPathAssumption, ElementOfSeq DEF Server
<1>6. /\ DOMAIN files \subseteq Seq(Names)
      /\ \A p \in DOMAIN files : files[p] = [bytes |-> 0, mode |-> 0]
  <2>1. PICK P \in {{}, {<<Server>>}} : files = [p \in P |-> [bytes |-> 0, mode |-> 0]]
    BY DEF Init, Leftovers
  <2>2. <<Server>> \in Seq(Names)
    BY <1>5
  <2>3. QED
    BY <2>1, <2>2
<1>7. <<>> \in Seq(1 .. Len(archive))
  BY EmptySeq
<1>8. [format |-> format, members |-> archive] \in Archives
  BY <1>3
<1>9. progress \in BOOLEAN
  BY DEF Init
<1>10. pc = "check" /\ next = 0 /\ links = <<>> /\ left = <<>> /\ dirs = {}
  BY DEF Init
<1>11. \A p \in DOMAIN files : files[p] \in [bytes : 0 .. Len(archive), mode : 0 .. Len(archive)]
  BY <1>4, <1>6
<1>12. QED
  BY <1>4, <1>6, <1>7, <1>8, <1>9, <1>10, <1>11 DEF TypeOK

(* Every step keeps the types.                                              *)
LEMMA NextTypeOK == TypeOK /\ [Next]_vars => TypeOK'
<1>. SUFFICES ASSUME TypeOK, [Next]_vars PROVE TypeOK'
  OBVIOUS
<1>. USE DEF TypeOK, Move, Extracted, Over
<1>1. CASE Check
  BY <1>1 DEF Check
<1>2. CASE Refuse
  BY <1>2 DEF Refuse
<1>3. CASE Unpack
  <2>. DEFINE m == archive[next + 1]
  <2>1. /\ next + 1 \in 1 .. Len(archive) /\ m \in Members
        /\ m.path \in Seq(Names) /\ Parents(m.path) \subseteq Seq(Names)
    BY <1>3, ArchiveTyped, ParentsTyped DEF Unpack, Members
  <2>2. links' \in Seq(1 .. Len(archive))
    <3>1. links' = links \/ links' = Append(links, next + 1)
      BY <1>3 DEF Unpack
    <3>2. Append(links, next + 1) \in Seq(1 .. Len(archive))
      BY <2>1, AppendProperties
    <3>3. QED
      BY <3>1, <3>2
  <2>3. /\ dirs' \subseteq Seq(Names) /\ DOMAIN files' \subseteq Seq(Names)
        /\ \A p \in DOMAIN files' :
              files'[p] \in [bytes : 0 .. Len(archive), mode : 0 .. Len(archive)]
    <3>1. \/ UNCHANGED files /\ dirs' = dirs \cup Parents(m.path) \cup {m.path}
          \/ \E k \in {next + 1, 0} : CreateFile(m.path, [bytes |-> next + 1, mode |-> k])
          \/ UNCHANGED <<dirs, files>>
      BY <1>3 DEF Unpack
    <3>2. next + 1 \in 0 .. Len(archive) /\ 0 \in 0 .. Len(archive)
      BY <2>1, ArchiveTyped
    <3>3. QED
      BY <3>1, <3>2, <2>1 DEF CreateFile
  <2>4. next' \in 0 .. Len(archive) /\ UNCHANGED <<format, archive, pc, left, progress>>
    BY <1>3, <2>1 DEF Unpack
  <2>5. QED
    BY <2>2, <2>3, <2>4
<1>4. CASE EndUnpack
  BY <1>4 DEF EndUnpack
<1>5. CASE RefuseAlias
  BY <1>5 DEF RefuseAlias
<1>6. CASE Alias
  <2>. DEFINE m == archive[Head(links)]
  <2>1. Head(links) \in 1 .. Len(archive) /\ Tail(links) \in Seq(1 .. Len(archive))
    BY <1>6, HeadTailProperties DEF Alias
  <2>2. m.path \in Seq(Names) /\ Parents(m.path) \subseteq Seq(Names)
    BY <2>1, ArchiveTyped, ParentsTyped DEF Members
  <2>3. links' \in Seq(1 .. Len(archive)) /\ left' \in Seq(1 .. Len(archive))
    <3>1. /\ links' = Tail(links)
          /\ left' = left \/ left' = Append(left, Head(links))
      BY <1>6 DEF Alias
    <3>2. Append(left, Head(links)) \in Seq(1 .. Len(archive))
      BY <2>1, AppendProperties
    <3>3. QED
      BY <2>1, <3>1, <3>2
  <2>4. /\ dirs' \subseteq Seq(Names) /\ DOMAIN files' \subseteq Seq(Names)
        /\ \A p \in DOMAIN files' :
              files'[p] \in [bytes : 0 .. Len(archive), mode : 0 .. Len(archive)]
    BY <1>6, <2>2 DEF Alias, CreateFile
  <2>5. progress' \in BOOLEAN
    BY <1>6 DEF Alias
  <2>6. UNCHANGED <<format, archive, pc, next>>
    BY <1>6 DEF Alias
  <2>7. QED
    BY <2>3, <2>4, <2>5, <2>6
<1>7. CASE EndPass
  <2>1. links' \in Seq(1 .. Len(archive)) /\ left' \in Seq(1 .. Len(archive))
    BY <1>7, EmptySeq DEF EndPass
  <2>2. progress' \in BOOLEAN
    BY <1>7 DEF EndPass
  <2>3. /\ pc' \in {"refused", "find", "alias"}
        /\ UNCHANGED <<format, archive, next, dirs, files>>
    BY <1>7 DEF EndPass
  <2>4. QED
    BY <2>1, <2>2, <2>3
<1>8. CASE Fail
  <2>1. PICK m \in Members : CreateFile(m.path, [bytes |-> 0, mode |-> 0])
    <3>1. CASE pc = "unpack"
      BY <1>8, <3>1, ArchiveTyped DEF Fail
    <3>2. CASE pc = "alias"
      <4>1. Head(links) \in 1 .. Len(archive)
        BY <1>8, <3>2, HeadTailProperties DEF Fail
      <4>2. QED
        BY <1>8, <3>2, <4>1, ArchiveTyped DEF Fail
    <3>3. QED
      BY <1>8, <3>1, <3>2 DEF Fail
  <2>2. m.path \in Seq(Names) /\ Parents(m.path) \subseteq Seq(Names)
    BY ParentsTyped DEF Members
  <2>3. /\ dirs' \subseteq Seq(Names) /\ DOMAIN files' \subseteq Seq(Names)
        /\ \A p \in DOMAIN files' :
              files'[p] \in [bytes : 0 .. Len(archive), mode : 0 .. Len(archive)]
    BY <2>1, <2>2, ArchiveTyped DEF CreateFile
  <2>4. pc' = "raised" /\ UNCHANGED <<format, archive, next, links, left, progress>>
    BY <1>8 DEF Fail
  <2>5. QED
    BY <2>3, <2>4
<1>9. CASE FindServer
  BY <1>9 DEF FindServer
<1>10. CASE ReadVersion
  BY <1>10 DEF ReadVersion
<1>11. CASE Stop \/ UNCHANGED vars
  BY <1>11 DEF Stop, vars
<1>12. QED
  BY <1>1, <1>2, <1>3, <1>4, <1>5, <1>6, <1>7, <1>8, <1>9, <1>10, <1>11 DEF Next

-----------------------------------------------------------------------------
(* The queues of links, and what a step does to the sets of members         *)

(* The first link of the queue is a link that was put off.                  *)
LEMMA HeadIsPending ==
    ASSUME TypeOK, QueueInv, links # <<>>
    PROVE  /\ Head(links) \in Of("link") \cap Before
           /\ Head(links) \in Elems(links) /\ Head(links) \notin Elems(left)
           /\ Tail(links) \in Seq(Of("link") \cap Before) /\ Distinct(Tail(links))
           /\ Elems(Tail(links)) = Elems(links) \ {Head(links)}
<1>1. links \in Seq(Of("link") \cap Before) /\ Distinct(links)
  BY DEF QueueInv
<1>2. /\ Head(links) \in Of("link") \cap Before /\ Head(links) \in Elems(links)
      /\ Tail(links) \in Seq(Of("link") \cap Before)
      /\ Elems(Tail(links)) = Elems(links) \ {Head(links)}
      /\ Distinct(Tail(links))
  BY <1>1, TailElems
<1>3. QED
  BY <1>2 DEF QueueInv

(* Only members that were looked at wait.                                   *)
LEMMA QueueBound ==
    ASSUME QueueInv
    PROVE  Elems(links) \subseteq Of("link") \cap Before /\ Elems(left) \subseteq Of("link") \cap Before
BY ElementOfSeq, LenProperties DEF QueueInv, Elems

(* One more member was looked at.                                           *)
LEMMA BeforeGrows ==
    ASSUME TypeOK, next < Len(archive), next' = next + 1
    PROVE  /\ Before' = Before \cup {next + 1} /\ next + 1 \notin Before
           /\ next + 1 \in DOMAIN archive
BY ArchiveTyped DEF TypeOK, Before

(* Unpacking a member puts it off just when it is a link: no other set of   *)
(* links changes, and a file member is one more that has its file.          *)
LEMMA UnpackQueue ==
    ASSUME TypeOK, QueueInv, PlaceInv, Unpack
    PROVE  /\ QueueInv' /\ Copied' = Copied
           /\ Made' = Made \cup (IF archive[next + 1].kind = "file" THEN {next + 1} ELSE {})
<1>. DEFINE n == next + 1
<1>1. /\ Before' = Before \cup {n} /\ n \notin Before /\ n \in DOMAIN archive
      /\ archive' = archive /\ left' = left /\ left = <<>>
  BY BeforeGrows DEF Unpack, PlaceInv
<1>2. /\ Of("link")' = Of("link") /\ Of("file")' = Of("file")
      /\ (Of("link") \cap Before)' = (Of("link") \cap Before) \cup (Of("link") \cap {n})
  BY <1>1 DEF Of
<1>3. /\ links \in Seq((Of("link") \cap Before)') /\ left \in Seq((Of("link") \cap Before)')
      /\ Distinct(links) /\ Distinct(left) /\ n \notin Elems(links)
      /\ Elems(left) = {}
  <2>1. links \in Seq(Of("link") \cap Before) /\ left \in Seq(Of("link") \cap Before)
    BY DEF QueueInv
  <2>2. (Of("link") \cap Before) \subseteq (Of("link") \cap Before)'
    BY <1>2
  <2>3. /\ links \in Seq((Of("link") \cap Before)')
        /\ left \in Seq((Of("link") \cap Before)')
    BY <2>1, <2>2, SeqMonotonic
  <2>4. QED
    BY <2>3, <1>1, QueueBound, EmptyElems DEF QueueInv
<1>4. CASE archive[n].kind = "link"
  <2>1. links' = Append(links, n) /\ n \in Of("link")
    BY <1>1, <1>4 DEF Unpack, Of
  <2>2. n \in (Of("link") \cap Before)'
    BY <1>2, <2>1
  <2>3. /\ links' \in Seq((Of("link") \cap Before)') /\ Distinct(links')
        /\ Elems(links') = Elems(links) \cup {n}
    BY <1>3, <2>1, <2>2, AppendElems
  <2>4. QueueInv'
    BY <1>1, <1>3, <2>3 DEF QueueInv
  <2>5. Copied' = Copied
    <3>1. Pending' = Pending \cup {n}
      BY <1>1, <2>3 DEF Pending
    <3>2. QED
      BY <1>1, <1>2, <2>1, <3>1 DEF Copied
  <2>6. n \notin Of("file")
    BY <1>4 DEF Of
  <2>7. QED
    BY <1>1, <1>2, <1>4, <2>4, <2>5, <2>6 DEF Made
<1>5. CASE archive[n].kind # "link"
  <2>1. links' = links /\ n \notin Of("link")
    BY <1>5 DEF Unpack, Of
  <2>2. QueueInv'
    BY <1>1, <1>3, <2>1 DEF QueueInv
  <2>3. Copied' = Copied
    BY <1>1, <1>2, <2>1 DEF Copied, Pending
  <2>4. n \in Of("file") <=> archive[n].kind = "file"
    BY <1>1 DEF Of
  <2>5. QED
    BY <1>1, <1>2, <2>2, <2>3, <2>4 DEF Made
<1>6. QED
  BY <1>4, <1>5

(* A link that is looked at is copied or put off.                           *)
LEMMA AliasQueue ==
    ASSUME TypeOK, QueueInv, Alias
    PROVE  /\ QueueInv' /\ Head(links) \notin Made
           /\ IF Goal(Head(links)) \in DOMAIN files
              THEN /\ Copied' = Copied \cup {Head(links)}
                   /\ Made' = Made \cup {Head(links)}
                   /\ left' = left
              ELSE /\ Copied' = Copied /\ Made' = Made
                   /\ Elems(left)' = Elems(left) \cup {Head(links)}
<1>. DEFINE h == Head(links)
<1>1. /\ h \in Of("link") \cap Before /\ h \in Elems(links) /\ h \notin Elems(left)
      /\ Tail(links) \in Seq(Of("link") \cap Before) /\ Distinct(Tail(links))
      /\ Elems(Tail(links)) = Elems(links) \ {h}
  BY HeadIsPending DEF Alias
<1>2. /\ links' = Tail(links)
      /\ Before' = Before /\ Of("link")' = Of("link") /\ Of("file")' = Of("file")
  BY DEF Alias, Before, Of
<1>3. h \notin Made /\ h \notin Copied
  BY <1>1 DEF Made, Copied, Pending, Of
<1>4. /\ left \in Seq(Of("link") \cap Before) /\ Distinct(left)
      /\ Elems(links) \cap Elems(left) = {}
  BY DEF QueueInv
<1>5. CASE Goal(h) \in DOMAIN files
  <2>1. left' = left
    BY <1>5 DEF Alias, Goal
  <2>2. QueueInv'
    BY <1>1, <1>2, <1>4, <2>1 DEF QueueInv
  <2>3. Pending' = Pending \ {h}
    BY <1>1, <1>2, <2>1 DEF Pending
  <2>4. Copied' = Copied \cup {h}
    BY <1>1, <1>2, <2>3 DEF Copied
  <2>5. QED
    BY <1>2, <1>3, <1>5, <2>1, <2>2, <2>4 DEF Made
<1>6. CASE Goal(h) \notin DOMAIN files
  <2>1. left' = Append(left, h)
    BY <1>6 DEF Alias, Goal
  <2>2. /\ left' \in Seq(Of("link") \cap Before) /\ Distinct(left')
        /\ Elems(left') = Elems(left) \cup {h}
    BY <1>1, <1>4, <2>1, AppendElems
  <2>3. QueueInv'
    BY <1>1, <1>2, <1>4, <2>2 DEF QueueInv
  <2>4. Pending' = Pending
    BY <1>1, <1>2, <2>2 DEF Pending
  <2>5. Copied' = Copied
    BY <1>2, <2>4 DEF Copied
  <2>6. Elems(left)' = Elems(left) \cup {h}
    BY <2>2 DEF Elems
  <2>7. QED
    BY <1>2, <1>3, <1>6, <2>3, <2>5, <2>6 DEF Made
<1>7. QED
  BY <1>5, <1>6

(* The next pass takes the links that this one has put off.                 *)
LEMMA EndPassQueue ==
    ASSUME QueueInv, EndPass
    PROVE  QueueInv' /\ Copied' = Copied /\ Made' = Made /\ Pending = Elems(left)
<1>1. /\ links = <<>> /\ links' = left /\ left' = <<>>
      /\ Before' = Before /\ Of("link")' = Of("link") /\ Of("file")' = Of("file")
  BY DEF EndPass, Before, Of
<1>2. Pending = Elems(left) /\ Pending' = Elems(left)
  BY <1>1, EmptyElems DEF Pending
<1>3. QueueInv'
  BY <1>1, EmptyElems, EmptySeq DEF QueueInv
<1>4. QED
  BY <1>1, <1>2, <1>3 DEF Copied, Made

(* The other steps leave the queues and the archive alone.                  *)
LEMMA SameQueue ==
    ASSUME UNCHANGED <<archive, next, links, left>>
    PROVE  /\ QueueInv <=> QueueInv'
           /\ Copied' = Copied /\ Made' = Made
BY DEF QueueInv, Copied, Made, Pending, Before, Of, Elems, Distinct

-----------------------------------------------------------------------------
(* The tree                                                                 *)

(* The tree stays what it is when nothing that it is made of changes.       *)
LEMMA SameTree ==
    ASSUME UNCHANGED <<format, archive, next, dirs, files>>, Copied' = Copied, Made' = Made
    PROVE  /\ TreeSoFar => TreeSoFar'
           /\ ContentSoFar => ContentSoFar'
<1>1. /\ Before' = Before /\ \A kind : Of(kind)' = Of(kind)
      /\ \A i : Path(i)' = Path(i) /\ Goal(i)' = Goal(i)
  BY DEF Before, Of, Path, Goal
<1>2. TreeSoFar => TreeSoFar'
  BY <1>1 DEF TreeSoFar
<1>3. ContentSoFar => ContentSoFar'
  BY <1>1 DEF ContentSoFar
<1>4. QED
  BY <1>2, <1>3

(* A member that gets its file, at a path that is free.                     *)
LEMMA OneMoreFile ==
    ASSUME TreeSoFar, NEW n, NEW node, Path(n) \in Seq(Names),
           CanCreate(Path(n)), CreateFile(Path(n), node), n \notin Made,
           Made' = Made \cup {n}, archive' = archive
    PROVE  /\ DOMAIN files' = {Path(i) : i \in Made'}
           /\ \A i, j \in Made' : Path(i) = Path(j) => i = j
           /\ dirs' \cap DOMAIN files' = {}
           /\ \A p \in DOMAIN files' : Parents(p) \subseteq dirs'
           /\ dirs' = dirs \cup Parents(Path(n))
           /\ files'[Path(n)] = node
           /\ \A p \in DOMAIN files : p # Path(n) /\ files'[p] = files[p]
<1>1. /\ Path(n) \notin dirs /\ Path(n) \notin DOMAIN files
      /\ Parents(Path(n)) \cap DOMAIN files = {}
  BY DEF CanCreate, Taken
<1>2. /\ DOMAIN files' = DOMAIN files \cup {Path(n)}
      /\ files'[Path(n)] = node
      /\ \A q \in DOMAIN files : files'[q] = files[q]
      /\ dirs' = dirs \cup Parents(Path(n))
  BY <1>1, CreateFileAdds
<1>3. Path(n) \notin Parents(Path(n))
  BY NotOwnParent
<1>4. QED
  BY <1>1, <1>2, <1>3 DEF TreeSoFar

(* What a copied link and a file member have stays what it is in a tree     *)
(* that only grows.                                                         *)
LEMMA ContentLasts ==
    ASSUME TreeSoFar, ContentSoFar, UNCHANGED <<format, archive>>,
           \A p \in DOMAIN files : p \in DOMAIN files' /\ files'[p] = files[p]
    PROVE  /\ \A i \in Of("file") \cap Before :
                 /\ files'[Path(i)].bytes = i
                 /\ files'[Path(i)].mode = (IF format = "tar" THEN i ELSE 0)
           /\ \A i \in Copied :
                 /\ archive[i].link # Elsewhere
                 /\ Goal(i) \in DOMAIN files'
                 /\ files'[Path(i)] = files'[Goal(i)]
BY DEF TreeSoFar, ContentSoFar, Made

(* Unpacking a member makes the tree that the members with it make.         *)
LEMMA UnpackTree ==
    ASSUME TypeOK, QueueInv, PlaceInv, TreeSoFar, ContentSoFar, Unpack
    PROVE  TreeSoFar' /\ ContentSoFar'
<1>. DEFINE n == next + 1
            m == archive[n]
<1>1. /\ Before' = Before \cup {n} /\ n \notin Before /\ n \in DOMAIN archive
      /\ UNCHANGED <<format, archive>> /\ ~Refused(m)
  BY BeforeGrows DEF Unpack
<1>2. /\ \A kind : Of(kind)' = Of(kind)
      /\ \A i : Path(i)' = Path(i) /\ Goal(i)' = Goal(i)
      /\ \A kind : n \in Of(kind) <=> m.kind = kind
  BY <1>1 DEF Of, Path, Goal
<1>3. Copied' = Copied /\ Made' = Made \cup (IF m.kind = "file" THEN {n} ELSE {})
  BY UnpackQueue
<1>4. Path(n) = m.path /\ Path(n) \in Seq(Names)
  BY <1>1, ArchiveTyped DEF Path, Members
<1>5. CASE m.kind = "dir"
  <2>1. /\ dirs' = dirs \cup Parents(Path(n)) \cup {Path(n)} /\ files' = files
        /\ (Parents(Path(n)) \cup {Path(n)}) \cap DOMAIN files = {}
    BY <1>1, <1>4, <1>5 DEF Unpack, Refused, CanMake
  <2>2. /\ (Of("dir") \cap Before)' = (Of("dir") \cap Before) \cup {n}
        /\ (Of("file") \cap Before)' = Of("file") \cap Before
        /\ ((Of("file") \cup Of("dir")) \cap Before)'
           = ((Of("file") \cup Of("dir")) \cap Before) \cup {n}
    BY <1>1, <1>2, <1>5
  <2>3. Made' = Made
    BY <1>3, <1>5
  <2>4. dirs' = {Path(i) : i \in (Of("dir") \cap Before)'}
                \cup UNION {Parents(Path(i)) : i \in ((Of("file") \cup Of("dir")) \cap Before)'}
    BY <2>1, <2>2 DEF TreeSoFar
  <2>5. TreeSoFar'
    BY <1>2, <2>1, <2>3, <2>4 DEF TreeSoFar
  <2>6. ContentSoFar'
    BY <1>1, <1>2, <1>3, <2>1, <2>2 DEF ContentSoFar
  <2>7. QED
    BY <2>5, <2>6
<1>6. CASE m.kind = "file"
  <2>. DEFINE node == [bytes |-> n, mode |-> IF format = "tar" THEN n ELSE 0]
  <2>1. CanCreate(Path(n)) /\ CreateFile(Path(n), node)
    BY <1>1, <1>4, <1>6 DEF Unpack, Refused
  <2>2. n \notin Made /\ Made' = Made \cup {n} /\ archive' = archive
    BY <1>1, <1>3, <1>6 DEF Made, Copied
  <2>3. /\ DOMAIN files' = {Path(i) : i \in Made'}
        /\ \A i, j \in Made' : Path(i) = Path(j) => i = j
        /\ dirs' \cap DOMAIN files' = {}
        /\ \A p \in DOMAIN files' : Parents(p) \subseteq dirs'
        /\ dirs' = dirs \cup Parents(Path(n))
        /\ files'[Path(n)] = node
        /\ \A p \in DOMAIN files : p # Path(n) /\ files'[p] = files[p]
    BY <1>4, <2>1, <2>2, OneMoreFile
  <2>4. /\ (Of("dir") \cap Before)' = Of("dir") \cap Before
        /\ (Of("file") \cap Before)' = (Of("file") \cap Before) \cup {n}
        /\ ((Of("file") \cup Of("dir")) \cap Before)'
           = ((Of("file") \cup Of("dir")) \cap Before) \cup {n}
    BY <1>1, <1>2, <1>6
  <2>5. dirs' = {Path(i) : i \in (Of("dir") \cap Before)'}
                \cup UNION {Parents(Path(i)) : i \in ((Of("file") \cup Of("dir")) \cap Before)'}
    BY <2>3, <2>4 DEF TreeSoFar
  <2>6. TreeSoFar'
    BY <1>2, <2>3, <2>5 DEF TreeSoFar
  <2>7. \A p \in DOMAIN files : p \in DOMAIN files' /\ files'[p] = files[p]
    BY <2>2, <2>3 DEF TreeSoFar
  <2>8. ContentSoFar'
    BY <1>1, <1>2, <1>3, <2>3, <2>4, <2>7, ContentLasts DEF ContentSoFar
  <2>9. QED
    BY <2>6, <2>8
<1>7. CASE m.kind = "link"
  <2>1. UNCHANGED <<dirs, files>> /\ Made' = Made
    BY <1>3, <1>7 DEF Unpack
  <2>2. /\ (Of("dir") \cap Before)' = Of("dir") \cap Before
        /\ (Of("file") \cap Before)' = Of("file") \cap Before
        /\ ((Of("file") \cup Of("dir")) \cap Before)' = (Of("file") \cup Of("dir")) \cap Before
    BY <1>1, <1>2, <1>7
  <2>3. TreeSoFar'
    BY <1>2, <2>1, <2>2 DEF TreeSoFar
  <2>4. ContentSoFar'
    BY <1>1, <1>2, <1>3, <2>1, <2>2 DEF ContentSoFar
  <2>5. QED
    BY <2>3, <2>4
<1>8. QED
  BY <1>5, <1>6, <1>7 DEF Unpack

(* Copying a link makes a file with what its target has, beside the target, *)
(* and no directory.                                                        *)
LEMMA AliasTree ==
    ASSUME TypeOK, QueueInv, TreeSoFar, ContentSoFar, Alias
    PROVE  TreeSoFar' /\ ContentSoFar'
<1>. DEFINE h == Head(links)
            m == archive[h]
<1>1. /\ UNCHANGED <<format, archive, next>> /\ ~RefusedAlias(m) /\ h \notin Made
      /\ h \in 1 .. Len(archive)
  BY AliasQueue, HeadIsPending, ArchiveTyped DEF Alias, Of
<1>2. /\ Before' = Before /\ \A kind : Of(kind)' = Of(kind)
      /\ \A i : Path(i)' = Path(i) /\ Goal(i)' = Goal(i)
  BY <1>1 DEF Of, Path, Goal, Before
<1>3. /\ m \in Members /\ Path(h) = m.path /\ Goal(h) = Target(m)
      /\ Path(h) \in Seq(Names) /\ Parents(Goal(h)) = Parents(Path(h))
  BY <1>1, ArchiveTyped, TargetParents DEF Path, Goal, Members
<1>4. CASE Goal(h) \in DOMAIN files
  <2>. DEFINE node == files[Goal(h)]
  <2>1. CanCreate(Path(h)) /\ CreateFile(Path(h), node) /\ m.link # Elsewhere
    BY <1>1, <1>3, <1>4 DEF Alias, RefusedAlias
  <2>2. Copied' = Copied \cup {h} /\ Made' = Made \cup {h} /\ archive' = archive
    BY <1>1, <1>4, AliasQueue
  <2>3. /\ DOMAIN files' = {Path(i) : i \in Made'}
        /\ \A i, j \in Made' : Path(i) = Path(j) => i = j
        /\ dirs' \cap DOMAIN files' = {}
        /\ \A p \in DOMAIN files' : Parents(p) \subseteq dirs'
        /\ dirs' = dirs \cup Parents(Path(h))
        /\ files'[Path(h)] = node
        /\ \A p \in DOMAIN files : p # Path(h) /\ files'[p] = files[p]
    BY <1>1, <1>3, <2>1, <2>2, OneMoreFile
  <2>4. dirs' = dirs
    BY <1>3, <1>4, <2>3 DEF TreeSoFar
  <2>5. TreeSoFar'
    BY <1>2, <2>3, <2>4 DEF TreeSoFar
  <2>6. \A p \in DOMAIN files : p \in DOMAIN files' /\ files'[p] = files[p]
    BY <2>2, <2>3 DEF TreeSoFar
  <2>7. /\ m.link # Elsewhere /\ Goal(h) \in DOMAIN files'
        /\ files'[Path(h)] = files'[Goal(h)]
    BY <1>4, <2>1, <2>3, <2>6
  <2>8. ContentSoFar'
    BY <1>1, <1>2, <2>2, <2>6, <2>7, ContentLasts DEF ContentSoFar
  <2>9. QED
    BY <2>5, <2>8
<1>5. CASE Goal(h) \notin DOMAIN files
  <2>1. UNCHANGED <<dirs, files>>
    BY <1>3, <1>5 DEF Alias
  <2>2. Copied' = Copied /\ Made' = Made
    BY <1>5, AliasQueue
  <2>3. QED
    BY <1>1, <2>1, <2>2, SameTree
<1>6. QED
  BY <1>4, <1>5

-----------------------------------------------------------------------------
(* The links                                                                *)

(* What has a file is what a file member or a copied link names.            *)
LEMMA FileOf ==
    ASSUME TreeSoFar, NEW p \in DOMAIN files
    PROVE  p \in PathsOf("file") \/ \E j \in Copied : Path(j) = p
BY DEF TreeSoFar, Made, PathsOf, Path

(* A copied link leads to what had its file before.                         *)
LEMMA OrderGrows ==
    ASSUME TreeSoFar, OrderInv, NEW h, h \notin Copied, Goal(h) \in DOMAIN files,
           NEW S \in (SUBSET (Copied \cup {h})) \ {{}}
    PROVE  \E i \in S : \/ Goal(i) \in PathsOf("file")
                        \/ \E j \in (Copied \cup {h}) \ S : Path(j) = Goal(i)
<1>1. CASE h \notin S
  BY <1>1 DEF OrderInv
<1>2. CASE h \in S /\ S # {h}
  <2>1. S \ {h} \in (SUBSET Copied) \ {{}}
    BY <1>2
  <2>2. PICK i \in S \ {h} : \/ Goal(i) \in PathsOf("file")
                             \/ \E j \in Copied \ (S \ {h}) : Path(j) = Goal(i)
    BY <2>1 DEF OrderInv
  <2>3. Copied \ (S \ {h}) \subseteq (Copied \cup {h}) \ S
    BY <1>2
  <2>4. QED
    BY <2>2, <2>3
<1>3. CASE S = {h}
  BY <1>3, FileOf
<1>4. QED
  BY <1>1, <1>2, <1>3

(* When the links that are put off lead to nothing in the tree they are a   *)
(* set of links of which none leads out of it.                              *)
LEMMA StuckIsUnsound ==
    ASSUME TypeOK, QueueInv, PlaceInv, TreeSoFar, pc = "alias",
           links = <<>>, left # <<>>, \A i \in Elems(left) : Goal(i) \notin DOMAIN files
    PROVE  ~LinksLeadToFiles
<1>. DEFINE S == Elems(left)
<1>1. Before = DOMAIN archive
  BY ArchiveTyped DEF PlaceInv, Before
<1>2. S \in (SUBSET Of("link")) \ {{}}
  <2>1. S \subseteq Of("link")
    BY QueueBound
  <2>2. Head(left) \in S
    BY TailElems DEF QueueInv
  <2>3. QED
    BY <2>1, <2>2
<1>3. Copied = Of("link") \ S
  BY <1>1, EmptyElems DEF Copied, Pending, Of
<1>4. ASSUME NEW i \in S PROVE Goal(i) \notin PathsOf("file")
  <2>1. ASSUME NEW k \in Of("file") PROVE archive[k].path \in DOMAIN files
    BY <1>1 DEF TreeSoFar, Made, Path, Of
  <2>2. QED
    BY <2>1 DEF PathsOf
<1>5. ASSUME NEW i \in S, NEW j \in Of("link") \ S PROVE archive[j].path # Goal(i)
  BY <1>3 DEF TreeSoFar, Made, Path
<1>6. QED
  BY <1>2, <1>4, <1>5 DEF LinksLeadToFiles, Goal

-----------------------------------------------------------------------------
(* What is refused is unsound                                               *)

(* The directories so far are implied, the files so far are written.        *)
LEMMA SoFarIsNamed ==
    ASSUME TypeOK, TreeSoFar
    PROVE  /\ dirs \subseteq ImpliedDirs
           /\ Made \subseteq Written /\ Written \subseteq DOMAIN archive
           /\ DOMAIN files = {archive[i].path : i \in Made}
           /\ Made \subseteq Before
BY DEF TreeSoFar, ImpliedDirs, PathsOf, Made, Copied, Written, Path, Of

(* A member that cannot be unpacked makes the archive unsound.              *)
LEMMA RefusedIsUnsound ==
    ASSUME TypeOK, QueueInv, TreeSoFar, next < Len(archive), Refused(archive[next + 1])
    PROVE  ~Sound
<1>. DEFINE n == next + 1
            m == archive[n]
<1>1. n \in DOMAIN archive /\ n \notin Before
  BY ArchiveTyped DEF TypeOK, Before
<1>2. CASE m.kind \in {"hardlink", "special", "unsafe"}
  BY <1>1, <1>2 DEF Sound
<1>3. CASE m.kind = "link" /\ format = "zip"
  BY <1>1, <1>3 DEF Sound, Of
<1>4. CASE m.kind = "dir" /\ ~CanMake(m.path)
  <2>1. Parents(m.path) \cup {m.path} \subseteq ImpliedDirs
    BY <1>1, <1>4 DEF ImpliedDirs, PathsOf, Of
  <2>2. PICK p \in Parents(m.path) \cup {m.path} : p \in DOMAIN files
    BY <1>4 DEF CanMake
  <2>3. p \in {archive[i].path : i \in Written}
    BY <2>2, SoFarIsNamed
  <2>4. QED
    BY <2>1, <2>2, <2>3 DEF Sound
<1>5. CASE m.kind = "file" /\ ~CanCreate(m.path)
  <2>1. n \in Written /\ m.path \in {archive[i].path : i \in Written}
        /\ Parents(m.path) \subseteq ImpliedDirs
    BY <1>1, <1>5 DEF Written, Of, ImpliedDirs
  <2>2. CASE m.path \in dirs
    BY <2>1, <2>2, SoFarIsNamed DEF Sound
  <2>3. CASE m.path \in DOMAIN files
    <3>1. PICK i \in Made : archive[i].path = m.path
      BY <2>3, SoFarIsNamed
    <3>2. i \in Written /\ i # n
      BY <1>1, SoFarIsNamed
    <3>3. QED
      BY <2>1, <3>1, <3>2 DEF Sound
  <2>4. CASE Parents(m.path) \cap DOMAIN files # {}
    BY <2>1, <2>4, SoFarIsNamed DEF Sound
  <2>5. QED
    BY <1>5, <2>2, <2>3, <2>4 DEF CanCreate, Taken
<1>6. QED
  BY <1>2, <1>3, <1>4, <1>5 DEF Refused

(* A link that cannot be copied makes the archive unsound.                  *)
LEMMA RefusedAliasIsUnsound ==
    ASSUME TypeOK, QueueInv, TreeSoFar, links # <<>>, RefusedAlias(archive[Head(links)])
    PROVE  ~Sound
<1>. DEFINE h == Head(links)
            m == archive[h]
<1>1. /\ h \in Of("link") /\ h \in DOMAIN archive /\ h \notin Made
      /\ h \in Written /\ m \in Members
  BY HeadIsPending, ArchiveTyped DEF Of, Made, Copied, Pending, Written
<1>2. CASE m.link = Elsewhere
  BY <1>1, <1>2 DEF Sound
<1>3. CASE Target(m) \in dirs
  <2>1. SUFFICES ASSUME Sound PROVE FALSE
    OBVIOUS
  <2>2. Target(m) \in PathsOf("file") \/ \E j \in Of("link") \ {h} : archive[j].path = Target(m)
    <3>1. {h} \in (SUBSET Of("link")) \ {{}}
      BY <1>1
    <3>2. QED
      BY <2>1, <3>1 DEF Sound, LinksLeadToFiles
  <2>3. Target(m) \in {archive[i].path : i \in Written}
    BY <2>2 DEF PathsOf, Written
  <2>4. QED
    BY <1>3, <2>1, <2>3, SoFarIsNamed DEF Sound
<1>4. CASE Target(m) \in DOMAIN files /\ ~CanCreate(m.path)
  <2>1. Parents(m.path) \cap DOMAIN files = {}
    BY <1>1, <1>4, TargetParents DEF TreeSoFar
  <2>2. CASE m.path \in dirs
    BY <1>1, <2>2, SoFarIsNamed DEF Sound
  <2>3. CASE m.path \in DOMAIN files
    <3>1. PICK i \in Made : archive[i].path = m.path
      BY <2>3, SoFarIsNamed
    <3>2. i \in Written /\ i # h
      BY <1>1, SoFarIsNamed
    <3>3. QED
      BY <1>1, <3>1, <3>2 DEF Sound
  <2>4. QED
    BY <1>4, <2>1, <2>2, <2>3 DEF CanCreate, Taken
<1>5. QED
  BY <1>2, <1>3, <1>4 DEF RefusedAlias

-----------------------------------------------------------------------------
(* What is extracted is sound                                               *)

(* At the end every member of the archive was looked at and none waits.     *)
LEMMA ExtractedIsAll ==
    ASSUME TypeOK, PlaceInv, pc \in Extracted
    PROVE  /\ Before = DOMAIN archive
           /\ Copied = Of("link") /\ Made = Written
           /\ \A kind : Of(kind) \cap Before = Of(kind)
<1>1. Before = DOMAIN archive /\ links = <<>> /\ left = <<>>
  BY ArchiveTyped DEF PlaceInv, Before
<1>2. Pending = {}
  BY <1>1, EmptyElems DEF Pending
<1>3. \A kind : Of(kind) \cap Before = Of(kind)
  BY <1>1 DEF Of
<1>4. QED
  BY <1>1, <1>2, <1>3 DEF Copied, Made, Written

(* A complete extraction is the archive's tree.                             *)
LEMMA ExtractedTree == IInv => TreeIsArchive
<1>. SUFFICES ASSUME IInv, pc \in Extracted
              PROVE  /\ DOMAIN files = {archive[i].path : i \in Written}
                     /\ dirs = ImpliedDirs
                     /\ \A i \in Of("file") : files[archive[i].path].bytes = i
                     /\ \A i \in Of("file") :
                           files[archive[i].path].mode = (IF format = "tar" THEN i ELSE 0)
                     /\ \A i \in Of("link") : files[archive[i].path] = files[Target(archive[i])]
  BY DEF TreeIsArchive
<1>1. TreeSoFar /\ ContentSoFar
  BY DEF IInv, TreeInv, ContentInv, Growing
<1>2. /\ Copied = Of("link") /\ Made = Written
      /\ \A kind : Of(kind) \cap Before = Of(kind)
  BY ExtractedIsAll DEF IInv
<1>3. (Of("file") \cup Of("dir")) \cap Before = Of("file") \cup Of("dir")
  BY <1>2
<1>4. dirs = ImpliedDirs
  BY <1>1, <1>2, <1>3 DEF TreeSoFar, ImpliedDirs, PathsOf, Path
<1>5. QED
  BY <1>1, <1>2, <1>4 DEF TreeSoFar, ContentSoFar, Path, Goal

(* An archive that was extracted is sound.                                  *)
LEMMA ExtractedIsSound == IInv /\ pc \in Extracted => Sound
<1>. SUFFICES ASSUME IInv, pc \in Extracted PROVE Sound
  OBVIOUS
<1>1. TreeSoFar /\ ContentSoFar
  BY DEF IInv, TreeInv, ContentInv, Growing
<1>2. /\ Before = DOMAIN archive /\ Copied = Of("link") /\ Made = Written
  BY ExtractedIsAll DEF IInv
<1>3. DOMAIN files = {archive[i].path : i \in Written} /\ dirs = ImpliedDirs
  BY ExtractedTree DEF TreeIsArchive
<1>4. \A i \in DOMAIN archive : archive[i].kind \in {"file", "dir", "link"}
  BY <1>2 DEF IInv, MembersInv
<1>5. format = "zip" => Of("link") = {}
  BY <1>2 DEF IInv, MembersInv, Of
<1>6. \A i, j \in Written : archive[i].path = archive[j].path => i = j
  BY <1>1, <1>2 DEF TreeSoFar, Path
<1>7. {archive[i].path : i \in Written} \cap ImpliedDirs = {}
  BY <1>1, <1>3 DEF TreeSoFar
<1>8. \A i \in Of("link") : archive[i].link # Elsewhere
  BY <1>1, <1>2 DEF ContentSoFar
<1>9. LinksLeadToFiles
  BY <1>2 DEF IInv, OrderInv, LinksLeadToFiles, Goal, Path
<1>10. QED
  BY <1>4, <1>5, <1>6, <1>7, <1>8, <1>9 DEF Sound

-----------------------------------------------------------------------------
(* The inductive invariant                                                  *)

(* In every step each link waits at most once, in one of the two queues.    *)
LEMMA QueueInvStep == TypeOK /\ QueueInv /\ PlaceInv /\ [Next]_vars => QueueInv'
<1>. SUFFICES ASSUME TypeOK, QueueInv, PlaceInv, [Next]_vars PROVE QueueInv'
  OBVIOUS
<1>1. CASE Unpack
  BY <1>1, UnpackQueue
<1>2. CASE Alias
  BY <1>2, AliasQueue
<1>3. CASE EndPass
  BY <1>3, EndPassQueue
<1>4. CASE UNCHANGED <<archive, next, links, left>>
  BY <1>4, SameQueue
<1>5. QED
  BY <1>1, <1>2, <1>3, <1>4
  DEF Next, Check, Refuse, EndUnpack, RefuseAlias, Fail, FindServer, ReadVersion, Stop,
    vars

(* The queues and the counter are at each place what it expects.            *)
LEMMA PlaceInvStep == TypeOK /\ QueueInv /\ PlaceInv /\ [Next]_vars => PlaceInv'
<1>. SUFFICES ASSUME TypeOK, QueueInv, PlaceInv, [Next]_vars PROVE PlaceInv'
  OBVIOUS
<1>. USE DEF Move, Extracted
<1>1. CASE UNCHANGED <<archive, next, links, left, progress, dirs>> /\ pc' \in {"refused", "raised"}
  BY <1>1 DEF PlaceInv
<1>2. CASE Check
  <2>1. Copied' = Copied
    BY <1>2, SameQueue DEF Check
  <2>2. QED
    BY <1>2, <2>1 DEF Check, PlaceInv
<1>3. CASE Unpack
  <2>1. Copied' = Copied
    BY <1>3, UnpackQueue
  <2>2. pc = "unpack" /\ UNCHANGED <<pc, left, progress>>
    BY <1>3 DEF Unpack
  <2>3. QED
    BY <2>1, <2>2 DEF PlaceInv
<1>4. CASE EndUnpack
  BY <1>4 DEF EndUnpack, PlaceInv
<1>5. CASE Alias
  <2>1. /\ pc = "alias" /\ pc' = "alias" /\ UNCHANGED <<archive, next>>
    BY <1>5 DEF Alias
  <2>2. progress' \/ left' = Append(left, Head(links))
    BY <1>5 DEF Alias
  <2>3. Head(links) \in Elems(links) /\ Head(links) \in Of("link") \cap Before
    BY <1>5, HeadIsPending DEF Alias
  <2>4. Append(left, Head(links)) # <<>>
    BY <2>3, AppendProperties DEF QueueInv
  <2>5. QED
    BY <2>1, <2>2, <2>4 DEF PlaceInv
<1>6. CASE EndPass
  BY <1>6 DEF EndPass, PlaceInv
<1>7. CASE Fail
  BY <1>7 DEF Fail, PlaceInv
<1>8. CASE FindServer
  BY <1>8 DEF FindServer, PlaceInv
<1>9. CASE ReadVersion
  BY <1>9 DEF ReadVersion, PlaceInv
<1>10. CASE UNCHANGED vars
  <2>1. Copied' = Copied
    BY <1>10, SameQueue DEF vars
  <2>2. QED
    BY <1>10, <2>1 DEF vars, PlaceInv
<1>11. QED
  BY <1>1, <1>2, <1>3, <1>4, <1>5, <1>6, <1>7, <1>8, <1>9, <1>10
  DEF Next, Refuse, RefuseAlias, Stop

(* A member that is refused is not passed over.                             *)
LEMMA MembersInvStep == TypeOK /\ MembersInv /\ [Next]_vars => MembersInv'
<1>. SUFFICES ASSUME TypeOK, MembersInv, [Next]_vars PROVE MembersInv'
  OBVIOUS
<1>1. CASE Unpack
  <2>1. /\ Before' = Before \cup {next + 1} /\ ~Refused(archive[next + 1])
        /\ UNCHANGED <<format, archive>>
    BY <1>1, BeforeGrows DEF Unpack
  <2>2. archive[next + 1].kind \in {"file", "dir", "link"}
    BY <1>1 DEF Unpack
  <2>3. QED
    BY <2>1, <2>2 DEF MembersInv, Refused
<1>2. CASE UNCHANGED <<format, archive, next>>
  BY <1>2 DEF MembersInv, Before
<1>3. QED
  BY <1>1, <1>2
  DEF Next, Check, Refuse, EndUnpack, RefuseAlias, Alias, EndPass, Fail, FindServer,
      ReadVersion, Stop, vars

(* The steps that leave the tree and the archive alone.                     *)
Still == UNCHANGED <<format, archive, next, dirs, files>>

(* The tree is that of the members so far, from the empty one on.           *)
LEMMA TreeInvStep ==
    ASSUME TypeOK, QueueInv, PlaceInv, TreeInv, ContentInv, [Next]_vars
    PROVE  TreeInv' /\ ContentInv'
<1>. USE DEF Move, Extracted, Growing
<1>1. CASE Check
  <2>1. CASE pc' = "unpack"
    <3>1. /\ DOMAIN files = {} /\ dirs = {} /\ Before = {} /\ Copied = {}
      BY <1>1, <2>1 DEF Check, PlaceInv, Before
    <3>2. Made = {}
      BY <3>1 DEF Made
    <3>3. TreeSoFar /\ ContentSoFar
      BY <3>1, <3>2 DEF TreeSoFar, ContentSoFar
    <3>4. Still /\ Copied' = Copied /\ Made' = Made
      BY <1>1, SameQueue DEF Check, Still
    <3>5. QED
      BY <3>3, <3>4, SameTree DEF TreeInv, ContentInv, Still
  <2>2. CASE pc' = "raised"
    BY <2>2 DEF TreeInv, ContentInv
  <2>3. QED
    BY <1>1, <2>1, <2>2 DEF Check
<1>2. CASE Unpack
  BY <1>2, UnpackTree DEF Unpack, TreeInv, ContentInv
<1>3. CASE Alias
  BY <1>3, AliasTree DEF Alias, TreeInv, ContentInv
<1>4. CASE EndPass
  BY <1>4, EndPassQueue, SameTree DEF EndPass, TreeInv, ContentInv
<1>5. CASE pc' \in {"refused", "raised"}
  BY <1>5 DEF TreeInv, ContentInv
<1>6. CASE Still /\ UNCHANGED <<links, left>> /\ (pc \in Growing \/ pc' \notin Growing)
  <2>1. Copied' = Copied /\ Made' = Made
    BY <1>6, SameQueue DEF Still
  <2>2. QED
    BY <1>6, <2>1, SameTree DEF TreeInv, ContentInv, Still
<1>7. QED
  BY <1>1, <1>2, <1>3, <1>4, <1>5, <1>6
  DEF Next, Refuse, EndUnpack, RefuseAlias, Fail, FindServer, ReadVersion, Stop, vars,
    Still

(* Only the copy of a link adds to the copied ones.                         *)
LEMMA OrderInvStep ==
    ASSUME TypeOK, QueueInv, PlaceInv, TreeInv, OrderInv, [Next]_vars
    PROVE  OrderInv'
<1>1. ASSUME archive' = archive, Copied' = Copied PROVE OrderInv'
  <2>1. PathsOf("file")' = PathsOf("file") /\ \A i : Path(i)' = Path(i) /\ Goal(i)' = Goal(i)
    BY <1>1 DEF PathsOf, Of, Path, Goal
  <2>2. QED
    BY <1>1, <2>1 DEF OrderInv
<1>2. CASE Alias
  <2>. DEFINE h == Head(links)
  <2>1. archive' = archive /\ h \notin Copied
    BY <1>2, AliasQueue DEF Alias, Made
  <2>2. CASE Goal(h) \in DOMAIN files
    <3>1. Copied' = Copied \cup {h}
      BY <1>2, <2>2, AliasQueue
    <3>2. TreeSoFar
      BY <1>2 DEF Alias, TreeInv, Growing
    <3>3. PathsOf("file")' = PathsOf("file") /\ \A i : Path(i)' = Path(i) /\ Goal(i)' = Goal(i)
      BY <2>1 DEF PathsOf, Of, Path, Goal
    <3>4. ASSUME NEW S \in (SUBSET Copied') \ {{}}
          PROVE  \E i \in S : \/ Goal(i) \in PathsOf("file")
                              \/ \E j \in Copied' \ S : Path(j) = Goal(i)
      BY <2>1, <2>2, <3>1, <3>2, OrderGrows
    <3>5. QED
      BY <3>3, <3>4 DEF OrderInv
  <2>3. CASE Goal(h) \notin DOMAIN files
    BY <1>1, <1>2, <2>1, <2>3, AliasQueue
  <2>4. QED
    BY <2>2, <2>3
<1>3. CASE Unpack
  BY <1>1, <1>3, UnpackQueue DEF Unpack
<1>4. CASE EndPass
  BY <1>1, <1>4, EndPassQueue DEF EndPass
<1>5. CASE UNCHANGED <<archive, next, links, left>>
  BY <1>1, <1>5, SameQueue
<1>6. QED
  BY <1>2, <1>3, <1>4, <1>5
  DEF Next, Check, Refuse, EndUnpack, RefuseAlias, Fail, FindServer, ReadVersion, Stop,
    vars

(* A pass starts with nothing put off; a link is put off because its target *)
(* is not there, and without a copy no target appears.                      *)
LEMMA PassInvStep == TypeOK /\ QueueInv /\ PlaceInv /\ PassInv /\ [Next]_vars => PassInv'
<1>. SUFFICES ASSUME TypeOK, QueueInv, PlaceInv, PassInv, [Next]_vars,
                     pc' = "alias", ~progress', NEW i \in Elems(left)'
              PROVE  Goal(i)' \notin DOMAIN files'
  BY DEF PassInv
<1>. USE DEF Move, Extracted
<1>1. CASE Alias
  <2>1. Goal(Head(links)) \notin DOMAIN files /\ files' = files
    BY <1>1 DEF Alias, Goal
  <2>2. Elems(left)' = Elems(left) \cup {Head(links)}
    BY <1>1, <2>1, AliasQueue
  <2>3. pc = "alias" /\ progress' = progress /\ archive' = archive
    BY <1>1, <2>1 DEF Alias, Goal
  <2>4. QED
    BY <2>1, <2>2, <2>3 DEF PassInv, Goal
<1>2. CASE EndPass \/ EndUnpack
  <2>1. left' = <<>>
    BY <1>2 DEF EndPass, EndUnpack, PlaceInv
  <2>2. Elems(left)' = {}
    BY <2>1, EmptyElems DEF Elems
  <2>3. QED
    BY <2>2
<1>3. CASE UNCHANGED vars
  BY <1>3 DEF vars, PassInv, Elems, Goal
<1>4. QED
  BY <1>1, <1>2, <1>3
  DEF Next, Check, Refuse, Unpack, RefuseAlias, Fail, FindServer, ReadVersion, Stop

(* Each of the three refusals has found the archive unsound.                *)
LEMMA RefusedInvStep == IInv /\ [Next]_vars => RefusedInv'
<1>. SUFFICES ASSUME IInv, [Next]_vars, pc' = "refused" PROVE ~Sound'
  BY DEF RefusedInv
<1>. USE DEF IInv, Move, Growing
<1>1. Sound' = Sound
  <2>1. UNCHANGED <<format, archive>>
    BY DEF Next, Check, Refuse, Unpack, EndUnpack, RefuseAlias, Alias, EndPass, Fail,
      FindServer,
           ReadVersion, Stop, vars
  <2>2. QED
    BY <2>1 DEF Sound, LinksLeadToFiles, Of, Written, ImpliedDirs, PathsOf
<1>2. CASE Refuse
  BY <1>1, <1>2, RefusedIsUnsound DEF Refuse, TreeInv
<1>3. CASE RefuseAlias
  BY <1>1, <1>3, RefusedAliasIsUnsound DEF RefuseAlias, TreeInv
<1>4. CASE EndPass
  <2>1. pc = "alias" /\ ~progress /\ links = <<>>
    BY <1>4 DEF EndPass
  <2>2. left # <<>> /\ TreeSoFar /\ \A i \in Elems(left) : Goal(i) \notin DOMAIN files
    BY <2>1 DEF PlaceInv, TreeInv, PassInv
  <2>3. QED
    BY <1>1, <2>1, <2>2, StuckIsUnsound DEF Sound
<1>5. CASE UNCHANGED vars
  BY <1>1, <1>5 DEF vars, RefusedInv
<1>6. QED
  BY <1>2, <1>3, <1>4, <1>5
  DEF Next, Check, Unpack, EndUnpack, Alias, Fail, FindServer, ReadVersion, Stop, Over,
    Extracted

(* At the start nothing was looked at and nothing waits.                    *)
LEMMA InitIInv == Init => IInv
<1>. SUFFICES ASSUME Init PROVE IInv
  OBVIOUS
<1>1. /\ pc = "check" /\ next = 0 /\ links = <<>> /\ left = <<>> /\ ~progress /\ dirs = {}
      /\ Before = {}
  BY DEF Init, Before
<1>2. Copied = {}
  BY <1>1 DEF Copied
<1>3. QueueInv
  BY <1>1, EmptyElems, EmptySeq DEF QueueInv
<1>4. PlaceInv /\ MembersInv /\ TreeInv /\ ContentInv /\ PassInv /\ RefusedInv
  BY <1>1, <1>2
  DEF PlaceInv, MembersInv, TreeInv, ContentInv, PassInv, RefusedInv, Growing, Extracted
<1>5. OrderInv
  BY <1>2 DEF OrderInv
<1>6. QED
  BY <1>3, <1>4, <1>5, InitTypeOK DEF IInv

-----------------------------------------------------------------------------
(* The theorems                                                             *)

(* The invariant holds in every reachable state.                            *)
THEOREM Inductive == Spec => []IInv
<1>1. IInv /\ [Next]_vars => IInv'
  BY NextTypeOK, QueueInvStep, PlaceInvStep, MembersInvStep, TreeInvStep, OrderInvStep,
     PassInvStep, RefusedInvStep
  DEF IInv
<1>2. QED
  BY InitIInv, <1>1, PTL DEF Spec

(* Every reachable state is well typed.                                     *)
THEOREM TypesHold == Spec => []TypeOK
<1>1. IInv => TypeOK
  BY DEF IInv
<1>2. QED
  BY Inductive, <1>1, PTL

(* _extract_registered_runtime: whether an archive of any length is         *)
(* unpacked depends on its members and not on their order, for links that   *)
(* come before, after or across what they lead to as well.                  *)
THEOREM OrderDoesNotMatter == Spec => []OrderIsNoMatter
<1>1. IInv => OrderIsNoMatter
  BY ExtractedIsSound DEF OrderIsNoMatter, IInv, RefusedInv
<1>2. QED
  BY Inductive, <1>1, PTL

(* _extract_registered_runtime: a complete extraction has exactly the files *)
(* and directories that the archive names, with the bytes and the modes of  *)
(* their members or of what their links lead to.                            *)
THEOREM ExtractionIsTheArchive == Spec => []TreeIsArchive
BY Inductive, ExtractedTree, PTL
=============================================================================
