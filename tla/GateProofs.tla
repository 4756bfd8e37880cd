------------------------------ MODULE GateProofs ------------------------------
(***************************************************************************)
(* Proofs about the gates of MCGates, for every value of their bounds: the *)
(* privacy scan fails closed in a tree of any size that is edited any      *)
(* number of times; the verifier accepts just the bundles that could have  *)
(* been published, however often a bundle was changed; the archives of a   *)
(* release that pass agree, however far they are from those of a build; a  *)
(* path of any length that the guards let through is reached without a     *)
(* link; a document is of one schema version, and what a run returns can   *)
(* be written.                                                             *)
(***************************************************************************)
EXTENDS MCGates, SequenceTheorems, WellFoundedInduction, TLAPS

-----------------------------------------------------------------------------
(* The privacy scan                                                         *)

HasFinding(p) == \E c \in Scan!Categories : <<c, p>> \in findings

Accounted(p) == Scan!Skipped(p) \/ Scan!Innocent(p) \/ HasFinding(p)

(* The paths that were passed are accounted for.  Of the path that is looked*)
(* at is known what the steps so far have let through: a name that is not   *)
(* excluded, and has a finding unless it is innocent; what lstat met; bytes *)
(* that are not too many.                                                   *)
ScanInv ==
    /\ at \in Nat /\ listed \subseteq Scan!Paths
    /\ name \in [Scan!Paths -> Scan!Names] /\ thing \in [Scan!Paths -> Scan!Things]
    /\ DOMAIN met = Scan!Paths /\ DOMAIN read = Scan!Paths
    /\ step = "list" => at = 1
    /\ \A p \in listed : p < at => Accounted(p)
    /\ at \in listed /\ step \in {"lstat", "read", "lines"} =>
          /\ ~Scan!Skipped(at)
          /\ name[at] \in {"sensitive", "matched"} => HasFinding(at)
    /\ at \in listed /\ step \in {"read", "lines"} =>
          met[at] \in Scan!Files /\ name[at] # "binary"
    /\ at \in listed /\ step = "lines" => read[at] \in Scan!Files \ {"grown"}

(* At the start no path was passed.                                         *)
LEMMA ScanInit == Scan!Init => ScanInv
BY DEF Scan!Init, ScanInv, Scan!Paths

(* What a step at a path leaves alone: the listing, the names, what is known*)
(* of other paths, and every finding.                                       *)
Around ==
    /\ UNCHANGED <<name, thing, listed>> /\ findings \subseteq findings'
    /\ DOMAIN met' = DOMAIN met /\ DOMAIN read' = DOMAIN read
    /\ \A p \in Scan!Paths \ {at} : met'[p] = met[p] /\ read'[p] = read[p]

(* So the paths that were passed are still accounted for.                   *)
LEMMA PassedStays ==
    ASSUME ScanInv, Around, NEW p \in listed, p < at
    PROVE  Accounted(p)'
<1>1. p \in Scan!Paths \ {at} /\ Accounted(p)
  BY DEF ScanInv, Scan!Paths
<1>2. Scan!Skipped(p)' <=> Scan!Skipped(p)
  BY DEF Around, Scan!Skipped
<1>3. Scan!Innocent(p)' <=> Scan!Innocent(p)
  BY <1>1 DEF Around, Scan!Innocent, Scan!Files, Scan!Texts, Scan!Unreadable
<1>4. HasFinding(p) => HasFinding(p)'
  BY DEF Around, HasFinding, Scan!Categories, Scan!Unreadable
<1>5. QED
  BY <1>1, <1>2, <1>3, <1>4 DEF Accounted

(* A step that passes a path has accounted for it.                          *)
LEMMA PathPassed ==
    ASSUME ScanInv, Around, at' = at + 1, step' = "name",
           \A p \in listed : p = at => Accounted(p)'
    PROVE  ScanInv'
<1>1. ASSUME NEW p \in listed, p < at + 1 PROVE Accounted(p)'
  <2>1. p < at \/ p = at
    BY <1>1 DEF ScanInv, Scan!Paths
  <2>2. QED
    BY <2>1, PassedStays
<1>2. /\ at' \in Nat /\ listed' \subseteq Scan!Paths /\ step' = "name"
      /\ name' \in [Scan!Paths -> Scan!Names] /\ thing' \in [Scan!Paths -> Scan!Things]
      /\ DOMAIN met' = Scan!Paths /\ DOMAIN read' = Scan!Paths
  BY DEF ScanInv, Around
<1>3. QED
  BY <1>1, <1>2 DEF ScanInv, Around, Scan!Paths, Scan!Names, Scan!Things

(* A step that stays at its path says what it has let through.              *)
LEMMA PathKept ==
    ASSUME ScanInv, Around, at' = at, step' # "list",
           at \in listed /\ step' \in {"lstat", "read", "lines"} =>
              /\ ~Scan!Skipped(at)
              /\ name[at] \in {"sensitive", "matched"} => HasFinding(at)',
           at \in listed /\ step' \in {"read", "lines"} =>
              met'[at] \in Scan!Files /\ name[at] # "binary",
           at \in listed /\ step' = "lines" => read'[at] \in Scan!Files \ {"grown"}
    PROVE  ScanInv'
<1>1. \A p \in listed : p < at => Accounted(p)'
  BY PassedStays
<1>2. QED
  BY <1>1 DEF ScanInv, Around, Scan!Paths, Scan!Names, Scan!Things, Scan!Skipped,
     Scan!Files, Scan!Texts, Scan!Unreadable

(* Every step of the scan, and every edit beside it, keeps the invariant.   *)
LEMMA ScanStep == ScanInv /\ Scan!Next => ScanInv'
<1>. SUFFICES ASSUME ScanInv, Scan!Next PROVE ScanInv'
  OBVIOUS
<1>. USE DEF Scan!NextPath, Scan!Go, Scan!NothingFound, Scan!Found, Scan!Looking
<1>1. CASE Scan!List
  <2>1. /\ UNCHANGED <<name, thing, at, findings, met, read>>
        /\ listed' \subseteq Scan!Paths /\ step' \in {"name", "failed"}
    BY <1>1 DEF Scan!List, ScanInv
  <2>2. at = 1
    BY <1>1 DEF Scan!List, ScanInv
  <2>3. \A p \in listed' : ~(p < at)
    BY <2>1, <2>2, BoundsAssumption DEF Scan!Paths
  <2>4. QED
    BY <2>1, <2>2, <2>3 DEF ScanInv, Scan!Paths, Scan!Names, Scan!Things
<1>2. CASE Scan!PassUnlisted
  BY <1>2, PathPassed DEF Scan!PassUnlisted, Around
<1>3. CASE Scan!LookAtName
  <2>1. Around
    BY <1>3 DEF Scan!LookAtName, Around
  <2>2. CASE Scan!Skipped(at)
    BY <1>3, <2>1, <2>2, PathPassed DEF Scan!LookAtName, Accounted, Scan!Skipped
  <2>3. CASE ~Scan!Skipped(at)
    <3>1. at' = at /\ step' = "lstat"
      BY <1>3, <2>3 DEF Scan!LookAtName
    <3>2. name[at] \in {"sensitive", "matched"} => HasFinding(at)'
      BY <1>3, <2>3, <3>1 DEF Scan!LookAtName, HasFinding, Scan!Categories
    <3>3. QED
      BY <2>1, <2>3, <3>1, <3>2, PathKept
  <2>4. QED
    BY <2>2, <2>3
<1>4. CASE Scan!Lstat
  <2>1. Around
    BY <1>4 DEF Scan!Lstat, Around, ScanInv
  <2>2. at \in Scan!Paths /\ met'[at] = thing[at] /\ at \in listed
    BY <1>4 DEF Scan!Lstat, ScanInv
  <2>3. ~Scan!Skipped(at) /\ (name[at] \in {"sensitive", "matched"} => HasFinding(at))
    BY <1>4 DEF Scan!Lstat, ScanInv
  <2>4. CASE Scan!StopsAtLstat(at) # "nothing" /\ Scan!Found(Scan!StopsAtLstat(at)) /\ Scan!NextPath
    <3>1. Scan!StopsAtLstat(at) \in Scan!Categories
      BY <2>4 DEF Scan!StopsAtLstat, Scan!Categories
    <3>2. \A p \in listed : p = at => HasFinding(p)'
      BY <2>4, <3>1 DEF HasFinding, Scan!Categories, Scan!Unreadable
    <3>3. QED
      BY <2>1, <2>4, <3>2, PathPassed DEF Accounted
  <2>5. CASE thing[at] \in {"directory", "socket"} /\ Scan!NothingFound /\ Scan!NextPath
    <3>1. \A p \in listed : p = at => Scan!Innocent(p)' \/ HasFinding(p)'
      BY <1>4, <2>2, <2>3, <2>5 DEF Scan!Lstat, Scan!Innocent, HasFinding,
         Scan!Categories, Scan!Unreadable
    <3>2. QED
      BY <2>1, <2>5, <3>1, PathPassed DEF Accounted
  <2>6. CASE /\ Scan!StopsAtLstat(at) = "nothing" /\ thing[at] \in Scan!Files
             /\ Scan!NothingFound /\ Scan!Go("read")
    <3>1. name[at] # "binary"
      BY <2>6 DEF Scan!StopsAtLstat, Scan!Files, Scan!Texts, Scan!Unreadable
    <3>2. HasFinding(at) => HasFinding(at)'
      BY <2>6 DEF HasFinding, Scan!Categories, Scan!Unreadable
    <3>3. QED
      BY <2>1, <2>2, <2>3, <2>6, <3>1, <3>2, PathKept
  <2>7. QED
    BY <1>4, <2>4, <2>5, <2>6 DEF Scan!Lstat
<1>5. CASE Scan!Read
  <2>1. Around
    BY <1>5 DEF Scan!Read, Around, ScanInv
  <2>2. /\ at \in Scan!Paths /\ at \in listed /\ UNCHANGED met
        /\ ~Scan!Skipped(at) /\ (name[at] \in {"sensitive", "matched"} => HasFinding(at))
        /\ met[at] \in Scan!Files /\ name[at] # "binary"
    BY <1>5 DEF Scan!Read, ScanInv
  <2>3. CASE (Scan!Found("read-error") \/ Scan!Found("oversize-text")) /\ Scan!NextPath
    <3>1. \A p \in listed : p = at => HasFinding(p)'
      BY <2>3 DEF HasFinding, Scan!Categories
    <3>2. QED
      BY <2>1, <2>3, <3>1, PathPassed DEF Accounted
  <2>4. ASSUME NEW bytes \in Scan!Opened(at), read' = [read EXCEPT ![at] = bytes],
               bytes # "grown", Scan!NothingFound, Scan!Go("lines")
        PROVE  ScanInv'
    <3>1. bytes \in Scan!Files \ {"grown"} /\ read'[at] = bytes
      BY <2>2, <2>4 DEF Scan!Opened, ScanInv
    <3>2. HasFinding(at) => HasFinding(at)'
      BY <2>4 DEF HasFinding, Scan!Categories, Scan!Unreadable
    <3>3. QED
      BY <2>1, <2>2, <2>4, <3>1, <3>2, PathKept
  <2>5. QED
    BY <1>5, <2>3, <2>4 DEF Scan!Read
<1>6. CASE Scan!Lines
  <2>1. Around
    BY <1>6 DEF Scan!Lines, Around, ScanInv
  <2>2. /\ at \in listed /\ UNCHANGED <<name, met, read>> /\ Scan!NextPath
        /\ (name[at] \in {"sensitive", "matched"} => HasFinding(at))
        /\ met[at] \in Scan!Files /\ name[at] # "binary" /\ read[at] \in Scan!Files \ {"grown"}
    BY <1>6 DEF Scan!Lines, ScanInv
  <2>3. CASE read[at] \in Scan!Unreadable \cup {"hit"}
    <3>1. \E c \in Scan!Categories : <<c, at>> \in findings'
      BY <1>6, <2>3 DEF Scan!Lines, Scan!Categories, Scan!Unreadable
    <3>2. \A p \in listed : p = at => HasFinding(p)'
      BY <3>1 DEF HasFinding, Scan!Categories, Scan!Unreadable
    <3>3. QED
      BY <2>1, <2>2, <3>2, PathPassed DEF Accounted
  <2>4. CASE read[at] \notin Scan!Unreadable \cup {"hit"}
    <3>1. read[at] \in {"clean", "audited"}
      BY <2>2, <2>4 DEF Scan!Files, Scan!Texts
    <3>2. \A p \in listed : p = at => Scan!Innocent(p)' \/ HasFinding(p)'
      BY <2>1, <2>2, <3>1 DEF Around, Scan!Innocent, HasFinding, Scan!Categories,
         Scan!Unreadable, Scan!Files, Scan!Texts
    <3>3. QED
      BY <2>1, <2>2, <3>2, PathPassed DEF Accounted
  <2>5. QED
    BY <2>3, <2>4
<1>7. CASE Scan!Edit
  <2>1. /\ UNCHANGED <<name, listed, at, step, findings, met, read>>
        /\ thing' \in [Scan!Paths -> Scan!Things]
    BY <1>7 DEF Scan!Edit, Scan!scanVars, ScanInv
  <2>2. QED
    BY <2>1 DEF ScanInv, Accounted, HasFinding, Scan!Skipped, Scan!Innocent
<1>8. CASE Scan!AllOver
  BY <1>8 DEF Scan!AllOver, Scan!vars, Scan!scanVars, ScanInv, Accounted,
     HasFinding, Scan!Skipped, Scan!Innocent
<1>9. QED
  BY <1>1, <1>2, <1>3, <1>4, <1>5, <1>6, <1>7, <1>8 DEF Scan!Next

-----------------------------------------------------------------------------
(* The verifier                                                             *)

Texts == Bundle!EvidenceTexts \cup Bundle!JunitTexts

Records == [path : Bundle!ExpectedFiles, bytes : Nat, sha256 : Texts]

(* The records are a sequence, and the evidence is a document of some       *)
(* schema, whatever was edited.                                             *)
BundleInv ==
    /\ evidence \in Bundle!EvidenceTexts /\ junit \in Bundle!JunitTexts
    /\ records \in Seq(Records)

LEMMA EntryTyped ==
    ASSUME NEW p \in Bundle!ExpectedFiles, NEW text \in Texts
    PROVE  Bundle!Entry(p, text) \in Records
BY DEF Bundle!Entry, Bundle!Length, Records

(* What the writer has published is typed.                                  *)
LEMMA BundleInit == Bundle!Init => BundleInv
<1>. SUFFICES ASSUME Bundle!Init PROVE BundleInv
  OBVIOUS
<1>1. PICK d \in Bundle!Documents :
         /\ evidence = Bundle!Written(d).evidence /\ junit = Bundle!Written(d).junit
         /\ records = Bundle!Written(d).records
  BY DEF Bundle!Init
<1>. DEFINE e == [doc |-> d, form |-> "pretty"]
            j == Bundle!JunitBytes(Bundle!InvariantsOf(d))
<1>2. e \in Bundle!EvidenceTexts /\ j \in Bundle!JunitTexts
  BY DEF Bundle!EvidenceTexts, Bundle!JunitTexts, Bundle!Forms, Bundle!JunitBytes,
     Bundle!InvariantsOf
<1>3. /\ evidence = e /\ junit = j
      /\ records = << Bundle!Entry("evidence.json", e), Bundle!Entry("junit.xml", j) >>
  BY <1>1 DEF Bundle!Written
<1>4. /\ Bundle!Entry("evidence.json", e) \in Records
      /\ Bundle!Entry("junit.xml", j) \in Records
  BY <1>2, EntryTyped DEF Texts, Bundle!ExpectedFiles, Bundle!Hashed
<1>5. QED
  BY <1>2, <1>3, <1>4 DEF BundleInv

(* An edit of the directory leaves it typed.                                *)
LEMMA BundleStep == BundleInv /\ Bundle!Next => BundleInv'
<1>. SUFFICES ASSUME BundleInv, Bundle!Next PROVE BundleInv'
  OBVIOUS
<1>1. CASE Bundle!EditText
  BY <1>1 DEF Bundle!EditText, BundleInv
<1>2. CASE Bundle!EditManifest
  <2>1. UNCHANGED <<evidence, junit>>
    BY <1>2 DEF Bundle!EditManifest
  <2>2. /\ Len(records) \in Nat /\ DOMAIN records = 1 .. Len(records)
        /\ \A i \in DOMAIN records : records[i] \in Records
    BY LenProperties, ElementOfSeq DEF BundleInv
  <2>3. ASSUME NEW p \in Bundle!ExpectedFiles
        PROVE  Bundle!Entry(p, Bundle!TextOf(p)) \in Records
    BY EntryTyped DEF BundleInv, Bundle!TextOf, Texts
  <2>4. ASSUME NEW i \in DOMAIN records, NEW r \in Records
        PROVE  [records EXCEPT ![i] = r] \in Seq(Records)
    BY <2>2, ExceptSeq DEF BundleInv
  <2>5. ASSUME NEW i \in DOMAIN records, NEW p \in Bundle!ExpectedFiles
        PROVE  [records EXCEPT ![i].path = p] \in Seq(Records)
    <3>1. [records[i] EXCEPT !.path = p] \in Records
      BY <2>2 DEF Records
    <3>2. QED
      BY <2>4, <3>1
  <2>6. ASSUME NEW i \in DOMAIN records PROVE Append(records, records[i]) \in Seq(Records)
    BY <2>2, AppendProperties DEF BundleInv
  <2>7. records # <<>> => Tail(records) \in Seq(Records)
    BY HeadTailProperties DEF BundleInv
  <2>8. Len(records) = 2 => << records[2], records[1] >> \in Seq(Records)
    BY <2>2
  <2>9. records' \in Seq(Records)
    BY <1>2, <2>3, <2>4, <2>5, <2>6, <2>7, <2>8 DEF Bundle!EditManifest, BundleInv
  <2>10. QED
    BY <2>1, <2>9 DEF BundleInv
<1>3. CASE Bundle!EditDirectory \/ Bundle!Stay
  BY <1>3 DEF Bundle!EditDirectory, Bundle!Stay, Bundle!vars, Bundle!files,
     BundleInv
<1>4. QED
  BY <1>1, <1>2, <1>3 DEF Bundle!Next, Bundle!Edit

(* A pair of different things has each of them once.                        *)
LEMMA EqualPairs ==
    ASSUME NEW a, NEW b, NEW c, NEW d, c # d, {a, b} = {c, d}
    PROVE  (a = c /\ b = d) \/ (a = d /\ b = c)
<1>1. a \in {c, d} /\ b \in {c, d} /\ c \in {a, b} /\ d \in {a, b}
  OBVIOUS
<1>2. CASE a = c
  <2>1. b # c
    BY <1>1, <1>2
  <2>2. QED
    BY <1>1, <1>2, <2>1
<1>3. CASE a = d
  <2>1. b # d
    BY <1>1, <1>3
  <2>2. QED
    BY <1>1, <1>3, <2>1
<1>4. QED
  BY <1>1, <1>2, <1>3

(* The two records of an accepted manifest, in either order.                *)
LEMMA TwoRecords ==
    ASSUME BundleInv, Len(records) = 2
    PROVE  /\ DOMAIN records = {1, 2} /\ records[1] \in Records /\ records[2] \in Records
           /\ \A i \in DOMAIN records : records[i] \in Records
           /\ Bundle!RecordHolds(1) <=>
                 /\ records[1].path \in Bundle!Hashed
                 /\ Bundle!Length(Bundle!TextOf(records[1].path)) = records[1].bytes
                 /\ Bundle!TextOf(records[1].path) = records[1].sha256
           /\ Bundle!RecordHolds(2) <=>
                 /\ records[2].path \in Bundle!Hashed
                 /\ records[1].path # records[2].path
                 /\ Bundle!Length(Bundle!TextOf(records[2].path)) = records[2].bytes
                 /\ Bundle!TextOf(records[2].path) = records[2].sha256
           /\ (\A i \in 1 .. 2 : Bundle!RecordHolds(i))
              <=> Bundle!RecordHolds(1) /\ Bundle!RecordHolds(2)
<1>1. DOMAIN records = 1 .. 2 /\ 1 .. 2 = {1, 2}
  BY LenProperties DEF BundleInv
<1>2. records[1] \in Records /\ records[2] \in Records
  BY <1>1, ElementOfSeq DEF BundleInv
<1>3. 1 .. 1 - 1 = {} /\ 1 .. 2 - 1 = {1}
  OBVIOUS
<1>4. QED
  BY <1>1, <1>2, <1>3 DEF Bundle!RecordHolds

(* The verifier's checks, made file by file and record by record, say the   *)
(* same as that the directory is a bundle which the writer could have made. *)
LEMMA VerifierIsExact == BundleInv => Bundle!AcceptedIsWritten
<1>. SUFFICES ASSUME BundleInv PROVE Bundle!AcceptedIsWritten
  OBVIOUS
<1>. DEFINE E == [path |-> "evidence.json", text |-> evidence]
            J == [path |-> "junit.xml", text |-> junit]
            R(i) == [path |-> records[i].path, text |-> records[i].sha256]
            lengths == \A i \in DOMAIN records :
                          records[i].bytes = Bundle!Length(Bundle!TextOf(records[i].path))
<1>1. ASSUME Len(records) = 2
      PROVE  (\A i \in 1 .. 2 : Bundle!RecordHolds(i))
             <=> {R(1), R(2)} = {E, J} /\ lengths
  <2>1. /\ Bundle!TextOf("evidence.json") = evidence /\ Bundle!TextOf("junit.xml") = junit
        /\ Bundle!Hashed = {"evidence.json", "junit.xml"}
    BY DEF Bundle!TextOf, Bundle!Hashed
  <2>2. lengths <=> /\ records[1].bytes = Bundle!Length(Bundle!TextOf(records[1].path))
                    /\ records[2].bytes = Bundle!Length(Bundle!TextOf(records[2].path))
    BY <1>1, TwoRecords
  <2>3. {R(1), R(2)} = {E, J} => /\ records[1].path \in Bundle!Hashed
                                 /\ records[2].path \in Bundle!Hashed
                                 /\ records[1].path # records[2].path
                                 /\ Bundle!TextOf(records[1].path) = records[1].sha256
                                 /\ Bundle!TextOf(records[2].path) = records[2].sha256
    <3>1. E # J
      BY SMT
    <3>2. {R(1), R(2)} = {E, J} => (R(1) = E /\ R(2) = J) \/ (R(1) = J /\ R(2) = E)
      BY <3>1, EqualPairs
    <3>3. \A i \in {1, 2} : /\ R(i) = E => records[i].path = "evidence.json" /\ records[i].sha256 = evidence
                            /\ R(i) = J => records[i].path = "junit.xml" /\ records[i].sha256 = junit
      BY SMT
    <3>4. QED
      BY <2>1, <3>2, <3>3
  <2>4. ASSUME /\ records[1].path \in Bundle!Hashed /\ records[2].path \in Bundle!Hashed
               /\ records[1].path # records[2].path
               /\ Bundle!TextOf(records[1].path) = records[1].sha256
               /\ Bundle!TextOf(records[2].path) = records[2].sha256
        PROVE  {R(1), R(2)} = {E, J}
    BY <2>1, <2>4
  <2>5. QED
    BY <1>1, <2>2, <2>3, <2>4, TwoRecords
<1>2. ASSUME Len(records) = 2 PROVE {R(i) : i \in DOMAIN records} = {R(1), R(2)}
  BY <1>2, TwoRecords
<1>3. evidence.doc \in Bundle!Documents
  BY DEF BundleInv, Bundle!EvidenceTexts
<1>4. \A d \in Bundle!Documents :
         Bundle!Written(d).junit = Bundle!JunitBytes(Bundle!InvariantsOf(d))
  BY DEF Bundle!Written
<1>5. ASSUME Bundle!Accepted
      PROVE  /\ \E d \in Bundle!Documents : Bundle!ValidEvidence(d) /\ Bundle!LikeWritten(d)
             /\ lengths
  <2>1. Len(records) = 2 /\ {R(1), R(2)} = {E, J} /\ lengths
    BY <1>1, <1>5 DEF Bundle!Accepted, Bundle!ManifestHolds
  <2>2. Bundle!LikeWritten(evidence.doc)
    BY <1>2, <1>3, <1>4, <1>5, <2>1
    DEF Bundle!LikeWritten, Bundle!Accepted, Bundle!FileSetHolds, Bundle!ManifestHolds,
        Bundle!ProjectionHolds
  <2>3. QED
    BY <1>3, <1>5, <2>1, <2>2 DEF Bundle!Accepted
<1>6. ASSUME NEW d \in Bundle!Documents, Bundle!ValidEvidence(d), Bundle!LikeWritten(d), lengths
      PROVE  Bundle!Accepted
  <2>1. /\ Len(records) = 2 /\ header /\ present = Bundle!ExpectedFiles /\ plain = present
        /\ evidence.doc = d /\ evidence.form # "unparsable"
        /\ junit = Bundle!JunitBytes(Bundle!InvariantsOf(d))
        /\ {R(i) : i \in DOMAIN records} = {E, J}
    BY <1>4, <1>6 DEF Bundle!LikeWritten
  <2>2. \A i \in 1 .. 2 : Bundle!RecordHolds(i)
    BY <1>1, <1>2, <1>6, <2>1
  <2>3. QED
    BY <1>6, <2>1, <2>2 DEF Bundle!Accepted, Bundle!FileSetHolds,
       Bundle!ManifestHolds, Bundle!ProjectionHolds
<1>7. QED
  BY <1>5, <1>6 DEF Bundle!AcceptedIsWritten

-----------------------------------------------------------------------------
(* The archives of a release                                                *)

(* The dictionary of the sources is one that the source archive allows.     *)
ArchivesInv == relative \in Archives!Packaged(sdist)

(* It is made anew for each pair of archives.                               *)
LEMMA ArchivesKept ==
    /\ Archives!Init => ArchivesInv
    /\ ArchivesInv /\ Archives!Next => ArchivesInv'
<1>1. Archives!Init => ArchivesInv
  BY DEF Archives!Init, ArchivesInv
<1>2. ASSUME ArchivesInv, Archives!Stay PROVE ArchivesInv'
  BY <1>2 DEF Archives!Stay, Archives!vars, ArchivesInv, Archives!Packaged,
     Archives!SdistSources, Archives!Has
<1>3. ASSUME Archives!Change PROVE ArchivesInv'
  BY <1>3 DEF Archives!Change, ArchivesInv, Archives!Packaged,
     Archives!SdistSources, Archives!Has
<1>4. QED
  BY <1>1, <1>2, <1>3 DEF Archives!Next

(* The parts that the names are made of, and what can be made of them.      *)
Parts == {"oracle.py", "_vendor", "llama2c_gguf.py", "LICENSE", "NOTICE",
          "THIRD_PARTY_NOTICES.md", "third_party", "llama.cpp-LICENSE.txt", "src",
          "cache_invariant", "tests", "test_oracle.py", "notices", "dist-info", "licenses",
          "METADATA", "project", "pyproject.toml", "removed.py", "vendored", "build",
          "fixture.gguf", "..", "notes"}

PartNames == Seq(Parts) \ {<<>>}

(* A name of one part.                                                      *)
LEMMA NameOfOne ==
    ASSUME NEW x \in Parts
    PROVE  <<x>> \in PartNames /\ Archives!Last(<<x>>) = x
<1>1. <<x>> \in Seq(Parts) /\ Len(<<x>>) = 1 /\ Len(<<>>) = 0
  OBVIOUS
<1>2. QED
  BY <1>1 DEF PartNames, Archives!Last

(* The first part of a name by itself.                                      *)
LEMMA FirstPart ==
    ASSUME NEW n \in PartNames
    PROVE  /\ Len(n) \in Nat \ {0} /\ n[1] \in Parts /\ n[Len(n)] \in Parts
           /\ SubSeq(n, 1, 1) = <<n[1]>>
<1>1. n \in Seq(Parts) /\ Len(n) \in Nat \ {0}
  BY LenProperties, EmptySeq DEF PartNames
<1>2. n[1] \in Parts /\ n[Len(n)] \in Parts
  BY <1>1, ElementOfSeq
<1>3. SubSeq(n, 1, 1) \in Seq(Parts) /\ Len(SubSeq(n, 1, 1)) = 1 /\ SubSeq(n, 1, 1)[1] = n[1]
  BY <1>1, SMT
<1>4. <<n[1]>> \in Seq(Parts) /\ Len(<<n[1]>>) = 1 /\ <<n[1]>>[1] = n[1]
  BY <1>2
<1>5. \A i \in 1 .. 1 : i = 1
  OBVIOUS
<1>6. SubSeq(n, 1, 1) = <<n[1]>>
  BY <1>3, <1>4, <1>5, SeqEqual
<1>7. QED
  BY <1>1, <1>2, <1>6

(* Every name has a part.                                                   *)
LEMMA NamesTyped == Archives!Names \subseteq PartNames
<1>. DEFINE T == PartNames
<1>1. ASSUME NEW p \in T, NEW q \in T PROVE p \o q \in T
  BY ConcatProperties, EmptySeq, LenProperties DEF PartNames
<1>2. /\ Archives!Module \in T /\ Archives!Converter \in T /\ Archives!Wheel \in T
      /\ Archives!Sdist \in T /\ Archives!Marker \in T
  BY DEF Parts, PartNames, Archives!Module, Archives!Converter, Archives!Wheel,
     Archives!Sdist, Archives!Marker
<1>3. Archives!PackageSources \subseteq T
  BY <1>2 DEF Archives!PackageSources
<1>4. Archives!BuiltWheel \subseteq T
  <2>1. Archives!WheelNotices \subseteq T /\ Archives!Metadata \in T
    BY DEF Parts, PartNames, Archives!WheelNotices, Archives!Metadata
  <2>2. QED
    BY <1>1, <1>2, <1>3, <2>1 DEF Archives!BuiltWheel, Archives!InWheel
<1>5. Archives!BuiltSdist \subseteq T
  <2>1. /\ Archives!Notices \subseteq T /\ Archives!ReproducibilityFiles \subseteq T
        /\ <<"pyproject.toml">> \in T
    BY DEF Parts, PartNames, Archives!Notices, Archives!ReproducibilityFiles
  <2>2. QED
    BY <1>1, <1>2, <1>3, <2>1 DEF Archives!BuiltSdist
<1>6. Archives!Extras \subseteq T
  <2>1. /\ <<"removed.py">> \in T /\ <<"vendored", "LICENSE">> \in T /\ <<"build">> \in T
        /\ <<"fixture.gguf">> \in T /\ <<"..", "notes">> \in T
    BY DEF Parts, PartNames
  <2>2. QED
    BY <1>1, <1>2, <2>1 DEF Archives!Extras, Archives!InWheel
<1>7. QED
  BY <1>4, <1>5, <1>6 DEF Archives!Names

(* A name that ends like another one has its last part.                     *)
LEMMA SuffixLast ==
    ASSUME NEW s \in PartNames, NEW n \in PartNames, Archives!IsSuffix(s, n)
    PROVE  Archives!Last(n) = Archives!Last(s)
<1>. DEFINE rs == Archives!Reverse(s)
            rn == Archives!Reverse(n)
<1>1. Len(s) \in Nat \ {0} /\ Len(n) \in Nat \ {0}
  BY FirstPart
<1>2. /\ rs \in Seq(Parts) /\ Len(rs) = Len(s) /\ rs[1] = s[Len(s)]
      /\ rn \in Seq(Parts) /\ Len(rn) = Len(n) /\ rn[1] = n[Len(n)]
  BY <1>1, LenProperties, ElementOfSeq, IsASeq DEF Archives!Reverse, PartNames
<1>3. /\ Len(rs) <= Len(rn) /\ SubSeq(rs, 1, Len(rs)) = SubSeq(rn, 1, Len(rs))
  BY DEF Archives!IsSuffix, Archives!IsPrefix
<1>4. SubSeq(rs, 1, Len(rs))[1] = rs[1] /\ SubSeq(rn, 1, Len(rs))[1] = rn[1]
  BY <1>1, <1>2, <1>3, SMT
<1>5. QED
  BY <1>2, <1>3, <1>4 DEF Archives!Last

(* The first part of a name in the wheel.                                   *)
LEMMA WheelPrefix ==
    ASSUME NEW n \in PartNames
    PROVE  Archives!IsPrefix(Archives!Wheel, n) <=> Head(n) = "cache_invariant"
<1>. DEFINE w == <<"cache_invariant">>
<1>1. Len(n) \in Nat \ {0} /\ SubSeq(n, 1, 1) = <<n[1]>> /\ Head(n) = n[1]
  BY FirstPart DEF PartNames
<1>2. Len(w) = 1 /\ SubSeq(w, 1, 1) = w
  <2>1. w \in PartNames /\ w[1] = "cache_invariant"
    BY DEF Parts, PartNames, Archives!Last
  <2>2. QED
    BY <2>1, FirstPart
<1>3. <<n[1]>> = w <=> n[1] = "cache_invariant"
  OBVIOUS
<1>4. QED
  BY <1>1, <1>2, <1>3 DEF Archives!IsPrefix, Archives!Wheel

(* A name that the wheel's check adds stands for a member with its last     *)
(* part.                                                                    *)
LEMMA AdjustedLast ==
    ASSUME NEW names \in SUBSET Archives!Names, NEW n \in Archives!Adjusted(names)
    PROVE  /\ n \in PartNames
           /\ \E m \in names : Archives!Last(m) = Archives!Last(n)
<1>1. names \subseteq PartNames
  BY NamesTyped
<1>2. CASE n \in names
  BY <1>1, <1>2
<1>3. ASSUME NEW m \in names, n = <<"src">> \o m
      PROVE  n \in PartNames /\ Archives!Last(m) = Archives!Last(n)
  <2>1. m \in Seq(Parts) /\ <<"src">> \in Seq(Parts) /\ Len(<<"src">>) = 1
    BY <1>1 DEF PartNames, Parts
  <2>2. Len(m) \in Nat \ {0}
    BY <1>1, FirstPart
  <2>3. n \in Seq(Parts) /\ Len(n) = 1 + Len(m) /\ n[1 + Len(m)] = m[Len(m)]
    BY <1>3, <2>1, <2>2, ConcatProperties
  <2>4. QED
    BY <2>2, <2>3, EmptySeq DEF Archives!Last, PartNames
<1>4. ASSUME NEW m \in names, n = <<Archives!Last(m)>>
      PROVE  n \in PartNames /\ Archives!Last(m) = Archives!Last(n)
  BY <1>1, <1>4, FirstPart, NameOfOne DEF Archives!Last
<1>5. ASSUME NEW m \in names, n = <<"LICENSE">>, Archives!IsSuffix(<<"licenses", "LICENSE">>, m)
      PROVE  n \in PartNames /\ Archives!Last(m) = Archives!Last(n)
  <2>1. /\ n \in PartNames /\ Archives!Last(n) = "LICENSE"
        /\ <<"licenses", "LICENSE">> \in PartNames
        /\ Archives!Last(<<"licenses", "LICENSE">>) = "LICENSE"
    BY <1>5 DEF Parts, PartNames, Archives!Last
  <2>2. QED
    BY <1>1, <1>5, <2>1, SuffixLast
<1>6. ASSUME NEW m \in names, n = <<"third_party", "llama.cpp-LICENSE.txt">>,
             Archives!IsSuffix(<<"licenses", "third_party", "llama.cpp-LICENSE.txt">>, m)
      PROVE  n \in PartNames /\ Archives!Last(m) = Archives!Last(n)
  <2>. DEFINE long == <<"licenses", "third_party", "llama.cpp-LICENSE.txt">>
  <2>1. /\ n \in PartNames /\ Archives!Last(n) = "llama.cpp-LICENSE.txt"
        /\ long \in PartNames /\ Archives!Last(long) = "llama.cpp-LICENSE.txt"
    BY <1>6 DEF Parts, PartNames, Archives!Last
  <2>2. QED
    BY <1>1, <1>6, <2>1, SuffixLast
<1>7. QED
  BY <1>2, <1>3, <1>4, <1>5, <1>6 DEF Archives!Adjusted

(* The Python files of the package in a wheel that passes.                  *)
LEMMA WheelSources ==
    ASSUME NEW names \in SUBSET Archives!Names, Archives!WheelParity(names)
    PROVE  {n \in names : Head(n) = "cache_invariant" /\ Archives!IsPython(n)}
           = {Archives!InWheel(p) : p \in Archives!PackageSources}
<1>1. \A n \in names : Archives!IsPrefix(Archives!Wheel, n) <=> Head(n) = "cache_invariant"
  BY NamesTyped, WheelPrefix
<1>2. {n \in names : Head(n) = "cache_invariant" /\ Archives!IsPython(n)}
      = {n \in names : Archives!IsPrefix(Archives!Wheel, n) /\ Archives!IsPython(n)}
  BY <1>1
<1>3. QED
  BY <1>2 DEF Archives!WheelParity

(* A notice that is required of some names is there by its last part.       *)
LEMMA NoticeIsThere ==
    ASSUME NEW names \in SUBSET PartNames, Archives!RequireNames(names),
           NEW s \in Archives!Notices
    PROVE  \E n \in names : Archives!Last(n) = Archives!Last(s)
<1>1. Archives!Notices \subseteq PartNames
  BY DEF Parts, PartNames, Archives!Notices
<1>2. PICK n \in names : Archives!IsSuffix(s, n)
  BY DEF Archives!RequireNames, Archives!RequiredSuffixes
<1>3. QED
  BY <1>1, <1>2, SuffixLast

(* Two archives that pass agree.                                            *)
LEMMA ReleaseAgrees == ArchivesInv => Archives!ArchivesAgree
<1>. SUFFICES ASSUME ArchivesInv, Archives!Passes
              PROVE  /\ {n \in Archives!Has(wheel) : Head(n) = "cache_invariant"
                                                      /\ Archives!IsPython(n)}
                        = {Archives!InWheel(Archives!RelativePath(n)) :
                              n \in Archives!SdistSources(sdist)}
                     /\ \A n \in Archives!SdistSources(sdist) :
                           /\ wheel[Archives!InWheel(Archives!RelativePath(n))] = "current"
                           /\ \E m \in Archives!SdistSources(sdist) :
                                 /\ Archives!RelativePath(m) = Archives!RelativePath(n)
                                 /\ sdist[m] = "current"
                     /\ \A s \in Archives!Notices, a \in {wheel, sdist} :
                           \E n \in Archives!Has(a) : Archives!Last(n) = Archives!Last(s)
  BY DEF Archives!ArchivesAgree
<1>. DEFINE sources == Archives!SdistSources(sdist)
<1>1. /\ DOMAIN relative = {Archives!RelativePath(n) : n \in sources}
      /\ \A r \in DOMAIN relative : relative[r] \in sources
      /\ \A r \in DOMAIN relative : Archives!RelativePath(relative[r]) = r
  BY DEF ArchivesInv, Archives!Packaged
<1>2. /\ DOMAIN relative = Archives!PackageSources
      /\ \A p \in Archives!PackageSources : sdist[relative[p]] = "current"
  BY DEF Archives!Passes, Archives!SdistPasses, Archives!SdistParity
<1>3. Archives!PackageSources = {Archives!RelativePath(n) : n \in sources}
  BY <1>1, <1>2
<1>4. Archives!WheelParity(Archives!Has(wheel))
  BY DEF Archives!Passes, Archives!WheelPasses
<1>5. Archives!Has(wheel) \in SUBSET Archives!Names /\ Archives!Has(sdist) \in SUBSET Archives!Names
  BY DEF Archives!Has
<1>6. {n \in Archives!Has(wheel) : Head(n) = "cache_invariant" /\ Archives!IsPython(n)}
      = {Archives!InWheel(Archives!RelativePath(n)) : n \in sources}
  BY <1>3, <1>4, <1>5, WheelSources
<1>7. ASSUME NEW n \in sources
      PROVE  /\ wheel[Archives!InWheel(Archives!RelativePath(n))] = "current"
             /\ \E m \in sources : /\ Archives!RelativePath(m) = Archives!RelativePath(n)
                                   /\ sdist[m] = "current"
  <2>1. Archives!RelativePath(n) \in Archives!PackageSources
    BY <1>3
  <2>2. wheel[Archives!InWheel(Archives!RelativePath(n))] = "current"
    BY <1>4, <2>1 DEF Archives!WheelParity
  <2>3. QED
    BY <1>1, <1>2, <2>1, <2>2
<1>8. ASSUME NEW s \in Archives!Notices
      PROVE  \E n \in Archives!Has(wheel) : Archives!Last(n) = Archives!Last(s)
  <2>1. Archives!RequireNames(Archives!Adjusted(Archives!Has(wheel)))
    BY DEF Archives!Passes, Archives!WheelPasses
  <2>2. Archives!Adjusted(Archives!Has(wheel)) \in SUBSET PartNames
    BY <1>5, AdjustedLast
  <2>3. PICK n \in Archives!Adjusted(Archives!Has(wheel)) : Archives!Last(n) = Archives!Last(s)
    BY <2>1, <2>2, NoticeIsThere
  <2>4. QED
    BY <1>5, <2>3, AdjustedLast
<1>9. ASSUME NEW s \in Archives!Notices
      PROVE  \E n \in Archives!Has(sdist) : Archives!Last(n) = Archives!Last(s)
  <2>1. Archives!RequireNames(Archives!Has(sdist))
    BY DEF Archives!Passes, Archives!SdistPasses
  <2>2. QED
    BY <1>5, <2>1, NamesTyped, NoticeIsThere
<1>10. QED
  BY <1>6, <1>7, <1>8, <1>9

-----------------------------------------------------------------------------
(* The path guards: a path of any length, in a tree with any names          *)

(* The order of the numbers, under which induction is sound.               *)
Below == {p \in Nat \X Nat : p[1] < p[2]}

(* No sequence of numbers goes down for ever.                               *)
LEMMA BelowWellFounded == IsWellFoundedOn(Below, Nat)
BY NatLessThanWellFounded DEF OpToRel, Below

(* A set of numbers has a least one.                                        *)
LEMMA LeastNatural ==
    ASSUME NEW T \in SUBSET Nat, T # {}
    PROVE  \E n \in T : \A m \in T : n <= m
<1>1. PICK n \in T : \A m \in T : <<m, n>> \notin Below
  BY BelowWellFounded, WFMin
<1>2. ASSUME NEW m \in T, m < n PROVE FALSE
  <2>1. <<m, n>> \in Nat \X Nat /\ <<m, n>>[1] = m /\ <<m, n>>[2] = n
    BY <1>2
  <2>2. <<m, n>> \in Below
    BY <1>2, <2>1 DEF Below
  <2>3. QED
    BY <1>1, <2>2
<1>3. QED
  BY <1>2

(* Induction up to a bound, over a set.                                     *)
LEMMA Upwards ==
    ASSUME NEW b \in Nat, NEW T, 0 \in T, \A n \in 0 .. b - 1 : n \in T => n + 1 \in T
    PROVE  0 .. b \subseteq T
<1>. DEFINE U == (0 .. b) \ T
<1>1. SUFFICES ASSUME U # {} PROVE FALSE
  OBVIOUS
<1>2. PICK n \in U : \A m \in U : n <= m
  <2>1. U \in SUBSET Nat
    OBVIOUS
  <2>. HIDE DEF U
  <2>2. QED
    BY <1>1, <2>1, LeastNatural
<1>3. n # 0 /\ n - 1 \in 0 .. b - 1
  BY <1>2
<1>4. n - 1 \in T
  BY <1>2, <1>3
<1>5. QED
  BY <1>2, <1>3, <1>4

(* The parts that a path is written with.                                  *)
WrittenParts == Name \cup {Guards!Up}

(* A walk goes through the parts of a path one by one.                      *)
IsWalk(follow, p, w) ==
    w = [k \in 0 .. Len(p) |-> IF k = 0 THEN <<>> ELSE Guards!Lead(follow, w[k - 1], p[k])]

(* The value of a walk at each part.                                        *)
LEMMA WalkAt ==
    ASSUME NEW follow, NEW p, NEW w, IsWalk(follow, p, w), NEW i \in 0 .. Len(p)
    PROVE  w[i] = IF i = 0 THEN <<>> ELSE Guards!Lead(follow, w[i - 1], p[i])
<1>. DEFINE e(k) == IF k = 0 THEN <<>> ELSE Guards!Lead(follow, w[k - 1], p[k])
<1>1. w = [k \in 0 .. Len(p) |-> e(k)]
  BY DEF IsWalk
<1>. HIDE DEF e
<1>2. w[i] = e(i)
  BY <1>1
<1>3. QED
  BY <1>2 DEF e

(* There is such a walk for every path.                                     *)
LEMMA WalkExists ==
    ASSUME NEW follow, NEW p \in Seq(WrittenParts)
    PROVE  \E w : IsWalk(follow, p, w)
<1>. DEFINE Step(x, k) == IF k = 0 THEN <<>> ELSE Guards!Lead(follow, x, p[k])
            Goes(n, w) == w = [k \in 0 .. n |-> Step(w[k - 1], k)]
            T == {n \in 0 .. Len(p) : \E w : Goes(n, w)}
<1>1. Len(p) \in Nat
  BY LenProperties
<1>2. 0 \in T
  <2>. DEFINE start == [k \in 0 .. 0 |-> <<>>]
  <2>1. \A k \in 0 .. 0 : start[k] = Step(start[k - 1], k)
    OBVIOUS
  <2>. HIDE DEF Step
  <2>2. Goes(0, start)
    BY <2>1
  <2>3. QED
    BY <1>1, <2>2
<1>3. ASSUME NEW n \in 0 .. Len(p) - 1, n \in T PROVE n + 1 \in T
  <2>1. PICK w : Goes(n, w)
    BY <1>3
  <2>. DEFINE further == [k \in 0 .. n + 1 |-> IF k = n + 1 THEN Step(w[n], k) ELSE w[k]]
  <2>2. Goes(n + 1, further)
    <3>. SUFFICES ASSUME NEW k \in 0 .. n + 1
                  PROVE  further[k] = Step(further[k - 1], k)
      OBVIOUS
    <3>1. CASE k = n + 1
      <4>1. k - 1 \in 0 .. n + 1 /\ k - 1 # n + 1 /\ k - 1 = n
        BY <1>1, <3>1
      <4>2. further[k - 1] = w[n] /\ further[k] = Step(w[n], k)
        BY <3>1, <4>1
      <4>3. QED
        BY <4>2
    <3>2. CASE k # n + 1 /\ k # 0
      <4>1. /\ k \in 0 .. n /\ k - 1 \in 0 .. n + 1
            /\ k - 1 # n + 1
        BY <1>1, <3>2
      <4>2. further[k - 1] = w[k - 1] /\ further[k] = w[k]
        BY <3>2, <4>1
      <4>. HIDE DEF Step, further
      <4>3. QED
        BY <2>1, <4>1, <4>2
    <3>3. CASE k = 0
      BY <1>1, <2>1, <3>3
    <3>4. QED
      BY <3>1, <3>2, <3>3
  <2>3. n + 1 \in 0 .. Len(p)
    BY <1>1
  <2>. HIDE DEF further, Goes
  <2>4. QED
    BY <2>2, <2>3
<1>4. Len(p) \in T
  <2>. HIDE DEF T
  <2>1. 0 .. Len(p) \subseteq T
    BY <1>1, <1>2, <1>3, Upwards
  <2>2. QED
    BY <1>1, <2>1
<1>5. PICK w : Goes(Len(p), w)
  BY <1>4
<1>6. QED
  BY <1>5 DEF IsWalk

(* Two walks agree as far as their paths do.                                *)
LEMMA WalksAgree ==
    ASSUME NEW follow, NEW p \in Seq(WrittenParts), NEW q \in Seq(WrittenParts), NEW n \in 0 .. Len(p),
           n <= Len(q), \A i \in 1 .. n : p[i] = q[i],
           NEW w, NEW v, IsWalk(follow, p, w), IsWalk(follow, q, v)
    PROVE  w[n] = v[n]
<1>. DEFINE T == {i \in 0 .. n : w[i] = v[i]}
<1>1. Len(p) \in Nat /\ Len(q) \in Nat /\ n \in Nat
  BY LenProperties
<1>2. ASSUME NEW i \in 0 .. n
      PROVE  /\ w[i] = IF i = 0 THEN <<>> ELSE Guards!Lead(follow, w[i - 1], p[i])
             /\ v[i] = IF i = 0 THEN <<>> ELSE Guards!Lead(follow, v[i - 1], q[i])
  <2>1. i \in 0 .. Len(p) /\ i \in 0 .. Len(q)
    BY <1>1
  <2>2. QED
    BY <2>1, WalkAt
<1>3. 0 \in T
  <2>1. 0 \in 0 .. n
    BY <1>1
  <2>2. w[0] = <<>> /\ v[0] = <<>>
    BY <1>2, <2>1
  <2>3. QED
    BY <2>1, <2>2
<1>4. ASSUME NEW i \in 0 .. n - 1, i \in T PROVE i + 1 \in T
  <2>1. /\ i + 1 \in 0 .. n /\ i + 1 # 0 /\ (i + 1) - 1 = i /\ i + 1 \in 1 .. n
        /\ w[i] = v[i]
    BY <1>1, <1>4
  <2>2. w[i + 1] = Guards!Lead(follow, w[i], p[i + 1])
    BY <1>2, <2>1
  <2>3. v[i + 1] = Guards!Lead(follow, v[i], q[i + 1])
    BY <1>2, <2>1
  <2>4. QED
    BY <2>1, <2>2, <2>3
<1>5. n \in T
  <2>. HIDE DEF T
  <2>1. 0 .. n \subseteq T
    BY <1>1, <1>3, <1>4, Upwards
  <2>2. QED
    BY <1>1, <2>1
<1>6. QED
  BY <1>5

(* What the model computes is the end of the walk.                          *)
LEMMA WalkEnds ==
    ASSUME NEW follow, NEW p \in Seq(WrittenParts)
    PROVE  \E w : IsWalk(follow, p, w) /\ Guards!Walk(follow, p) = w[Len(p)]
<1>. DEFINE w == CHOOSE f : IsWalk(follow, p, f)
<1>1. IsWalk(follow, p, w)
  BY WalkExists
<1>2. Guards!Walk(follow, p) = w[Len(p)]
  BY DEF Guards!Walk, IsWalk
<1>3. QED
  BY <1>1, <1>2

(* The place that a path leads to, part by part.                            *)
LEMMA WalkStep ==
    ASSUME NEW follow, NEW p \in Seq(WrittenParts), NEW k \in 1 .. Len(p)
    PROVE  Guards!Walk(follow, Guards!Prefix(p, k))
              = Guards!Lead(follow, Guards!Walk(follow, Guards!Prefix(p, k - 1)), p[k])
<1>. DEFINE q == Guards!Prefix(p, k)
            r == Guards!Prefix(p, k - 1)
<1>1. /\ Len(p) \in Nat /\ \A i \in 1 .. Len(p) : p[i] \in WrittenParts
      /\ k - 1 \in Int /\ k \in Int
  BY LenProperties
<1>2. /\ q \in Seq(WrittenParts) /\ Len(q) = k /\ \A i \in 1 .. k : q[i] = p[i]
      /\ r \in Seq(WrittenParts) /\ Len(r) = k - 1 /\ \A i \in 1 .. k - 1 : r[i] = p[i]
  BY <1>1, SubSeqProperties DEF Guards!Prefix
<1>. HIDE DEF q, r
<1>3. PICK w : IsWalk(follow, q, w) /\ Guards!Walk(follow, q) = w[Len(q)]
  BY <1>2, WalkEnds
<1>4. PICK v : IsWalk(follow, r, v) /\ Guards!Walk(follow, r) = v[Len(r)]
  BY <1>2, WalkEnds
<1>5. w[k] = Guards!Lead(follow, w[k - 1], p[k])
  <2>1. k \in 0 .. Len(q) /\ k # 0 /\ q[k] = p[k]
    BY <1>1, <1>2
  <2>2. QED
    BY <1>3, <2>1, WalkAt
<1>6. v[k - 1] = w[k - 1]
  <2>1. k - 1 \in 0 .. Len(r) /\ k - 1 <= Len(q) /\ \A i \in 1 .. k - 1 : r[i] = q[i]
    BY <1>1, <1>2
  <2>2. \A n \in 0 .. Len(r) : n <= Len(q) /\ (\A i \in 1 .. n : r[i] = q[i]) => v[n] = w[n]
    <3>. SUFFICES ASSUME NEW n \in 0 .. Len(r), n <= Len(q), \A i \in 1 .. n : r[i] = q[i]
                  PROVE  v[n] = w[n]
      OBVIOUS
    <3>1. r \in Seq(WrittenParts) /\ q \in Seq(WrittenParts)
      BY <1>2
    <3>2. IsWalk(follow, r, v) /\ IsWalk(follow, q, w)
      BY <1>3, <1>4
    <3>3. QED
      BY <3>1, <3>2, WalksAgree
  <2>3. QED
    BY <2>1, <2>2
<1>7. QED
  BY <1>2, <1>3, <1>4, <1>5, <1>6 DEF q, r

(* A walk starts at the anchor.                                             *)
LEMMA WalkStart ==
    ASSUME NEW follow, NEW p \in Seq(WrittenParts)
    PROVE  Guards!Walk(follow, Guards!Prefix(p, 0)) = <<>>
<1>1. Guards!Prefix(p, 0) = <<>> /\ <<>> \in Seq(WrittenParts) /\ Len(<<>>) = 0
  BY SubSeqEmpty DEF Guards!Prefix
<1>2. PICK w : IsWalk(follow, <<>>, w) /\ Guards!Walk(follow, <<>>) = w[0]
  BY <1>1, WalkEnds
<1>3. QED
  BY <1>1, <1>2 DEF IsWalk

(* Where a walk may end, but nowhere: the anchor, a file or a directory.    *)
Places == {<<>>} \cup {n \in Guards!Nodes : disk[n].kind \in {"file", "directory"}}

(* The nodes by their length, and what stands in a tree.                    *)
LEMMA TreeFacts ==
    ASSUME disk \in Guards!Trees, NEW n \in Guards!Nodes
    PROVE  /\ n \in Seq(WrittenParts) /\ Len(n) \in {1, 2} /\ n[1] \in Name /\ n # <<>>
           /\ Len(n) = 1 => n = <<n[1]>>
           /\ Len(n) = 2 => /\ n[2] \in Name /\ n = <<n[1], n[2]>>
                            /\ <<n[1]>> \in Guards!Nodes
                            /\ Guards!Front(n) = <<n[1]>>
                            /\ disk[n] # Guards!Missing => disk[<<n[1]>>] = Guards!Directory
           /\ disk[n].kind \in {"missing", "file", "directory", "link"}
           /\ disk[n].kind = "missing" => disk[n] = Guards!Missing
           /\ disk[n].kind = "file" <=> disk[n] = Guards!File
           /\ disk[n].kind = "directory" <=> disk[n] = Guards!Directory
           /\ disk[n].kind = "link" => /\ disk[n].target \in Guards!Nodes
                                       /\ disk[disk[n].target].kind \in {"file", "directory"}
<1>. USE DEF Guards!Missing, Guards!File, Guards!Directory, Guards!Link
<1>1. disk[n] \in Guards!Entries /\ Guards!IsTree(disk)
  BY DEF Guards!Trees
<1>2. /\ n \in Seq(WrittenParts) /\ Len(n) \in {1, 2} /\ n[1] \in Name /\ n # <<>>
      /\ Len(n) = 1 => n = <<n[1]>>
      /\ Len(n) = 2 => n[2] \in Name /\ n = <<n[1], n[2]>>
  <2>1. CASE \E a \in Name : n = <<a>>
    BY <2>1 DEF WrittenParts
  <2>2. CASE \E a, b \in Name : n = <<a, b>>
    BY <2>2 DEF WrittenParts
  <2>3. QED
    BY <2>1, <2>2 DEF Guards!Nodes
<1>3. ASSUME Len(n) = 2
      PROVE  /\ <<n[1]>> \in Guards!Nodes /\ Guards!Front(n) = <<n[1]>>
             /\ disk[n] # Guards!Missing => disk[<<n[1]>>] = Guards!Directory
  <2>1. <<n[1]>> \in Guards!Nodes
    BY <1>2 DEF Guards!Nodes
  <2>2. SubSeq(n, 1, 1) = <<n[1]>>
    <3>1. SubSeq(n, 1, 1) \in Seq(WrittenParts) /\ Len(SubSeq(n, 1, 1)) = 1
          /\ SubSeq(n, 1, 1)[1] = n[1]
      BY <1>2, <1>3, SMT
    <3>2. <<n[1]>> \in Seq(WrittenParts) /\ Len(<<n[1]>>) = 1 /\ <<n[1]>>[1] = n[1]
      BY <1>2 DEF WrittenParts
    <3>3. \A i \in 1 .. 1 : i = 1
      OBVIOUS
    <3>4. QED
      BY <3>1, <3>2, <3>3, SeqEqual
  <2>3. Guards!Front(n) = <<n[1]>>
    BY <1>3, <2>2 DEF Guards!Front
  <2>4. QED
    BY <1>1, <1>3, <2>1, <2>3 DEF Guards!IsTree
<1>4. /\ disk[n].kind \in {"missing", "file", "directory", "link"}
      /\ disk[n].kind = "missing" => disk[n] = Guards!Missing
      /\ disk[n].kind = "file" <=> disk[n] = Guards!File
      /\ disk[n].kind = "directory" <=> disk[n] = Guards!Directory
      /\ disk[n].kind = "link" => disk[n].target \in Guards!Nodes
  BY <1>1 DEF Guards!Entries
<1>5. disk[n].kind = "link" => disk[disk[n].target].kind \in {"file", "directory"}
  BY <1>1 DEF Guards!IsTree
<1>6. QED
  BY <1>2, <1>3, <1>4, <1>5

(* Nowhere is no place, and nothing leads away from it.                     *)
LEMMA NowhereIsNoPlace ==
    /\ Guards!Nowhere # <<>> /\ Guards!Nowhere \notin Guards!Nodes
    /\ \A follow, entry : Guards!Lead(follow, Guards!Nowhere, entry) = Guards!Nowhere
<1>1. Guards!Nowhere # <<>>
  BY DEF Guards!Nowhere
<1>2. Guards!Nowhere \notin Guards!Nodes
  <2>1. ASSUME NEW m \in Name, <<Guards!Up>> = <<m>> PROVE FALSE
    BY <2>1, NameAssumption
  <2>2. ASSUME NEW m \in Name, NEW n \in Name, <<Guards!Up>> = <<m, n>> PROVE FALSE
    BY <2>2
  <2>3. QED
    BY <2>1, <2>2 DEF Guards!Nodes, Guards!Nowhere
<1>3. ~Guards!Enterable(Guards!Nowhere)
  BY <1>1, <1>2 DEF Guards!Enterable
<1>4. QED
  BY <1>1, <1>2, <1>3 DEF Guards!Lead

(* A path leads to a place or nowhere.                                      *)
LEMMA LeadsToPlace ==
    ASSUME disk \in Guards!Trees, NEW follow \in BOOLEAN, NEW entry \in WrittenParts,
           NEW x \in Places
    PROVE  Guards!Lead(follow, x, entry) \in Places \cup {Guards!Nowhere}
<1>1. CASE ~Guards!Enterable(x)
  BY <1>1 DEF Guards!Lead
<1>2. CASE Guards!Enterable(x) /\ entry = Guards!Up
  <2>1. CASE x = <<>>
    BY <1>2, <2>1 DEF Guards!Lead, Places
  <2>2. CASE x \in Guards!Nodes /\ Len(x) = 1 /\ x # <<>>
    <3>1. Guards!Front(x) = <<>>
      BY <2>2, SubSeqEmpty DEF Guards!Front
    <3>2. QED
      BY <1>2, <2>2, <3>1 DEF Guards!Lead, Places
  <2>3. CASE x \in Guards!Nodes /\ Len(x) = 2 /\ x # <<>>
    <3>1. disk[x] = Guards!Directory
      BY <1>2, <2>3 DEF Guards!Enterable
    <3>2. disk[x] # Guards!Missing
      BY <3>1 DEF Guards!Directory, Guards!Missing
    <3>3. /\ Guards!Front(x) = <<x[1]>> /\ <<x[1]>> \in Guards!Nodes
          /\ disk[<<x[1]>>].kind = "directory"
      BY <2>3, <3>2, TreeFacts DEF Guards!Directory
    <3>4. QED
      BY <1>2, <2>3, <3>3 DEF Guards!Lead, Places
  <2>4. QED
    BY <2>1, <2>2, <2>3, TreeFacts DEF Places
<1>3. CASE Guards!Enterable(x) /\ entry # Guards!Up
  <2>. DEFINE child == Append(x, entry)
  <2>1. CASE child \notin Guards!Nodes \/ disk[child] = Guards!Missing
    BY <1>3, <2>1 DEF Guards!Lead
  <2>2. CASE child \in Guards!Nodes /\ disk[child] # Guards!Missing
    <3>1. disk[child].kind \in {"file", "directory", "link"}
      BY <2>2, TreeFacts
    <3>2. CASE disk[child].kind # "link"
      BY <1>3, <2>2, <3>1, <3>2 DEF Guards!Lead, Places
    <3>3. CASE disk[child].kind = "link"
      <4>1. disk[child].target \in Places
        BY <2>2, <3>3, TreeFacts DEF Places
      <4>2. Guards!Lead(follow, x, entry) \in {disk[child].target, Guards!Nowhere}
        BY <1>3, <2>2, <3>3 DEF Guards!Lead
      <4>3. QED
        BY <4>1, <4>2
    <3>4. QED
      BY <3>2, <3>3
  <2>3. QED
    BY <2>1, <2>2
<1>4. QED
  BY <1>1, <1>2, <1>3

(* Where a path leads to after its first k parts.                           *)
After(follow, p, k) == Guards!Walk(follow, Guards!Prefix(p, k))

(* The prefixes of a path, and the last part of each.                       *)
LEMMA PrefixFacts ==
    ASSUME NEW p \in Seq(WrittenParts), NEW k \in 1 .. Len(p)
    PROVE  /\ Guards!Prefix(p, k) \in Seq(WrittenParts) /\ Len(Guards!Prefix(p, k)) = k
           /\ Guards!Front(Guards!Prefix(p, k)) = Guards!Prefix(p, k - 1)
           /\ Guards!Last(Guards!Prefix(p, k)) = p[k]
           /\ Append(Guards!Prefix(p, k - 1), p[k]) = Guards!Prefix(p, k)
           /\ \A i \in 1 .. k : Guards!Prefix(p, k)[i] = p[i]
<1>. DEFINE q == Guards!Prefix(p, k)
            r == Guards!Prefix(p, k - 1)
<1>1. /\ Len(p) \in Nat /\ \A i \in 1 .. Len(p) : p[i] \in WrittenParts
      /\ k - 1 \in Int /\ k \in Int
  BY LenProperties
<1>2. /\ q \in Seq(WrittenParts) /\ Len(q) = k /\ \A i \in 1 .. k : q[i] = p[i]
      /\ r \in Seq(WrittenParts) /\ Len(r) = k - 1 /\ \A i \in 1 .. k - 1 : r[i] = p[i]
  BY <1>1, SubSeqProperties DEF Guards!Prefix
<1>. HIDE DEF q, r
<1>3. Guards!Front(q) = r
  <2>. DEFINE f == Guards!Front(q)
  <2>1. f = SubSeq(q, 1, k - 1)
    BY <1>2 DEF Guards!Front
  <2>2. \A i \in 1 .. k - 1 : q[i] \in WrittenParts
    BY <1>1, <1>2
  <2>3. f \in Seq(WrittenParts) /\ Len(f) = k - 1 /\ \A i \in 1 .. k - 1 : f[i] = q[i]
    BY <1>1, <2>1, <2>2, SubSeqProperties
  <2>4. \A i \in 1 .. Len(f) : f[i] = r[i]
    BY <1>1, <1>2, <2>3
  <2>. HIDE DEF f
  <2>5. f = r
    BY <1>2, <2>3, <2>4, SeqEqual
  <2>6. QED
    BY <2>5 DEF f
<1>4. Append(r, p[k]) = q
  <2>. DEFINE a == Append(r, p[k])
  <2>1. /\ a \in Seq(WrittenParts) /\ Len(a) = k /\ a[k] = p[k]
        /\ \A i \in 1 .. k - 1 : a[i] = p[i]
    BY <1>1, <1>2, AppendProperties
  <2>2. \A i \in 1 .. Len(a) : a[i] = q[i]
    BY <1>1, <1>2, <2>1
  <2>. HIDE DEF a
  <2>3. a = q
    BY <1>2, <2>1, <2>2, SeqEqual
  <2>4. QED
    BY <2>3 DEF a
<1>5. Guards!Last(q) = p[k]
  BY <1>1, <1>2 DEF Guards!Last
<1>6. QED
  BY <1>2, <1>3, <1>4, <1>5 DEF q, r

(* A path is its longest prefix.                                            *)
LEMMA WholePath ==
    ASSUME NEW p \in Seq(WrittenParts)
    PROVE  Guards!Prefix(p, Len(p)) = p
BY SubSeqFull DEF Guards!Prefix

(* What lstat says of a path whose directory is at a place.                 *)
Seen(x, entry) ==
    CASE x = Guards!Nowhere -> "missing"
      [] x # Guards!Nowhere /\ ~Guards!Enterable(x) -> "no directory"
      [] Guards!Enterable(x) /\ entry = Guards!Up -> "directory"
      [] OTHER -> IF Append(x, entry) \in Guards!Nodes THEN disk[Append(x, entry)].kind
                  ELSE "missing"

(* lstat of a prefix is what is seen from the place before it.              *)
LEMMA LstatIsSeen ==
    ASSUME NEW p \in Seq(WrittenParts), NEW k \in 1 .. Len(p)
    PROVE  Guards!Lstat(Guards!Prefix(p, k)) = Seen(After(TRUE, p, k - 1), p[k])
BY PrefixFacts DEF Guards!Lstat, Guards!Resolve, Seen, After

(* Lead and lstat, by the kind of what is there.                            *)
LEMMA SeenAndLed ==
    ASSUME disk \in Guards!Trees, NEW x \in Places \cup {Guards!Nowhere},
           NEW entry \in WrittenParts
    PROVE  /\ Seen(x, entry) \in {"missing", "no directory", "directory", "file", "link"}
           /\ Guards!Lead(TRUE, x, entry) # Guards!Nowhere =>
                 /\ x # Guards!Nowhere /\ Seen(x, entry) \notin {"missing", "no directory"}
                 /\ Seen(x, entry) # "link" =>
                       Guards!Lead(FALSE, x, entry) = Guards!Lead(TRUE, x, entry)
           /\ Seen(x, entry) \in {"file", "directory"} /\ entry # Guards!Up =>
                 /\ Append(x, entry) \in Guards!Nodes
                 /\ disk[Append(x, entry)].kind = Seen(x, entry)
                 /\ Guards!Lead(TRUE, x, entry) = Append(x, entry)
<1>. DEFINE child == Append(x, entry)
<1>1. CASE x = Guards!Nowhere
  BY <1>1, NowhereIsNoPlace DEF Seen
<1>2. CASE x # Guards!Nowhere /\ ~Guards!Enterable(x)
  BY <1>2 DEF Seen, Guards!Lead
<1>3. CASE x # Guards!Nowhere /\ Guards!Enterable(x) /\ entry = Guards!Up
  BY <1>3 DEF Seen, Guards!Lead
<1>4. CASE x # Guards!Nowhere /\ Guards!Enterable(x) /\ entry # Guards!Up
  <2>1. Seen(x, entry) = IF child \in Guards!Nodes THEN disk[child].kind ELSE "missing"
    BY <1>4 DEF Seen
  <2>2. \A follow : Guards!Lead(follow, x, entry)
            = IF child \notin Guards!Nodes \/ disk[child] = Guards!Missing THEN Guards!Nowhere
              ELSE IF disk[child].kind # "link" THEN child
              ELSE IF follow THEN disk[child].target ELSE Guards!Nowhere
    BY <1>4 DEF Guards!Lead
  <2>. HIDE DEF child
  <2>3. child \in Guards!Nodes =>
           /\ disk[child].kind \in {"missing", "file", "directory", "link"}
           /\ disk[child].kind = "missing" <=> disk[child] = Guards!Missing
    <3>1. Guards!Missing.kind = "missing"
      BY DEF Guards!Missing
    <3>2. QED
      BY <3>1, TreeFacts
  <2>4. /\ Seen(x, entry) \in {"missing", "no directory", "directory", "file", "link"}
        /\ Guards!Lead(TRUE, x, entry) # Guards!Nowhere =>
              Seen(x, entry) \notin {"missing", "no directory"}
    BY <2>1, <2>2, <2>3
  <2>5. Seen(x, entry) \in {"file", "directory"} =>
           /\ child \in Guards!Nodes /\ disk[child].kind = Seen(x, entry)
           /\ Guards!Lead(TRUE, x, entry) = child /\ Guards!Lead(FALSE, x, entry) = child
    BY <2>1, <2>2, <2>3
  <2>6. QED
    BY <1>4, <2>4, <2>5 DEF child
<1>5. QED
  BY <1>1, <1>2, <1>3, <1>4

(* A path leads from place to place, or nowhere.                            *)
LEMMA AfterIsPlace ==
    ASSUME disk \in Guards!Trees, NEW follow \in BOOLEAN, NEW p \in Seq(WrittenParts),
           NEW k \in 0 .. Len(p)
    PROVE  After(follow, p, k) \in Places \cup {Guards!Nowhere}
<1>. DEFINE S == Places \cup {Guards!Nowhere}
            T == {j \in 0 .. Len(p) : After(follow, p, j) \in S}
<1>1. Len(p) \in Nat /\ \A i \in 1 .. Len(p) : p[i] \in WrittenParts
  BY LenProperties
<1>2. 0 \in T
  <2>1. 0 \in 0 .. Len(p)
    BY <1>1
  <2>2. After(follow, p, 0) = <<>>
    BY WalkStart DEF After
  <2>3. <<>> \in Places
    BY DEF Places
  <2>4. After(follow, p, 0) \in S
    BY <2>2, <2>3
  <2>. HIDE DEF S
  <2>5. QED
    BY <2>1, <2>4
<1>3. ASSUME NEW j \in 0 .. Len(p) - 1, j \in T PROVE j + 1 \in T
  <2>1. j + 1 \in 1 .. Len(p) /\ (j + 1) - 1 = j /\ p[j + 1] \in WrittenParts
    BY <1>1
  <2>2. After(follow, p, j + 1) = Guards!Lead(follow, After(follow, p, j), p[j + 1])
    BY <2>1, WalkStep DEF After
  <2>3. QED
    BY <1>3, <2>1, <2>2, LeadsToPlace, NowhereIsNoPlace
<1>4. k \in T
  <2>. HIDE DEF T
  <2>1. 0 .. Len(p) \subseteq T
    BY <1>1, <1>2, <1>3, Upwards
  <2>2. QED
    BY <2>1
<1>5. QED
  BY <1>4

(* A path that leads somewhere does so all the way.                         *)
LEMMA SomewhereAllTheWay ==
    ASSUME NEW p \in Seq(WrittenParts), After(TRUE, p, Len(p)) # Guards!Nowhere,
           NEW k \in 0 .. Len(p)
    PROVE  After(TRUE, p, k) # Guards!Nowhere
<1>. DEFINE T == {j \in 0 .. Len(p) : After(TRUE, p, Len(p) - j) # Guards!Nowhere}
<1>1. Len(p) \in Nat
  BY LenProperties
<1>2. 0 \in T
  <2>1. 0 \in 0 .. Len(p) /\ Len(p) - 0 = Len(p)
    BY <1>1
  <2>2. QED
    BY <2>1
<1>3. ASSUME NEW j \in 0 .. Len(p) - 1, j \in T PROVE j + 1 \in T
  <2>. DEFINE i == Len(p) - j
  <2>1. i \in 1 .. Len(p) /\ j + 1 \in 0 .. Len(p) /\ i - 1 = Len(p) - (j + 1)
    BY <1>1
  <2>2. After(TRUE, p, i) # Guards!Nowhere
    BY <1>3
  <2>. HIDE DEF i
  <2>3. After(TRUE, p, i) = Guards!Lead(TRUE, After(TRUE, p, i - 1), p[i])
    BY <2>1, WalkStep DEF After
  <2>4. After(TRUE, p, i - 1) # Guards!Nowhere
    BY <2>2, <2>3, NowhereIsNoPlace
  <2>5. QED
    BY <2>1, <2>4
<1>4. Len(p) - k \in T
  <2>. HIDE DEF T
  <2>1. 0 .. Len(p) \subseteq T
    BY <1>1, <1>2, <1>3, Upwards
  <2>2. Len(p) - k \in 0 .. Len(p)
    BY <1>1
  <2>3. QED
    BY <2>1, <2>2
<1>5. Len(p) - (Len(p) - k) = k
  BY <1>1
<1>6. QED
  BY <1>4, <1>5

(* What the guard lets through is reached without a link.                   *)
LEMMA NoLink ==
    ASSUME disk \in Guards!Trees, NEW p \in Seq(WrittenParts),
           Guards!RejectReparseChain(p), Guards!Resolve(p) # Guards!Nowhere
    PROVE  Guards!Resolve(p) = Guards!ResolvePlainly(p)
<1>. DEFINE T == {j \in 0 .. Len(p) : After(TRUE, p, j) = After(FALSE, p, j)}
<1>1. Len(p) \in Nat /\ \A i \in 1 .. Len(p) : p[i] \in WrittenParts
  BY LenProperties
<1>2. Guards!Resolve(p) = After(TRUE, p, Len(p))
      /\ Guards!ResolvePlainly(p) = After(FALSE, p, Len(p))
  BY WholePath DEF After, Guards!Resolve, Guards!ResolvePlainly
<1>3. ASSUME NEW k \in 1 .. Len(p)
      PROVE  /\ After(TRUE, p, k - 1) \in Places \cup {Guards!Nowhere}
             /\ Guards!Lead(TRUE, After(TRUE, p, k - 1), p[k]) # Guards!Nowhere
             /\ Guards!Lstat(Guards!Prefix(p, k)) = Seen(After(TRUE, p, k - 1), p[k])
             /\ Guards!Lstat(Guards!Prefix(p, k)) # "missing"
  <2>1. k \in 0 .. Len(p) /\ k - 1 \in 0 .. Len(p) /\ p[k] \in WrittenParts
    BY <1>1
  <2>2. After(TRUE, p, k - 1) \in Places \cup {Guards!Nowhere}
    BY <2>1, AfterIsPlace
  <2>3. Guards!Lead(TRUE, After(TRUE, p, k - 1), p[k]) # Guards!Nowhere
    <3>1. After(TRUE, p, k) # Guards!Nowhere
      BY <1>2, <2>1, SomewhereAllTheWay
    <3>2. QED
      BY <3>1, WalkStep DEF After
  <2>4. Guards!Lstat(Guards!Prefix(p, k)) = Seen(After(TRUE, p, k - 1), p[k])
    BY LstatIsSeen
  <2>5. QED
    BY <2>1, <2>2, <2>3, <2>4, SeenAndLed
<1>4. 0 \in T
  <2>1. 0 \in 0 .. Len(p)
    BY <1>1
  <2>2. QED
    BY <2>1, WalkStart DEF After
<1>5. ASSUME NEW j \in 0 .. Len(p) - 1, j \in T PROVE j + 1 \in T
  <2>. DEFINE k == j + 1
  <2>1. k \in 1 .. Len(p) /\ k - 1 = j /\ p[k] \in WrittenParts
    BY <1>1
  <2>. HIDE DEF k
  <2>2. Guards!Lstat(Guards!Prefix(p, k)) # "link"
    <3>1. \A i \in 1 .. k - 1 : Guards!Lstat(Guards!Prefix(p, i)) # "missing"
      <4>1. \A i \in 1 .. k - 1 : i \in 1 .. Len(p)
        BY <1>1, <2>1
      <4>2. QED
        BY <1>3, <4>1
    <3>2. QED
      BY <2>1, <3>1 DEF Guards!RejectReparseChain
  <2>3. Guards!Lead(FALSE, After(TRUE, p, j), p[k]) = Guards!Lead(TRUE, After(TRUE, p, j), p[k])
    BY <1>3, <2>1, <2>2, SeenAndLed
  <2>4. After(TRUE, p, k) = Guards!Lead(TRUE, After(TRUE, p, j), p[k])
        /\ After(FALSE, p, k) = Guards!Lead(FALSE, After(FALSE, p, j), p[k])
    BY <2>1, WalkStep DEF After
  <2>5. k \in T
    <3>1. After(TRUE, p, j) = After(FALSE, p, j)
      BY <1>5
    <3>2. k \in 0 .. Len(p)
      BY <1>1, <2>1
    <3>3. QED
      BY <2>3, <2>4, <3>1, <3>2
  <2>6. QED
    BY <2>5 DEF k
<1>6. Len(p) \in T
  <2>. HIDE DEF T
  <2>1. 0 .. Len(p) \subseteq T
    BY <1>1, <1>4, <1>5, Upwards
  <2>2. QED
    BY <1>1, <2>1
<1>7. QED
  BY <1>2, <1>6

(* A directory is found under its own name.                                 *)
LEMMA DirectoryIsFound ==
    ASSUME disk \in Guards!Trees, NEW p \in Seq(WrittenParts), NEW k \in 1 .. Len(p),
           Guards!Prefix(p, k) \in Guards!Nodes,
           disk[Guards!Prefix(p, k)] = Guards!Directory
    PROVE  /\ After(TRUE, p, k) = Guards!Prefix(p, k)
           /\ \A j \in 1 .. k : Guards!Lstat(Guards!Prefix(p, j)) = "directory"
<1>. DEFINE root == Guards!Prefix(p, k)
<1>1. Len(p) \in Nat /\ \A i \in 1 .. Len(p) : p[i] \in WrittenParts
  BY LenProperties
<1>2. /\ Guards!Directory.kind = "directory"
      /\ Guards!Directory # Guards!Missing /\ Guards!Up \notin Name
  BY NameAssumption DEF Guards!Directory, Guards!Missing
<1>3. k \in {1, 2} /\ Len(root) = k /\ p[1] \in Name /\ root[1] = p[1] /\ 1 \in 1 .. k
  <2>1. Len(root) = k /\ 1 \in 1 .. k /\ root[1] = p[1]
    BY <1>1, PrefixFacts
  <2>2. Len(root) \in {1, 2} /\ root[1] \in Name
    BY TreeFacts
  <2>3. QED
    BY <2>1, <2>2
<1>4. After(TRUE, p, 0) = <<>> /\ Guards!Enterable(<<>>) /\ <<>> # Guards!Nowhere
  BY WalkStart, NowhereIsNoPlace DEF After, Guards!Enterable
<1>5. /\ Guards!Prefix(p, 1) = <<p[1]>> /\ <<p[1]>> \in Guards!Nodes
      /\ disk[<<p[1]>>] = Guards!Directory
  <2>1. CASE k = 1
    <3>1. Len(root) = 1 /\ root \in Guards!Nodes /\ disk[root] = Guards!Directory
      BY <1>3, <2>1
    <3>2. root = <<root[1]>>
      BY <3>1, TreeFacts
    <3>3. QED
      BY <1>3, <2>1, <3>1, <3>2
  <2>2. CASE k = 2
    <3>1. /\ Guards!Front(root) = <<p[1]>> /\ <<p[1]>> \in Guards!Nodes
          /\ disk[<<p[1]>>] = Guards!Directory
      BY <1>2, <1>3, <2>2, TreeFacts
    <3>2. Guards!Front(root) = Guards!Prefix(p, k - 1) /\ k - 1 = 1
      BY <2>2, PrefixFacts
    <3>3. QED
      BY <3>1, <3>2
  <2>3. QED
    BY <1>3, <2>1, <2>2
<1>6. Append(<<>>, p[1]) = <<p[1]>>
  BY <1>3
<1>7. Guards!Lead(TRUE, <<>>, p[1]) = <<p[1]>> /\ Seen(<<>>, p[1]) = "directory"
  BY <1>2, <1>3, <1>4, <1>5, <1>6 DEF Guards!Lead, Seen
<1>8. /\ After(TRUE, p, 1) = Guards!Prefix(p, 1)
      /\ Guards!Lstat(Guards!Prefix(p, 1)) = "directory"
  <2>1. 1 \in 1 .. Len(p) /\ 1 - 1 = 0
    BY <1>1, <1>3
  <2>2. After(TRUE, p, 1) = Guards!Lead(TRUE, After(TRUE, p, 0), p[1])
    BY <2>1, WalkStep DEF After
  <2>3. Guards!Lstat(Guards!Prefix(p, 1)) = Seen(After(TRUE, p, 0), p[1])
    BY <2>1, LstatIsSeen
  <2>4. QED
    BY <1>4, <1>5, <1>7, <2>2, <2>3
<1>9. CASE k = 1
  <2>1. \A j \in 1 .. k : j = 1
    BY <1>9
  <2>2. QED
    BY <1>8, <1>9, <2>1
<1>10. CASE k = 2
  <2>1. p[2] \in Name /\ p[2] # Guards!Up /\ Append(<<p[1]>>, p[2]) = root
    <3>1. Append(Guards!Prefix(p, k - 1), p[k]) = root /\ k - 1 = 1 /\ root[2] = p[2]
      BY <1>10, PrefixFacts
    <3>2. Len(root) = 2
      BY <1>3, <1>10
    <3>3. root[2] \in Name
      BY <3>2, TreeFacts
    <3>4. QED
      BY <1>2, <1>5, <1>10, <3>1, <3>3
  <2>2. <<p[1]>> # Guards!Nowhere /\ Guards!Enterable(<<p[1]>>)
    BY <1>5, NowhereIsNoPlace DEF Guards!Enterable
  <2>. HIDE DEF root
  <2>3. root \in Guards!Nodes /\ disk[root] = Guards!Directory
    BY DEF root
  <2>4. Guards!Lead(TRUE, <<p[1]>>, p[2]) = root /\ Seen(<<p[1]>>, p[2]) = "directory"
    BY <1>2, <2>1, <2>2, <2>3 DEF Guards!Lead, Seen
  <2>5. 2 \in 1 .. Len(p) /\ 2 - 1 = 1
    BY <1>10
  <2>6. After(TRUE, p, 2) = Guards!Lead(TRUE, After(TRUE, p, 1), p[2])
    BY <2>5, WalkStep DEF After
  <2>7. Guards!Lstat(Guards!Prefix(p, 2)) = Seen(After(TRUE, p, 1), p[2])
    BY <2>5, LstatIsSeen
  <2>8. \A j \in 1 .. k : j = 1 \/ j = 2
    BY <1>10
  <2>9. QED
    BY <1>5, <1>8, <1>10, <2>4, <2>6, <2>7, <2>8 DEF root
<1>11. QED
  BY <1>3, <1>9, <1>10

(* Below a directory, a path without links and ".." is the name of a node.  *)
LEMMA NodeIsFound ==
    ASSUME disk \in Guards!Trees, NEW p \in Seq(WrittenParts), NEW k \in 1 .. Len(p),
           Guards!Prefix(p, k) \in Guards!Nodes,
           disk[Guards!Prefix(p, k)] = Guards!Directory,
           \A i \in k + 1 .. Len(p) : p[i] # Guards!Up,
           \A i \in k .. Len(p) : Guards!Lstat(Guards!Prefix(p, i)) \in {"file", "directory"},
           NEW n \in k + 1 .. Len(p)
    PROVE  /\ Guards!Prefix(p, n) \in Guards!Nodes
           /\ disk[Guards!Prefix(p, n)].kind = Guards!Lstat(Guards!Prefix(p, n))
           /\ After(TRUE, p, n) = Guards!Prefix(p, n)
<1>. DEFINE T == {j \in 0 .. n - k : After(TRUE, p, k + j) = Guards!Prefix(p, k + j)}
<1>1. /\ Len(p) \in Nat /\ \A i \in 1 .. Len(p) : p[i] \in WrittenParts
      /\ n - k \in Nat
  BY LenProperties
<1>2. 0 \in T
  <2>1. 0 \in 0 .. n - k /\ k + 0 = k
    BY <1>1
  <2>2. After(TRUE, p, k) = Guards!Prefix(p, k)
    BY DirectoryIsFound
  <2>3. QED
    BY <2>1, <2>2
<1>3. ASSUME NEW i \in k + 1 .. n, After(TRUE, p, i - 1) = Guards!Prefix(p, i - 1)
      PROVE  /\ Guards!Prefix(p, i) \in Guards!Nodes
             /\ disk[Guards!Prefix(p, i)].kind = Guards!Lstat(Guards!Prefix(p, i))
             /\ After(TRUE, p, i) = Guards!Prefix(p, i)
  <2>1. /\ i \in 1 .. Len(p) /\ i - 1 \in 0 .. Len(p) /\ p[i] \in WrittenParts
        /\ i \in k .. Len(p) /\ i \in k + 1 .. Len(p)
    BY <1>1
  <2>. DEFINE x == After(TRUE, p, i - 1)
  <2>2. x \in Places \cup {Guards!Nowhere}
    BY <2>1, AfterIsPlace
  <2>3. Guards!Lstat(Guards!Prefix(p, i)) = Seen(x, p[i])
    BY <2>1, LstatIsSeen
  <2>4. Seen(x, p[i]) \in {"file", "directory"} /\ p[i] # Guards!Up
    BY <2>1, <2>3
  <2>5. After(TRUE, p, i) = Guards!Lead(TRUE, x, p[i])
    BY <2>1, WalkStep DEF After
  <2>6. Append(x, p[i]) = Guards!Prefix(p, i)
    BY <1>3, <2>1, PrefixFacts, ZenonT(60)
  <2>. HIDE DEF x
  <2>7. QED
    BY <2>1, <2>2, <2>3, <2>4, <2>5, <2>6, SeenAndLed
<1>4. ASSUME NEW j \in 0 .. (n - k) - 1, j \in T PROVE j + 1 \in T
  <2>. DEFINE i == k + (j + 1)
  <2>1. i \in k + 1 .. n /\ i - 1 = k + j /\ j + 1 \in 0 .. n - k
    BY <1>1
  <2>2. After(TRUE, p, k + j) = Guards!Prefix(p, k + j)
    BY <1>4
  <2>. HIDE DEF i
  <2>3. After(TRUE, p, i) = Guards!Prefix(p, i)
    BY <1>3, <2>1, <2>2
  <2>4. QED
    BY <2>1, <2>3 DEF i
<1>5. (n - 1) - k \in T
  <2>1. (n - 1) - k \in 0 .. n - k
    BY <1>1
  <2>. HIDE DEF T
  <2>2. 0 .. n - k \subseteq T
    BY <1>1, <1>2, <1>4, Upwards
  <2>3. QED
    BY <2>1, <2>2
<1>6. n \in k + 1 .. n /\ k + ((n - 1) - k) = n - 1
  BY <1>1
<1>7. After(TRUE, p, n - 1) = Guards!Prefix(p, n - 1)
  BY <1>5, <1>6
<1>8. QED
  BY <1>3, <1>6, <1>7

(* A record of a file below a directory is accepted just when it names it.  *)
LEMMA RecordIsName ==
    ASSUME disk \in Guards!Trees, NEW p \in Seq(WrittenParts), NEW k \in 1 .. Len(p) - 1,
           Guards!Prefix(p, k) \in Guards!Nodes,
           disk[Guards!Prefix(p, k)] = Guards!Directory
    PROVE  ( /\ Guards!SafeRelativePath(SubSeq(p, k + 1, Len(p)))
             /\ Guards!RequireRegularFile(p)
             /\ Guards!RequirePlainPath(Guards!Prefix(p, k), p) )
           <=> ( p \in Guards!Nodes /\ disk[p] = Guards!File )
<1>. DEFINE root == Guards!Prefix(p, k)
            rest == SubSeq(p, k + 1, Len(p))
<1>1. /\ Len(p) \in Nat /\ \A i \in 1 .. Len(p) : p[i] \in WrittenParts
      /\ k \in 1 .. Len(p) /\ k + 1 \in Int /\ Len(p) \in 1 .. Len(p)
      /\ Len(p) \in k + 1 .. Len(p)
  BY LenProperties
<1>2. /\ rest \in Seq(WrittenParts) /\ Len(rest) = Len(p) - k
      /\ \A i \in 1 .. Len(p) - k : rest[i] = p[k + i]
  <2>1. \A i \in k + 1 .. Len(p) : p[i] \in WrittenParts
    BY <1>1
  <2>2. /\ rest \in Seq(WrittenParts)
        /\ Len(rest) = IF k + 1 <= Len(p) THEN Len(p) - (k + 1) + 1 ELSE 0
        /\ \A i \in 1 .. Len(p) - (k + 1) + 1 : rest[i] = p[(k + 1) + i - 1]
    BY <1>1, <2>1, SubSeqProperties
  <2>. HIDE DEF rest
  <2>3. QED
    BY <1>1, <2>2
<1>3. root \in Seq(WrittenParts) /\ Len(root) = k /\ \A i \in 1 .. k : root[i] = p[i]
  BY <1>1, PrefixFacts
<1>4. Guards!Prefix(p, Len(p)) = p
  BY WholePath
<1>5. /\ After(TRUE, p, k) = root
      /\ \A j \in 1 .. k : Guards!Lstat(Guards!Prefix(p, j)) = "directory"
  BY <1>1, DirectoryIsFound
<1>. HIDE DEF root, rest
<1>6. ASSUME Guards!SafeRelativePath(rest), Guards!RequireRegularFile(p),
             Guards!RequirePlainPath(root, p)
      PROVE  p \in Guards!Nodes /\ disk[p] = Guards!File
  <2>1. \A i \in k + 1 .. Len(p) : p[i] # Guards!Up
    <3>. SUFFICES ASSUME NEW i \in k + 1 .. Len(p), p[i] = Guards!Up PROVE FALSE
      OBVIOUS
    <3>1. i - k \in 1 .. Len(p) - k /\ k + (i - k) = i
      BY <1>1
    <3>2. rest[i - k] = Guards!Up /\ i - k \in DOMAIN rest
      BY <1>2, <3>1, LenProperties
    <3>3. QED
      BY <1>6, <3>2 DEF Guards!SafeRelativePath, Guards!ToSet
  <2>2. \A i \in k .. Len(p) : Guards!Lstat(Guards!Prefix(p, i)) \in {"file", "directory"}
    BY <1>3, <1>6 DEF Guards!RequirePlainPath
  <2>3. /\ Guards!Prefix(p, Len(p)) \in Guards!Nodes
        /\ disk[Guards!Prefix(p, Len(p))].kind = Guards!Lstat(Guards!Prefix(p, Len(p)))
    BY <1>1, <2>1, <2>2, NodeIsFound DEF root
  <2>4. p \in Guards!Nodes /\ disk[p].kind = "file"
    BY <1>4, <1>6, <2>3 DEF Guards!RequireRegularFile
  <2>5. QED
    BY <2>4, TreeFacts
<1>7. ASSUME p \in Guards!Nodes, disk[p] = Guards!File
      PROVE  /\ Guards!SafeRelativePath(rest) /\ Guards!RequireRegularFile(p)
             /\ Guards!RequirePlainPath(root, p)
  <2>1. Len(p) = 2 /\ k = 1 /\ p[2] \in Name /\ p[1] \in Name
    <3>1. Len(p) \in {1, 2} /\ p[1] \in Name /\ (Len(p) = 2 => p[2] \in Name)
      BY <1>7, TreeFacts
    <3>2. QED
      BY <1>1, <3>1
  <2>2. p[2] # Guards!Up /\ Guards!Up \notin Name
    BY <2>1, NameAssumption
  <2>3. Guards!File.kind = "file" /\ Guards!File # Guards!Missing
    BY DEF Guards!File, Guards!Missing
  <2>4. Append(root, p[2]) = p
    <3>1. 2 \in 1 .. Len(p) /\ 2 - 1 = 1
      BY <2>1
    <3>2. Append(Guards!Prefix(p, 2 - 1), p[2]) = Guards!Prefix(p, 2)
      BY <3>1, PrefixFacts
    <3>3. QED
      BY <1>4, <2>1, <3>1, <3>2 DEF root
  <2>5. root \in Guards!Nodes /\ disk[root] = Guards!Directory /\ root # Guards!Nowhere
        /\ Guards!Enterable(root)
    BY NowhereIsNoPlace DEF root, Guards!Enterable
  <2>6. Guards!Lead(TRUE, root, p[2]) = p /\ Seen(root, p[2]) = "file"
    BY <1>7, <2>2, <2>3, <2>4, <2>5 DEF Guards!Lead, Seen
  <2>7. Guards!Lstat(p) = "file" /\ Guards!Resolve(p) = p
    <3>1. 2 \in 1 .. Len(p) /\ 2 - 1 = 1
      BY <2>1
    <3>2. Guards!Lstat(Guards!Prefix(p, 2)) = Seen(After(TRUE, p, 1), p[2])
      BY <3>1, LstatIsSeen
    <3>3. After(TRUE, p, 2) = Guards!Lead(TRUE, After(TRUE, p, 1), p[2])
      BY <3>1, WalkStep DEF After
    <3>4. QED
      BY <1>4, <1>5, <2>1, <2>6, <3>2, <3>3 DEF After, Guards!Resolve
  <2>8. \A j \in 1 .. Len(p) : Guards!Lstat(Guards!Prefix(p, j)) \in {"file", "directory"}
    <3>1. \A j \in 1 .. Len(p) : j = 1 \/ j = 2
      BY <2>1
    <3>2. Guards!Lstat(Guards!Prefix(p, 1)) = "directory"
      BY <1>5, <2>1
    <3>3. Guards!Lstat(Guards!Prefix(p, 2)) = "file"
      BY <1>4, <2>1, <2>7
    <3>4. QED
      BY <3>1, <3>2, <3>3
  <2>9. Guards!RejectReparseChain(p)
    BY <2>8 DEF Guards!RejectReparseChain
  <2>10. Guards!RejectReparseChain(root)
    <3>1. \A j \in 1 .. Len(root) : j = 1
      BY <1>3, <2>1
    <3>2. Guards!Prefix(root, 1) = root
      BY <1>3, <2>1, WholePath
    <3>3. Guards!Lstat(Guards!Prefix(root, 1)) = "directory"
      BY <1>5, <2>1, <3>2 DEF root
    <3>4. QED
      BY <3>1, <3>3 DEF Guards!RejectReparseChain
  <2>11. Guards!Resolve(root) = root
    BY <1>5 DEF After, Guards!Resolve, root
  <2>12. Guards!IsPrefix(root, p)
    <3>1. SubSeq(root, 1, Len(root)) = root
      BY <1>3, SubSeqFull
    <3>2. SubSeq(p, 1, Len(root)) = root
      BY <1>3 DEF root, Guards!Prefix
    <3>3. QED
      BY <1>1, <1>3, <3>1, <3>2 DEF Guards!IsPrefix
  <2>13. Guards!RequirePlainPath(root, p)
    <3>1. p # Guards!Nowhere
      BY <1>7, NowhereIsNoPlace
    <3>2. \A j \in Len(root) .. Len(p) : j \in 1 .. Len(p)
      BY <1>1, <1>3
    <3>3. QED
      BY <2>5, <2>7, <2>8, <2>9, <2>10, <2>11, <2>12, <3>1, <3>2 DEF
        Guards!RequirePlainPath
  <2>14. Guards!SafeRelativePath(rest)
    <3>1. Len(rest) = 1 /\ rest[1] = p[2]
      <4>1. Len(p) - k = 1 /\ 1 \in 1 .. 1 /\ k + 1 = 2
        BY <2>1
      <4>2. QED
        BY <1>2, <4>1
    <3>2. DOMAIN rest = 1 .. 1 /\ Len(<<>>) = 0
      BY <1>2, <3>1, LenProperties
    <3>3. rest # <<>>
      <4>1. 1 # 0
        OBVIOUS
      <4>2. QED
        BY <3>1, <3>2, <4>1
    <3>4. \A i \in DOMAIN rest : rest[i] # Guards!Up
      BY <2>2, <3>1, <3>2
    <3>5. QED
      BY <3>3, <3>4 DEF Guards!SafeRelativePath, Guards!ToSet
  <2>15. QED
    BY <2>7, <2>13, <2>14 DEF Guards!RequireRegularFile
<1>8. QED
  BY <1>6, <1>7 DEF root, rest

(* A tree, and a path once it is given; neither changes.                    *)
GuardsInv == disk \in Guards!Trees /\ (path = <<>> \/ path \in Guards!Path)

(* The tree is any, the path is given once.                                 *)
LEMMA GuardsKept ==
    /\ Guards!Init => GuardsInv
    /\ GuardsInv /\ Guards!Next => GuardsInv'
BY DEF Guards!Init, Guards!Next, Guards!Give, Guards!Stay, Guards!vars, GuardsInv

(* In such a tree the guards leave one name.                                *)
LEMMA GuardedIsOne == GuardsInv => Guards!GuardsLeaveOneName
<1>1. CASE path = <<>>
  <2>1. Len(path) = 0
    BY <1>1
  <2>2. \A k \in 1 .. Len(path) - 1 : FALSE
    BY <2>1
  <2>3. QED
    BY <1>1, <2>2 DEF Guards!GuardsLeaveOneName, Guards!NoLinkIsFollowed,
      Guards!RecordNamesItsFile
<1>2. CASE disk \in Guards!Trees /\ path \in Guards!Path
  <2>1. path \in Seq(WrittenParts)
    BY <1>2, BoundsAssumption, SeqDef DEF Guards!Path, WrittenParts
  <2>2. Guards!NoLinkIsFollowed
    BY <1>2, <2>1, NoLink DEF Guards!NoLinkIsFollowed
  <2>3. Guards!RecordNamesItsFile
    BY <1>2, <2>1, RecordIsName DEF Guards!RecordNamesItsFile
  <2>4. QED
    BY <2>2, <2>3 DEF Guards!GuardsLeaveOneName
<1>3. QED
  BY <1>1, <1>2 DEF GuardsInv

-----------------------------------------------------------------------------
(* The contract                                                             *)

(* The keys of a document, object by object.                                *)
CompletionKeys == {"content_bytes", "content_sha256", "predicted_tokens", "prompt_work",
    "response_cached_tokens", "token_count", "tokens_sha256"}
PrefillKeys == {"cache_tokens", "predicted_tokens", "prompt_tokens", "prompt_work"}
CaseKeys == {"completion", "prefill", "idle_slot", "idle", "prompt_work"}
CancellationKeys == {"clean_baseline", "disconnect", "reused_slot"}
InterleavingKeys == {"baselines", "slot_0_cancelled_first", "slot_1_cancelled_first", "reuses",
    "slot_0", "slot_1"}
TokenKeys == {"exact", "shared_prefix", "first_token_divergence", "source", "cache_on_target",
    "cache_off_target", "target", "common"}
SaveKeys == {"saved_tokens", "source", "same_process", "after_restart",
    "slot_state_before_restart", "slot_state_after_restart", "process_restart_confirmed",
    "restored", "restored_tokens", "bytes", "sha256"}
CacheNames == {"cache_all_results_equal", "cache_on_response_prompt_work_strictly_reduced",
    "cache_on_slot_prompt_work_strictly_reduced", "cache_off_response_prompt_work_equal",
    "cache_off_slot_prompt_work_equal", "cache_prompt_work_views_consistent", "cache_slots_idle"}
CancellationNames == {"cancel_active_processing_observed", "cancel_first_event_observed",
    "cancel_first_event_nonterminal", "cancel_idle_after_disconnect",
    "cancel_reuse_result_matches_clean_slot", "cancel_reuse_prompt_work_matches_clean_slot",
    "cancel_prompt_work_views_consistent", "cancel_reused_slot_idle"}
SaveRestoreNames == {"save_reports_positive_tokens", "same_process_restore_count_matches_save",
    "same_process_restore_result_matches_source",
    "same_process_response_prompt_work_strictly_reduced",
    "same_process_slot_prompt_work_strictly_reduced", "restart_restore_count_matches_save",
    "restart_restore_result_matches_source", "restart_response_prompt_work_strictly_reduced",
    "restart_slot_prompt_work_strictly_reduced", "restore_prompt_work_views_consistent",
    "restore_slots_idle", "server_process_restart_confirmed", "slot_state_file_nonempty",
    "slot_state_file_unchanged_across_restart"}
InterleavingNames == {"interleave_baselines_idle",
    "interleave_baseline_prompt_work_views_consistent", "result_views_consistent",
    "result_slots_idle", "reuse_matches_baseline", "prompt_work_matches_baseline"}
TokenPrefixNames == {"prefix_predicted_tokens_are_one", "prefix_prompt_accounting_consistent",
    "prefix_prompt_counts_match_registration", "prefix_prompt_work_views_consistent",
    "prefix_slots_idle"}
TokenCaseNames == {"source_is_cold", "cache_off_is_cold", "cache_on_cache_matches_lcp_rule",
    "cache_on_work_matches_lcp_rule", "work_relation_matches_divergence"}
LaneNames == {"cache_pairing", "cancellation_reuse", "save_restore", "interleaving_isolation",
    "token_prefix_divergence"}
FixedKeys == {"name", "version", "process_order", "schema", "cache_prompt", "n_predict",
    "adapter", "asset_platform", "asset_sha256", "configured_context_total", "cpu_only",
    "offline", "release", "server_sha256", "slot_count", "source_commit", "version_line",
    "checkpoint_sha256", "model_sha256", "source_revision", "tokenizer_sha256",
    "api_key_enabled", "endpoint", "proxy_bypass"}

MeasuredKeys ==
    CompletionKeys \cup PrefillKeys \cup CaseKeys \cup CancellationKeys \cup InterleavingKeys
        \cup TokenKeys \cup SaveKeys \cup Contract!CacheCalls \cup Contract!CancelFlags
        \cup Contract!Flags
InvariantKeys ==
    CacheNames \cup CancellationNames \cup SaveRestoreNames \cup InterleavingNames
        \cup TokenPrefixNames \cup TokenCaseNames
Keys == MeasuredKeys \cup InvariantKeys \cup LaneNames \cup FixedKeys \cup Contract!BoundaryKeys

(* The fields of an object: names, and below each the paths of its leaves.  *)
IsFields(f) ==
    /\ DOMAIN f \subseteq Keys
    /\ \A k \in DOMAIN f : DOMAIN f[k] \subseteq Seq(Keys)

(* A path by its first key.                                                 *)
LEMMA PathByKey ==
    ASSUME NEW k \in Keys, NEW p \in Seq(Keys)
    PROVE  /\ <<k>> \o p \in Seq(Keys) /\ <<k>> \o p # <<>>
           /\ Head(<<k>> \o p) = k /\ Tail(<<k>> \o p) = p
           /\ Len(<<k>> \o p) = Len(p) + 1
           /\ (<<k>> \o p)[1] = k
           /\ \A i \in 1 .. Len(p) : (<<k>> \o p)[i + 1] = p[i]
<1>. DEFINE q == <<k>> \o p
<1>1. <<k>> \in Seq(Keys) /\ Len(<<k>>) = 1 /\ <<k>>[1] = k /\ p \in Seq(Keys) /\ Len(p) \in Nat
  <2>1. Len(p) \in Nat
    BY LenProperties
  <2>2. <<k>> \in Seq(Keys) /\ Len(<<k>>) = 1 /\ <<k>>[1] = k
    OBVIOUS
  <2>3. QED
    BY <2>1, <2>2
<1>2. /\ q \in Seq(Keys) /\ Len(q) = 1 + Len(p)
      /\ \A i \in 1 .. 1 + Len(p) : q[i] = IF i <= 1 THEN <<k>>[i] ELSE p[i - 1]
  BY <1>1, ConcatProperties
<1>. HIDE DEF q
<1>3. q # <<>> /\ q[1] = k /\ Len(q) = Len(p) + 1
  <2>1. Len(q) # 0 /\ 1 \in 1 .. 1 + Len(p) /\ Len(q) = Len(p) + 1 /\ 1 <= 1
    BY <1>1, <1>2
  <2>2. q[1] = k
    BY <1>1, <1>2, <2>1
  <2>3. q # <<>>
    <3>1. Len(<<>>) = 0
      BY EmptySeq
    <3>2. QED
      BY <2>1, <3>1
  <2>4. QED
    BY <2>1, <2>2, <2>3
<1>4. \A i \in 1 .. Len(p) : q[i + 1] = p[i]
  <2>. SUFFICES ASSUME NEW i \in 1 .. Len(p) PROVE q[i + 1] = p[i]
    OBVIOUS
  <2>1. i + 1 \in 1 .. 1 + Len(p) /\ ~(i + 1 <= 1) /\ (i + 1) - 1 = i
    BY <1>1
  <2>2. QED
    BY <1>2, <2>1
<1>5. Head(q) = k
  BY <1>2, <1>3, HeadTailProperties
<1>6. Tail(q) = p
  <2>. DEFINE t == Tail(q)
  <2>1. t \in Seq(Keys) /\ Len(t) = Len(q) - 1 /\ \A i \in 1 .. Len(q) - 1 : t[i] = q[i + 1]
    BY <1>2, <1>3, HeadTailProperties
  <2>2. Len(t) = Len(p) /\ p \in Seq(Keys)
    BY <1>1, <1>3, <2>1
  <2>3. \A i \in 1 .. Len(t) : t[i] = p[i]
    BY <1>3, <1>4, <1>1, <2>1, <2>2
  <2>. HIDE DEF t
  <2>4. t = p
    BY <2>1, <2>2, <2>3, SeqEqual
  <2>5. QED
    BY <2>4 DEF t
<1>7. QED
  BY <1>2, <1>3, <1>4, <1>5, <1>6 DEF q

(* The leaves of an object are those below its keys.                        *)
LEMMA ObjAt ==
    ASSUME NEW f, IsFields(f), NEW k \in DOMAIN f, NEW p \in DOMAIN f[k]
    PROVE  <<k>> \o p \in DOMAIN Contract!Obj(f) /\ Contract!Obj(f)[<<k>> \o p] = f[k][p]
<1>1. k \in Keys /\ p \in Seq(Keys)
  BY DEF IsFields
<1>2. Head(<<k>> \o p) = k /\ Tail(<<k>> \o p) = p
  BY <1>1, PathByKey
<1>3. <<k>> \o p \in UNION {{<<j>> \o r : r \in DOMAIN f[j]} : j \in DOMAIN f}
  OBVIOUS
<1>4. QED
  BY <1>2, <1>3 DEF Contract!Obj

LEMMA ObjOnly ==
    ASSUME NEW f, IsFields(f), NEW q \in DOMAIN Contract!Obj(f)
    PROVE  /\ q \in Seq(Keys) /\ q # <<>>
           /\ \E k \in DOMAIN f : \E p \in DOMAIN f[k] :
                 q = <<k>> \o p /\ Contract!Obj(f)[q] = f[k][p]
<1>1. PICK k \in DOMAIN f : \E p \in DOMAIN f[k] : q = <<k>> \o p
  BY DEF Contract!Obj
<1>2. PICK p \in DOMAIN f[k] : q = <<k>> \o p
  BY <1>1
<1>3. k \in Keys /\ p \in Seq(Keys)
  BY DEF IsFields
<1>4. q \in Seq(Keys) /\ q # <<>>
  BY <1>2, <1>3, PathByKey
<1>5. Contract!Obj(f)[<<k>> \o p] = f[k][p]
  BY ObjAt
<1>6. QED
  BY <1>2, <1>4, <1>5

LEMMA ObjBelow ==
    ASSUME NEW f, IsFields(f), NEW k \in Keys, NEW p \in Seq(Keys),
           <<k>> \o p \in DOMAIN Contract!Obj(f)
    PROVE  k \in DOMAIN f /\ p \in DOMAIN f[k]
<1>. DEFINE q == <<k>> \o p
<1>1. q \in DOMAIN Contract!Obj(f)
  OBVIOUS
<1>2. Head(q) = k /\ Tail(q) = p
  BY PathByKey
<1>. HIDE DEF q
<1>3. PICK j \in DOMAIN f : \E r \in DOMAIN f[j] : q = <<j>> \o r
  BY <1>1 DEF Contract!Obj
<1>4. PICK r \in DOMAIN f[j] : q = <<j>> \o r
  BY <1>3
<1>5. j \in Keys /\ r \in Seq(Keys)
  BY DEF IsFields
<1>6. Head(q) = j /\ Tail(q) = r
  BY <1>4, <1>5, PathByKey
<1>7. QED
  BY <1>2, <1>6

LEMMA LeafFacts ==
    ASSUME NEW x
    PROVE  /\ DOMAIN Contract!Leaf(x) = {<<>>} /\ Contract!Leaf(x)[<<>>] = x
           /\ DOMAIN Contract!Leaf(x) \subseteq Seq(Keys) /\ <<>> \in DOMAIN Contract!Leaf(x)
BY EmptySeq DEF Contract!Leaf

(* A leaf of an object.                                                     *)
LEMMA LeafOfObj ==
    ASSUME NEW f, IsFields(f), NEW k \in DOMAIN f, NEW x, f[k] = Contract!Leaf(x)
    PROVE  <<k>> \in DOMAIN Contract!Obj(f) /\ Contract!Obj(f)[<<k>>] = x
<1>1. <<>> \in DOMAIN f[k] /\ f[k][<<>>] = x
  BY LeafFacts
<1>2. <<k>> \o <<>> = <<k>>
  <2>1. <<k>> \in Seq(Keys)
    BY DEF IsFields
  <2>2. QED
    BY <2>1, ConcatEmptySeq
<1>3. /\ <<k>> \o <<>> \in DOMAIN Contract!Obj(f)
      /\ Contract!Obj(f)[<<k>> \o <<>>] = f[k][<<>>]
  BY <1>1, ObjAt
<1>4. QED
  BY <1>1, <1>2, <1>3

LEMMA KeyOfObj ==
    ASSUME NEW f, IsFields(f), NEW k \in Keys, <<k>> \in DOMAIN Contract!Obj(f)
    PROVE  k \in DOMAIN f
<1>1. <<k>> \o <<>> = <<k>> /\ <<>> \in Seq(Keys)
  BY ConcatEmptySeq, EmptySeq
<1>2. QED
  BY <1>1, ObjBelow

(* An object is empty only when all its fields are.                         *)
LEMMA ObjNonempty ==
    ASSUME NEW f, IsFields(f), NEW k \in DOMAIN f, DOMAIN f[k] # {}
    PROVE  DOMAIN Contract!Obj(f) # {} /\ DOMAIN Contract!Obj(f) \subseteq Seq(Keys)
BY ObjAt, ObjOnly

LEMMA MergeFacts ==
    ASSUME NEW f, NEW g
    PROVE  /\ DOMAIN Contract!Merge(f, g) = DOMAIN f \cup DOMAIN g
           /\ \A k \in DOMAIN f : Contract!Merge(f, g)[k] = f[k]
           /\ \A k \in DOMAIN g : k \notin DOMAIN f => Contract!Merge(f, g)[k] = g[k]
           /\ IsFields(f) /\ IsFields(g) => IsFields(Contract!Merge(f, g))
<1>1. /\ DOMAIN Contract!Merge(f, g) = DOMAIN f \cup DOMAIN g
      /\ \A k \in DOMAIN f : Contract!Merge(f, g)[k] = f[k]
      /\ \A k \in DOMAIN g : k \notin DOMAIN f => Contract!Merge(f, g)[k] = g[k]
  BY DEF Contract!Merge
<1>2. QED
  BY <1>1 DEF IsFields

LEMMA LeafFields ==
    ASSUME NEW f, DOMAIN f \subseteq Keys, \A k \in DOMAIN f : \E x : f[k] = Contract!Leaf(x)
    PROVE  IsFields(f)
BY LeafFacts DEF IsFields

(* The invariants of a lane that are flags, by name.                        *)
AreFlags(f, names) == DOMAIN f = names /\ \A k \in names : \E x : f[k] = Contract!Leaf(x)

LEMMA CacheFlags == ASSUME NEW d PROVE AreFlags(Contract!CacheInvariants(d), CacheNames)
BY DEF Contract!CacheInvariants, Contract!Judged, CacheNames, AreFlags

LEMMA CancellationFlags ==
    ASSUME NEW d PROVE AreFlags(Contract!CancellationInvariants(d), CancellationNames)
BY DEF Contract!CancellationInvariants, Contract!Judged, CancellationNames, AreFlags

LEMMA SaveRestoreFlags ==
    ASSUME NEW d PROVE AreFlags(Contract!SaveRestoreInvariants(d), SaveRestoreNames)
<1>. DEFINE f == Contract!SaveRestoreInvariants(d)
<1>1. DOMAIN f = SaveRestoreNames
  BY DEF Contract!SaveRestoreInvariants, Contract!Judged, SaveRestoreNames
<1>2. \A k \in DOMAIN f : \E x : f[k] = Contract!Leaf(x)
  BY DEF Contract!SaveRestoreInvariants, Contract!Judged
<1>3. QED
  BY <1>1, <1>2 DEF AreFlags

LEMMA ReuseFlags ==
    ASSUME NEW d, NEW p, NEW q
    PROVE  AreFlags(Contract!ReuseInvariants(d, p, q),
                    {"reuse_matches_baseline", "prompt_work_matches_baseline"})
BY DEF Contract!ReuseInvariants, Contract!Judged, AreFlags

LEMMA TokenCaseFlags ==
    ASSUME NEW d, NEW t, NEW counts
    PROVE  AreFlags(Contract!TokenCaseInvariants(d, t, counts), TokenCaseNames)
BY DEF Contract!TokenCaseInvariants, Contract!Judged, TokenCaseNames, AreFlags

LEMMA DirectionFields ==
    ASSUME NEW d, NEW n
    PROVE  LET f == Contract!DirectionInvariants(d, n) IN
           /\ DOMAIN f = Contract!Gating \cup {"result_views_consistent", "result_slots_idle"}
                           \cup Contract!BothSlots
           /\ \A k \in DOMAIN f : (\E x : f[k] = Contract!Leaf(x))
                 \/ \E p, q : f[k] = Contract!Obj(Contract!ReuseInvariants(d, p, q))
<1>. DEFINE f == Contract!DirectionInvariants(d, n)
            own == {"result_views_consistent", "result_slots_idle"}
<1>1. DOMAIN f = Contract!Gating \cup own \cup Contract!BothSlots
  BY DEF Contract!DirectionInvariants, Contract!Judged, Contract!Merge
<1>2. ASSUME NEW k \in Contract!Gating PROVE \E x : f[k] = Contract!Leaf(x)
  BY DEF Contract!DirectionInvariants, Contract!Judged, Contract!Merge
<1>3. ASSUME NEW k \in own, k \notin Contract!Gating PROVE \E x : f[k] = Contract!Leaf(x)
  BY <1>3 DEF Contract!DirectionInvariants, Contract!Judged, Contract!Merge
<1>4. ASSUME NEW k \in Contract!BothSlots, k \notin Contract!Gating, k \notin own
      PROVE  f[k] = Contract!Obj(Contract!ReuseInvariants(d, <<"baselines", k>>, <<n, "reuses", k>>))
  BY <1>4 DEF Contract!DirectionInvariants, Contract!Judged, Contract!Merge
<1>5. QED
  BY <1>1, <1>2, <1>3, <1>4

LEMMA InterleavingFields ==
    ASSUME NEW d
    PROVE  LET f == Contract!InterleavingInvariants(d) IN
           /\ DOMAIN f = {"interleave_baselines_idle",
                          "interleave_baseline_prompt_work_views_consistent"}
                            \cup Contract!DirectionNames
           /\ \A k \in DOMAIN f \ Contract!DirectionNames : \E x : f[k] = Contract!Leaf(x)
           /\ \A k \in Contract!DirectionNames :
                 f[k] = Contract!Obj(Contract!DirectionInvariants(d, k))
BY DEF Contract!InterleavingInvariants, Contract!Judged, Contract!Merge,
  Contract!DirectionNames

LEMMA TokenPrefixFields ==
    ASSUME NEW d
    PROVE  LET f == Contract!TokenPrefixInvariants(d, Contract!Registered) IN
           /\ DOMAIN f = TokenPrefixNames \cup Contract!TokenNames
           /\ \A k \in TokenPrefixNames : \E x : f[k] = Contract!Leaf(x)
           /\ \A k \in Contract!TokenNames : \E counts :
                 f[k] = Contract!Obj(Contract!TokenCaseInvariants(d, k, counts))
<1>. DEFINE reg == Contract!Registered
<1>1. DOMAIN reg = Contract!TokenNames
  BY DEF Contract!Registered, Contract!TokenNames
<1>2. TokenPrefixNames \cap Contract!TokenNames = {}
  BY DEF TokenPrefixNames, Contract!TokenNames
<1>. HIDE DEF reg
<1>3. /\ DOMAIN Contract!TokenPrefixInvariants(d, reg) = TokenPrefixNames \cup DOMAIN reg
      /\ \A k \in TokenPrefixNames : \E x : Contract!TokenPrefixInvariants(d, reg)[k] = Contract!Leaf(x)
      /\ \A k \in DOMAIN reg : k \notin TokenPrefixNames => Contract!TokenPrefixInvariants(d, reg)[k]
             = Contract!Obj(Contract!TokenCaseInvariants(d, k, reg[k]))
  BY ZenonT(60) DEF Contract!TokenPrefixInvariants, Contract!Judged, Contract!Merge,
    TokenPrefixNames
<1>4. QED
  BY <1>1, <1>2, <1>3 DEF reg

(* The groups of keys.                                                      *)
LEMMA KeyGroups ==
    /\ MeasuredKeys \subseteq Keys /\ InvariantKeys \subseteq Keys /\ LaneNames \subseteq Keys
    /\ FixedKeys \subseteq Keys /\ Contract!BoundaryKeys \subseteq Keys
    /\ CompletionKeys \subseteq Keys /\ PrefillKeys \subseteq Keys /\ CaseKeys \subseteq Keys
    /\ CancellationKeys \subseteq Keys /\ InterleavingKeys \subseteq Keys
    /\ TokenKeys \subseteq Keys /\ SaveKeys \subseteq Keys
    /\ Contract!CacheCalls \subseteq Keys /\ Contract!CancelFlags \subseteq Keys
    /\ Contract!Flags \subseteq Keys /\ Contract!Gating \subseteq Keys
    /\ Contract!BothSlots \subseteq Keys /\ Contract!DirectionNames \subseteq Keys
    /\ Contract!TokenNames \subseteq Keys
<1>1. /\ MeasuredKeys \subseteq Keys /\ InvariantKeys \subseteq Keys /\ LaneNames \subseteq Keys
      /\ FixedKeys \subseteq Keys /\ Contract!BoundaryKeys \subseteq Keys
  BY DEF Keys
<1>2. /\ CompletionKeys \subseteq Keys /\ PrefillKeys \subseteq Keys /\ CaseKeys \subseteq Keys
      /\ CancellationKeys \subseteq Keys /\ InterleavingKeys \subseteq Keys
      /\ TokenKeys \subseteq Keys /\ SaveKeys \subseteq Keys
      /\ Contract!CacheCalls \subseteq Keys /\ Contract!CancelFlags \subseteq Keys
      /\ Contract!Flags \subseteq Keys
  BY <1>1 DEF MeasuredKeys
<1>3. Contract!Gating \subseteq Keys
  BY <1>2 DEF Contract!Gating
<1>4. Contract!BothSlots \subseteq Keys /\ Contract!DirectionNames \subseteq Keys
  BY <1>2 DEF Contract!BothSlots, Contract!DirectionNames, InterleavingKeys
<1>5. Contract!TokenNames \subseteq Keys
  BY <1>2 DEF Contract!TokenNames, TokenKeys
<1>6. QED
  BY <1>1, <1>2, <1>3, <1>4, <1>5

LEMMA FlagFields ==
    ASSUME NEW f, NEW names, AreFlags(f, names), names \subseteq Keys
    PROVE  IsFields(f) /\ DOMAIN Contract!Obj(f) \subseteq Seq(Keys)
<1>1. IsFields(f)
  BY LeafFields DEF AreFlags
<1>2. QED
  BY <1>1, ObjOnly

(* The invariants of each lane are fields.                                  *)
LEMMA LaneInvariantsFields ==
    ASSUME NEW d
    PROVE  /\ IsFields(Contract!CacheInvariants(d))
           /\ IsFields(Contract!CancellationInvariants(d))
           /\ IsFields(Contract!SaveRestoreInvariants(d))
           /\ IsFields(Contract!InterleavingInvariants(d))
           /\ IsFields(Contract!TokenPrefixInvariants(d, Contract!Registered))
<1>1. /\ CacheNames \subseteq Keys /\ CancellationNames \subseteq Keys
      /\ SaveRestoreNames \subseteq Keys /\ InterleavingNames \subseteq Keys
      /\ TokenPrefixNames \subseteq Keys /\ TokenCaseNames \subseteq Keys
  BY KeyGroups DEF InvariantKeys
<1>2. /\ IsFields(Contract!CacheInvariants(d))
      /\ IsFields(Contract!CancellationInvariants(d))
      /\ IsFields(Contract!SaveRestoreInvariants(d))
  BY <1>1, FlagFields, CacheFlags, CancellationFlags, SaveRestoreFlags
<1>3. {"reuse_matches_baseline", "prompt_work_matches_baseline"} \subseteq Keys
  BY <1>1 DEF InterleavingNames
<1>4. ASSUME NEW n PROVE DOMAIN Contract!Obj(Contract!DirectionInvariants(d, n)) \subseteq Seq(Keys)
  <2>. DEFINE f == Contract!DirectionInvariants(d, n)
  <2>1. DOMAIN f \subseteq Keys
    <3>1. {"result_views_consistent", "result_slots_idle"} \subseteq Keys
      BY <1>1 DEF InterleavingNames
    <3>2. QED
      BY <3>1, KeyGroups, DirectionFields
  <2>2. ASSUME NEW k \in DOMAIN f PROVE DOMAIN f[k] \subseteq Seq(Keys)
    <3>1. CASE \E x : f[k] = Contract!Leaf(x)
      BY <3>1, LeafFacts
    <3>2. CASE \E p, q : f[k] = Contract!Obj(Contract!ReuseInvariants(d, p, q))
      BY <1>3, <3>2, ReuseFlags, FlagFields
    <3>3. QED
      BY <3>1, <3>2, DirectionFields
  <2>. HIDE DEF f
  <2>3. IsFields(f)
    BY <2>1, <2>2 DEF IsFields
  <2>4. DOMAIN Contract!Obj(f) \subseteq Seq(Keys)
    BY <2>3, ObjOnly
  <2>5. QED
    BY <2>4 DEF f
<1>5. IsFields(Contract!InterleavingInvariants(d))
  <2>. DEFINE f == Contract!InterleavingInvariants(d)
              own == {"interleave_baselines_idle", "interleave_baseline_prompt_work_views_consistent"}
  <2>1. DOMAIN f = own \cup Contract!DirectionNames
    BY InterleavingFields
  <2>2. own \subseteq Keys
    BY <1>1 DEF InterleavingNames
  <2>3. ASSUME NEW k \in DOMAIN f PROVE DOMAIN f[k] \subseteq Seq(Keys)
    <3>1. CASE k \in Contract!DirectionNames
      BY <1>4, <3>1, InterleavingFields
    <3>2. CASE k \notin Contract!DirectionNames
      <4>1. \E x : f[k] = Contract!Leaf(x)
        BY <3>2, InterleavingFields
      <4>2. QED
        BY <4>1, LeafFacts
    <3>3. QED
      BY <3>1, <3>2
  <2>. HIDE DEF f, own
  <2>4. IsFields(f)
    BY <2>1, <2>2, <2>3, KeyGroups DEF IsFields
  <2>5. QED
    BY <2>4 DEF f
<1>6. IsFields(Contract!TokenPrefixInvariants(d, Contract!Registered))
  <2>. DEFINE f == Contract!TokenPrefixInvariants(d, Contract!Registered)
  <2>1. DOMAIN f = TokenPrefixNames \cup Contract!TokenNames
    BY TokenPrefixFields
  <2>2. ASSUME NEW k \in DOMAIN f PROVE DOMAIN f[k] \subseteq Seq(Keys)
    <3>1. CASE k \in TokenPrefixNames
      <4>1. \E x : f[k] = Contract!Leaf(x)
        BY <3>1, TokenPrefixFields
      <4>2. QED
        BY <4>1, LeafFacts
    <3>2. CASE k \in Contract!TokenNames
      <4>1. PICK counts : f[k] = Contract!Obj(Contract!TokenCaseInvariants(d, k, counts))
        BY <3>2, TokenPrefixFields
      <4>2. AreFlags(Contract!TokenCaseInvariants(d, k, counts), TokenCaseNames)
        BY TokenCaseFlags
      <4>3. QED
        BY <1>1, <4>1, <4>2, FlagFields
    <3>3. QED
      BY <2>1, <3>1, <3>2
  <2>. HIDE DEF f
  <2>3. IsFields(f)
    BY <1>1, <2>1, <2>2, KeyGroups DEF IsFields
  <2>4. QED
    BY <2>3 DEF f
<1>7. QED
  BY <1>2, <1>5, <1>6

(* The invariants of the three versions: which lanes they are about.        *)
LEMMA InvariantsByVersion ==
    ASSUME NEW lane, NEW v \in Contract!Versions
    PROVE  \E f : /\ IsFields(f) /\ Contract!Invariants(lane, v) = Contract!Obj(f)
                  /\ \E x : "cache_slots_idle" \in DOMAIN f /\ f["cache_slots_idle"] = Contract!Leaf(x)
                  /\ v >= 2 => \E x : /\ "interleave_baselines_idle" \in DOMAIN f
                                      /\ f["interleave_baselines_idle"] = Contract!Leaf(x)
                  /\ v = 3 => \E x : /\ "prefix_slots_idle" \in DOMAIN f
                                     /\ f["prefix_slots_idle"] = Contract!Leaf(x)
                  /\ "interleave_baselines_idle" \in DOMAIN f => v >= 2
                  /\ "prefix_slots_idle" \in DOMAIN f => v = 3
<1>. DEFINE c == Contract!CacheInvariants(lane.cache_pairing)
            e == Contract!CancellationInvariants(lane.cancellation_reuse)
            s == Contract!SaveRestoreInvariants(lane.save_restore)
            i == Contract!InterleavingInvariants(lane.interleaving_isolation)
            t == Contract!TokenPrefixInvariants(lane.token_prefix_divergence, Contract!Registered)
            es == Contract!Merge(e, s)
            oldest == Contract!Merge(c, es)
            second == Contract!Merge(oldest, i)
            third == Contract!Merge(second, t)
            idle == "interleave_baselines_idle"
            prefix == "prefix_slots_idle"
<1>1. /\ v = 1 => Contract!Invariants(lane, v) = Contract!Obj(oldest)
      /\ v = 2 => Contract!Invariants(lane, v) = Contract!Obj(second)
      /\ v = 3 => Contract!Invariants(lane, v) = Contract!Obj(third)
  BY DEF Contract!Invariants
<1>2. /\ "cache_slots_idle" \in DOMAIN c /\ \E x : c["cache_slots_idle"] = Contract!Leaf(x)
      /\ idle \notin DOMAIN c /\ prefix \notin DOMAIN c
  <2>1. AreFlags(c, CacheNames)
    BY CacheFlags
  <2>2. "cache_slots_idle" \in CacheNames /\ idle \notin CacheNames /\ prefix \notin CacheNames
    BY DEF CacheNames
  <2>3. QED
    BY <2>1, <2>2 DEF AreFlags
<1>3. idle \notin DOMAIN e /\ prefix \notin DOMAIN e
  <2>1. AreFlags(e, CancellationNames)
    BY CancellationFlags
  <2>2. QED
    BY <2>1 DEF AreFlags, CancellationNames
<1>4. idle \notin DOMAIN s /\ prefix \notin DOMAIN s
  <2>1. AreFlags(s, SaveRestoreNames)
    BY SaveRestoreFlags
  <2>2. QED
    BY <2>1 DEF AreFlags, SaveRestoreNames
<1>5. /\ idle \in DOMAIN i /\ prefix \notin DOMAIN i
      /\ \E x : i[idle] = Contract!Leaf(x)
  <2>1. idle \notin Contract!DirectionNames /\ prefix \notin Contract!DirectionNames
    BY DEF Contract!DirectionNames
  <2>2. QED
    BY <2>1, InterleavingFields
<1>6. /\ prefix \in DOMAIN t /\ \E x : t[prefix] = Contract!Leaf(x)
  <2>1. prefix \in TokenPrefixNames
    BY DEF TokenPrefixNames
  <2>2. QED
    BY <2>1, TokenPrefixFields
<1>7. IsFields(c) /\ IsFields(e) /\ IsFields(s) /\ IsFields(i) /\ IsFields(t)
  BY LaneInvariantsFields
<1>. HIDE DEF c, e, s, i, t
<1>8. /\ IsFields(es) /\ IsFields(oldest) /\ IsFields(second) /\ IsFields(third)
      /\ DOMAIN es = DOMAIN e \cup DOMAIN s /\ DOMAIN oldest = DOMAIN c \cup DOMAIN es
      /\ DOMAIN second = DOMAIN oldest \cup DOMAIN i
      /\ DOMAIN third = DOMAIN second \cup DOMAIN t
      /\ \A k \in DOMAIN c : oldest[k] = c[k]
      /\ \A k \in DOMAIN oldest : second[k] = oldest[k]
      /\ \A k \in DOMAIN i : k \notin DOMAIN oldest => second[k] = i[k]
      /\ \A k \in DOMAIN second : third[k] = second[k]
      /\ \A k \in DOMAIN t : k \notin DOMAIN second => third[k] = t[k]
  <2>1. IsFields(es) /\ DOMAIN es = DOMAIN e \cup DOMAIN s
    BY <1>7, MergeFacts
  <2>. HIDE DEF es
  <2>2. /\ IsFields(oldest) /\ DOMAIN oldest = DOMAIN c \cup DOMAIN es
        /\ \A k \in DOMAIN c : oldest[k] = c[k]
    BY <1>7, <2>1, MergeFacts
  <2>. HIDE DEF oldest
  <2>3. /\ IsFields(second) /\ DOMAIN second = DOMAIN oldest \cup DOMAIN i
        /\ \A k \in DOMAIN oldest : second[k] = oldest[k]
        /\ \A k \in DOMAIN i : k \notin DOMAIN oldest => second[k] = i[k]
    BY <1>7, <2>2, MergeFacts
  <2>. HIDE DEF second
  <2>4. /\ IsFields(third) /\ DOMAIN third = DOMAIN second \cup DOMAIN t
        /\ \A k \in DOMAIN second : third[k] = second[k]
        /\ \A k \in DOMAIN t : k \notin DOMAIN second => third[k] = t[k]
    BY <1>7, <2>3, MergeFacts, ZenonT(60)
  <2>5. QED
    BY <2>1, <2>2, <2>3, <2>4
<1>. HIDE DEF es, oldest, second, third
<1>9. v \in {1, 2, 3}
  BY DEF Contract!Versions
<1>10. CASE v = 1
  <2>1. idle \notin DOMAIN oldest /\ prefix \notin DOMAIN oldest
    BY <1>2, <1>3, <1>4, <1>8
  <2>2. \E x : "cache_slots_idle" \in DOMAIN oldest /\ oldest["cache_slots_idle"] = Contract!Leaf(x)
    BY <1>2, <1>8
  <2>3. QED
    BY <1>1, <1>8, <1>10, <2>1, <2>2
<1>11. CASE v = 2
  <2>1. prefix \notin DOMAIN second
    BY <1>2, <1>3, <1>4, <1>5, <1>8
  <2>2. \E x : idle \in DOMAIN second /\ second[idle] = Contract!Leaf(x)
    BY <1>2, <1>3, <1>4, <1>5, <1>8
  <2>3. \E x : "cache_slots_idle" \in DOMAIN second /\ second["cache_slots_idle"] = Contract!Leaf(x)
    BY <1>2, <1>8
  <2>4. QED
    BY <1>1, <1>8, <1>11, <2>1, <2>2, <2>3
<1>12. CASE v = 3
  <2>1. \E x : idle \in DOMAIN third /\ third[idle] = Contract!Leaf(x)
    BY <1>2, <1>3, <1>4, <1>5, <1>8
  <2>2. \E x : prefix \in DOMAIN third /\ third[prefix] = Contract!Leaf(x)
    BY <1>2, <1>3, <1>4, <1>5, <1>6, <1>8
  <2>3. \E x : "cache_slots_idle" \in DOMAIN third /\ third["cache_slots_idle"] = Contract!Leaf(x)
    BY <1>2, <1>8
  <2>4. QED
    BY <1>1, <1>8, <1>12, <2>1, <2>2, <2>3
<1>13. QED
  BY <1>9, <1>10, <1>11, <1>12

-----------------------------------------------------------------------------
(* The last key of a path below a key.                                      *)
LEMMA PathEnd ==
    ASSUME NEW k \in Keys, NEW p \in Seq(Keys), p # <<>>, NEW x \in Keys
    PROVE  /\ Contract!Last(<<k>> \o p) = Contract!Last(p)
           /\ Append(Contract!Front(<<k>> \o p), x) = <<k>> \o Append(Contract!Front(p), x)
           /\ Append(Contract!Front(p), x) \in Seq(Keys)
<1>. DEFINE q == <<k>> \o p
            fp == Contract!Front(p)
            fq == Contract!Front(q)
            n == Len(p)
<1>1. /\ n \in Nat \ {0} /\ \A i \in 1 .. n : p[i] \in Keys
      /\ n \in 1 .. n
  BY EmptySeq, LenProperties
<1>2. q \in Seq(Keys) /\ Len(q) = n + 1 /\ q[1] = k /\ \A i \in 1 .. n : q[i + 1] = p[i]
  BY PathByKey
<1>. HIDE DEF q, n
<1>3. Contract!Last(q) = Contract!Last(p)
  BY <1>1, <1>2 DEF Contract!Last, n
<1>4. /\ fp \in Seq(Keys) /\ Len(fp) = n - 1 /\ \A i \in 1 .. n - 1 : fp[i] = p[i]
  <2>1. fp = SubSeq(p, 1, n - 1)
    BY DEF Contract!Front, n
  <2>2. \A i \in 1 .. n - 1 : p[i] \in Keys
    BY <1>1
  <2>3. QED
    BY <1>1, <2>1, <2>2, SubSeqProperties
<1>5. /\ fq \in Seq(Keys) /\ Len(fq) = n /\ \A i \in 1 .. n : fq[i] = q[i]
  <2>1. fq = SubSeq(q, 1, n)
    BY <1>1, <1>2 DEF Contract!Front
  <2>2. \A i \in 1 .. n : q[i] \in Keys
    BY <1>1, <1>2, LenProperties
  <2>3. QED
    BY <1>1, <2>1, <2>2, SubSeqProperties
<1>. HIDE DEF fp, fq
<1>6. /\ Append(fp, x) \in Seq(Keys) /\ Len(Append(fp, x)) = n
      /\ \A i \in 1 .. n - 1 : Append(fp, x)[i] = p[i]
      /\ Append(fp, x)[n] = x
  BY <1>1, <1>4, AppendProperties
<1>7. /\ Append(fq, x) \in Seq(Keys) /\ Len(Append(fq, x)) = n + 1
      /\ \A i \in 1 .. n : Append(fq, x)[i] = q[i]
      /\ Append(fq, x)[n + 1] = x
  BY <1>1, <1>5, AppendProperties
<1>. DEFINE a == Append(fp, x)
            b == Append(fq, x)
            r == <<k>> \o a
<1>8. a \in Seq(Keys)
  BY <1>6
<1>9. r \in Seq(Keys) /\ Len(r) = Len(a) + 1 /\ r[1] = k /\ \A i \in 1 .. Len(a) : r[i + 1] = a[i]
  BY <1>8, PathByKey
<1>. HIDE DEF r
<1>10. \A i \in 1 .. Len(b) : b[i] = r[i]
  <2>. SUFFICES ASSUME NEW i \in 1 .. n + 1 PROVE b[i] = r[i]
    BY <1>7
  <2>1. CASE i = 1
    BY <1>1, <1>2, <1>7, <1>9, <2>1
  <2>2. CASE i # 1 /\ i # n + 1
    <3>1. i - 1 \in 1 .. n - 1 /\ i - 1 \in 1 .. n /\ (i - 1) + 1 = i /\ i \in 1 .. n
      BY <1>1, <2>2
    <3>2. b[i] = p[i - 1]
      BY <1>2, <1>7, <3>1
    <3>3. r[i] = a[i - 1]
      BY <1>6, <1>9, <3>1
    <3>4. QED
      BY <1>6, <3>1, <3>2, <3>3
  <2>3. CASE i = n + 1
    BY <1>1, <1>6, <1>7, <1>9, <2>3
  <2>4. QED
    BY <2>1, <2>2, <2>3
<1>11. b = r
  <2>. HIDE DEF b
  <2>1. b \in Seq(Keys) /\ Len(b) = Len(r)
    BY <1>6, <1>7, <1>9 DEF b
  <2>2. QED
    BY <1>9, <1>10, <2>1, SeqEqual
<1>12. QED
  BY <1>3, <1>8, <1>11 DEF q, fp, fq, r

(* A path of one key.                                                       *)
LEMMA PathOfOne ==
    ASSUME NEW k \in Keys, NEW x \in Keys
    PROVE  /\ <<k>> \o <<>> = <<k>> /\ Contract!Last(<<k>>) = k
           /\ Append(Contract!Front(<<k>>), x) = <<x>>
<1>1. <<k>> \in Seq(Keys) /\ Len(<<k>>) = 1 /\ <<k>>[1] = k
  OBVIOUS
<1>2. Contract!Front(<<k>>) = <<>>
  <2>1. SubSeq(<<k>>, 1, 0) = <<>>
    BY SubSeqEmpty
  <2>2. QED
    BY <1>1, <2>1 DEF Contract!Front
<1>3. QED
  BY <1>1, <1>2, ConcatEmptySeq DEF Contract!Last

(* Every count of tokens has the count of predicted tokens beside it.       *)
Counted(d) ==
    \A p \in DOMAIN d :
        p # <<>> /\ Contract!Last(p) = "token_count" =>
            LET q == Append(Contract!Front(p), "predicted_tokens") IN
            q \in DOMAIN d /\ d[p] = d[q]

(* A part of a document that the verifier takes for one of the given shape. *)
Shaped(d, shape) ==
    /\ DOMAIN d \subseteq Seq(Keys) /\ DOMAIN d # {}
    /\ Contract!HasShape(d, shape) /\ Counted(d)

LEMMA LeafShaped ==
    ASSUME NEW x, NEW type, Contract!Fits(x, type)
    PROVE  Shaped(Contract!Leaf(x), Contract!Leaf(type))
BY LeafFacts DEF Shaped, Contract!HasShape, Counted

(* The domain of an object follows from the domains of its fields.          *)
LEMMA ObjHasShape ==
    ASSUME NEW f, NEW g, DOMAIN f = DOMAIN g, DOMAIN f \subseteq Keys, DOMAIN f # {},
           \A k \in DOMAIN f : Shaped(f[k], g[k])
    PROVE  /\ IsFields(f) /\ IsFields(g)
           /\ DOMAIN Contract!Obj(f) \subseteq Seq(Keys) /\ DOMAIN Contract!Obj(f) # {}
           /\ Contract!HasShape(Contract!Obj(f), Contract!Obj(g))
<1>1. \A k \in DOMAIN f : /\ DOMAIN f[k] \subseteq Seq(Keys) /\ DOMAIN f[k] # {}
                          /\ DOMAIN f[k] = DOMAIN g[k]
                          /\ \A p \in DOMAIN f[k] : Contract!Fits(f[k][p], g[k][p])
  BY DEF Shaped, Contract!HasShape
<1>2. IsFields(f) /\ IsFields(g)
  BY <1>1 DEF IsFields
<1>3. DOMAIN Contract!Obj(f) \subseteq Seq(Keys) /\ DOMAIN Contract!Obj(f) # {}
  BY <1>1, <1>2, ObjNonempty
<1>4. ASSUME NEW q \in DOMAIN Contract!Obj(f)
      PROVE  /\ q \in DOMAIN Contract!Obj(g)
             /\ Contract!Fits(Contract!Obj(f)[q], Contract!Obj(g)[q])
  <2>1. PICK k \in DOMAIN f : \E p \in DOMAIN f[k] :
                q = <<k>> \o p /\ Contract!Obj(f)[q] = f[k][p]
    BY <1>2, ObjOnly
  <2>2. PICK p \in DOMAIN f[k] : q = <<k>> \o p /\ Contract!Obj(f)[q] = f[k][p]
    BY <2>1
  <2>3. k \in DOMAIN g /\ p \in DOMAIN g[k]
    BY <1>1
  <2>4. <<k>> \o p \in DOMAIN Contract!Obj(g) /\ Contract!Obj(g)[<<k>> \o p] = g[k][p]
    BY <1>2, <2>3, ObjAt
  <2>5. Contract!Fits(f[k][p], g[k][p])
    BY <1>1
  <2>6. QED
    BY <2>2, <2>4, <2>5
<1>5. ASSUME NEW q \in DOMAIN Contract!Obj(g) PROVE q \in DOMAIN Contract!Obj(f)
  <2>1. PICK k \in DOMAIN g : \E p \in DOMAIN g[k] :
                q = <<k>> \o p /\ Contract!Obj(g)[q] = g[k][p]
    BY <1>2, ObjOnly
  <2>2. PICK p \in DOMAIN g[k] : q = <<k>> \o p
    BY <2>1
  <2>3. k \in DOMAIN f /\ p \in DOMAIN f[k]
    BY <1>1
  <2>4. <<k>> \o p \in DOMAIN Contract!Obj(f)
    BY <1>2, <2>3, ObjAt
  <2>5. QED
    BY <2>2, <2>4
<1>6. DOMAIN Contract!Obj(f) = DOMAIN Contract!Obj(g)
  BY <1>4, <1>5
<1>7. QED
  BY <1>2, <1>3, <1>4, <1>6 DEF Contract!HasShape

(* An object of parts of given shapes.                                      *)
LEMMA ObjShaped ==
    ASSUME NEW f, NEW g, DOMAIN f = DOMAIN g, DOMAIN f \subseteq Keys, DOMAIN f # {},
           "token_count" \notin DOMAIN f, \A k \in DOMAIN f : Shaped(f[k], g[k])
    PROVE  Shaped(Contract!Obj(f), Contract!Obj(g))
<1>1. /\ IsFields(f)
      /\ DOMAIN Contract!Obj(f) \subseteq Seq(Keys) /\ DOMAIN Contract!Obj(f) # {}
      /\ Contract!HasShape(Contract!Obj(f), Contract!Obj(g))
  BY ObjHasShape
<1>2. "predicted_tokens" \in Keys
  BY KeyGroups DEF CompletionKeys
<1>3. ASSUME NEW q \in DOMAIN Contract!Obj(f), Contract!Last(q) = "token_count"
      PROVE  LET r == Append(Contract!Front(q), "predicted_tokens") IN
             r \in DOMAIN Contract!Obj(f) /\ Contract!Obj(f)[q] = Contract!Obj(f)[r]
  <2>1. PICK k \in DOMAIN f : \E p \in DOMAIN f[k] :
                q = <<k>> \o p /\ Contract!Obj(f)[q] = f[k][p]
    BY <1>1, ObjOnly
  <2>2. PICK p \in DOMAIN f[k] : q = <<k>> \o p /\ Contract!Obj(f)[q] = f[k][p]
    BY <2>1
  <2>3. k \in Keys /\ p \in Seq(Keys)
    BY <1>1 DEF IsFields
  <2>4. p # <<>>
    <3>1. SUFFICES ASSUME p = <<>> PROVE FALSE
      OBVIOUS
    <3>2. q = <<k>> /\ Contract!Last(<<k>>) = k
      BY <2>2, <2>3, <3>1, PathOfOne
    <3>3. QED
      BY <1>3, <3>2
  <2>. DEFINE s == Append(Contract!Front(p), "predicted_tokens")
  <2>5. /\ Contract!Last(q) = Contract!Last(p)
        /\ Append(Contract!Front(q), "predicted_tokens") = <<k>> \o s
    <3>1. \A x \in Keys : /\ Contract!Last(<<k>> \o p) = Contract!Last(p)
                         /\ Append(Contract!Front(<<k>> \o p), x)
                              = <<k>> \o Append(Contract!Front(p), x)
      BY <2>3, <2>4, PathEnd
    <3>2. QED
      BY <1>2, <2>2, <3>1
  <2>6. s \in DOMAIN f[k] /\ f[k][p] = f[k][s]
    BY <1>3, <2>4, <2>5 DEF Shaped, Counted
  <2>. HIDE DEF s
  <2>7. <<k>> \o s \in DOMAIN Contract!Obj(f) /\ Contract!Obj(f)[<<k>> \o s] = f[k][s]
    BY <1>1, <2>6, ObjAt
  <2>8. QED
    BY <2>2, <2>5, <2>6, <2>7
<1>4. Counted(Contract!Obj(f))
  BY <1>3 DEF Counted
<1>5. QED
  BY <1>1, <1>4 DEF Shaped

(* An object of leaves, with both counts of tokens or without.              *)
LEMMA LeavesShaped ==
    ASSUME NEW f, NEW g, DOMAIN f = DOMAIN g, DOMAIN f \subseteq Keys, DOMAIN f # {},
           \A k \in DOMAIN f : \E x, type : /\ f[k] = Contract!Leaf(x) /\ g[k] = Contract!Leaf(type)
                                            /\ Contract!Fits(x, type),
           "token_count" \in DOMAIN f =>
              "predicted_tokens" \in DOMAIN f /\ f["token_count"] = f["predicted_tokens"]
    PROVE  Shaped(Contract!Obj(f), Contract!Obj(g))
<1>1. \A k \in DOMAIN f : Shaped(f[k], g[k]) /\ DOMAIN f[k] = {<<>>}
  BY LeafShaped, LeafFacts
<1>2. /\ IsFields(f)
      /\ DOMAIN Contract!Obj(f) \subseteq Seq(Keys) /\ DOMAIN Contract!Obj(f) # {}
      /\ Contract!HasShape(Contract!Obj(f), Contract!Obj(g))
  BY <1>1, ObjHasShape
<1>3. ASSUME NEW q \in DOMAIN Contract!Obj(f), Contract!Last(q) = "token_count"
      PROVE  LET r == Append(Contract!Front(q), "predicted_tokens") IN
             r \in DOMAIN Contract!Obj(f) /\ Contract!Obj(f)[q] = Contract!Obj(f)[r]
  <2>1. PICK k \in DOMAIN f : \E p \in DOMAIN f[k] :
                q = <<k>> \o p /\ Contract!Obj(f)[q] = f[k][p]
    BY <1>2, ObjOnly
  <2>2. PICK p \in DOMAIN f[k] : q = <<k>> \o p /\ Contract!Obj(f)[q] = f[k][p]
    BY <2>1
  <2>3. p = <<>>
    BY <1>1
  <2>4. q = <<k>> \o <<>> /\ Contract!Obj(f)[q] = f[k][<<>>]
    BY <2>2, <2>3
  <2>5. k \in Keys /\ "predicted_tokens" \in Keys
    BY KeyGroups DEF CompletionKeys
  <2>6. q = <<k>> /\ k = "token_count"
        /\ Append(Contract!Front(q), "predicted_tokens") = <<"predicted_tokens">>
        /\ <<"predicted_tokens">> \o <<>> = <<"predicted_tokens">>
    BY <1>3, <2>4, <2>5, PathOfOne
  <2>7. "predicted_tokens" \in DOMAIN f /\ f["token_count"] = f["predicted_tokens"]
    BY <2>6
  <2>8. ASSUME NEW j \in DOMAIN f
        PROVE  <<j>> \in DOMAIN Contract!Obj(f) /\ Contract!Obj(f)[<<j>>] = f[j][<<>>]
    <3>1. PICK x : f[j] = Contract!Leaf(x)
      OBVIOUS
    <3>2. <<j>> \in DOMAIN Contract!Obj(f) /\ Contract!Obj(f)[<<j>>] = x
      BY <1>2, <3>1, LeafOfObj
    <3>3. f[j][<<>>] = x
      BY <3>1, LeafFacts
    <3>4. QED
      BY <3>2, <3>3
  <2>9. /\ <<"predicted_tokens">> \in DOMAIN Contract!Obj(f)
        /\ Contract!Obj(f)[<<"predicted_tokens">>] = f["predicted_tokens"][<<>>]
    BY <2>7, <2>8
  <2>10. QED
    BY <2>4, <2>6, <2>7, <2>9
<1>4. Counted(Contract!Obj(f))
  BY <1>3 DEF Counted
<1>5. QED
  BY <1>2, <1>4 DEF Shaped

(* A shaped object passes for a lane.                                       *)
LEMMA ShapedIsValid ==
    ASSUME NEW f, NEW shape, IsFields(f), Shaped(Contract!Obj(f), shape)
    PROVE  Contract!ValidLane(Contract!Obj(f), shape)
<1>1. \A p \in DOMAIN Contract!Obj(f) : p # <<>>
  BY ObjOnly
<1>2. QED
  BY <1>1 DEF Shaped, Counted, Contract!ValidLane, Contract!CountsAgree

-----------------------------------------------------------------------------
(* Parts of different versions                                              *)

LEMMA ObjHasLeaf ==
    ASSUME NEW f, NEW k \in DOMAIN f, DOMAIN f[k] # {}
    PROVE  DOMAIN Contract!Obj(f) # {}
<1>1. PICK p : p \in DOMAIN f[k]
  OBVIOUS
<1>2. <<k>> \o p \in DOMAIN Contract!Obj(f)
  BY <1>1 DEF Contract!Obj
<1>3. QED
  BY <1>2

LEMMA SlotViewHasLeaf == ASSUME NEW a PROVE DOMAIN Contract!SlotView(a) # {}
<1>. DEFINE f == [idle |-> Contract!Leaf(Contract!Bool(a.busy = 0)),
                  prompt_work |-> Contract!Leaf(Contract!Number(a.processed))]
<1>1. "idle" \in DOMAIN f /\ f["idle"] = Contract!Leaf(Contract!Bool(a.busy = 0))
  OBVIOUS
<1>. HIDE DEF f
<1>2. DOMAIN Contract!Obj(f) # {}
  BY <1>1, LeafFacts, ObjHasLeaf
<1>3. QED
  BY <1>2 DEF f, Contract!SlotView

LEMMA CasesHaveLeaves ==
    ASSUME NEW a
    PROVE  DOMAIN Contract!CompletionCase(a) # {} /\ DOMAIN Contract!DirectTokenCase(a) # {}
<1>1. \A f : "idle_slot" \in DOMAIN f /\ f["idle_slot"] = Contract!SlotView(a)
                => DOMAIN Contract!Obj(f) # {}
  BY SlotViewHasLeaf, ObjHasLeaf
<1>2. DOMAIN Contract!CompletionCase(a) # {}
  BY <1>1 DEF Contract!CompletionCase
<1>3. DOMAIN Contract!DirectTokenCase(a) # {}
  BY <1>1 DEF Contract!DirectTokenCase
<1>4. QED
  BY <1>2, <1>3

(* The two lanes that older schemas do not have are not empty.              *)
LEMMA NewLanesHaveLeaves ==
    ASSUME NEW ans
    PROVE  LET lane == Contract!Measured(ans) IN
           /\ DOMAIN lane["interleaving_isolation"] # {}
           /\ DOMAIN lane["token_prefix_divergence"] # {}
<1>. DEFINE lane == Contract!Measured(ans)
<1>1. ASSUME NEW f, NEW S, S # {}, f = [s \in S |-> f[s]],
             \A s \in S : DOMAIN f[s] # {}
      PROVE  DOMAIN Contract!Obj(f) # {}
  <2>1. PICK s : s \in S
    BY <1>1
  <2>2. s \in DOMAIN f /\ DOMAIN f[s] # {}
    BY <1>1, <2>1
  <2>3. QED
    BY <2>2, ObjHasLeaf
<1>2. DOMAIN lane["interleaving_isolation"] # {}
  <2>. DEFINE f == [s \in Contract!BothSlots |-> Contract!CompletionCase(ans[<<"baselines", s>>])]
              r == [d \in Contract!DirectionNames |-> Contract!DirectionReport(ans, d)]
              m == Contract!Merge([baselines |-> Contract!Obj(f)], r)
  <2>1. DOMAIN f = Contract!BothSlots /\ \A s \in DOMAIN f : DOMAIN f[s] # {}
    BY CasesHaveLeaves
  <2>2. "slot_0" \in Contract!BothSlots
    BY DEF Contract!BothSlots
  <2>. HIDE DEF f, r
  <2>3. DOMAIN Contract!Obj(f) # {}
    BY <2>1, <2>2, ObjHasLeaf
  <2>4. "baselines" \in DOMAIN m /\ m["baselines"] = Contract!Obj(f)
    BY DEF Contract!Merge
  <2>. HIDE DEF m
  <2>5. DOMAIN Contract!Obj(m) # {}
    BY <2>3, <2>4, ObjHasLeaf
  <2>6. lane["interleaving_isolation"] = Contract!Obj(m)
    BY DEF Contract!Measured, m, f, r
  <2>7. QED
    BY <2>5, <2>6
<1>3. DOMAIN lane["token_prefix_divergence"] # {}
  <2>. DEFINE X == {"source", "cache_on_target", "cache_off_target"}
              f(t) == [x \in X |-> Contract!DirectTokenCase(ans[<<t, x>>])]
              m == [t \in Contract!TokenNames |-> Contract!Obj(f(t))]
  <2>1. ASSUME NEW t PROVE DOMAIN Contract!Obj(f(t)) # {}
    <3>1. "source" \in DOMAIN f(t) /\ DOMAIN f(t)["source"] # {}
      BY CasesHaveLeaves
    <3>. HIDE DEF f
    <3>2. QED
      BY <3>1, ObjHasLeaf
  <2>2. "exact" \in DOMAIN m /\ m["exact"] = Contract!Obj(f("exact"))
    BY DEF Contract!TokenNames
  <2>. HIDE DEF f, m
  <2>3. DOMAIN Contract!Obj(m) # {}
    BY <2>1, <2>2, ObjHasLeaf
  <2>4. lane["token_prefix_divergence"] = Contract!Obj(m)
    BY DEF Contract!Measured, m, f
  <2>5. QED
    BY <2>3, <2>4
<1>4. QED
  BY <1>2, <1>3

FixedParts == {"boundary", "fixture", "producer", "registration", "runtime", "schema",
    "source_revision", "transport", "invariants"}

LEMMA DocumentParts ==
    ASSUME NEW lane, NEW p
    PROVE  LET d == Contract!Document(lane, p) IN
           /\ DOMAIN d = FixedParts \cup Contract!LanesOf(p.lanes)
           /\ d["boundary"] = Contract!All(Contract!BoundaryKeys,
                                           Contract!Leaf(Contract!Bool(FALSE)))
           /\ d["fixture"] = Contract!Fixture
           /\ d["producer"] = Contract!Producer(p.producer)
           /\ d["registration"] = Contract!Registration(p.registration)
           /\ d["runtime"] = Contract!Runtime(p.runtime, Contract!Text(20))
           /\ d["schema"] = Contract!Leaf(Contract!Text(p.schema))
           /\ d["source_revision"] = Contract!Leaf(Contract!Text(30))
           /\ d["transport"] = Contract!Transport
           /\ d["invariants"] = Contract!Invariants(lane, p.invariants)
<1>. DEFINE fixed == [boundary |-> Contract!All(Contract!BoundaryKeys,
                                                Contract!Leaf(Contract!Bool(FALSE))),
                      fixture |-> Contract!Fixture,
                      producer |-> Contract!Producer(p.producer),
                      registration |-> Contract!Registration(p.registration),
                      runtime |-> Contract!Runtime(p.runtime, Contract!Text(20)),
                      schema |-> Contract!Leaf(Contract!Text(p.schema)),
                      source_revision |-> Contract!Leaf(Contract!Text(30)),
                      transport |-> Contract!Transport,
                      invariants |-> Contract!Invariants(lane, p.invariants)]
            lanes == [l \in Contract!LanesOf(p.lanes) |-> lane[l]]
            d == Contract!Document(lane, p)
<1>1. d = Contract!Merge(fixed, lanes)
  BY DEF Contract!Document
<1>2. DOMAIN fixed = FixedParts
  BY DEF FixedParts
<1>3. DOMAIN lanes = Contract!LanesOf(p.lanes)
  OBVIOUS
<1>4. /\ fixed["boundary"] = Contract!All(Contract!BoundaryKeys,
                                          Contract!Leaf(Contract!Bool(FALSE)))
      /\ fixed["fixture"] = Contract!Fixture
      /\ fixed["producer"] = Contract!Producer(p.producer)
      /\ fixed["registration"] = Contract!Registration(p.registration)
      /\ fixed["runtime"] = Contract!Runtime(p.runtime, Contract!Text(20))
      /\ fixed["schema"] = Contract!Leaf(Contract!Text(p.schema))
      /\ fixed["source_revision"] = Contract!Leaf(Contract!Text(30))
      /\ fixed["transport"] = Contract!Transport
      /\ fixed["invariants"] = Contract!Invariants(lane, p.invariants)
  OBVIOUS
<1>. HIDE DEF d, fixed, lanes
<1>5. /\ DOMAIN d = FixedParts \cup Contract!LanesOf(p.lanes)
      /\ \A k \in FixedParts : d[k] = fixed[k]
  <2>1. /\ DOMAIN d = DOMAIN fixed \cup DOMAIN lanes
        /\ \A k \in DOMAIN fixed : d[k] = fixed[k]
        /\ \A k \in DOMAIN lanes : k \notin DOMAIN fixed => d[k] = lanes[k]
    BY <1>1, MergeFacts
  <2>2. QED
    BY <1>2, <1>3, <2>1
<1>6. QED
  BY <1>4, <1>5 DEF d, FixedParts

LEMMA DocumentLanes ==
    ASSUME NEW lane, NEW p, NEW l \in Contract!LanesOf(p.lanes)
    PROVE  Contract!Document(lane, p)[l] = lane[l]
<1>1. l \notin FixedParts
  BY DEF FixedParts, Contract!LanesOf
<1>2. QED
  BY <1>1 DEF Contract!Document, Contract!Merge, FixedParts

(* A leaf by which an object shows its version.                             *)
LEMMA LeavesOfVersion ==
    ASSUME NEW v \in Contract!Versions
    PROVE  /\ <<"version">> \in DOMAIN Contract!Producer(v)
           /\ Contract!Producer(v)[<<"version">>] = Contract!Text(v)
           /\ <<"schema">> \in DOMAIN Contract!Registration(v)
           /\ Contract!Registration(v)[<<"schema">>] = Contract!Text(v)
           /\ DOMAIN Contract!Producer(v) \subseteq Seq(Keys)
           /\ DOMAIN Contract!Registration(v) \subseteq Seq(Keys)
<1>1. ASSUME NEW x, NEW y
      PROVE  LET f == [name |-> Contract!Leaf(x), version |-> Contract!Leaf(y)] IN
             /\ <<"version">> \in DOMAIN Contract!Obj(f) /\ Contract!Obj(f)[<<"version">>] = y
             /\ DOMAIN Contract!Obj(f) \subseteq Seq(Keys)
  <2>. DEFINE f == [name |-> Contract!Leaf(x), version |-> Contract!Leaf(y)]
  <2>1. /\ DOMAIN f = {"name", "version"} /\ f["name"] = Contract!Leaf(x)
        /\ f["version"] = Contract!Leaf(y)
    OBVIOUS
  <2>. HIDE DEF f
  <2>2. IsFields(f)
    BY <2>1, LeafFields, KeyGroups DEF FixedKeys
  <2>3. "version" \in DOMAIN f
    BY <2>1
  <2>4. DOMAIN Contract!Obj(f) \subseteq Seq(Keys)
    BY <2>2, ObjOnly
  <2>5. QED
    BY <2>1, <2>2, <2>3, <2>4, LeafOfObj DEF f
<1>2. /\ <<"version">> \in DOMAIN Contract!Producer(v)
      /\ Contract!Producer(v)[<<"version">>] = Contract!Text(v)
      /\ DOMAIN Contract!Producer(v) \subseteq Seq(Keys)
  BY <1>1 DEF Contract!Producer
<1>3. /\ <<"schema">> \in DOMAIN Contract!Registration(v)
      /\ Contract!Registration(v)[<<"schema">>] = Contract!Text(v)
      /\ DOMAIN Contract!Registration(v) \subseteq Seq(Keys)
  <2>. DEFINE heads == [process_order |-> Contract!Leaf(Contract!Text(v)),
                        schema |-> Contract!Leaf(Contract!Text(v))]
              controls == [cache_prompt |-> Contract!Leaf(Contract!True),
                           n_predict |-> Contract!Leaf(Contract!Number(2))]
              counts(t) == [k \in {"source", "target", "common"} |->
                               Contract!Leaf(Contract!Number(Contract!Registered[t][k]))]
              tokens == [t \in Contract!TokenNames |-> Contract!Obj(counts(t))]
              lanes == [l \in Contract!LanesOf(v) |->
                           IF l = "token_prefix_divergence" THEN Contract!Obj(tokens)
                           ELSE Contract!Obj(controls)]
              f == Contract!Merge(heads, lanes)
  <2>1. Contract!Registration(v) = Contract!Obj(f)
    BY DEF Contract!Registration
  <2>2. /\ IsFields(heads) /\ "schema" \in DOMAIN heads
        /\ heads["schema"] = Contract!Leaf(Contract!Text(v))
    <3>1. /\ DOMAIN heads = {"process_order", "schema"}
          /\ heads["process_order"] = Contract!Leaf(Contract!Text(v))
          /\ heads["schema"] = Contract!Leaf(Contract!Text(v))
      OBVIOUS
    <3>. HIDE DEF heads
    <3>2. QED
      BY <3>1, LeafFields, KeyGroups DEF FixedKeys
  <2>3. IsFields(controls)
    <3>1. /\ DOMAIN controls = {"cache_prompt", "n_predict"}
          /\ controls["cache_prompt"] = Contract!Leaf(Contract!True)
          /\ controls["n_predict"] = Contract!Leaf(Contract!Number(2))
      OBVIOUS
    <3>. HIDE DEF controls
    <3>2. QED
      BY <3>1, LeafFields, KeyGroups DEF FixedKeys
  <2>4. ASSUME NEW t PROVE IsFields(counts(t))
    <3>1. DOMAIN counts(t) \subseteq Keys
      BY KeyGroups DEF TokenKeys
    <3>2. \A k \in DOMAIN counts(t) : \E x : counts(t)[k] = Contract!Leaf(x)
      OBVIOUS
    <3>. HIDE DEF counts
    <3>3. QED
      BY <3>1, <3>2, LeafFields
  <2>. HIDE DEF counts
  <2>5. IsFields(tokens)
    <3>1. DOMAIN tokens \subseteq Keys
      BY KeyGroups
    <3>2. \A t \in DOMAIN tokens : DOMAIN tokens[t] \subseteq Seq(Keys)
      BY <2>4, ObjOnly
    <3>3. QED
      BY <3>1, <3>2 DEF IsFields
  <2>. HIDE DEF controls, tokens, heads
  <2>6. IsFields(lanes)
    <3>1. DOMAIN lanes \subseteq Keys
      BY KeyGroups DEF LaneNames, Contract!LanesOf
    <3>2. \A l \in DOMAIN lanes : DOMAIN lanes[l] \subseteq Seq(Keys)
      BY <2>3, <2>5, ObjOnly
    <3>3. QED
      BY <3>1, <3>2 DEF IsFields
  <2>. HIDE DEF lanes
  <2>7. /\ IsFields(f) /\ "schema" \in DOMAIN f
        /\ f["schema"] = Contract!Leaf(Contract!Text(v))
    <3>1. /\ DOMAIN f = DOMAIN heads \cup DOMAIN lanes /\ IsFields(f)
          /\ \A k \in DOMAIN heads : f[k] = heads[k]
      BY <2>2, <2>6, MergeFacts
    <3>. HIDE DEF f
    <3>2. QED
      BY <2>2, <3>1
  <2>. HIDE DEF f
  <2>8. <<"schema">> \in DOMAIN Contract!Obj(f) /\ Contract!Obj(f)[<<"schema">>] = Contract!Text(v)
    BY <2>7, LeafOfObj
  <2>9. DOMAIN Contract!Obj(f) \subseteq Seq(Keys)
    BY <2>7, ObjOnly
  <2>10. QED
    BY <2>1, <2>8, <2>9
<1>4. QED
  BY <1>2, <1>3

LEMMA RuntimeFields ==
    ASSUME NEW v \in Contract!Versions, NEW platform
    PROVE  LET r == Contract!Runtime(v, platform) IN
           /\ <<"configured_context_total">> \in DOMAIN r
           /\ r[<<"configured_context_total">>] = Contract!Number(Contract!ContextTotal(v))
           /\ <<"asset_platform">> \in DOMAIN r /\ r[<<"asset_platform">>] = platform
           /\ <<"asset_sha256">> \in DOMAIN r
           /\ r[<<"asset_sha256">>] = Contract!Sha(platform.n)
           /\ DOMAIN r \subseteq Seq(Keys)
<1>. DEFINE f == [adapter |-> Contract!Leaf(Contract!Text(22)),
                  asset_platform |-> Contract!Leaf(platform),
                  asset_sha256 |-> Contract!Leaf(Contract!Sha(platform.n)),
                  configured_context_total |->
                      Contract!Leaf(Contract!Number(Contract!ContextTotal(v))),
                  cpu_only |-> Contract!Leaf(Contract!True),
                  offline |-> Contract!Leaf(Contract!True),
                  release |-> Contract!Leaf(Contract!Text(23)),
                  server_sha256 |-> Contract!Leaf(Contract!Sha(10 + platform.n)),
                  slot_count |-> Contract!Leaf(Contract!Number(2)),
                  source_commit |-> Contract!Leaf(Contract!Text(24)),
                  version_line |-> Contract!Leaf(Contract!Text(25))]
<1>1. Contract!Runtime(v, platform) = Contract!Obj(f)
  BY DEF Contract!Runtime
<1>2. DOMAIN f = {"adapter", "asset_platform", "asset_sha256", "configured_context_total",
                  "cpu_only", "offline", "release", "server_sha256", "slot_count",
                  "source_commit", "version_line"}
  OBVIOUS
<1>3. /\ f["configured_context_total"] = Contract!Leaf(Contract!Number(Contract!ContextTotal(v)))
      /\ f["asset_platform"] = Contract!Leaf(platform)
      /\ f["asset_sha256"] = Contract!Leaf(Contract!Sha(platform.n))
  OBVIOUS
<1>4. \A k \in DOMAIN f : \E x : f[k] = Contract!Leaf(x)
  OBVIOUS
<1>. HIDE DEF f
<1>5. /\ IsFields(f) /\ "configured_context_total" \in DOMAIN f
      /\ "asset_platform" \in DOMAIN f /\ "asset_sha256" \in DOMAIN f
  BY <1>2, <1>4, LeafFields, KeyGroups DEF FixedKeys
<1>6. DOMAIN Contract!Obj(f) \subseteq Seq(Keys)
  BY <1>5, ObjOnly
<1>7. QED
  BY <1>1, <1>3, <1>5, <1>6, LeafOfObj

(* Equal texts, and equal numbers.                                          *)
LEMMA EqualMeans ==
    ASSUME NEW m, NEW n
    PROVE  /\ Contract!Equal(Contract!Text(m), Contract!Text(n)) => m = n
           /\ Contract!Equal(Contract!Number(m), Contract!Number(n)) => m = n
           /\ Contract!Text(m) = Contract!Text(n) => m = n
BY DEF Contract!Equal, Contract!Text, Contract!Number, Contract!Value, Contract!Numeric

(* What is valid is of one version, but for a context total that two have.  *)
LEMMA MixedIsRefused ==
    ASSUME NEW lane, NEW p \in [Contract!Parts -> Contract!Versions],
           DOMAIN lane["interleaving_isolation"] # {},
           DOMAIN lane["token_prefix_divergence"] # {},
           Contract!Valid(Contract!Document(lane, p))
    PROVE  \E v \in Contract!Versions : \A k \in Contract!Parts :
              \/ p[k] = v
              \/ k = "runtime" /\ Contract!ContextTotal(p[k]) = Contract!ContextTotal(v)
<1>. DEFINE d == Contract!Document(lane, p)
<1>1. PICK v \in Contract!Versions :
        /\ d["schema"] = Contract!Leaf(Contract!Text(v))
        /\ Contract!Keys(d) = Contract!TopKeys(v)
        /\ Contract!SameObject(d["producer"], Contract!Producer(v))
        /\ Contract!SameObject(d["registration"], Contract!Registration(v))
        /\ Contract!ValidRuntime(d, v)
        /\ DOMAIN d["invariants"] = DOMAIN Contract!Invariants(d, v)
  BY DEF Contract!Valid, Contract!ValidInvariants
<1>2. /\ p["schema"] \in Contract!Versions /\ p["producer"] \in Contract!Versions
      /\ p["registration"] \in Contract!Versions /\ p["runtime"] \in Contract!Versions
      /\ p["invariants"] \in Contract!Versions /\ p["lanes"] \in Contract!Versions
  BY DEF Contract!Parts
<1>3. /\ DOMAIN d = FixedParts \cup Contract!LanesOf(p["lanes"])
      /\ d["schema"] = Contract!Leaf(Contract!Text(p["schema"]))
      /\ d["producer"] = Contract!Producer(p["producer"])
      /\ d["registration"] = Contract!Registration(p["registration"])
      /\ d["runtime"] = Contract!Runtime(p["runtime"], Contract!Text(20))
      /\ d["invariants"] = Contract!Invariants(lane, p["invariants"])
      /\ \A l \in Contract!LanesOf(p["lanes"]) : d[l] = lane[l]
  <2>1. /\ DOMAIN d = FixedParts \cup Contract!LanesOf(p["lanes"])
        /\ \A l \in Contract!LanesOf(p["lanes"]) : d[l] = lane[l]
    <3>1. DOMAIN d = FixedParts \cup Contract!LanesOf(p["lanes"])
      BY DocumentParts
    <3>2. ASSUME NEW l \in Contract!LanesOf(p["lanes"]) PROVE d[l] = lane[l]
      BY DocumentLanes
    <3>3. QED
      BY <3>1, <3>2
  <2>2. /\ d["schema"] = Contract!Leaf(Contract!Text(p["schema"]))
        /\ d["producer"] = Contract!Producer(p["producer"])
        /\ d["registration"] = Contract!Registration(p["registration"])
    BY DocumentParts
  <2>3. /\ d["runtime"] = Contract!Runtime(p["runtime"], Contract!Text(20))
        /\ d["invariants"] = Contract!Invariants(lane, p["invariants"])
    BY DocumentParts
  <2>4. QED
    BY <2>1, <2>2, <2>3
<1>. HIDE DEF d
<1>4. p["schema"] = v
  <2>1. ASSUME NEW x, NEW y, Contract!Leaf(x) = Contract!Leaf(y) PROVE x = y
    <3>1. Contract!Leaf(x)[<<>>] = x /\ Contract!Leaf(y)[<<>>] = y
      BY LeafFacts
    <3>2. QED
      BY <2>1, <3>1
  <2>2. Contract!Leaf(Contract!Text(p["schema"])) = Contract!Leaf(Contract!Text(v))
    BY <1>1, <1>3
  <2>3. Contract!Text(p["schema"]) = Contract!Text(v)
    BY <2>1, <2>2
  <2>4. QED
    BY <2>3, EqualMeans
<1>5. p["producer"] = v
  <2>. DEFINE a == p["producer"]
  <2>1. /\ <<"version">> \in DOMAIN Contract!Producer(a)
        /\ Contract!Producer(a)[<<"version">>] = Contract!Text(a)
        /\ Contract!Producer(v)[<<"version">>] = Contract!Text(v)
    BY <1>2, LeavesOfVersion
  <2>. HIDE DEF a
  <2>2. \A q \in DOMAIN Contract!Producer(a) :
            Contract!Equal(Contract!Producer(a)[q], Contract!Producer(v)[q])
    BY <1>1, <1>3 DEF Contract!SameObject, a
  <2>3. Contract!Equal(Contract!Text(a), Contract!Text(v))
    BY <2>1, <2>2
  <2>4. QED
    BY <2>3, EqualMeans DEF a
<1>6. p["registration"] = v
  <2>. DEFINE a == p["registration"]
  <2>1. /\ <<"schema">> \in DOMAIN Contract!Registration(a)
        /\ Contract!Registration(a)[<<"schema">>] = Contract!Text(a)
        /\ Contract!Registration(v)[<<"schema">>] = Contract!Text(v)
    BY <1>2, LeavesOfVersion
  <2>. HIDE DEF a
  <2>2. \A q \in DOMAIN Contract!Registration(a) :
            Contract!Equal(Contract!Registration(a)[q], Contract!Registration(v)[q])
    BY <1>1, <1>3 DEF Contract!SameObject, a
  <2>3. Contract!Equal(Contract!Text(a), Contract!Text(v))
    BY <2>1, <2>2
  <2>4. QED
    BY <2>3, EqualMeans DEF a
<1>7. Contract!ContextTotal(p["runtime"]) = Contract!ContextTotal(v)
  <2>. DEFINE a == p["runtime"]
              e == d["runtime"][<<"asset_platform">>]
              key == <<"configured_context_total">>
              n == Contract!Number(Contract!ContextTotal(a))
              m == Contract!Number(Contract!ContextTotal(v))
  <2>1. \A q \in DOMAIN d["runtime"] :
            Contract!Equal(d["runtime"][q], Contract!Runtime(v, e)[q])
    BY <1>1 DEF Contract!ValidRuntime, Contract!ExpectedRuntime, Contract!SameObject
  <2>2. key \in DOMAIN d["runtime"] /\ d["runtime"][key] = n
    <3>1. a \in Contract!Versions
      BY <1>2
    <3>2. /\ key \in DOMAIN Contract!Runtime(a, Contract!Text(20))
          /\ Contract!Runtime(a, Contract!Text(20))[key] = n
      BY <3>1, RuntimeFields
    <3>3. d["runtime"] = Contract!Runtime(a, Contract!Text(20))
      BY <1>3
    <3>4. QED
      BY <3>2, <3>3
  <2>3. Contract!Runtime(v, e)[key] = m
    BY RuntimeFields
  <2>. HIDE DEF key, n, m
  <2>4. Contract!Equal(n, m)
    BY <2>1, <2>2, <2>3
  <2>5. QED
    BY <2>4, EqualMeans DEF n, m
<1>8. p["lanes"] = v
  <2>. DEFINE w == p["lanes"]
              i == "interleaving_isolation"
              t == "token_prefix_divergence"
  <2>1. w \in {1, 2, 3} /\ v \in {1, 2, 3}
    BY <1>2 DEF Contract!Versions
  <2>2. /\ i \in Contract!LanesOf(w) <=> w >= 2
        /\ t \in Contract!LanesOf(w) <=> w >= 3
        /\ i \in Contract!TopKeys(v) <=> v >= 2
        /\ t \in Contract!TopKeys(v) <=> v >= 3
        /\ i \notin FixedParts /\ t \notin FixedParts
    BY DEF Contract!LanesOf, Contract!TopKeys, FixedParts
  <2>3. ASSUME NEW l \in {i, t}
        PROVE  l \in Contract!LanesOf(w) <=> l \in Contract!Keys(d)
    <3>1. CASE l \in Contract!LanesOf(w)
      BY <1>3, <3>1 DEF Contract!Keys
    <3>2. CASE l \notin Contract!LanesOf(w)
      BY <1>3, <2>2, <3>2 DEF Contract!Keys
    <3>3. QED
      BY <3>1, <3>2
  <2>4. /\ i \in Contract!LanesOf(w) <=> i \in Contract!TopKeys(v)
        /\ t \in Contract!LanesOf(w) <=> t \in Contract!TopKeys(v)
    BY <1>1, <2>3
  <2>. HIDE DEF w
  <2>5. w = v
    BY <2>1, <2>2, <2>4
  <2>6. QED
    BY <2>5 DEF w
<1>9. p["invariants"] = v
  <2>. DEFINE w == p["invariants"]
              i == "interleave_baselines_idle"
              t == "prefix_slots_idle"
  <2>1. w \in {1, 2, 3} /\ v \in {1, 2, 3}
    BY <1>2 DEF Contract!Versions
  <2>2. i \in Keys /\ t \in Keys
    BY KeyGroups DEF InvariantKeys, InterleavingNames, TokenPrefixNames
  <2>3. ASSUME NEW l, NEW u \in Contract!Versions
        PROVE  /\ <<i>> \in DOMAIN Contract!Invariants(l, u) <=> u >= 2
               /\ <<t>> \in DOMAIN Contract!Invariants(l, u) <=> u = 3
    <3>1. PICK f : /\ IsFields(f) /\ Contract!Invariants(l, u) = Contract!Obj(f)
                   /\ u >= 2 => \E x : i \in DOMAIN f /\ f[i] = Contract!Leaf(x)
                   /\ u = 3 => \E x : t \in DOMAIN f /\ f[t] = Contract!Leaf(x)
                   /\ i \in DOMAIN f => u >= 2
                   /\ t \in DOMAIN f => u = 3
      BY InvariantsByVersion
    <3>. HIDE DEF i, t
    <3>2. ASSUME u >= 2 PROVE <<i>> \in DOMAIN Contract!Obj(f)
      BY <3>1, <3>2, LeafOfObj
    <3>3. ASSUME u = 3 PROVE <<t>> \in DOMAIN Contract!Obj(f)
      BY <3>1, <3>3, LeafOfObj
    <3>4. ASSUME <<i>> \in DOMAIN Contract!Obj(f) PROVE u >= 2
      BY <2>2, <3>1, <3>4, KeyOfObj
    <3>5. ASSUME <<t>> \in DOMAIN Contract!Obj(f) PROVE u = 3
      BY <2>2, <3>1, <3>5, KeyOfObj
    <3>6. QED
      BY <3>1, <3>2, <3>3, <3>4, <3>5
  <2>4. /\ w >= 2 <=> v >= 2
        /\ w = 3 <=> v = 3
    BY <1>1, <1>2, <1>3, <2>3
  <2>. HIDE DEF w
  <2>5. w = v
    BY <2>1, <2>4
  <2>6. QED
    BY <2>5 DEF w
<1>10. QED
  BY <1>4, <1>5, <1>6, <1>7, <1>8, <1>9 DEF Contract!Parts

-----------------------------------------------------------------------------
(* What the adapter lets through                                            *)

CompletionFields == {"content", "tokens", "predicted", "prompt_n", "cached", "busy", "processed"}

PrefillFields == {"cache_n", "predicted", "evaluated", "prompt_n", "busy", "processed"}

FieldsOf(c) ==
    IF c \in Contract!CompletionCalls THEN CompletionFields
    ELSE IF c \in Contract!PrefillCalls THEN PrefillFields
    ELSE IF c = <<"stream">> THEN Contract!CancelFlags
    ELSE IF c \in Contract!StreamCalls THEN Contract!Flags
    ELSE IF c \in Contract!CountCalls THEN {"n"}
    ELSE {"bytes", "sha"}

(* The answers to all calls have their fields, and what they say is a       *)
(* number that the adapter does not refuse.                                 *)
Taken(ans) ==
    \A c \in Contract!Calls :
        /\ DOMAIN ans[c] = FieldsOf(c)
        /\ \A f \in DOMAIN ans[c] : ans[c][f] \in Nat
        /\ c \in Contract!CompletionCalls => ans[c]["predicted"] > 0

LEMMA GoodAnswers ==
    ASSUME NEW c
    PROVE  /\ DOMAIN Contract!GoodAnswer(c) = FieldsOf(c)
           /\ \A f \in DOMAIN Contract!GoodAnswer(c) : Contract!GoodAnswer(c)[f] \in Int
<1>1. CASE c \in Contract!CompletionCalls
  <2>1. \A work \in Nat : LET a == [content |-> 2, tokens |-> 2, predicted |-> 2,
                                    prompt_n |-> work, cached |-> 3, busy |-> 0, processed |-> work]
                          IN  /\ DOMAIN a = CompletionFields
                              /\ \A f \in DOMAIN a : a[f] \in Int
    BY DEF CompletionFields
  <2>2. QED
    BY <1>1, <2>1 DEF Contract!GoodAnswer, FieldsOf
<1>2. CASE c \notin Contract!CompletionCalls /\ c \in Contract!PrefillCalls
  <2>. DEFINE r == Contract!Registered[c[1]]
              count == IF c[2] = "source" THEN r.source ELSE r.target
              cached == IF c[2] # "cache_on_target" THEN 0
                        ELSE IF r.common = r.target THEN r.common - 1 ELSE r.common
  <2>1. c[1] \in Contract!TokenNames
    BY <1>2 DEF Contract!PrefillCalls
  <2>2. r.source \in Nat /\ r.target \in Nat /\ r.common \in Nat
    BY <2>1 DEF Contract!TokenNames, Contract!Registered
  <2>. HIDE DEF r
  <2>3. count \in Int /\ cached \in Int
    BY <2>2
  <2>4. Contract!GoodAnswer(c) = [cache_n |-> cached, predicted |-> 1, evaluated |-> count,
            prompt_n |-> count - cached, busy |-> 0, processed |-> count - cached]
    BY <1>2 DEF Contract!GoodAnswer, r
  <2>. HIDE DEF count, cached
  <2>5. /\ DOMAIN Contract!GoodAnswer(c) = PrefillFields
        /\ \A f \in DOMAIN Contract!GoodAnswer(c) : Contract!GoodAnswer(c)[f] \in Int
    BY <2>3, <2>4 DEF PrefillFields
  <2>6. QED
    BY <1>2, <2>5 DEF FieldsOf
<1>3. CASE c \notin Contract!CompletionCalls /\ c \notin Contract!PrefillCalls
  BY <1>3 DEF Contract!GoodAnswer, FieldsOf
<1>4. QED
  BY <1>1, <1>2, <1>3

(* Whatever the odd answers are: what is not refused is taken.              *)
LEMMA UnrefusedIsTaken ==
    ASSUME NEW strange \in SUBSET Contract!Oddities,
           \A c \in Contract!Calls : ~Contract!Refuses(Contract!Answers(strange)[c])
    PROVE  Taken(Contract!Answers(strange))
<1>. DEFINE ans == Contract!Answers(strange)
<1>1. ASSUME NEW c \in Contract!Calls
      PROVE  DOMAIN ans[c] = FieldsOf(c) /\ \A f \in DOMAIN ans[c] : ans[c][f] \in Int
  <2>1. CASE \E o \in strange : c \in o.calls
    <3>. DEFINE o == CHOOSE x \in strange : c \in x.calls
    <3>1. ans[c] = [Contract!GoodAnswer(c) EXCEPT ![o.field] = o.n]
      BY <2>1 DEF Contract!Answers
    <3>2. o \in strange
      BY <2>1
    <3>. HIDE DEF ans, o
    <3>3. o.n \in Int
      <4>1. o.n \in {-1, 0, 1, 3, MaxCount}
        BY <3>2 DEF Contract!Oddities
      <4>2. QED
        BY <4>1, CountsAssumption
    <3>. DEFINE g == Contract!GoodAnswer(c)
    <3>4. DOMAIN g = FieldsOf(c) /\ \A f \in DOMAIN g : g[f] \in Int
      BY GoodAnswers
    <3>. HIDE DEF g
    <3>5. ans[c] = [g EXCEPT ![o.field] = o.n]
      BY <3>1 DEF g
    <3>6. QED
      BY <3>3, <3>4, <3>5
  <2>2. CASE ~\E o \in strange : c \in o.calls
    <3>1. ans[c] = Contract!GoodAnswer(c)
      BY <2>2 DEF Contract!Answers
    <3>2. QED
      BY <3>1, GoodAnswers
  <2>3. QED
    BY <2>1, <2>2
<1>2. \A c \in Contract!Calls : ~Contract!Refuses(ans[c])
  OBVIOUS
<1>. HIDE DEF ans
<1>3. ASSUME NEW c \in Contract!Calls, NEW f \in DOMAIN ans[c] PROVE ans[c][f] \in Nat
  BY <1>1, <1>2 DEF Contract!Refuses
<1>4. ASSUME NEW c \in Contract!Calls, c \in Contract!CompletionCalls PROVE ans[c]["predicted"] > 0
  <2>1. DOMAIN ans[c] = CompletionFields
    BY <1>1, <1>4 DEF FieldsOf
  <2>2. "tokens" \in DOMAIN ans[c] /\ "predicted" \in DOMAIN ans[c]
    BY <2>1 DEF CompletionFields
  <2>3. ans[c]["predicted"] \in Nat /\ ans[c]["predicted"] # 0
    BY <1>2, <1>3, <2>2 DEF Contract!Refuses
  <2>4. QED
    BY <2>3
<1>5. QED
  BY <1>1, <1>3, <1>4 DEF Taken, ans

LEMMA FitsFacts ==
    ASSUME NEW n
    PROVE  /\ \A b \in BOOLEAN : Contract!Fits(Contract!Bool(b), "bool")
           /\ n \in Nat => Contract!Fits(Contract!Number(n), "nat")
           /\ n \in Nat /\ n > 0 => Contract!Fits(Contract!Number(n), "pos")
           /\ Contract!Fits(Contract!Sha(n), "sha")
BY DEF Contract!Fits, Contract!Bool, Contract!Number, Contract!Sha, Contract!Value

LEMMA SlotViewShaped ==
    ASSUME NEW a, a["processed"] \in Nat
    PROVE  Shaped(Contract!SlotView(a), Contract!IdleSlot)
<1>. DEFINE x == Contract!Bool(a.busy = 0)
            y == Contract!Number(a.processed)
            f == [idle |-> Contract!Leaf(x), prompt_work |-> Contract!Leaf(y)]
            g == [idle |-> Contract!Leaf("bool"), prompt_work |-> Contract!Leaf("nat")]
<1>1. Contract!Fits(x, "bool") /\ Contract!Fits(y, "nat")
  BY FitsFacts
<1>. HIDE DEF x, y
<1>2. /\ DOMAIN f = {"idle", "prompt_work"} /\ DOMAIN g = {"idle", "prompt_work"}
      /\ f["idle"] = Contract!Leaf(x) /\ f["prompt_work"] = Contract!Leaf(y)
      /\ g["idle"] = Contract!Leaf("bool") /\ g["prompt_work"] = Contract!Leaf("nat")
  OBVIOUS
<1>. HIDE DEF f, g
<1>3. DOMAIN f \subseteq Keys /\ "token_count" \notin DOMAIN f
  BY <1>2, KeyGroups DEF CaseKeys
<1>4. \A k \in DOMAIN f : \E v, type : /\ f[k] = Contract!Leaf(v) /\ g[k] = Contract!Leaf(type)
                                       /\ Contract!Fits(v, type)
  BY <1>1, <1>2
<1>5. Shaped(Contract!Obj(f), Contract!Obj(g))
  BY <1>2, <1>3, <1>4, LeavesShaped
<1>6. QED
  BY <1>5 DEF f, g, x, y, Contract!SlotView, Contract!IdleSlot

LEMMA CompletionCaseShaped ==
    ASSUME NEW ans, Taken(ans), NEW c \in Contract!CompletionCalls
    PROVE  Shaped(Contract!CompletionCase(ans[c]), Contract!Case)
<1>. DEFINE a == ans[c]
            content == Contract!Number(a.content)
            hash == Contract!Sha(a.content)
            predicted == Contract!Number(a.predicted)
            work == Contract!Number(a.prompt_n)
            cached == Contract!Number(a.cached)
            tokens == Contract!Sha(a.tokens)
            f == [content_bytes |-> Contract!Leaf(content), content_sha256 |-> Contract!Leaf(hash),
                  predicted_tokens |-> Contract!Leaf(predicted), prompt_work |-> Contract!Leaf(work),
                  response_cached_tokens |-> Contract!Leaf(cached),
                  token_count |-> Contract!Leaf(predicted), tokens_sha256 |-> Contract!Leaf(tokens)]
            g == [content_bytes |-> Contract!Leaf("nat"), content_sha256 |-> Contract!Leaf("sha"),
                  predicted_tokens |-> Contract!Leaf("pos"), prompt_work |-> Contract!Leaf("nat"),
                  response_cached_tokens |-> Contract!Leaf("nat"),
                  token_count |-> Contract!Leaf("pos"), tokens_sha256 |-> Contract!Leaf("sha")]
<1>1. /\ DOMAIN a = CompletionFields /\ a["predicted"] > 0
      /\ \A k \in DOMAIN a : a[k] \in Nat
  BY DEF Taken, FieldsOf, Contract!Calls
<1>2. /\ a["content"] \in Nat /\ a["predicted"] \in Nat /\ a["prompt_n"] \in Nat
      /\ a["cached"] \in Nat /\ a["processed"] \in Nat
  BY <1>1 DEF CompletionFields
<1>. HIDE DEF a
<1>3. /\ Contract!Fits(content, "nat") /\ Contract!Fits(hash, "sha")
      /\ Contract!Fits(predicted, "pos") /\ Contract!Fits(work, "nat")
      /\ Contract!Fits(cached, "nat") /\ Contract!Fits(tokens, "sha")
  BY <1>1, <1>2, FitsFacts
<1>. HIDE DEF content, hash, predicted, work, cached, tokens
<1>4. /\ DOMAIN f = CompletionKeys /\ DOMAIN g = CompletionKeys
      /\ f["token_count"] = f["predicted_tokens"]
  BY DEF CompletionKeys
<1>5. \A k \in DOMAIN f : \E v, type : /\ f[k] = Contract!Leaf(v) /\ g[k] = Contract!Leaf(type)
                                       /\ Contract!Fits(v, type)
  <2>1. /\ f["content_bytes"] = Contract!Leaf(content) /\ g["content_bytes"] = Contract!Leaf("nat")
        /\ f["content_sha256"] = Contract!Leaf(hash) /\ g["content_sha256"] = Contract!Leaf("sha")
        /\ f["predicted_tokens"] = Contract!Leaf(predicted)
        /\ g["predicted_tokens"] = Contract!Leaf("pos")
        /\ f["prompt_work"] = Contract!Leaf(work) /\ g["prompt_work"] = Contract!Leaf("nat")
        /\ f["response_cached_tokens"] = Contract!Leaf(cached)
        /\ g["response_cached_tokens"] = Contract!Leaf("nat")
        /\ f["token_count"] = Contract!Leaf(predicted) /\ g["token_count"] = Contract!Leaf("pos")
        /\ f["tokens_sha256"] = Contract!Leaf(tokens) /\ g["tokens_sha256"] = Contract!Leaf("sha")
    OBVIOUS
  <2>2. DOMAIN f = CompletionKeys
    BY <1>4
  <2>. HIDE DEF f, g
  <2>3. QED
    BY <1>3, <2>1, <2>2 DEF CompletionKeys
<1>. HIDE DEF f, g
<1>6. DOMAIN f \subseteq Keys /\ DOMAIN f # {} /\ "predicted_tokens" \in DOMAIN f
  BY <1>4, KeyGroups DEF CompletionKeys
<1>7. Shaped(Contract!Obj(f), Contract!Obj(g))
  BY <1>4, <1>5, <1>6, LeavesShaped
<1>8. Shaped(Contract!SlotView(a), Contract!IdleSlot)
  BY <1>2, SlotViewShaped
<1>. DEFINE u == [completion |-> Contract!Obj(f), idle_slot |-> Contract!SlotView(a)]
            w == [completion |-> Contract!Obj(g), idle_slot |-> Contract!IdleSlot]
<1>9. /\ DOMAIN u = {"completion", "idle_slot"} /\ DOMAIN w = {"completion", "idle_slot"}
      /\ u["completion"] = Contract!Obj(f) /\ u["idle_slot"] = Contract!SlotView(a)
      /\ w["completion"] = Contract!Obj(g) /\ w["idle_slot"] = Contract!IdleSlot
  OBVIOUS
<1>10. Contract!CompletionCase(a) = Contract!Obj(u) /\ Contract!Case = Contract!Obj(w)
  BY DEF Contract!CompletionCase, Contract!Case, Contract!Completion, f, g, content,
    hash,
         predicted, work, cached, tokens
<1>. HIDE DEF u, w
<1>11. DOMAIN u \subseteq Keys /\ "token_count" \notin DOMAIN u /\ DOMAIN u # {}
  BY <1>9, KeyGroups DEF CaseKeys
<1>12. \A k \in DOMAIN u : Shaped(u[k], w[k])
  BY <1>7, <1>8, <1>9
<1>13. Shaped(Contract!Obj(u), Contract!Obj(w))
  BY <1>9, <1>11, <1>12, ObjShaped
<1>14. QED
  BY <1>10, <1>13 DEF a

LEMMA DirectTokenCaseShaped ==
    ASSUME NEW ans, Taken(ans), NEW c \in Contract!PrefillCalls
    PROVE  Shaped(Contract!DirectTokenCase(ans[c]), Contract!PrefillCase)
<1>. DEFINE a == ans[c]
            cache == Contract!Number(a.cache_n)
            predicted == Contract!Number(a.predicted)
            tokens == Contract!Number(a.evaluated)
            work == Contract!Number(a.prompt_n)
            f == [cache_tokens |-> Contract!Leaf(cache),
                  predicted_tokens |-> Contract!Leaf(predicted),
                  prompt_tokens |-> Contract!Leaf(tokens), prompt_work |-> Contract!Leaf(work)]
            names == {"cache_tokens", "predicted_tokens", "prompt_tokens", "prompt_work"}
            g == [k \in names |-> Contract!Leaf("nat")]
<1>1. /\ DOMAIN a = PrefillFields
      /\ \A k \in DOMAIN a : a[k] \in Nat
  <2>1. c \notin Contract!CompletionCalls
    BY DEF Contract!PrefillCalls, Contract!CompletionCalls, Contract!TokenNames,
           Contract!DirectionNames
  <2>2. QED
    BY <2>1 DEF Taken, FieldsOf, Contract!Calls
<1>2. /\ a["cache_n"] \in Nat /\ a["predicted"] \in Nat /\ a["evaluated"] \in Nat
      /\ a["prompt_n"] \in Nat /\ a["processed"] \in Nat
  BY <1>1 DEF PrefillFields
<1>. HIDE DEF a
<1>3. /\ Contract!Fits(cache, "nat") /\ Contract!Fits(predicted, "nat")
      /\ Contract!Fits(tokens, "nat") /\ Contract!Fits(work, "nat")
  BY <1>2, FitsFacts
<1>. HIDE DEF cache, predicted, tokens, work
<1>4. /\ DOMAIN f = names /\ DOMAIN g = names
      /\ f["cache_tokens"] = Contract!Leaf(cache)
      /\ f["predicted_tokens"] = Contract!Leaf(predicted)
      /\ f["prompt_tokens"] = Contract!Leaf(tokens)
      /\ f["prompt_work"] = Contract!Leaf(work)
      /\ \A k \in names : g[k] = Contract!Leaf("nat")
  OBVIOUS
<1>5. Contract!All(names, Contract!Leaf("nat")) = Contract!Obj(g)
  BY DEF Contract!All
<1>. HIDE DEF f, g
<1>6. DOMAIN f \subseteq Keys /\ DOMAIN f # {} /\ "token_count" \notin DOMAIN f
  BY <1>4, KeyGroups DEF PrefillKeys
<1>7. \A k \in DOMAIN f : \E v, type : /\ f[k] = Contract!Leaf(v) /\ g[k] = Contract!Leaf(type)
                                       /\ Contract!Fits(v, type)
  BY <1>3, <1>4
<1>8. Shaped(Contract!Obj(f), Contract!Obj(g))
  BY <1>4, <1>6, <1>7, LeavesShaped
<1>9. Shaped(Contract!SlotView(a), Contract!IdleSlot)
  BY <1>2, SlotViewShaped
<1>. DEFINE u == [idle_slot |-> Contract!SlotView(a), prefill |-> Contract!Obj(f)]
            w == [idle_slot |-> Contract!IdleSlot, prefill |-> Contract!Obj(g)]
<1>10. /\ DOMAIN u = {"prefill", "idle_slot"} /\ DOMAIN w = {"prefill", "idle_slot"}
       /\ u["prefill"] = Contract!Obj(f) /\ u["idle_slot"] = Contract!SlotView(a)
       /\ w["prefill"] = Contract!Obj(g) /\ w["idle_slot"] = Contract!IdleSlot
  OBVIOUS
<1>11. Contract!DirectTokenCase(a) = Contract!Obj(u) /\ Contract!PrefillCase = Contract!Obj(w)
  BY <1>5 DEF Contract!DirectTokenCase, Contract!PrefillCase, f, cache, predicted,
    tokens, work
<1>. HIDE DEF u, w
<1>12. DOMAIN u \subseteq Keys /\ "token_count" \notin DOMAIN u /\ DOMAIN u # {}
  BY <1>10, KeyGroups DEF CaseKeys
<1>13. \A k \in DOMAIN u : Shaped(u[k], w[k])
  BY <1>8, <1>9, <1>10
<1>14. Shaped(Contract!Obj(u), Contract!Obj(w))
  BY <1>10, <1>12, <1>13, ObjShaped
<1>15. QED
  BY <1>11, <1>14 DEF a

(* What the verifier takes for a lane.                                      *)
ValidPart(d, shape) == DOMAIN d # {} /\ Contract!ValidLane(d, shape)

LEMMA ObjValid ==
    ASSUME NEW f, NEW g, DOMAIN f = DOMAIN g, DOMAIN f \subseteq Keys, DOMAIN f # {},
           "token_count" \notin DOMAIN f, \A k \in DOMAIN f : Shaped(f[k], g[k])
    PROVE  ValidPart(Contract!Obj(f), Contract!Obj(g))
<1>1. Shaped(Contract!Obj(f), Contract!Obj(g))
  BY ObjShaped
<1>2. IsFields(f)
  BY ObjHasShape
<1>3. QED
  BY <1>1, <1>2, ShapedIsValid DEF ValidPart, Shaped

LEMMA AllShaped ==
    ASSUME NEW f, NEW shape, DOMAIN f \subseteq Keys, DOMAIN f # {},
           "token_count" \notin DOMAIN f, \A k \in DOMAIN f : Shaped(f[k], shape)
    PROVE  /\ Shaped(Contract!Obj(f), Contract!All(DOMAIN f, shape))
           /\ ValidPart(Contract!Obj(f), Contract!All(DOMAIN f, shape))
<1>. DEFINE g == [k \in DOMAIN f |-> shape]
<1>1. DOMAIN g = DOMAIN f /\ \A k \in DOMAIN f : g[k] = shape
  OBVIOUS
<1>2. Contract!All(DOMAIN f, shape) = Contract!Obj(g)
  BY DEF Contract!All
<1>. HIDE DEF g
<1>3. \A k \in DOMAIN f : Shaped(f[k], g[k])
  BY <1>1
<1>4. Shaped(Contract!Obj(f), Contract!Obj(g)) /\ ValidPart(Contract!Obj(f), Contract!Obj(g))
  BY <1>1, <1>3, ObjShaped, ObjValid
<1>5. QED
  BY <1>2, <1>4

(* The flags of a stream.                                                   *)
LEMMA ReportShaped ==
    ASSUME NEW a, DOMAIN a \subseteq Keys, DOMAIN a # {}, "token_count" \notin DOMAIN a
    PROVE  /\ DOMAIN Contract!Report(a) = DOMAIN a
           /\ \A k \in DOMAIN a : Shaped(Contract!Report(a)[k], Contract!Leaf("bool"))
           /\ Shaped(Contract!Obj(Contract!Report(a)),
                     Contract!All(DOMAIN a, Contract!Leaf("bool")))
<1>. DEFINE f == Contract!Report(a)
<1>1. DOMAIN f = DOMAIN a /\ \A k \in DOMAIN a : f[k] = Contract!Leaf(Contract!Bool(a[k] > 0))
  BY DEF Contract!Report
<1>. HIDE DEF f
<1>2. \A b \in BOOLEAN : Shaped(Contract!Leaf(Contract!Bool(b)), Contract!Leaf("bool"))
  BY FitsFacts, LeafShaped
<1>3. \A k \in DOMAIN a : Shaped(f[k], Contract!Leaf("bool"))
  <2>. SUFFICES ASSUME NEW k \in DOMAIN a PROVE Shaped(f[k], Contract!Leaf("bool"))
    OBVIOUS
  <2>1. (a[k] > 0) \in BOOLEAN
    OBVIOUS
  <2>. DEFINE b == a[k] > 0
  <2>2. f[k] = Contract!Leaf(Contract!Bool(b)) /\ b \in BOOLEAN
    BY <1>1, <2>1
  <2>. HIDE DEF b
  <2>3. QED
    BY <1>2, <2>2
<1>4. Shaped(Contract!Obj(f), Contract!All(DOMAIN f, Contract!Leaf("bool")))
  BY <1>1, <1>3, AllShaped
<1>5. QED
  BY <1>1, <1>3, <1>4 DEF f

LEMMA CachePairingValid ==
    ASSUME NEW ans, Taken(ans)
    PROVE  ValidPart(Contract!Measured(ans)["cache_pairing"], Contract!CachePairing)
<1>. DEFINE f == [c \in Contract!CacheCalls |-> Contract!CompletionCase(ans[<<"cache_pairing", c>>])]
<1>1. DOMAIN f = Contract!CacheCalls
  OBVIOUS
<1>2. ASSUME NEW c \in Contract!CacheCalls PROVE Shaped(f[c], Contract!Case)
  <2>1. <<"cache_pairing", c>> \in Contract!CompletionCalls
    BY DEF Contract!CompletionCalls
  <2>2. QED
    BY <2>1, CompletionCaseShaped
<1>3. Contract!Measured(ans)["cache_pairing"] = Contract!Obj(f)
  BY DEF Contract!Measured
<1>. HIDE DEF f
<1>4. DOMAIN f \subseteq Keys /\ DOMAIN f # {} /\ "token_count" \notin DOMAIN f
  BY <1>1, KeyGroups DEF Contract!CacheCalls
<1>5. ValidPart(Contract!Obj(f), Contract!All(Contract!CacheCalls, Contract!Case))
  BY <1>1, <1>2, <1>4, AllShaped
<1>6. Contract!CacheCalls = {"cold_cache_off", "cold_cache_on", "repeat_cache_off", "repeat_cache_on"}
  BY DEF Contract!CacheCalls
<1>7. Contract!CachePairing = Contract!All(Contract!CacheCalls, Contract!Case)
  BY <1>6 DEF Contract!CachePairing
<1>8. QED
  BY <1>3, <1>5, <1>7

LEMMA CancellationValid ==
    ASSUME NEW ans, Taken(ans)
    PROVE  ValidPart(Contract!Measured(ans)["cancellation_reuse"], Contract!Cancellation)
<1>. DEFINE a == ans[<<"stream">>]
            x == Contract!CompletionCase(ans[<<"cancellation_reuse", "clean_baseline">>])
            y == Contract!Obj(Contract!Report(a))
            z == Contract!CompletionCase(ans[<<"cancellation_reuse", "reused_slot">>])
            f == [clean_baseline |-> x, disconnect |-> y, reused_slot |-> z]
            b == Contract!All({"active_processing_observed", "first_event_nonterminal",
                               "first_event_observed", "idle_after_disconnect"},
                              Contract!Leaf("bool"))
            g == [clean_baseline |-> Contract!Case, reused_slot |-> Contract!Case,
                  disconnect |-> b]
<1>1. Shaped(x, Contract!Case) /\ Shaped(z, Contract!Case)
  <2>1. /\ <<"cancellation_reuse", "clean_baseline">> \in Contract!CompletionCalls
        /\ <<"cancellation_reuse", "reused_slot">> \in Contract!CompletionCalls
    BY DEF Contract!CompletionCalls
  <2>2. QED
    BY <2>1, CompletionCaseShaped
<1>2. Shaped(y, b)
  <2>1. DOMAIN a = Contract!CancelFlags
    <3>. DEFINE c == <<"stream">>
    <3>1. c \notin Contract!CompletionCalls /\ c \notin Contract!PrefillCalls /\ c \in Contract!Calls
      BY DEF Contract!CompletionCalls, Contract!PrefillCalls, Contract!Calls,
        Contract!StreamCalls
    <3>2. FieldsOf(c) = Contract!CancelFlags
      BY <3>1 DEF FieldsOf
    <3>. HIDE DEF c
    <3>3. DOMAIN ans[c] = Contract!CancelFlags
      BY <3>1, <3>2 DEF Taken
    <3>4. QED
      BY <3>3 DEF c
  <2>2. Contract!CancelFlags = {"active_processing_observed", "first_event_nonterminal",
                                "first_event_observed", "idle_after_disconnect"}
    BY DEF Contract!CancelFlags
  <2>. HIDE DEF a
  <2>3. DOMAIN a \subseteq Keys /\ DOMAIN a # {} /\ "token_count" \notin DOMAIN a
    BY <2>1, <2>2, KeyGroups
  <2>4. Shaped(y, Contract!All(DOMAIN a, Contract!Leaf("bool")))
    BY <2>3, ReportShaped
  <2>5. QED
    BY <2>1, <2>2, <2>4
<1>3. /\ Contract!Measured(ans)["cancellation_reuse"] = Contract!Obj(f)
      /\ Contract!Cancellation = Contract!Obj(g)
  BY DEF Contract!Measured, Contract!Cancellation
<1>. HIDE DEF x, y, z, b
<1>4. /\ DOMAIN f = CancellationKeys /\ DOMAIN g = CancellationKeys
      /\ f["clean_baseline"] = x /\ f["disconnect"] = y /\ f["reused_slot"] = z
      /\ g["clean_baseline"] = Contract!Case /\ g["disconnect"] = b
      /\ g["reused_slot"] = Contract!Case
  BY DEF CancellationKeys
<1>. HIDE DEF f, g
<1>5. DOMAIN f \subseteq Keys /\ DOMAIN f # {} /\ "token_count" \notin DOMAIN f
  BY <1>4, KeyGroups DEF CancellationKeys
<1>6. \A k \in DOMAIN f : Shaped(f[k], g[k])
  BY <1>1, <1>2, <1>4 DEF CancellationKeys
<1>7. QED
  BY <1>3, <1>4, <1>5, <1>6, ObjValid

LEMMA TokenPrefixValid ==
    ASSUME NEW ans, Taken(ans)
    PROVE  ValidPart(Contract!Measured(ans)["token_prefix_divergence"], Contract!TokenPrefix)
<1>. DEFINE X == {"source", "cache_on_target", "cache_off_target"}
            f(t) == [x \in X |-> Contract!DirectTokenCase(ans[<<t, x>>])]
            m == [t \in Contract!TokenNames |-> Contract!Obj(f(t))]
<1>1. ASSUME NEW t \in Contract!TokenNames
      PROVE  Shaped(Contract!Obj(f(t)), Contract!All(X, Contract!PrefillCase))
  <2>. DEFINE h == f(t)
  <2>1. DOMAIN h = X
    OBVIOUS
  <2>2. ASSUME NEW x \in X PROVE Shaped(h[x], Contract!PrefillCase)
    <3>1. <<t, x>> \in Contract!PrefillCalls
      BY DEF Contract!PrefillCalls
    <3>2. QED
      BY <3>1, DirectTokenCaseShaped
  <2>. HIDE DEF h
  <2>3. DOMAIN h \subseteq Keys /\ DOMAIN h # {} /\ "token_count" \notin DOMAIN h
    BY <2>1, KeyGroups DEF TokenKeys
  <2>4. Shaped(Contract!Obj(h), Contract!All(X, Contract!PrefillCase))
    BY <2>1, <2>2, <2>3, AllShaped
  <2>5. QED
    BY <2>4 DEF h
<1>2. Contract!Measured(ans)["token_prefix_divergence"] = Contract!Obj(m)
  BY DEF Contract!Measured
<1>3. /\ DOMAIN m = Contract!TokenNames
      /\ \A t \in Contract!TokenNames : Shaped(m[t], Contract!All(X, Contract!PrefillCase))
  BY <1>1
<1>4. Contract!TokenPrefix = Contract!All(Contract!TokenNames, Contract!All(X, Contract!PrefillCase))
  <2>1. /\ Contract!TokenNames = {"exact", "first_token_divergence", "shared_prefix"}
        /\ X = {"cache_off_target", "cache_on_target", "source"}
    BY DEF Contract!TokenNames
  <2>2. QED
    BY <2>1 DEF Contract!TokenPrefix
<1>. HIDE DEF m
<1>5. DOMAIN m \subseteq Keys /\ DOMAIN m # {} /\ "token_count" \notin DOMAIN m
  BY <1>3, KeyGroups DEF Contract!TokenNames
<1>6. ValidPart(Contract!Obj(m),
          Contract!All(Contract!TokenNames, Contract!All(X, Contract!PrefillCase)))
  BY <1>3, <1>5, AllShaped
<1>7. QED
  BY <1>2, <1>4, <1>6

(* The completions of the two slots.                                        *)
LEMMA SlotsShaped ==
    ASSUME NEW ans, Taken(ans), NEW n \in {"baselines"} \cup Contract!DirectionNames
    PROVE  Shaped(Contract!Obj([s \in Contract!BothSlots |-> Contract!CompletionCase(ans[<<n, s>>])]),
                  Contract!All(Contract!BothSlots, Contract!Case))
<1>. DEFINE f == [s \in Contract!BothSlots |-> Contract!CompletionCase(ans[<<n, s>>])]
<1>1. DOMAIN f = Contract!BothSlots
  OBVIOUS
<1>2. ASSUME NEW s \in Contract!BothSlots PROVE Shaped(f[s], Contract!Case)
  <2>1. <<n, s>> \in Contract!CompletionCalls
    BY DEF Contract!CompletionCalls
  <2>2. QED
    BY <2>1, CompletionCaseShaped
<1>. HIDE DEF f
<1>3. DOMAIN f \subseteq Keys /\ DOMAIN f # {} /\ "token_count" \notin DOMAIN f
  BY <1>1, KeyGroups DEF Contract!BothSlots
<1>4. Shaped(Contract!Obj(f), Contract!All(Contract!BothSlots, Contract!Case))
  BY <1>1, <1>2, <1>3, AllShaped
<1>5. QED
  BY <1>4 DEF f

LEMMA DirectionShaped ==
    ASSUME NEW ans, Taken(ans), NEW n \in Contract!DirectionNames
    PROVE  Shaped(Contract!DirectionReport(ans, n), Contract!Direction)
<1>. DEFINE a == ans[<<"streams", n>>]
            h == [s \in Contract!BothSlots |-> Contract!CompletionCase(ans[<<n, s>>])]
            r == [reuses |-> Contract!Obj(h)]
            f == Contract!Merge(r, Contract!Report(a))
            all == Contract!All(Contract!BothSlots, Contract!Case)
            bools == [k \in Contract!Flags |-> Contract!Leaf("bool")]
            q == [reuses |-> all]
            g == Contract!Merge(q, bools)
<1>1. Shaped(Contract!Obj(h), all)
  BY SlotsShaped
<1>2. DOMAIN a = Contract!Flags
  <2>. DEFINE c == <<"streams", n>>
  <2>1. c \notin Contract!CompletionCalls /\ c \notin Contract!PrefillCalls
    BY DEF Contract!CompletionCalls, Contract!PrefillCalls, Contract!DirectionNames,
           Contract!TokenNames
  <2>2. c # <<"stream">> /\ c \in Contract!StreamCalls /\ c \in Contract!Calls
    BY DEF Contract!Calls, Contract!StreamCalls
  <2>3. FieldsOf(c) = Contract!Flags
    BY <2>1, <2>2 DEF FieldsOf
  <2>. HIDE DEF c
  <2>4. DOMAIN ans[c] = Contract!Flags
    BY <2>2, <2>3 DEF Taken
  <2>5. QED
    BY <2>4 DEF c
<1>3. /\ Contract!DirectionReport(ans, n) = Contract!Obj(f)
      /\ Contract!Direction = Contract!Obj(g)
  BY DEF Contract!DirectionReport, Contract!Direction
<1>. HIDE DEF a, h, all
<1>4. "reuses" \notin Contract!Flags /\ "token_count" \notin Contract!Flags /\ Contract!Flags # {}
  BY DEF Contract!Flags
<1>5. /\ DOMAIN Contract!Report(a) = Contract!Flags
      /\ \A k \in Contract!Flags : Shaped(Contract!Report(a)[k], Contract!Leaf("bool"))
  BY <1>2, <1>4, KeyGroups, ReportShaped
<1>6. /\ DOMAIN r = {"reuses"} /\ r["reuses"] = Contract!Obj(h)
      /\ DOMAIN q = {"reuses"} /\ q["reuses"] = all
      /\ DOMAIN bools = Contract!Flags /\ \A k \in Contract!Flags : bools[k] = Contract!Leaf("bool")
  OBVIOUS
<1>. HIDE DEF r, q, bools
<1>7. /\ DOMAIN f = {"reuses"} \cup Contract!Flags /\ f["reuses"] = Contract!Obj(h)
      /\ \A k \in Contract!Flags : f[k] = Contract!Report(a)[k]
  <2>1. DOMAIN r = {"reuses"} /\ "reuses" \notin DOMAIN Contract!Report(a)
    BY <1>4, <1>5, <1>6
  <2>2. /\ DOMAIN f = {"reuses"} \cup DOMAIN Contract!Report(a) /\ f["reuses"] = r["reuses"]
        /\ \A j \in DOMAIN Contract!Report(a) : f[j] = Contract!Report(a)[j]
    BY <2>1 DEF Contract!Merge
  <2>. HIDE DEF f
  <2>3. QED
    BY <1>4, <1>5, <1>6, <2>2
<1>8. /\ DOMAIN g = {"reuses"} \cup Contract!Flags /\ g["reuses"] = all
      /\ \A k \in Contract!Flags : g[k] = Contract!Leaf("bool")
  <2>1. DOMAIN q = {"reuses"} /\ "reuses" \notin DOMAIN bools
    BY <1>4, <1>6
  <2>2. /\ DOMAIN g = {"reuses"} \cup DOMAIN bools /\ g["reuses"] = q["reuses"]
        /\ \A j \in DOMAIN bools : g[j] = bools[j]
    BY <2>1 DEF Contract!Merge
  <2>. HIDE DEF g
  <2>3. QED
    BY <1>4, <1>6, <2>2
<1>. HIDE DEF f, g
<1>9. DOMAIN f \subseteq Keys /\ DOMAIN f # {} /\ "token_count" \notin DOMAIN f
  BY <1>4, <1>7, KeyGroups DEF InterleavingKeys
<1>10. \A k \in DOMAIN f : Shaped(f[k], g[k])
  BY <1>1, <1>5, <1>7, <1>8
<1>11. QED
  BY <1>3, <1>7, <1>8, <1>9, <1>10, ObjShaped

LEMMA InterleavingValid ==
    ASSUME NEW ans, Taken(ans)
    PROVE  ValidPart(Contract!Measured(ans)["interleaving_isolation"],
                              Contract!Interleaving)
<1>. DEFINE h == [s \in Contract!BothSlots |-> Contract!CompletionCase(ans[<<"baselines", s>>])]
            all == Contract!All(Contract!BothSlots, Contract!Case)
            b == [baselines |-> Contract!Obj(h)]
            r == [d \in Contract!DirectionNames |-> Contract!DirectionReport(ans, d)]
            f == Contract!Merge(b, r)
            g == [baselines |-> all, slot_0_cancelled_first |-> Contract!Direction,
                  slot_1_cancelled_first |-> Contract!Direction]
<1>1. Shaped(Contract!Obj(h), all)
  BY SlotsShaped
<1>2. \A d \in Contract!DirectionNames : Shaped(r[d], Contract!Direction)
  BY DirectionShaped
<1>3. /\ Contract!Measured(ans)["interleaving_isolation"] = Contract!Obj(f)
      /\ Contract!Interleaving = Contract!Obj(g)
  BY DEF Contract!Measured, Contract!Interleaving
<1>4. /\ DOMAIN b = {"baselines"} /\ b["baselines"] = Contract!Obj(h)
      /\ DOMAIN r = Contract!DirectionNames
  OBVIOUS
<1>. HIDE DEF h, all, b, r
<1>5. "baselines" \notin Contract!DirectionNames /\ "token_count" \notin Contract!DirectionNames
  BY DEF Contract!DirectionNames
<1>6. /\ DOMAIN f = {"baselines"} \cup Contract!DirectionNames /\ f["baselines"] = Contract!Obj(h)
      /\ \A d \in Contract!DirectionNames : f[d] = r[d]
  <2>1. DOMAIN b = {"baselines"} /\ "baselines" \notin DOMAIN r
    BY <1>4, <1>5
  <2>2. /\ DOMAIN f = {"baselines"} \cup DOMAIN r /\ f["baselines"] = b["baselines"]
        /\ \A j \in DOMAIN r : f[j] = r[j]
    BY <2>1 DEF Contract!Merge
  <2>. HIDE DEF f
  <2>3. QED
    BY <1>4, <1>5, <2>2
<1>7. /\ DOMAIN g = {"baselines"} \cup Contract!DirectionNames /\ g["baselines"] = all
      /\ \A d \in Contract!DirectionNames : g[d] = Contract!Direction
  BY DEF Contract!DirectionNames
<1>. HIDE DEF f, g
<1>8. DOMAIN f \subseteq Keys /\ DOMAIN f # {} /\ "token_count" \notin DOMAIN f
  BY <1>5, <1>6, KeyGroups DEF InterleavingKeys
<1>9. \A k \in DOMAIN f : Shaped(f[k], g[k])
  BY <1>1, <1>2, <1>6, <1>7
<1>10. QED
  BY <1>3, <1>6, <1>7, <1>8, <1>9, ObjValid

LEMMA MergeLeft ==
    ASSUME NEW f, IsFields(f), NEW g, IsFields(g), NEW k \in DOMAIN f
    PROVE  /\ IsFields(Contract!Merge(f, g)) /\ k \in DOMAIN Contract!Merge(f, g)
           /\ Contract!Merge(f, g)[k] = f[k]
BY DEF IsFields, Contract!Merge

LEMMA MergeRight ==
    ASSUME NEW f, IsFields(f), NEW g, IsFields(g), NEW k \in DOMAIN g, k \notin DOMAIN f
    PROVE  /\ IsFields(Contract!Merge(f, g)) /\ k \in DOMAIN Contract!Merge(f, g)
           /\ Contract!Merge(f, g)[k] = g[k]
BY DEF IsFields, Contract!Merge

(* What the invariants say of the numbers of the save lane.                 *)
LEMMA SavedMeans ==
    ASSUME NEW d, LET f == Contract!SaveRestoreInvariants(d) IN
                  \A k \in SaveRestoreNames : f[k] = Contract!Leaf(Contract!True)
    PROVE  /\ d[<<"saved_tokens">>].n > 0
           /\ d[<<"same_process", "restored_tokens">>] = d[<<"saved_tokens">>]
           /\ d[<<"after_restart", "restored_tokens">>] = d[<<"saved_tokens">>]
           /\ d[<<"slot_state_before_restart", "bytes">>].n > 0
           /\ Contract!Inner(d, "slot_state_before_restart")
                = Contract!Inner(d, "slot_state_after_restart")
<1>. DEFINE f == Contract!SaveRestoreInvariants(d)
<1>1. ASSUME NEW b \in BOOLEAN, Contract!Leaf(Contract!Bool(b)) = Contract!Leaf(Contract!True)
      PROVE  b
  <2>1. Contract!Bool(b) = Contract!True
    <3>1. /\ Contract!Leaf(Contract!Bool(b))[<<>>] = Contract!Bool(b)
          /\ Contract!Leaf(Contract!True)[<<>>] = Contract!True
      BY LeafFacts
    <3>2. QED
      BY <1>1, <3>1
  <2>2. QED
    BY <2>1 DEF Contract!Bool, Contract!True, Contract!Value
<1>. DEFINE saved == d[<<"saved_tokens">>].n > 0
            same == d[<<"same_process", "restored_tokens">>] = d[<<"saved_tokens">>]
            restart == d[<<"after_restart", "restored_tokens">>] = d[<<"saved_tokens">>]
            bytes == d[<<"slot_state_before_restart", "bytes">>].n > 0
            unchanged == Contract!Inner(d, "slot_state_before_restart")
                           = Contract!Inner(d, "slot_state_after_restart")
<1>2. /\ f["save_reports_positive_tokens"] = Contract!Leaf(Contract!Bool(saved))
      /\ f["same_process_restore_count_matches_save"] = Contract!Leaf(Contract!Bool(same))
      /\ f["restart_restore_count_matches_save"] = Contract!Leaf(Contract!Bool(restart))
      /\ f["slot_state_file_nonempty"] = Contract!Leaf(Contract!Bool(bytes))
      /\ f["slot_state_file_unchanged_across_restart"] = Contract!Leaf(Contract!Bool(unchanged))
  BY DEF Contract!SaveRestoreInvariants, Contract!Judged
<1>3. /\ f["save_reports_positive_tokens"] = Contract!Leaf(Contract!True)
      /\ f["same_process_restore_count_matches_save"] = Contract!Leaf(Contract!True)
      /\ f["restart_restore_count_matches_save"] = Contract!Leaf(Contract!True)
      /\ f["slot_state_file_nonempty"] = Contract!Leaf(Contract!True)
      /\ f["slot_state_file_unchanged_across_restart"] = Contract!Leaf(Contract!True)
  BY DEF SaveRestoreNames
<1>4. saved \in BOOLEAN /\ same \in BOOLEAN /\ restart \in BOOLEAN /\ bytes \in BOOLEAN
      /\ unchanged \in BOOLEAN
  OBVIOUS
<1>. HIDE DEF f, saved, same, restart, bytes, unchanged
<1>5. saved /\ same /\ restart /\ bytes /\ unchanged
  <2>1. /\ Contract!Leaf(Contract!Bool(saved)) = Contract!Leaf(Contract!True)
        /\ Contract!Leaf(Contract!Bool(same)) = Contract!Leaf(Contract!True)
        /\ Contract!Leaf(Contract!Bool(restart)) = Contract!Leaf(Contract!True)
        /\ Contract!Leaf(Contract!Bool(bytes)) = Contract!Leaf(Contract!True)
        /\ Contract!Leaf(Contract!Bool(unchanged)) = Contract!Leaf(Contract!True)
    BY <1>2, <1>3
  <2>2. QED
    BY <1>1, <1>4, <2>1
<1>6. QED
  BY <1>5 DEF saved, same, restart, bytes, unchanged

(* A lane of which all invariants hold has those of the save lane.          *)
LEMMA PassedIsSaved ==
    ASSUME NEW lane, Contract!Passed(Contract!Invariants(lane, 3))
    PROVE  LET f == Contract!SaveRestoreInvariants(lane["save_restore"]) IN
           \A k \in SaveRestoreNames : f[k] = Contract!Leaf(Contract!True)
<1>. DEFINE c == Contract!CacheInvariants(lane.cache_pairing)
            e == Contract!CancellationInvariants(lane.cancellation_reuse)
            s == Contract!SaveRestoreInvariants(lane.save_restore)
            i == Contract!InterleavingInvariants(lane.interleaving_isolation)
            t == Contract!TokenPrefixInvariants(lane.token_prefix_divergence, Contract!Registered)
            es == Contract!Merge(e, s)
            oldest == Contract!Merge(c, es)
            second == Contract!Merge(oldest, i)
            third == Contract!Merge(second, t)
<1>1. Contract!Invariants(lane, 3) = Contract!Obj(third)
  BY DEF Contract!Invariants
<1>2. AreFlags(c, CacheNames) /\ AreFlags(e, CancellationNames) /\ AreFlags(s, SaveRestoreNames)
  BY CacheFlags, CancellationFlags, SaveRestoreFlags
<1>3. IsFields(c) /\ IsFields(e) /\ IsFields(s) /\ IsFields(i) /\ IsFields(t)
  BY LaneInvariantsFields
<1>. HIDE DEF c, e, s, i, t
<1>4. ASSUME NEW k \in SaveRestoreNames
      PROVE  IsFields(third) /\ k \in DOMAIN third /\ third[k] = s[k]
  <2>1. k \in DOMAIN s /\ k \notin DOMAIN c /\ k \notin DOMAIN e
    BY <1>2 DEF AreFlags, SaveRestoreNames, CacheNames, CancellationNames
  <2>2. IsFields(es) /\ k \in DOMAIN es /\ es[k] = s[k]
    BY <1>3, <2>1, MergeRight
  <2>. HIDE DEF es
  <2>3. IsFields(oldest) /\ k \in DOMAIN oldest /\ oldest[k] = es[k]
    BY <1>3, <2>1, <2>2, MergeRight
  <2>. HIDE DEF oldest
  <2>4. IsFields(second) /\ k \in DOMAIN second /\ second[k] = oldest[k]
    BY <1>3, <2>3, MergeLeft
  <2>. HIDE DEF second
  <2>5. IsFields(third) /\ k \in DOMAIN third /\ third[k] = second[k]
    BY <1>3, <2>4, MergeLeft
  <2>6. QED
    BY <2>2, <2>3, <2>4, <2>5
<1>. HIDE DEF third
<1>5. ASSUME NEW k \in SaveRestoreNames PROVE s[k] = Contract!Leaf(Contract!True)
  <2>1. PICK x : s[k] = Contract!Leaf(x)
    BY <1>2 DEF AreFlags
  <2>2. <<k>> \in DOMAIN Contract!Obj(third) /\ Contract!Obj(third)[<<k>>] = x
    BY <1>4, <2>1, LeafOfObj
  <2>3. x = Contract!True
    BY <1>1, <2>2 DEF Contract!Passed
  <2>4. QED
    BY <2>1, <2>3
<1>6. QED
  BY <1>5 DEF s

LEMMA InnerOfObj ==
    ASSUME NEW f, IsFields(f), NEW k \in DOMAIN f
    PROVE  Contract!Inner(Contract!Obj(f), k) = [p \in DOMAIN f[k] |-> f[k][p]]
<1>. DEFINE d == Contract!Obj(f)
            paths == {Tail(p) : p \in {q \in DOMAIN d : Head(q) = k}}
<1>1. ASSUME NEW p \in DOMAIN f[k] PROVE p \in paths /\ d[<<k>> \o p] = f[k][p]
  <2>1. <<k>> \o p \in DOMAIN d /\ d[<<k>> \o p] = f[k][p]
    BY ObjAt
  <2>2. Head(<<k>> \o p) = k /\ Tail(<<k>> \o p) = p
    BY PathByKey DEF IsFields
  <2>. HIDE DEF d
  <2>. DEFINE q == <<k>> \o p
  <2>3. q \in DOMAIN d /\ Head(q) = k /\ Tail(q) = p
    BY <2>1, <2>2
  <2>. HIDE DEF q
  <2>4. p \in paths
    BY <2>3
  <2>5. QED
    BY <2>1, <2>4
<1>2. ASSUME NEW p \in paths PROVE p \in DOMAIN f[k]
  <2>1. PICK q \in DOMAIN d : Head(q) = k /\ Tail(q) = p
    OBVIOUS
  <2>2. q \in DOMAIN Contract!Obj(f)
    BY <2>1
  <2>3. PICK j \in DOMAIN f : \E r \in DOMAIN f[j] :
                q = <<j>> \o r /\ Contract!Obj(f)[q] = f[j][r]
    BY <2>2, ObjOnly
  <2>4. PICK r \in DOMAIN f[j] : q = <<j>> \o r
    BY <2>3
  <2>5. Head(q) = j /\ Tail(q) = r
    BY <2>4, PathByKey DEF IsFields
  <2>6. QED
    BY <2>1, <2>5
<1>3. Contract!Inner(d, k) = [p \in paths |-> d[<<k>> \o p]]
  BY DEF Contract!Inner
<1>. HIDE DEF d, paths
<1>4. paths = DOMAIN f[k]
  BY <1>1, <1>2
<1>5. \A p \in DOMAIN f[k] : d[<<k>> \o p] = f[k][p]
  BY <1>1
<1>6. Contract!Inner(d, k) = [p \in DOMAIN f[k] |-> f[k][p]]
  BY <1>3, <1>4, <1>5
<1>7. QED
  BY <1>6 DEF d

(* A leaf two keys deep.                                                    *)
LEMMA LeafBelow ==
    ASSUME NEW f, IsFields(f), NEW k \in DOMAIN f, NEW g, IsFields(g), f[k] = Contract!Obj(g),
           NEW j \in DOMAIN g, NEW x, g[j] = Contract!Leaf(x)
    PROVE  <<k, j>> \in DOMAIN Contract!Obj(f) /\ Contract!Obj(f)[<<k, j>>] = x
<1>1. <<j>> \in DOMAIN f[k] /\ f[k][<<j>>] = x
  BY LeafOfObj
<1>2. <<k>> \o <<j>> \in DOMAIN Contract!Obj(f) /\ Contract!Obj(f)[<<k>> \o <<j>>] = x
  BY <1>1, ObjAt
<1>3. <<k>> \o <<j>> = <<k, j>>
  <2>. DEFINE q == <<k>> \o <<j>>
              r == <<k, j>>
  <2>1. k \in Keys /\ j \in Keys
    BY DEF IsFields
  <2>2. <<j>> \in Seq(Keys) /\ Len(<<j>>) = 1 /\ <<j>>[1] = j
    BY <2>1
  <2>3. /\ q \in Seq(Keys) /\ Len(q) = Len(<<j>>) + 1 /\ q[1] = k
        /\ \A i \in 1 .. Len(<<j>>) : q[i + 1] = <<j>>[i]
    BY <2>1, <2>2, PathByKey
  <2>. HIDE DEF q
  <2>4. Len(q) = 2 /\ q[2] = j
    <3>1. 1 \in 1 .. Len(<<j>>) /\ 1 + 1 = 2
      BY <2>2
    <3>2. q[1 + 1] = <<j>>[1]
      BY <2>3, <3>1
    <3>3. QED
      BY <2>2, <2>3, <3>1, <3>2
  <2>5. r \in Seq(Keys) /\ Len(r) = 2 /\ r[1] = k /\ r[2] = j
    BY <2>1
  <2>. HIDE DEF r
  <2>6. \A i \in 1 .. Len(q) : q[i] = r[i]
    BY <2>3, <2>4, <2>5
  <2>7. q = r
    BY <2>3, <2>4, <2>5, <2>6, SeqEqual
  <2>8. QED
    BY <2>7 DEF q, r
<1>4. QED
  BY <1>2, <1>3

(* The numbers of the save lane.                                            *)
LEMMA SaveNumbers ==
    ASSUME NEW ans, Taken(ans)
    PROVE  /\ ans[<<"save">>]["n"] \in Nat
           /\ ans[<<"restore", "same_process">>]["n"] \in Nat
           /\ ans[<<"restore", "after_restart">>]["n"] \in Nat
           /\ ans[<<"state", "before">>]["bytes"] \in Nat
           /\ ans[<<"state", "after">>]["bytes"] \in Nat
<1>1. ASSUME NEW c \in Contract!CountCalls PROVE ans[c]["n"] \in Nat
  <2>1. /\ c \notin Contract!CompletionCalls /\ c \notin Contract!PrefillCalls
        /\ c # <<"stream">> /\ c \notin Contract!StreamCalls
    BY DEF Contract!CountCalls, Contract!CompletionCalls, Contract!PrefillCalls,
           Contract!StreamCalls, Contract!DirectionNames, Contract!TokenNames
  <2>2. FieldsOf(c) = {"n"} /\ c \in Contract!Calls
    BY <2>1 DEF FieldsOf, Contract!Calls
  <2>3. "n" \in DOMAIN ans[c]
    BY <2>2 DEF Taken
  <2>4. QED
    BY <2>2, <2>3 DEF Taken
<1>2. ASSUME NEW c \in Contract!FileReads PROVE ans[c]["bytes"] \in Nat
  <2>1. /\ c \notin Contract!CompletionCalls /\ c \notin Contract!PrefillCalls
        /\ c # <<"stream">> /\ c \notin Contract!StreamCalls /\ c \notin Contract!CountCalls
    BY DEF Contract!FileReads, Contract!CountCalls, Contract!CompletionCalls,
           Contract!PrefillCalls, Contract!StreamCalls, Contract!DirectionNames,
           Contract!TokenNames
  <2>2. FieldsOf(c) = {"bytes", "sha"} /\ c \in Contract!Calls
    BY <2>1 DEF FieldsOf, Contract!Calls
  <2>3. "bytes" \in DOMAIN ans[c]
    BY <2>2 DEF Taken
  <2>4. QED
    BY <2>2, <2>3 DEF Taken
<1>3. /\ <<"save">> \in Contract!CountCalls /\ <<"restore", "same_process">> \in Contract!CountCalls
      /\ <<"restore", "after_restart">> \in Contract!CountCalls
      /\ <<"state", "before">> \in Contract!FileReads /\ <<"state", "after">> \in Contract!FileReads
  BY DEF Contract!CountCalls, Contract!FileReads
<1>4. QED
  BY <1>1, <1>2, <1>3

LEMMA FileStateShaped ==
    ASSUME NEW a, a["bytes"] \in Nat
    PROVE  /\ \E g : /\ IsFields(g) /\ Contract!FileState(a) = Contract!Obj(g)
                     /\ "bytes" \in DOMAIN g /\ g["bytes"] = Contract!Leaf(Contract!Number(a.bytes))
           /\ a["bytes"] > 0 => Shaped(Contract!FileState(a), Contract!SlotState)
<1>. DEFINE x == Contract!Number(a.bytes)
            y == Contract!Sha(a.sha)
            f == [bytes |-> Contract!Leaf(x), sha256 |-> Contract!Leaf(y)]
            g == [bytes |-> Contract!Leaf("pos"), sha256 |-> Contract!Leaf("sha")]
<1>1. /\ DOMAIN f = {"bytes", "sha256"} /\ DOMAIN g = {"bytes", "sha256"}
      /\ f["bytes"] = Contract!Leaf(x) /\ f["sha256"] = Contract!Leaf(y)
      /\ g["bytes"] = Contract!Leaf("pos") /\ g["sha256"] = Contract!Leaf("sha")
  OBVIOUS
<1>2. Contract!FileState(a) = Contract!Obj(f) /\ Contract!SlotState = Contract!Obj(g)
  BY DEF Contract!FileState, Contract!SlotState
<1>. HIDE DEF f, g
<1>3. DOMAIN f \subseteq Keys /\ "token_count" \notin DOMAIN f
  BY <1>1, KeyGroups DEF SaveKeys
<1>4. IsFields(f) /\ "bytes" \in DOMAIN f
  BY <1>1, <1>3, LeafFields
<1>5. ASSUME a["bytes"] > 0 PROVE Shaped(Contract!Obj(f), Contract!Obj(g))
  <2>1. Contract!Fits(x, "pos") /\ Contract!Fits(y, "sha")
    BY <1>5, FitsFacts
  <2>. HIDE DEF x, y
  <2>2. \A k \in DOMAIN f : \E v, type : /\ f[k] = Contract!Leaf(v) /\ g[k] = Contract!Leaf(type)
                                         /\ Contract!Fits(v, type)
    BY <1>1, <2>1
  <2>3. QED
    BY <1>1, <1>3, <2>2, LeavesShaped
<1>6. QED
  BY <1>1, <1>2, <1>4, <1>5

LEMMA RestoreShaped ==
    ASSUME NEW ans, Taken(ans), NEW n \in {"same_process", "after_restart"},
           ans[<<"restore", n>>]["n"] \in Nat
    PROVE  /\ \E g : /\ IsFields(g) /\ Contract!RestoreReport(ans, n) = Contract!Obj(g)
                     /\ "restored_tokens" \in DOMAIN g
                     /\ g["restored_tokens"]
                          = Contract!Leaf(Contract!Number(ans[<<"restore", n>>]["n"]))
           /\ ans[<<"restore", n>>]["n"] > 0 =>
                 Shaped(Contract!RestoreReport(ans, n), Contract!Restored)
<1>. DEFINE m == ans[<<"restore", n>>].n
            x == Contract!Number(m)
            c == Contract!CompletionCase(ans[<<"save_restore", n>>])
            f == [restored |-> c, restored_tokens |-> Contract!Leaf(x)]
            g == [restored |-> Contract!Case, restored_tokens |-> Contract!Leaf("pos")]
<1>1. /\ DOMAIN f = {"restored", "restored_tokens"} /\ DOMAIN g = {"restored", "restored_tokens"}
      /\ f["restored"] = c /\ f["restored_tokens"] = Contract!Leaf(x)
      /\ g["restored"] = Contract!Case /\ g["restored_tokens"] = Contract!Leaf("pos")
  OBVIOUS
<1>2. Contract!RestoreReport(ans, n) = Contract!Obj(f) /\ Contract!Restored = Contract!Obj(g)
  BY DEF Contract!RestoreReport, Contract!Restored
<1>3. Shaped(c, Contract!Case)
  <2>1. <<"save_restore", n>> \in Contract!CompletionCalls
    BY DEF Contract!CompletionCalls
  <2>2. QED
    BY <2>1, CompletionCaseShaped
<1>. HIDE DEF f, g, c
<1>4. DOMAIN f \subseteq Keys /\ "token_count" \notin DOMAIN f
  BY <1>1, KeyGroups DEF SaveKeys
<1>5. IsFields(f) /\ "restored_tokens" \in DOMAIN f
  <2>1. DOMAIN f["restored"] \subseteq Seq(Keys) /\ DOMAIN f["restored_tokens"] \subseteq Seq(Keys)
    BY <1>1, <1>3, LeafFacts DEF Shaped
  <2>2. QED
    BY <1>1, <1>4, <2>1 DEF IsFields
<1>6. ASSUME m > 0 PROVE Shaped(Contract!Obj(f), Contract!Obj(g))
  <2>1. Contract!Fits(x, "pos")
    BY <1>6, FitsFacts
  <2>2. Shaped(Contract!Leaf(x), Contract!Leaf("pos"))
    BY <2>1, LeafShaped
  <2>. HIDE DEF x
  <2>3. \A k \in DOMAIN f : Shaped(f[k], g[k])
    BY <1>1, <1>3, <2>2
  <2>4. QED
    BY <1>1, <1>4, <2>3, ObjShaped
<1>7. QED
  BY <1>1, <1>2, <1>5, <1>6

LEMMA SaveRestoreValid ==
    ASSUME NEW ans, Taken(ans), Contract!Passed(Contract!Invariants(Contract!Measured(ans), 3))
    PROVE  ValidPart(Contract!Measured(ans)["save_restore"], Contract!SaveRestore)
<1>. DEFINE d == Contract!Measured(ans)["save_restore"]
            saved == ans[<<"save">>].n
            same == ans[<<"restore", "same_process">>].n
            restart == ans[<<"restore", "after_restart">>].n
            before == ans[<<"state", "before">>]
            after == ans[<<"state", "after">>]
            source == Contract!CompletionCase(ans[<<"save_restore", "source">>])
            sameReport == Contract!RestoreReport(ans, "same_process")
            restartReport == Contract!RestoreReport(ans, "after_restart")
            f == [saved_tokens |-> Contract!Leaf(Contract!Number(saved)),
                  source |-> source, same_process |-> sameReport, after_restart |-> restartReport,
                  slot_state_before_restart |-> Contract!FileState(before),
                  slot_state_after_restart |-> Contract!FileState(after),
                  process_restart_confirmed |-> Contract!Leaf(Contract!True)]
            g == [after_restart |-> Contract!Restored, same_process |-> Contract!Restored,
                  process_restart_confirmed |-> Contract!Leaf("bool"),
                  saved_tokens |-> Contract!Leaf("pos"), source |-> Contract!Case,
                  slot_state_after_restart |-> Contract!SlotState,
                  slot_state_before_restart |-> Contract!SlotState]
            names == {"saved_tokens", "source", "same_process", "after_restart",
                      "slot_state_before_restart", "slot_state_after_restart",
                      "process_restart_confirmed"}
<1>1. /\ saved \in Nat /\ same \in Nat /\ restart \in Nat
      /\ before["bytes"] \in Nat /\ after["bytes"] \in Nat
  BY SaveNumbers
<1>2. /\ d[<<"saved_tokens">>].n > 0
      /\ d[<<"same_process", "restored_tokens">>] = d[<<"saved_tokens">>]
      /\ d[<<"after_restart", "restored_tokens">>] = d[<<"saved_tokens">>]
      /\ d[<<"slot_state_before_restart", "bytes">>].n > 0
      /\ Contract!Inner(d, "slot_state_before_restart")
           = Contract!Inner(d, "slot_state_after_restart")
  <2>1. LET h == Contract!SaveRestoreInvariants(d) IN
        \A k \in SaveRestoreNames : h[k] = Contract!Leaf(Contract!True)
    BY PassedIsSaved
  <2>. HIDE DEF d
  <2>2. QED
    BY <2>1, SavedMeans
<1>3. Shaped(source, Contract!Case)
  <2>1. <<"save_restore", "source">> \in Contract!CompletionCalls
    BY DEF Contract!CompletionCalls
  <2>2. QED
    BY <2>1, CompletionCaseShaped
<1>4. d = Contract!Obj(f) /\ Contract!SaveRestore = Contract!Obj(g)
  BY DEF Contract!Measured, Contract!SaveRestore
<1>5. /\ DOMAIN f = names /\ DOMAIN g = names
      /\ f["saved_tokens"] = Contract!Leaf(Contract!Number(saved)) /\ f["source"] = source
      /\ f["same_process"] = sameReport /\ f["after_restart"] = restartReport
      /\ f["slot_state_before_restart"] = Contract!FileState(before)
      /\ f["slot_state_after_restart"] = Contract!FileState(after)
      /\ f["process_restart_confirmed"] = Contract!Leaf(Contract!True)
  OBVIOUS
<1>6. /\ g["saved_tokens"] = Contract!Leaf("pos") /\ g["source"] = Contract!Case
      /\ g["same_process"] = Contract!Restored /\ g["after_restart"] = Contract!Restored
      /\ g["slot_state_before_restart"] = Contract!SlotState
      /\ g["slot_state_after_restart"] = Contract!SlotState
      /\ g["process_restart_confirmed"] = Contract!Leaf("bool")
  OBVIOUS
<1>. HIDE DEF d, f, g, source
<1>7. PICK a : /\ IsFields(a) /\ sameReport = Contract!Obj(a) /\ "restored_tokens" \in DOMAIN a
               /\ a["restored_tokens"] = Contract!Leaf(Contract!Number(same))
  BY <1>1, RestoreShaped
<1>8. PICK b : /\ IsFields(b) /\ restartReport = Contract!Obj(b) /\ "restored_tokens" \in DOMAIN b
               /\ b["restored_tokens"] = Contract!Leaf(Contract!Number(restart))
  BY <1>1, RestoreShaped
<1>9. PICK u : /\ IsFields(u) /\ Contract!FileState(before) = Contract!Obj(u)
               /\ "bytes" \in DOMAIN u
               /\ u["bytes"] = Contract!Leaf(Contract!Number(before["bytes"]))
  BY <1>1, FileStateShaped
<1>10. PICK w : /\ IsFields(w) /\ Contract!FileState(after) = Contract!Obj(w)
                /\ "bytes" \in DOMAIN w
                /\ w["bytes"] = Contract!Leaf(Contract!Number(after["bytes"]))
  BY <1>1, FileStateShaped
<1>. HIDE DEF saved, same, restart, before, after, sameReport, restartReport
<1>11. names \subseteq Keys /\ "token_count" \notin names
  BY KeyGroups DEF SaveKeys
<1>12. IsFields(f)
  <2>1. /\ DOMAIN Contract!Obj(a) \subseteq Seq(Keys) /\ DOMAIN Contract!Obj(b) \subseteq Seq(Keys)
        /\ DOMAIN Contract!Obj(u) \subseteq Seq(Keys) /\ DOMAIN Contract!Obj(w) \subseteq Seq(Keys)
    BY <1>7, <1>8, <1>9, <1>10, ObjOnly
  <2>2. /\ DOMAIN f["saved_tokens"] \subseteq Seq(Keys) /\ DOMAIN f["source"] \subseteq Seq(Keys)
        /\ DOMAIN f["process_restart_confirmed"] \subseteq Seq(Keys)
    BY <1>3, <1>5, LeafFacts DEF Shaped
  <2>3. ASSUME NEW k \in names PROVE DOMAIN f[k] \subseteq Seq(Keys)
    BY <1>5, <1>7, <1>8, <1>9, <1>10, <2>1, <2>2
  <2>4. QED
    BY <1>5, <1>11, <2>3 DEF IsFields
<1>13. /\ d[<<"saved_tokens">>] = Contract!Number(saved)
       /\ d[<<"same_process", "restored_tokens">>] = Contract!Number(same)
       /\ d[<<"after_restart", "restored_tokens">>] = Contract!Number(restart)
       /\ d[<<"slot_state_before_restart", "bytes">>] = Contract!Number(before["bytes"])
  <2>1. d[<<"saved_tokens">>] = Contract!Number(saved)
    BY <1>4, <1>5, <1>12, LeafOfObj
  <2>2. d[<<"same_process", "restored_tokens">>] = Contract!Number(same)
    BY <1>4, <1>5, <1>7, <1>12, LeafBelow
  <2>3. d[<<"after_restart", "restored_tokens">>] = Contract!Number(restart)
    BY <1>4, <1>5, <1>8, <1>12, LeafBelow
  <2>4. d[<<"slot_state_before_restart", "bytes">>] = Contract!Number(before["bytes"])
    BY <1>4, <1>5, <1>9, <1>12, LeafBelow
  <2>5. QED
    BY <2>1, <2>2, <2>3, <2>4
<1>14. saved > 0 /\ same > 0 /\ restart > 0 /\ before["bytes"] > 0
  BY <1>2, <1>13 DEF Contract!Number, Contract!Value
<1>15. after["bytes"] = before["bytes"]
  <2>. DEFINE k == "slot_state_before_restart"
              j == "slot_state_after_restart"
  <2>1. k \in DOMAIN f /\ j \in DOMAIN f /\ f[k] = Contract!Obj(u) /\ f[j] = Contract!Obj(w)
    BY <1>5, <1>9, <1>10
  <2>2. /\ Contract!Inner(d, k) = [p \in DOMAIN f[k] |-> f[k][p]]
        /\ Contract!Inner(d, j) = [p \in DOMAIN f[j] |-> f[j][p]]
    <3>. HIDE DEF k, j
    <3>1. QED
      BY <1>4, <1>12, <2>1, InnerOfObj
  <2>. DEFINE q == <<"bytes">>
  <2>3. /\ q \in DOMAIN f[k] /\ f[k][q] = Contract!Number(before["bytes"])
        /\ q \in DOMAIN f[j] /\ f[j][q] = Contract!Number(after["bytes"])
    <3>1. /\ <<"bytes">> \in DOMAIN Contract!Obj(u)
          /\ Contract!Obj(u)[<<"bytes">>] = Contract!Number(before["bytes"])
      BY <1>9, LeafOfObj
    <3>2. /\ <<"bytes">> \in DOMAIN Contract!Obj(w)
          /\ Contract!Obj(w)[<<"bytes">>] = Contract!Number(after["bytes"])
      BY <1>10, LeafOfObj
    <3>3. QED
      BY <2>1, <3>1, <3>2
  <2>. HIDE DEF q
  <2>4. Contract!Inner(d, k) = Contract!Inner(d, j)
    BY <1>2
  <2>. HIDE DEF k, j
  <2>5. Contract!Inner(d, k)[q] = f[k][q] /\ Contract!Inner(d, j)[q] = f[j][q]
    BY <2>2, <2>3
  <2>6. Contract!Number(before["bytes"]) = Contract!Number(after["bytes"])
    BY <2>3, <2>4, <2>5
  <2>7. QED
    BY <2>6 DEF Contract!Number, Contract!Value
<1>16. /\ Shaped(f["saved_tokens"], g["saved_tokens"])
       /\ Shaped(f["process_restart_confirmed"], g["process_restart_confirmed"])
  <2>1. Contract!Fits(Contract!Number(saved), "pos")
    BY <1>1, <1>14, FitsFacts
  <2>2. Contract!Fits(Contract!True, "bool")
    BY FitsFacts DEF Contract!True
  <2>3. QED
    BY <1>5, <1>6, <2>1, <2>2, LeafShaped
<1>17. Shaped(sameReport, Contract!Restored) /\ Shaped(restartReport, Contract!Restored)
  BY <1>1, <1>14, RestoreShaped DEF same, restart, sameReport, restartReport
<1>18. /\ Shaped(Contract!FileState(before), Contract!SlotState)
       /\ Shaped(Contract!FileState(after), Contract!SlotState)
  BY <1>1, <1>14, <1>15, FileStateShaped
<1>19. \A k \in names : Shaped(f[k], g[k])
  <2>1. /\ Shaped(f["saved_tokens"], g["saved_tokens"])
        /\ Shaped(f["process_restart_confirmed"], g["process_restart_confirmed"])
        /\ Shaped(f["source"], g["source"])
        /\ Shaped(f["same_process"], g["same_process"])
        /\ Shaped(f["after_restart"], g["after_restart"])
        /\ Shaped(f["slot_state_before_restart"], g["slot_state_before_restart"])
        /\ Shaped(f["slot_state_after_restart"], g["slot_state_after_restart"])
    <3>1. Shaped(f["source"], g["source"])
      BY <1>3, <1>5, <1>6
    <3>2. Shaped(f["same_process"], g["same_process"]) /\ Shaped(f["after_restart"], g["after_restart"])
      BY <1>5, <1>6, <1>17
    <3>3. /\ Shaped(f["slot_state_before_restart"], g["slot_state_before_restart"])
          /\ Shaped(f["slot_state_after_restart"], g["slot_state_after_restart"])
      BY <1>5, <1>6, <1>18
    <3>4. QED
      BY <1>16, <3>1, <3>2, <3>3
  <2>2. QED
    BY <2>1
<1>20. QED
  <2>1. "source" \in names
    OBVIOUS
  <2>. HIDE DEF names
  <2>2. /\ DOMAIN f = DOMAIN g /\ DOMAIN f \subseteq Keys /\ DOMAIN f # {}
        /\ "token_count" \notin DOMAIN f
        /\ \A k \in DOMAIN f : Shaped(f[k], g[k])
    BY <1>5, <1>11, <1>19, <2>1
  <2>3. ValidPart(Contract!Obj(f), Contract!Obj(g))
    BY <2>2, ObjValid
  <2>4. QED
    BY <1>4, <2>3 DEF d

LEMMA SameAsItself == ASSUME NEW d PROVE Contract!SameObject(d, d)
BY DEF Contract!SameObject, Contract!Equal

(* The parts that no answer of the server reaches have leaves.              *)
LEMMA FixedHaveLeaves ==
    /\ DOMAIN Contract!Fixture # {} /\ DOMAIN Contract!Transport # {}
    /\ \A v \in Contract!Versions :
          /\ DOMAIN Contract!Producer(v) # {} /\ DOMAIN Contract!Registration(v) # {}
          /\ \A platform : DOMAIN Contract!Runtime(v, platform) # {}
          /\ \A lane : DOMAIN Contract!Invariants(lane, v) # {}
<1>1. DOMAIN Contract!Fixture # {}
  <2>1. \A f : "model_sha256" \in DOMAIN f /\ (\E x : f["model_sha256"] = Contract!Leaf(x))
                  => DOMAIN Contract!Obj(f) # {}
    BY LeafFacts, ObjHasLeaf
  <2>2. QED
    BY <2>1 DEF Contract!Fixture
<1>2. DOMAIN Contract!Transport # {}
  <2>1. \A f : "endpoint" \in DOMAIN f /\ (\E x : f["endpoint"] = Contract!Leaf(x))
                  => DOMAIN Contract!Obj(f) # {}
    BY LeafFacts, ObjHasLeaf
  <2>2. QED
    BY <2>1 DEF Contract!Transport
<1>3. ASSUME NEW v \in Contract!Versions
      PROVE  /\ DOMAIN Contract!Producer(v) # {} /\ DOMAIN Contract!Registration(v) # {}
             /\ \A platform : DOMAIN Contract!Runtime(v, platform) # {}
  BY LeavesOfVersion, RuntimeFields
<1>4. ASSUME NEW v \in Contract!Versions, NEW lane
      PROVE  DOMAIN Contract!Invariants(lane, v) # {}
  <2>1. PICK f : /\ IsFields(f) /\ Contract!Invariants(lane, v) = Contract!Obj(f)
                 /\ \E x : "cache_slots_idle" \in DOMAIN f /\ f["cache_slots_idle"] = Contract!Leaf(x)
    BY InvariantsByVersion
  <2>2. DOMAIN Contract!Obj(f) # {}
    BY <2>1, LeafFacts, ObjHasLeaf
  <2>3. QED
    BY <2>1, <2>2
<1>5. QED
  BY <1>1, <1>2, <1>3, <1>4

LEMMA BoundaryValid ==
    LET b == Contract!All(Contract!BoundaryKeys, Contract!Leaf(Contract!Bool(FALSE))) IN
    Contract!ValidBoundary(b) /\ DOMAIN b # {}
<1>. DEFINE x == Contract!Bool(FALSE)
            f == [k \in Contract!BoundaryKeys |-> Contract!Leaf(x)]
<1>1. Contract!All(Contract!BoundaryKeys, Contract!Leaf(x)) = Contract!Obj(f)
  BY DEF Contract!All
<1>. HIDE DEF x
<1>2. DOMAIN f = Contract!BoundaryKeys /\ \A k \in DOMAIN f : f[k] = Contract!Leaf(x)
  OBVIOUS
<1>. HIDE DEF f
<1>3. IsFields(f)
  BY <1>2, KeyGroups, LeafFields
<1>4. \A k \in Contract!BoundaryKeys :
          <<k>> \in DOMAIN Contract!Obj(f) /\ Contract!Obj(f)[<<k>>] = x
  BY <1>2, <1>3, LeafOfObj
<1>5. ASSUME NEW q \in DOMAIN Contract!Obj(f)
      PROVE  \E k \in Contract!BoundaryKeys : q = <<k>>
  <2>1. PICK k \in DOMAIN f : \E p \in DOMAIN f[k] :
                q = <<k>> \o p /\ Contract!Obj(f)[q] = f[k][p]
    BY <1>3, ObjOnly
  <2>2. PICK p \in DOMAIN f[k] : q = <<k>> \o p
    BY <2>1
  <2>3. p = <<>> /\ k \in Keys
    BY <1>2, <1>3, LeafFacts DEF IsFields
  <2>4. q = <<k>>
    BY <2>2, <2>3, PathOfOne
  <2>5. QED
    BY <1>2, <2>4
<1>6. DOMAIN Contract!Obj(f) = {<<k>> : k \in Contract!BoundaryKeys}
  BY <1>4, <1>5
<1>7. \A q \in DOMAIN Contract!Obj(f) : Contract!Obj(f)[q] = x
  BY <1>4, <1>5
<1>8. "ports_included" \in Contract!BoundaryKeys
  BY DEF Contract!BoundaryKeys
<1>9. QED
  BY <1>1, <1>4, <1>6, <1>7, <1>8 DEF x, Contract!ValidBoundary

(* The document of a run whose invariants hold is one that the validator    *)
(* accepts.                                                                 *)
LEMMA ReturnedIsValid ==
    ASSUME NEW ans, Taken(ans),
           Contract!Passed(Contract!Document(Contract!Measured(ans), Contract!Current)["invariants"])
    PROVE  Contract!Valid(Contract!Document(Contract!Measured(ans), Contract!Current))
<1>. DEFINE lane == Contract!Measured(ans)
            p == Contract!Current
            d == Contract!Document(lane, p)
<1>1. /\ p["schema"] = 3 /\ p["producer"] = 3 /\ p["registration"] = 3 /\ p["runtime"] = 3
      /\ p["invariants"] = 3 /\ p["lanes"] = 3
  BY DEF Contract!Current, Contract!Parts
<1>2. /\ DOMAIN d = FixedParts \cup Contract!LanesOf(3)
      /\ d["boundary"] = Contract!All(Contract!BoundaryKeys, Contract!Leaf(Contract!Bool(FALSE)))
      /\ d["fixture"] = Contract!Fixture
      /\ d["producer"] = Contract!Producer(3)
      /\ d["registration"] = Contract!Registration(3)
      /\ d["runtime"] = Contract!Runtime(3, Contract!Text(20))
      /\ d["schema"] = Contract!Leaf(Contract!Text(3))
      /\ d["source_revision"] = Contract!Leaf(Contract!Text(30))
      /\ d["transport"] = Contract!Transport
      /\ d["invariants"] = Contract!Invariants(lane, 3)
  <2>1. DOMAIN d = FixedParts \cup Contract!LanesOf(p["lanes"])
    BY DocumentParts
  <2>2. /\ d["boundary"] = Contract!All(Contract!BoundaryKeys, Contract!Leaf(Contract!Bool(FALSE)))
        /\ d["fixture"] = Contract!Fixture
        /\ d["source_revision"] = Contract!Leaf(Contract!Text(30))
        /\ d["transport"] = Contract!Transport
    BY DocumentParts
  <2>3. /\ d["producer"] = Contract!Producer(p["producer"])
        /\ d["registration"] = Contract!Registration(p["registration"])
        /\ d["runtime"] = Contract!Runtime(p["runtime"], Contract!Text(20))
        /\ d["schema"] = Contract!Leaf(Contract!Text(p["schema"]))
        /\ d["invariants"] = Contract!Invariants(lane, p["invariants"])
    BY DocumentParts
  <2>. HIDE DEF d, lane, p
  <2>4. QED
    BY <1>1, <2>1, <2>2, <2>3
<1>3. ASSUME NEW l \in Contract!LanesOf(3) PROVE d[l] = lane[l]
  BY <1>1, DocumentLanes
<1>4. Contract!LanesOf(3) = LaneNames /\ 3 \in Contract!Versions
  BY DEF Contract!LanesOf, LaneNames, Contract!Versions
<1>5. Contract!Passed(Contract!Invariants(lane, 3))
  BY <1>2
<1>6. ASSUME NEW l \in LaneNames PROVE ValidPart(lane[l], Contract!Shape[l])
  <2>1. /\ Contract!Shape["cache_pairing"] = Contract!CachePairing
        /\ Contract!Shape["cancellation_reuse"] = Contract!Cancellation
        /\ Contract!Shape["interleaving_isolation"] = Contract!Interleaving
        /\ Contract!Shape["token_prefix_divergence"] = Contract!TokenPrefix
        /\ Contract!Shape["save_restore"] = Contract!SaveRestore
    BY DEF Contract!Shape
  <2>2. /\ ValidPart(lane["cache_pairing"], Contract!CachePairing)
        /\ ValidPart(lane["cancellation_reuse"], Contract!Cancellation)
        /\ ValidPart(lane["interleaving_isolation"], Contract!Interleaving)
        /\ ValidPart(lane["token_prefix_divergence"], Contract!TokenPrefix)
        /\ ValidPart(lane["save_restore"], Contract!SaveRestore)
    BY <1>5, CachePairingValid, CancellationValid, InterleavingValid, TokenPrefixValid,
       SaveRestoreValid
  <2>. HIDE DEF lane
  <2>3. QED
    BY <2>1, <2>2 DEF LaneNames
<1>7. Contract!Invariants(d, 3) = Contract!Invariants(lane, 3)
  <2>1. /\ d["cache_pairing"] = lane["cache_pairing"]
        /\ d["cancellation_reuse"] = lane["cancellation_reuse"]
        /\ d["save_restore"] = lane["save_restore"]
        /\ d["interleaving_isolation"] = lane["interleaving_isolation"]
        /\ d["token_prefix_divergence"] = lane["token_prefix_divergence"]
    BY <1>3, <1>4 DEF LaneNames
  <2>. HIDE DEF d, lane
  <2>2. QED
    BY <2>1 DEF Contract!Invariants
<1>. HIDE DEF d, lane, p
<1>8. Contract!Keys(d) = Contract!TopKeys(3)
  <2>1. DOMAIN d = Contract!TopKeys(3)
    BY <1>2 DEF FixedParts, Contract!TopKeys
  <2>2. \A l \in LaneNames : DOMAIN d[l] # {}
    BY <1>3, <1>4, <1>6 DEF ValidPart
  <2>3. /\ DOMAIN d["boundary"] # {} /\ DOMAIN d["fixture"] # {} /\ DOMAIN d["producer"] # {}
        /\ DOMAIN d["registration"] # {} /\ DOMAIN d["runtime"] # {} /\ DOMAIN d["schema"] # {}
        /\ DOMAIN d["source_revision"] # {} /\ DOMAIN d["transport"] # {}
        /\ DOMAIN d["invariants"] # {}
    <3>1. /\ DOMAIN Contract!Producer(3) # {} /\ DOMAIN Contract!Registration(3) # {}
          /\ DOMAIN Contract!Runtime(3, Contract!Text(20)) # {}
          /\ DOMAIN Contract!Invariants(lane, 3) # {}
      BY <1>4, FixedHaveLeaves
    <3>2. /\ DOMAIN d["boundary"] # {} /\ DOMAIN d["fixture"] # {} /\ DOMAIN d["transport"] # {}
      BY <1>2, BoundaryValid, FixedHaveLeaves
    <3>3. DOMAIN d["schema"] # {} /\ DOMAIN d["source_revision"] # {}
      BY <1>2, LeafFacts
    <3>4. QED
      BY <1>2, <3>1, <3>2, <3>3
  <2>4. \A k \in FixedParts : DOMAIN d[k] # {}
    BY <2>3 DEF FixedParts
  <2>5. \A k \in DOMAIN d : DOMAIN d[k] # {}
    BY <1>2, <1>4, <2>2, <2>4
  <2>6. QED
    BY <2>1, <2>5 DEF Contract!Keys
<1>9. Contract!ValidRuntime(d, 3)
  <2>1. d["runtime"][<<"asset_platform">>] = Contract!Text(20)
    <3>1. \A v \in Contract!Versions : \A platform :
              Contract!Runtime(v, platform)[<<"asset_platform">>] = platform
      BY RuntimeFields
    <3>2. QED
      BY <1>2, <1>4, <3>1
  <2>2. Contract!ExpectedRuntime(d, 3) = d["runtime"]
    BY <1>2, <2>1 DEF Contract!ExpectedRuntime
  <2>3. QED
    BY <1>2, <2>1, <2>2, SameAsItself DEF Contract!ValidRuntime, Contract!Platforms
<1>10. Contract!ValidInvariants(d, 3)
  <2>1. \A q \in DOMAIN d["invariants"] : d["invariants"][q] = Contract!True
    BY <1>2, <1>5 DEF Contract!Passed
  <2>2. Contract!True.type = "bool"
    BY DEF Contract!True, Contract!Bool, Contract!Value
  <2>3. QED
    BY <1>2, <1>5, <1>7, <2>1, <2>2 DEF Contract!ValidInvariants
<1>11. \A l \in Contract!LanesOf(3) : Contract!ValidLane(d[l], Contract!Shape[l])
  BY <1>3, <1>4, <1>6 DEF ValidPart
<1>12. /\ Contract!SameObject(d["producer"], Contract!Producer(3))
       /\ Contract!SameObject(d["registration"], Contract!Registration(3))
       /\ Contract!SameObject(d["fixture"], Contract!Fixture)
       /\ Contract!SameObject(d["transport"], Contract!Transport)
  BY <1>2, SameAsItself
<1>13. Contract!ValidBoundary(d["boundary"])
  BY <1>2, BoundaryValid
<1>14. d["source_revision"] \in Contract!Revisions
  BY <1>2 DEF Contract!Revisions
<1>15. Contract!Valid(d)
  BY <1>2, <1>4, <1>8, <1>9, <1>10, <1>11, <1>12, <1>13, <1>14 DEF Contract!Valid
<1>16. QED
  BY <1>15 DEF d, lane, p

-----------------------------------------------------------------------------
(* A changed leaf is noticed: paths of leaves                               *)

(* The paths of the leaves of a completion and its slot.                    *)
CasePaths ==
    {<<"completion", f>> : f \in CompletionKeys} \cup {<<"idle_slot", f>> : f \in {"idle", "prompt_work"}}

PrefillPaths ==
    {<<"prefill", f>> : f \in PrefillKeys} \cup {<<"idle_slot", f>> : f \in {"idle", "prompt_work"}}

LEMMA TwoKeys ==
    ASSUME NEW a \in Keys, NEW b \in Keys
    PROVE  <<a, b>> = <<a>> \o <<b>> /\ <<a, b>> \in Seq(Keys)
<1>1. /\ <<a>> \in Seq(Keys) /\ <<b>> \in Seq(Keys) /\ Len(<<a>>) = 1 /\ Len(<<b>>) = 1
      /\ <<a, b>> \in Seq(Keys) /\ Len(<<a, b>>) = 2
      /\ <<a>>[1] = a /\ <<b>>[1] = b /\ <<a, b>>[1] = a /\ <<a, b>>[2] = b
  OBVIOUS
<1>. DEFINE s == <<a>> \o <<b>>
            t == <<a, b>>
<1>2. /\ s \in Seq(Keys) /\ Len(s) = 2
      /\ \A i \in 1 .. 2 : s[i] = IF i <= 1 THEN <<a>>[i] ELSE <<b>>[i - 1]
  BY <1>1, ConcatProperties
<1>. HIDE DEF s
<1>3. \A i \in 1 .. 2 : s[i] = t[i]
  BY <1>1, <1>2
<1>. HIDE DEF t
<1>4. s = t
  <2>1. t \in Seq(Keys) /\ Len(t) = 2
    BY <1>1 DEF t
  <2>2. QED
    BY <1>2, <1>3, <2>1, SeqEqual
<1>5. QED
  BY <1>1, <1>4 DEF s, t

LEMMA ThreeKeys ==
    ASSUME NEW a \in Keys, NEW b \in Keys, NEW c \in Keys
    PROVE  <<a, b, c>> = <<a>> \o <<b, c>> /\ <<a, b, c>> \in Seq(Keys)
<1>1. /\ <<a>> \in Seq(Keys) /\ <<b, c>> \in Seq(Keys) /\ Len(<<a>>) = 1 /\ Len(<<b, c>>) = 2
      /\ <<a, b, c>> \in Seq(Keys) /\ Len(<<a, b, c>>) = 3
      /\ <<a>>[1] = a /\ <<b, c>>[1] = b /\ <<b, c>>[2] = c
      /\ <<a, b, c>>[1] = a /\ <<a, b, c>>[2] = b /\ <<a, b, c>>[3] = c
  OBVIOUS
<1>. DEFINE s == <<a>> \o <<b, c>>
            t == <<a, b, c>>
<1>2. /\ s \in Seq(Keys) /\ Len(s) = 3
      /\ \A i \in 1 .. 3 : s[i] = IF i <= 1 THEN <<a>>[i] ELSE <<b, c>>[i - 1]
  BY <1>1, ConcatProperties
<1>. HIDE DEF s
<1>3. \A i \in 1 .. 3 : s[i] = t[i]
  BY <1>1, <1>2
<1>. HIDE DEF t
<1>4. s = t
  <2>1. t \in Seq(Keys) /\ Len(t) = 3
    BY <1>1 DEF t
  <2>2. QED
    BY <1>2, <1>3, <2>1, SeqEqual
<1>5. QED
  BY <1>1, <1>4 DEF s, t

(* A path below two or three keys, key by key.                              *)
LEMMA BelowKeys ==
    ASSUME NEW a \in Keys, NEW b \in Keys, NEW c \in Keys, NEW r \in Seq(Keys)
    PROVE  /\ <<a>> \o r \in Seq(Keys) /\ <<a, b>> \o r \in Seq(Keys) /\ <<a, b, c>> \o r \in Seq(Keys)
           /\ <<a, b>> \o r = <<a>> \o (<<b>> \o r)
           /\ <<a, b, c>> \o r = <<a>> \o (<<b>> \o (<<c>> \o r))
<1>1. <<a>> \in Seq(Keys) /\ <<b>> \in Seq(Keys) /\ <<c>> \in Seq(Keys) /\ <<b, c>> \in Seq(Keys)
  OBVIOUS
<1>2. <<a, b>> = <<a>> \o <<b>> /\ <<b, c>> = <<b>> \o <<c>> /\ <<a, b, c>> = <<a>> \o <<b, c>>
      /\ <<a, b>> \in Seq(Keys) /\ <<a, b, c>> \in Seq(Keys)
  BY TwoKeys, ThreeKeys
<1>3. (<<a>> \o <<b>>) \o r = <<a>> \o (<<b>> \o r)
  BY <1>1, ConcatAssociative
<1>4. (<<b>> \o <<c>>) \o r = <<b>> \o (<<c>> \o r)
  BY <1>1, ConcatAssociative
<1>5. (<<a>> \o <<b, c>>) \o r = <<a>> \o (<<b, c>> \o r)
  BY <1>1, ConcatAssociative
<1>6. <<a>> \o r \in Seq(Keys) /\ <<a, b>> \o r \in Seq(Keys) /\ <<a, b, c>> \o r \in Seq(Keys)
  BY <1>1, <1>2, ConcatProperties
<1>7. QED
  BY <1>2, <1>3, <1>4, <1>5, <1>6

(* The last key of a path, and its first.                                   *)
LEMMA EndOfPath ==
    ASSUME NEW P \in Seq(Keys), NEW a \in Keys, NEW b \in Keys
    PROVE  P \o <<a, b>> \in Seq(Keys) /\ Contract!Last(P \o <<a, b>>) = b
<1>1. <<a, b>> \in Seq(Keys) /\ Len(<<a, b>>) = 2 /\ <<a, b>>[2] = b /\ Len(P) \in Nat
  <2>1. Len(P) \in Nat
    BY LenProperties
  <2>2. <<a, b>> \in Seq(Keys) /\ Len(<<a, b>>) = 2 /\ <<a, b>>[2] = b
    OBVIOUS
  <2>3. QED
    BY <2>1, <2>2
<1>. DEFINE s == P \o <<a, b>>
<1>2. /\ s \in Seq(Keys) /\ Len(s) = Len(P) + 2
      /\ \A i \in 1 .. Len(P) + 2 : s[i] = IF i <= Len(P) THEN P[i] ELSE <<a, b>>[i - Len(P)]
  BY <1>1, ConcatProperties
<1>. HIDE DEF s
<1>3. s[Len(P) + 2] = <<a, b>>[2]
  <2>1. Len(P) + 2 \in 1 .. Len(P) + 2 /\ ~(Len(P) + 2 <= Len(P)) /\ (Len(P) + 2) - Len(P) = 2
    BY <1>1
  <2>2. QED
    BY <1>2, <2>1
<1>4. Contract!Last(s) = b
  BY <1>1, <1>2, <1>3 DEF Contract!Last
<1>5. QED
  BY <1>2, <1>4 DEF s

(* Paths that differ where they begin, or where they end, are different.    *)
LEMMA DifferentPaths ==
    ASSUME NEW P \in Seq(Keys), NEW Q \in Seq(Keys), NEW r \in Seq(Keys)
    PROVE  /\ P # Q => P \o r # Q \o r
           /\ P # Q => r \o P # r \o Q
BY ConcatSimplifications

LEMMA CasePathsAreKeys == CasePaths \subseteq Seq(Keys) /\ PrefillPaths \subseteq Seq(Keys)
<1>1. /\ "completion" \in Keys /\ "idle_slot" \in Keys /\ "prefill" \in Keys /\ "idle" \in Keys
      /\ "prompt_work" \in Keys
  BY KeyGroups DEF CaseKeys
<1>2. CompletionKeys \subseteq Keys /\ PrefillKeys \subseteq Keys
  BY KeyGroups
<1>3. \A a, b \in Keys : <<a, b>> \in Seq(Keys)
  BY TwoKeys
<1>4. /\ \A f \in CompletionKeys : <<"completion", f>> \in Seq(Keys)
      /\ \A f \in PrefillKeys : <<"prefill", f>> \in Seq(Keys)
      /\ \A f \in {"idle", "prompt_work"} : <<"idle_slot", f>> \in Seq(Keys)
  BY <1>1, <1>2, <1>3
<1>5. QED
  BY <1>4 DEF CasePaths, PrefillPaths

-----------------------------------------------------------------------------
(* What one changed leaf leaves alone                                       *)

(* e is d but for the leaf p.                                               *)
OneLeaf(d, e, p) == p \in DOMAIN d /\ \A q \in DOMAIN d : q # p => e[q] = d[q]

(* What the invariants say of a completion at P: its result is the one at Q,*)
(* and its work is told twice.                                              *)
TiedCase(d, P, Q) ==
    /\ Contract!SameResult(d, P, Q)
    /\ Contract!ViewsAgree(d, P)
    /\ d[P \o <<"completion", "prompt_work">>].type = "int"
    /\ d[P \o <<"idle_slot", "prompt_work">>].type = "int"

LEMMA CaseNoticed ==
    ASSUME NEW d, NEW e, NEW P \in Seq(Keys), NEW Q \in Seq(Keys), P # Q, NEW r \in CasePaths,
           \A x \in CasePaths : P \o x \in DOMAIN d /\ Q \o x \in DOMAIN d,
           OneLeaf(d, e, P \o r), TiedCase(d, P, Q), TiedCase(e, P, Q),
           r # <<"completion", "response_cached_tokens">>, r # <<"idle_slot", "idle">>
    PROVE  Contract!Equal(d[P \o r], e[P \o r])
<1>1. r \in Seq(Keys)
  BY CasePathsAreKeys
<1>. DEFINE results == {"content_sha256", "tokens_sha256", "content_bytes", "predicted_tokens",
                        "token_count"}
            work == <<"completion", "prompt_work">>
            slot == <<"idle_slot", "prompt_work">>
<1>2. (\E f \in results : r = <<"completion", f>>) \/ r = work \/ r = slot
  BY DEF CasePaths, CompletionKeys
<1>3. ASSUME NEW f \in results, r = <<"completion", f>>
      PROVE  d[P \o r] = e[P \o r]
  <2>1. d[P \o r] = d[Q \o r] /\ e[P \o r] = e[Q \o r]
    BY <1>3 DEF TiedCase, Contract!SameResult
  <2>2. Q \o r # P \o r
    BY <1>1, DifferentPaths
  <2>3. e[Q \o r] = d[Q \o r]
    BY <2>2 DEF OneLeaf
  <2>4. QED
    BY <2>1, <2>3
<1>4. work \in CasePaths /\ slot \in CasePaths /\ work # slot
  BY DEF CasePaths, CompletionKeys
<1>5. P \o work # P \o slot
  BY <1>4, CasePathsAreKeys, DifferentPaths
<1>6. /\ d[P \o work].n = d[P \o slot].n /\ e[P \o work].n = e[P \o slot].n
      /\ d[P \o work].type = "int" /\ e[P \o work].type = "int"
      /\ d[P \o slot].type = "int" /\ e[P \o slot].type = "int"
  BY DEF TiedCase, Contract!ViewsAgree, Contract!ResponseWork, Contract!SlotWork
<1>7. CASE r = work
  <2>1. e[P \o slot] = d[P \o slot]
    BY <1>4, <1>5, <1>7 DEF OneLeaf
  <2>2. QED
    BY <1>6, <1>7, <2>1 DEF Contract!Equal, Contract!Numeric
<1>8. CASE r = slot
  <2>1. e[P \o work] = d[P \o work]
    BY <1>4, <1>5, <1>8 DEF OneLeaf
  <2>2. QED
    BY <1>6, <1>8, <2>1 DEF Contract!Equal, Contract!Numeric
<1>9. QED
  BY <1>2, <1>3, <1>7, <1>8 DEF Contract!Equal

-----------------------------------------------------------------------------
(* The leaves of the measured parts                                         *)

LEMMA LeafPaths ==
    ASSUME NEW f, DOMAIN f \subseteq Keys, \A k \in DOMAIN f : \E x : f[k] = Contract!Leaf(x)
    PROVE  /\ IsFields(f)
           /\ DOMAIN Contract!Obj(f) = {<<k>> : k \in DOMAIN f}
           /\ \A k \in DOMAIN f : f[k] = Contract!Leaf(Contract!Obj(f)[<<k>>])
<1>1. IsFields(f)
  BY LeafFields
<1>2. ASSUME NEW k \in DOMAIN f
      PROVE  <<k>> \in DOMAIN Contract!Obj(f) /\ f[k] = Contract!Leaf(Contract!Obj(f)[<<k>>])
  <2>1. PICK x : f[k] = Contract!Leaf(x)
    OBVIOUS
  <2>2. QED
    BY <1>1, <2>1, LeafOfObj
<1>3. ASSUME NEW q \in DOMAIN Contract!Obj(f) PROVE \E k \in DOMAIN f : q = <<k>>
  <2>1. PICK k \in DOMAIN f : \E p \in DOMAIN f[k] : q = <<k>> \o p
    BY <1>1, ObjOnly
  <2>2. PICK p \in DOMAIN f[k] : q = <<k>> \o p
    BY <2>1
  <2>3. p = <<>> /\ k \in Keys
    BY LeafFacts
  <2>4. q = <<k>>
    BY <2>2, <2>3, PathOfOne
  <2>5. QED
    BY <2>4
<1>4. DOMAIN Contract!Obj(f) = {<<k>> : k \in DOMAIN f}
  BY <1>2, <1>3
<1>5. QED
  BY <1>1, <1>2, <1>4

(* Fields of one shape each.                                                *)
LEMMA AllPaths ==
    ASSUME NEW names, names \subseteq Keys, NEW x, DOMAIN x \subseteq Seq(Keys)
    PROVE  /\ DOMAIN Contract!All(names, x) \subseteq Seq(Keys)
           /\ \A p \in DOMAIN Contract!All(names, x) : \E k \in names : \E r \in DOMAIN x : p = <<k>> \o r
           /\ \A k \in names : \A r \in DOMAIN x :
                 /\ <<k>> \o r \in DOMAIN Contract!All(names, x)
                 /\ Contract!All(names, x)[<<k>> \o r] = x[r]
<1>. DEFINE f == [k \in names |-> x]
<1>1. Contract!All(names, x) = Contract!Obj(f)
  BY DEF Contract!All
<1>2. DOMAIN f = names /\ \A k \in names : f[k] = x
  OBVIOUS
<1>. HIDE DEF f
<1>3. IsFields(f)
  BY <1>2 DEF IsFields
<1>4. ASSUME NEW p \in DOMAIN Contract!Obj(f)
      PROVE  p \in Seq(Keys) /\ \E k \in names : \E r \in DOMAIN x : p = <<k>> \o r
  <2>1. /\ p \in Seq(Keys)
        /\ \E k \in DOMAIN f : \E r \in DOMAIN f[k] :
              p = <<k>> \o r /\ Contract!Obj(f)[p] = f[k][r]
    BY <1>3, ObjOnly, Zenon
  <2>2. PICK k \in DOMAIN f : \E r \in DOMAIN f[k] : p = <<k>> \o r
    BY <2>1
  <2>3. QED
    BY <1>2, <2>1, <2>2
<1>5. \A k \in names : \A r \in DOMAIN x :
          <<k>> \o r \in DOMAIN Contract!Obj(f) /\ Contract!Obj(f)[<<k>> \o r] = x[r]
  <2>. SUFFICES ASSUME NEW k \in names, NEW r \in DOMAIN x
                PROVE  /\ <<k>> \o r \in DOMAIN Contract!Obj(f)
                       /\ Contract!Obj(f)[<<k>> \o r] = x[r]
    OBVIOUS
  <2>1. k \in DOMAIN f /\ r \in DOMAIN f[k] /\ f[k] = x
    BY <1>2
  <2>2. QED
    BY <1>3, <2>1, ObjAt
<1>6. QED
  BY <1>1, <1>4, <1>5

LEMMA IdleSlotPaths ==
    /\ DOMAIN Contract!IdleSlot = {<<"idle">>, <<"prompt_work">>}
    /\ Contract!IdleSlot[<<"prompt_work">>] = "nat"
<1>. DEFINE f == [idle |-> Contract!Leaf("bool"), prompt_work |-> Contract!Leaf("nat")]
<1>1. Contract!IdleSlot = Contract!Obj(f)
  BY DEF Contract!IdleSlot
<1>2. /\ DOMAIN f = {"idle", "prompt_work"} /\ f["prompt_work"] = Contract!Leaf("nat")
      /\ f["idle"] = Contract!Leaf("bool")
  OBVIOUS
<1>. HIDE DEF f
<1>3. DOMAIN f \subseteq Keys /\ \A k \in DOMAIN f : \E x : f[k] = Contract!Leaf(x)
  BY <1>2, KeyGroups DEF CaseKeys
<1>4. DOMAIN Contract!Obj(f) = {<<k>> : k \in DOMAIN f} /\ IsFields(f)
  BY <1>3, LeafPaths
<1>5. Contract!Obj(f)[<<"prompt_work">>] = "nat"
  BY <1>2, <1>4, LeafOfObj
<1>6. QED
  BY <1>1, <1>2, <1>4, <1>5

LEMMA CompletionPaths ==
    /\ DOMAIN Contract!Completion = {<<f>> : f \in CompletionKeys}
    /\ Contract!Completion[<<"prompt_work">>] = "nat"
<1>. DEFINE f == [content_bytes |-> Contract!Leaf("nat"), content_sha256 |-> Contract!Leaf("sha"),
                  predicted_tokens |-> Contract!Leaf("pos"), prompt_work |-> Contract!Leaf("nat"),
                  response_cached_tokens |-> Contract!Leaf("nat"),
                  token_count |-> Contract!Leaf("pos"), tokens_sha256 |-> Contract!Leaf("sha")]
<1>1. Contract!Completion = Contract!Obj(f)
  BY DEF Contract!Completion
<1>2. /\ DOMAIN f = CompletionKeys /\ f["prompt_work"] = Contract!Leaf("nat")
      /\ \A k \in DOMAIN f : \E x : f[k] = Contract!Leaf(x)
  BY DEF CompletionKeys
<1>3. "prompt_work" \in CompletionKeys
  BY DEF CompletionKeys
<1>. HIDE DEF f
<1>4. DOMAIN Contract!Obj(f) = {<<k>> : k \in DOMAIN f} /\ IsFields(f)
  BY <1>2, KeyGroups, LeafPaths
<1>5. Contract!Obj(f)[<<"prompt_work">>] = "nat"
  BY <1>2, <1>3, <1>4, LeafOfObj
<1>6. QED
  BY <1>1, <1>2, <1>4, <1>5

LEMMA ValuesPaths ==
    LET x == Contract!All({"cache_tokens", "predicted_tokens", "prompt_tokens", "prompt_work"},
                          Contract!Leaf("nat"))
    IN  DOMAIN x = {<<f>> : f \in PrefillKeys} /\ \A f \in PrefillKeys : x[<<f>>] = "nat"
<1>. DEFINE f == [k \in {"cache_tokens", "predicted_tokens", "prompt_tokens", "prompt_work"} |->
                     Contract!Leaf("nat")]
<1>1. Contract!All({"cache_tokens", "predicted_tokens", "prompt_tokens", "prompt_work"},
                   Contract!Leaf("nat")) = Contract!Obj(f)
  BY DEF Contract!All
<1>2. /\ DOMAIN f = PrefillKeys /\ \A k \in PrefillKeys : f[k] = Contract!Leaf("nat")
  BY DEF PrefillKeys
<1>. HIDE DEF f
<1>3. DOMAIN Contract!Obj(f) = {<<k>> : k \in DOMAIN f} /\ IsFields(f)
  BY <1>2, KeyGroups, LeafPaths
<1>4. \A k \in PrefillKeys : Contract!Obj(f)[<<k>>] = "nat"
  BY <1>2, <1>3, LeafOfObj
<1>5. QED
  BY <1>1, <1>2, <1>3, <1>4

(* An object with a slot beside the numbers of a call.                      *)
LEMMA PairPaths ==
    ASSUME NEW f, NEW n \in {"completion", "prefill"}, DOMAIN f = {n, "idle_slot"},
           f["idle_slot"] = Contract!IdleSlot,
           NEW keys, keys \subseteq Keys, DOMAIN f[n] = {<<k>> : k \in keys}
    PROVE  /\ IsFields(f)
           /\ DOMAIN Contract!Obj(f)
                = {<<n, k>> : k \in keys} \cup {<<"idle_slot", k>> : k \in {"idle", "prompt_work"}}
           /\ \A k \in keys : Contract!Obj(f)[<<n, k>>] = f[n][<<k>>]
           /\ Contract!Obj(f)[<<"idle_slot", "prompt_work">>] = "nat"
<1>1. n \in Keys /\ "idle_slot" \in Keys /\ "idle" \in Keys /\ "prompt_work" \in Keys
  BY KeyGroups DEF CaseKeys
<1>2. /\ DOMAIN f["idle_slot"] = {<<k>> : k \in {"idle", "prompt_work"}}
      /\ f["idle_slot"][<<"prompt_work">>] = "nat"
  BY IdleSlotPaths
<1>3. \A k \in Keys : <<k>> \in Seq(Keys)
  OBVIOUS
<1>4. IsFields(f)
  <2>1. DOMAIN f \subseteq Keys
    BY <1>1
  <2>2. \A k \in keys \cup {"idle", "prompt_work"} : <<k>> \in Seq(Keys)
    BY <1>1, <1>3
  <2>3. DOMAIN f[n] \subseteq Seq(Keys) /\ DOMAIN f["idle_slot"] \subseteq Seq(Keys)
    BY <1>2, <2>2
  <2>4. QED
    BY <2>1, <2>3 DEF IsFields
<1>5. ASSUME NEW a \in DOMAIN f, NEW k \in Keys, <<k>> \in DOMAIN f[a]
      PROVE  <<a, k>> \in DOMAIN Contract!Obj(f) /\ Contract!Obj(f)[<<a, k>>] = f[a][<<k>>]
  <2>1. <<a>> \o <<k>> = <<a, k>>
    <3>1. a \in Keys
      BY <1>1
    <3>2. QED
      BY <3>1, TwoKeys
  <2>2. <<a>> \o <<k>> \in DOMAIN Contract!Obj(f) /\ Contract!Obj(f)[<<a>> \o <<k>>] = f[a][<<k>>]
    BY <1>4, <1>5, ObjAt
  <2>3. QED
    BY <2>1, <2>2
<1>6. ASSUME NEW q \in DOMAIN Contract!Obj(f)
      PROVE  (\E k \in keys : q = <<n, k>>) \/ (\E k \in {"idle", "prompt_work"} : q = <<"idle_slot", k>>)
  <2>1. PICK a \in DOMAIN f : \E p \in DOMAIN f[a] :
                q = <<a>> \o p /\ Contract!Obj(f)[q] = f[a][p]
    BY <1>4, ObjOnly
  <2>2. PICK p \in DOMAIN f[a] : q = <<a>> \o p
    BY <2>1
  <2>3. CASE a = n
    <3>1. PICK k \in keys : p = <<k>>
      BY <2>2, <2>3
    <3>2. q = <<n, k>>
      BY <1>1, <2>2, <2>3, <3>1, TwoKeys
    <3>3. QED
      BY <3>2
  <2>4. CASE a = "idle_slot"
    <3>1. PICK k \in {"idle", "prompt_work"} : p = <<k>>
      BY <1>2, <2>2, <2>4
    <3>2. q = <<"idle_slot", k>>
      BY <1>1, <2>2, <2>4, <3>1, TwoKeys
    <3>3. QED
      BY <3>2
  <2>5. QED
    BY <2>3, <2>4
<1>7. /\ \A k \in keys : <<n, k>> \in DOMAIN Contract!Obj(f)
                         /\ Contract!Obj(f)[<<n, k>>] = f[n][<<k>>]
  <2>1. \A k \in keys : k \in Keys /\ <<k>> \in DOMAIN f[n]
    OBVIOUS
  <2>2. QED
    BY <1>5, <2>1
<1>8. /\ \A k \in {"idle", "prompt_work"} : <<"idle_slot", k>> \in DOMAIN Contract!Obj(f)
      /\ Contract!Obj(f)[<<"idle_slot", "prompt_work">>] = "nat"
  <2>1. \A k \in {"idle", "prompt_work"} : k \in Keys /\ <<k>> \in DOMAIN f["idle_slot"]
    BY <1>1, <1>2
  <2>2. ASSUME NEW k \in {"idle", "prompt_work"}
        PROVE  /\ <<"idle_slot", k>> \in DOMAIN Contract!Obj(f)
               /\ Contract!Obj(f)[<<"idle_slot", k>>] = f["idle_slot"][<<k>>]
    <3>1. k \in Keys /\ <<k>> \in DOMAIN f["idle_slot"] /\ "idle_slot" \in DOMAIN f
      BY <2>1
    <3>2. QED
      BY <1>5, <3>1
  <2>3. QED
    BY <1>2, <2>2
<1>9. DOMAIN Contract!Obj(f)
        = {<<n, k>> : k \in keys} \cup {<<"idle_slot", k>> : k \in {"idle", "prompt_work"}}
  <2>. DEFINE dom == DOMAIN Contract!Obj(f)
              own == {<<n, k>> : k \in keys}
              idle == {<<"idle_slot", k>> : k \in {"idle", "prompt_work"}}
  <2>1. dom \subseteq own \cup idle
    BY <1>6
  <2>2. own \subseteq dom
    BY <1>7
  <2>3. idle \subseteq dom
    BY <1>8
  <2>. HIDE DEF dom, own, idle
  <2>4. dom = own \cup idle
    BY <2>1, <2>2, <2>3
  <2>5. QED
    BY <2>4 DEF dom, own, idle
<1>10. QED
  BY <1>4, <1>7, <1>8, <1>9

LEMMA CaseLeaves ==
    /\ DOMAIN Contract!Case = CasePaths
    /\ Contract!Case[<<"completion", "prompt_work">>] = "nat"
    /\ Contract!Case[<<"idle_slot", "prompt_work">>] = "nat"
<1>. DEFINE f == [completion |-> Contract!Completion, idle_slot |-> Contract!IdleSlot]
<1>1. Contract!Case = Contract!Obj(f)
  BY DEF Contract!Case
<1>2. /\ DOMAIN f = {"completion", "idle_slot"} /\ f["idle_slot"] = Contract!IdleSlot
      /\ f["completion"] = Contract!Completion
  OBVIOUS
<1>. HIDE DEF f
<1>3. DOMAIN f["completion"] = {<<k>> : k \in CompletionKeys}
  BY <1>2, CompletionPaths
<1>4. /\ DOMAIN Contract!Obj(f) = {<<"completion", k>> : k \in CompletionKeys}
                                    \cup {<<"idle_slot", k>> : k \in {"idle", "prompt_work"}}
      /\ \A k \in CompletionKeys : Contract!Obj(f)[<<"completion", k>>] = f["completion"][<<k>>]
      /\ Contract!Obj(f)[<<"idle_slot", "prompt_work">>] = "nat"
  BY <1>2, <1>3, KeyGroups, PairPaths
<1>5. "prompt_work" \in CompletionKeys
  BY DEF CompletionKeys
<1>6. Contract!Obj(f)[<<"completion", "prompt_work">>] = "nat"
  BY <1>2, <1>4, <1>5, CompletionPaths
<1>7. QED
  BY <1>1, <1>4, <1>6 DEF CasePaths

LEMMA PrefillLeaves ==
    /\ DOMAIN Contract!PrefillCase = PrefillPaths
    /\ \A f \in PrefillKeys : Contract!PrefillCase[<<"prefill", f>>] = "nat"
    /\ Contract!PrefillCase[<<"idle_slot", "prompt_work">>] = "nat"
<1>. DEFINE x == Contract!All({"cache_tokens", "predicted_tokens", "prompt_tokens", "prompt_work"},
                              Contract!Leaf("nat"))
            f == [idle_slot |-> Contract!IdleSlot, prefill |-> x]
<1>1. Contract!PrefillCase = Contract!Obj(f)
  BY DEF Contract!PrefillCase
<1>2. DOMAIN x = {<<k>> : k \in PrefillKeys} /\ \A k \in PrefillKeys : x[<<k>>] = "nat"
  BY ValuesPaths
<1>. HIDE DEF x
<1>3. /\ DOMAIN f = {"prefill", "idle_slot"} /\ f["idle_slot"] = Contract!IdleSlot /\ f["prefill"] = x
  OBVIOUS
<1>. HIDE DEF f
<1>4. DOMAIN f["prefill"] = {<<k>> : k \in PrefillKeys}
  BY <1>2, <1>3
<1>5. /\ DOMAIN Contract!Obj(f) = {<<"prefill", k>> : k \in PrefillKeys}
                                    \cup {<<"idle_slot", k>> : k \in {"idle", "prompt_work"}}
      /\ \A k \in PrefillKeys : Contract!Obj(f)[<<"prefill", k>>] = f["prefill"][<<k>>]
      /\ Contract!Obj(f)[<<"idle_slot", "prompt_work">>] = "nat"
  BY <1>3, <1>4, KeyGroups, PairPaths
<1>6. QED
  BY <1>1, <1>2, <1>3, <1>5 DEF PrefillPaths

-----------------------------------------------------------------------------
(* Every lane by its paths                                                  *)

(* An object of the given shape below each place.                           *)
ShapeAt(d, places, x) ==
    \A P \in places :
        /\ P \in Seq(Keys)
        /\ \A r \in DOMAIN x : P \o r \in DOMAIN d /\ d[P \o r] = x[r]

(* The paths below places.                                                  *)
LeavesAt(places, paths) == UNION {{P \o r : r \in paths} : P \in places}

LEMMA InLeaves ==
    ASSUME NEW places, NEW paths, NEW P \in places, NEW r \in paths
    PROVE  P \o r \in LeavesAt(places, paths)
BY DEF LeavesAt

LEMMA OfLeaves ==
    ASSUME NEW places, NEW paths, NEW q \in LeavesAt(places, paths)
    PROVE  \E P \in places : \E r \in paths : q = P \o r
BY DEF LeavesAt

(* A key further up.                                                        *)
LEMMA LeavesBelow ==
    ASSUME NEW k \in Keys, NEW places \in SUBSET Seq(Keys), NEW paths \in SUBSET Seq(Keys),
           NEW q \in LeavesAt(places, paths)
    PROVE  <<k>> \o q \in LeavesAt({<<k>> \o P : P \in places}, paths)
<1>1. PICK P \in places : \E r \in paths : q = P \o r
  BY OfLeaves
<1>2. PICK r \in paths : q = P \o r
  BY <1>1
<1>3. <<k>> \in Seq(Keys)
  OBVIOUS
<1>4. <<k>> \o q = (<<k>> \o P) \o r
  BY <1>2, <1>3, ConcatAssociative
<1>. DEFINE R == <<k>> \o P
            above == {<<k>> \o X : X \in places}
<1>5. R \in above
  OBVIOUS
<1>. HIDE DEF R, above
<1>6. R \o r \in LeavesAt(above, paths)
  BY <1>5, InLeaves
<1>7. QED
  BY <1>4, <1>6 DEF R, above

(* The field of an object.                                                  *)
LEMMA ShapeAtKey ==
    ASSUME NEW f, IsFields(f), NEW k \in DOMAIN f
    PROVE  ShapeAt(Contract!Obj(f), {<<k>>}, f[k])
<1>1. k \in Keys
  BY DEF IsFields
<1>2. <<k>> \in Seq(Keys)
  BY <1>1
<1>3. \A r \in DOMAIN f[k] : /\ <<k>> \o r \in DOMAIN Contract!Obj(f)
                              /\ Contract!Obj(f)[<<k>> \o r] = f[k][r]
  BY ObjAt
<1>4. QED
  BY <1>2, <1>3 DEF ShapeAt

(* What is below places of a field.                                         *)
LEMMA ShapeBelow ==
    ASSUME NEW f, IsFields(f), NEW k \in DOMAIN f, NEW places, NEW x, DOMAIN x \subseteq Seq(Keys),
           ShapeAt(f[k], places, x)
    PROVE  ShapeAt(Contract!Obj(f), {<<k>> \o P : P \in places}, x)
<1>1. k \in Keys
  BY DEF IsFields
<1>2. <<k>> \in Seq(Keys)
  BY <1>1
<1>. SUFFICES ASSUME NEW P \in places
              PROVE  /\ <<k>> \o P \in Seq(Keys)
                     /\ \A r \in DOMAIN x : /\ (<<k>> \o P) \o r \in DOMAIN Contract!Obj(f)
                                           /\ Contract!Obj(f)[(<<k>> \o P) \o r] = x[r]
  BY DEF ShapeAt
<1>3. P \in Seq(Keys) /\ \A r \in DOMAIN x : P \o r \in DOMAIN f[k] /\ f[k][P \o r] = x[r]
  BY DEF ShapeAt
<1>4. \A r \in DOMAIN x : (<<k>> \o P) \o r = <<k>> \o (P \o r)
  BY <1>2, <1>3, ConcatAssociative
<1>5. \A r \in DOMAIN x : /\ <<k>> \o (P \o r) \in DOMAIN Contract!Obj(f)
                        /\ Contract!Obj(f)[<<k>> \o (P \o r)] = f[k][P \o r]
  BY <1>3, ObjAt
<1>6. <<k>> \o P \in Seq(Keys)
  BY <1>2, <1>3, ConcatProperties
<1>7. QED
  BY <1>3, <1>4, <1>5, <1>6

(* The same below every of some keys.                                       *)
LEMMA ShapeOfAll ==
    ASSUME NEW names, names \subseteq Keys, NEW x, DOMAIN x \subseteq Seq(Keys)
    PROVE  /\ DOMAIN Contract!All(names, x) \subseteq LeavesAt({<<k>> : k \in names}, DOMAIN x)
           /\ DOMAIN Contract!All(names, x) \subseteq Seq(Keys)
           /\ ShapeAt(Contract!All(names, x), {<<k>> : k \in names}, x)
<1>. DEFINE f == [k \in names |-> x]
<1>1. Contract!All(names, x) = Contract!Obj(f)
  BY DEF Contract!All
<1>2. DOMAIN f = names /\ \A k \in names : f[k] = x
  OBVIOUS
<1>. HIDE DEF f
<1>3. IsFields(f)
  BY <1>2 DEF IsFields
<1>4. ASSUME NEW p \in DOMAIN Contract!Obj(f)
      PROVE  p \in Seq(Keys) /\ p \in LeavesAt({<<k>> : k \in names}, DOMAIN x)
  <2>1. PICK k \in DOMAIN f : \E r \in DOMAIN f[k] :
                p = <<k>> \o r /\ Contract!Obj(f)[p] = f[k][r]
    BY <1>3, ObjOnly
  <2>2. PICK r \in DOMAIN f[k] : p = <<k>> \o r
    BY <2>1
  <2>3. k \in names /\ r \in DOMAIN x
    BY <1>2
  <2>. DEFINE places == {<<j>> : j \in names}
  <2>4. <<k>> \in places
    BY <2>3
  <2>. HIDE DEF places
  <2>5. <<k>> \o r \in LeavesAt(places, DOMAIN x)
    BY <2>3, <2>4, InLeaves
  <2>6. p \in LeavesAt(places, DOMAIN x)
    BY <2>2, <2>5
  <2>7. p \in Seq(Keys)
    BY <1>3, ObjOnly
  <2>8. QED
    BY <2>6, <2>7 DEF places
<1>5. ASSUME NEW k \in names PROVE ShapeAt(Contract!Obj(f), {<<k>>}, x)
  BY <1>2, <1>3, ShapeAtKey
<1>6. ShapeAt(Contract!Obj(f), {<<k>> : k \in names}, x)
  BY <1>5 DEF ShapeAt
<1>7. QED
  BY <1>1, <1>4, <1>6

(* Cases below every of some keys.                                          *)
LEMMA CasesOfAll ==
    ASSUME NEW names, names \subseteq Keys
    PROVE  /\ DOMAIN Contract!All(names, Contract!Case) \subseteq LeavesAt({<<k>> : k \in names}, CasePaths)
           /\ DOMAIN Contract!All(names, Contract!Case) \subseteq Seq(Keys)
           /\ ShapeAt(Contract!All(names, Contract!Case), {<<k>> : k \in names}, Contract!Case)
<1>1. DOMAIN Contract!Case = CasePaths /\ DOMAIN Contract!Case \subseteq Seq(Keys)
  BY CaseLeaves, CasePathsAreKeys
<1>2. QED
  BY <1>1, ShapeOfAll

LEMMA CacheLeaves ==
    /\ DOMAIN Contract!CachePairing \subseteq LeavesAt({<<c>> : c \in Contract!CacheCalls}, CasePaths)
    /\ ShapeAt(Contract!CachePairing, {<<c>> : c \in Contract!CacheCalls}, Contract!Case)
<1>1. {"cold_cache_off", "cold_cache_on", "repeat_cache_off", "repeat_cache_on"} = Contract!CacheCalls
  BY DEF Contract!CacheCalls
<1>2. Contract!CachePairing = Contract!All(Contract!CacheCalls, Contract!Case)
  BY <1>1 DEF Contract!CachePairing
<1>3. QED
  BY <1>2, KeyGroups, CasesOfAll

(* Flags of a name each.                                                    *)
LEMMA FlagPaths ==
    ASSUME NEW names, names \subseteq Keys
    PROVE  DOMAIN Contract!All(names, Contract!Leaf("bool")) = {<<k>> : k \in names}
<1>. DEFINE f == [k \in names |-> Contract!Leaf("bool")]
<1>1. Contract!All(names, Contract!Leaf("bool")) = Contract!Obj(f)
  BY DEF Contract!All
<1>2. DOMAIN f = names /\ \A k \in names : f[k] = Contract!Leaf("bool")
  OBVIOUS
<1>. HIDE DEF f
<1>3. DOMAIN Contract!Obj(f) = {<<k>> : k \in DOMAIN f}
  BY <1>2, LeafPaths
<1>4. QED
  BY <1>1, <1>2, <1>3

LEMMA CancellationLeaves ==
    /\ DOMAIN Contract!Cancellation
         \subseteq LeavesAt({<<"clean_baseline">>, <<"reused_slot">>}, CasePaths)
                     \cup {<<"disconnect", f>> : f \in Contract!CancelFlags}
    /\ ShapeAt(Contract!Cancellation, {<<"clean_baseline">>, <<"reused_slot">>}, Contract!Case)
<1>. DEFINE flags == Contract!All({"active_processing_observed", "first_event_nonterminal",
                                   "first_event_observed", "idle_after_disconnect"},
                                  Contract!Leaf("bool"))
            f == [clean_baseline |-> Contract!Case, reused_slot |-> Contract!Case,
                  disconnect |-> flags]
            places == {<<"clean_baseline">>, <<"reused_slot">>}
            own == {<<"disconnect", x>> : x \in Contract!CancelFlags}
<1>1. Contract!Cancellation = Contract!Obj(f)
  BY DEF Contract!Cancellation
<1>2. DOMAIN flags = {<<k>> : k \in Contract!CancelFlags}
  <2>1. {"active_processing_observed", "first_event_nonterminal",
         "first_event_observed", "idle_after_disconnect"} = Contract!CancelFlags
    BY DEF Contract!CancelFlags
  <2>2. QED
    BY <2>1, FlagPaths, KeyGroups
<1>. HIDE DEF flags
<1>3. /\ DOMAIN f = {"clean_baseline", "reused_slot", "disconnect"}
      /\ f["clean_baseline"] = Contract!Case /\ f["reused_slot"] = Contract!Case
      /\ f["disconnect"] = flags
  OBVIOUS
<1>. HIDE DEF f
<1>4. "clean_baseline" \in Keys /\ "reused_slot" \in Keys /\ "disconnect" \in Keys
  BY KeyGroups DEF CancellationKeys
<1>5. DOMAIN flags \subseteq Seq(Keys) /\ Contract!CancelFlags \subseteq Keys
  <2>1. \A k \in Contract!CancelFlags : <<k>> \in Seq(Keys)
    BY KeyGroups
  <2>2. QED
    BY <1>2, <2>1, KeyGroups
<1>6. IsFields(f)
  BY <1>3, <1>4, <1>5, CaseLeaves, CasePathsAreKeys DEF IsFields
<1>7. ShapeAt(Contract!Obj(f), places, Contract!Case)
  <2>1. /\ ShapeAt(Contract!Obj(f), {<<"clean_baseline">>}, Contract!Case)
        /\ ShapeAt(Contract!Obj(f), {<<"reused_slot">>}, Contract!Case)
    BY <1>3, <1>6, ShapeAtKey
  <2>2. QED
    BY <2>1 DEF ShapeAt
<1>8. ASSUME NEW p \in DOMAIN Contract!Obj(f)
      PROVE  p \in LeavesAt(places, CasePaths) \cup own
  <2>1. PICK k \in DOMAIN f : \E q \in DOMAIN f[k] :
                p = <<k>> \o q /\ Contract!Obj(f)[p] = f[k][q]
    BY <1>6, ObjOnly
  <2>2. PICK q \in DOMAIN f[k] : p = <<k>> \o q
    BY <2>1
  <2>3. CASE k \in {"clean_baseline", "reused_slot"}
    <3>1. q \in CasePaths /\ <<k>> \in places
      BY <1>3, <2>3, CaseLeaves
    <3>2. <<k>> \o q \in LeavesAt(places, CasePaths)
      BY <3>1, InLeaves
    <3>3. QED
      BY <2>2, <3>2
  <2>4. CASE k = "disconnect"
    <3>1. PICK x \in Contract!CancelFlags : q = <<x>>
      BY <1>2, <1>3, <2>4
    <3>2. <<"disconnect">> \o <<x>> = <<"disconnect", x>>
      BY <1>4, <1>5, TwoKeys
    <3>3. p = <<"disconnect", x>>
      BY <2>2, <2>4, <3>1, <3>2
    <3>4. QED
      BY <3>3
  <2>5. QED
    BY <1>3, <2>3, <2>4
<1>9. QED
  BY <1>1, <1>7, <1>8

LEMMA DirectionLeaves ==
    /\ DOMAIN Contract!Direction
         \subseteq LeavesAt({<<"reuses">> \o <<s>> : s \in Contract!BothSlots}, CasePaths)
                     \cup {<<f>> : f \in Contract!Flags}
    /\ DOMAIN Contract!Direction \subseteq Seq(Keys)
    /\ ShapeAt(Contract!Direction, {<<"reuses">> \o <<s>> : s \in Contract!BothSlots}, Contract!Case)
<1>. DEFINE cases == Contract!All(Contract!BothSlots, Contract!Case)
            h == [reuses |-> cases]
            g == [x \in Contract!Flags |-> Contract!Leaf("bool")]
            f == Contract!Merge(h, g)
            places == {<<s>> : s \in Contract!BothSlots}
            below == {<<"reuses">> \o <<s>> : s \in Contract!BothSlots}
<1>1. Contract!Direction = Contract!Obj(f)
  BY DEF Contract!Direction
<1>2. /\ DOMAIN cases \subseteq Seq(Keys) /\ DOMAIN cases \subseteq LeavesAt(places, CasePaths)
      /\ ShapeAt(cases, places, Contract!Case)
  BY KeyGroups, CasesOfAll
<1>. HIDE DEF cases
<1>3. DOMAIN h = {"reuses"} /\ h["reuses"] = cases
  OBVIOUS
<1>4. DOMAIN g = Contract!Flags /\ \A x \in Contract!Flags : g[x] = Contract!Leaf("bool")
  OBVIOUS
<1>. HIDE DEF h, g
<1>5. "reuses" \in Keys /\ Contract!Flags \subseteq Keys
  BY KeyGroups DEF InterleavingKeys
<1>6. IsFields(h)
  BY <1>2, <1>3, <1>5 DEF IsFields
<1>7. IsFields(g)
  BY <1>4, <1>5, LeafFields
<1>8. "reuses" \notin Contract!Flags
  BY DEF Contract!Flags
<1>9. /\ DOMAIN f = {"reuses"} \cup Contract!Flags /\ f["reuses"] = cases
      /\ \A x \in Contract!Flags : f[x] = Contract!Leaf("bool")
  BY <1>3, <1>4, <1>8 DEF Contract!Merge
<1>10. IsFields(f)
  BY <1>6, <1>7, MergeFacts
<1>. HIDE DEF f
<1>11. {<<"reuses">> \o P : P \in places} = below
  OBVIOUS
<1>12. ShapeAt(Contract!Obj(f), below, Contract!Case)
  <2>1. ShapeAt(Contract!Obj(f), {<<"reuses">> \o P : P \in places}, Contract!Case)
    BY <1>2, <1>9, <1>10, CaseLeaves, CasePathsAreKeys, ShapeBelow
  <2>2. QED
    BY <1>11, <2>1
<1>13. places \in SUBSET Seq(Keys) /\ CasePaths \in SUBSET Seq(Keys)
  <2>1. \A s \in Contract!BothSlots : <<s>> \in Seq(Keys)
    BY KeyGroups
  <2>2. QED
    BY <2>1, CasePathsAreKeys
<1>14. ASSUME NEW p \in DOMAIN Contract!Obj(f)
       PROVE  p \in LeavesAt(below, CasePaths) \cup {<<x>> : x \in Contract!Flags}
  <2>1. PICK k \in DOMAIN f : \E q \in DOMAIN f[k] :
                p = <<k>> \o q /\ Contract!Obj(f)[p] = f[k][q]
    BY <1>10, ObjOnly
  <2>2. PICK q \in DOMAIN f[k] : p = <<k>> \o q
    BY <2>1
  <2>3. CASE k = "reuses"
    <3>1. q \in LeavesAt(places, CasePaths)
      BY <1>2, <1>9, <2>3
    <3>. HIDE DEF places
    <3>2. <<"reuses">> \o q \in LeavesAt({<<"reuses">> \o P : P \in places}, CasePaths)
      BY <1>5, <1>13, <3>1, LeavesBelow
    <3>3. QED
      BY <1>11, <2>2, <2>3, <3>2
  <2>4. CASE k \in Contract!Flags
    <3>1. q = <<>> /\ k \in Keys
      BY <1>5, <1>9, <2>2, <2>4, LeafFacts
    <3>2. p = <<k>>
      BY <2>2, <3>1, PathOfOne
    <3>3. QED
      BY <2>4, <3>2
  <2>5. QED
    BY <1>9, <2>3, <2>4
<1>15. DOMAIN Contract!Obj(f) \subseteq Seq(Keys)
  BY <1>10, ObjOnly
<1>16. QED
  BY <1>1, <1>12, <1>14, <1>15

BasePlaces == {<<"baselines", s>> : s \in Contract!BothSlots}

ReusePlaces(n) == {<<n, "reuses", s>> : s \in Contract!BothSlots}

LEMMA InterleavingPlaces ==
    ASSUME NEW n \in Contract!DirectionNames
    PROVE  /\ {<<"baselines">> \o P : P \in {<<s>> : s \in Contract!BothSlots}} = BasePlaces
           /\ {<<n>> \o P : P \in {<<"reuses">> \o <<s>> : s \in Contract!BothSlots}} = ReusePlaces(n)
           /\ BasePlaces \in SUBSET Seq(Keys) /\ ReusePlaces(n) \in SUBSET Seq(Keys)
<1>1. "baselines" \in Keys /\ "reuses" \in Keys /\ Contract!BothSlots \subseteq Keys /\ n \in Keys
  BY KeyGroups DEF InterleavingKeys
<1>2. \A s \in Contract!BothSlots : /\ <<"baselines">> \o <<s>> = <<"baselines", s>>
                                    /\ <<"baselines", s>> \in Seq(Keys)
  BY <1>1, TwoKeys
<1>3. ASSUME NEW s \in Contract!BothSlots
      PROVE  /\ <<n>> \o (<<"reuses">> \o <<s>>) = <<n, "reuses", s>>
             /\ <<n, "reuses", s>> \in Seq(Keys)
  <2>1. s \in Keys
    BY <1>1
  <2>2. <<"reuses">> \o <<s>> = <<"reuses", s>>
    BY <1>1, <2>1, TwoKeys
  <2>3. /\ <<n, "reuses", s>> = <<n>> \o <<"reuses", s>>
        /\ <<n, "reuses", s>> \in Seq(Keys)
    BY <1>1, <2>1, ThreeKeys
  <2>4. QED
    BY <2>2, <2>3
<1>4. {<<"baselines">> \o P : P \in {<<s>> : s \in Contract!BothSlots}}
        = {<<"baselines">> \o <<s>> : s \in Contract!BothSlots}
  OBVIOUS
<1>5. {<<n>> \o P : P \in {<<"reuses">> \o <<s>> : s \in Contract!BothSlots}}
        = {<<n>> \o (<<"reuses">> \o <<s>>) : s \in Contract!BothSlots}
  OBVIOUS
<1>6. {<<"baselines">> \o <<s>> : s \in Contract!BothSlots} = BasePlaces
  BY <1>2 DEF BasePlaces
<1>7. {<<n>> \o (<<"reuses">> \o <<s>>) : s \in Contract!BothSlots} = ReusePlaces(n)
  BY <1>3 DEF ReusePlaces
<1>8. BasePlaces \in SUBSET Seq(Keys) /\ ReusePlaces(n) \in SUBSET Seq(Keys)
  BY <1>2, <1>3 DEF BasePlaces, ReusePlaces
<1>9. QED
  BY <1>4, <1>5, <1>6, <1>7, <1>8

LEMMA InterleavingLeaves ==
    /\ \A p \in DOMAIN Contract!Interleaving :
          \/ p \in LeavesAt(BasePlaces, CasePaths)
          \/ \E n \in Contract!DirectionNames : \/ p \in LeavesAt(ReusePlaces(n), CasePaths)
                                                \/ \E f \in Contract!Flags : p = <<n, f>>
    /\ ShapeAt(Contract!Interleaving, BasePlaces, Contract!Case)
    /\ \A n \in Contract!DirectionNames :
          ShapeAt(Contract!Interleaving, ReusePlaces(n), Contract!Case)
<1>. DEFINE cases == Contract!All(Contract!BothSlots, Contract!Case)
            places == {<<s>> : s \in Contract!BothSlots}
            below == {<<"reuses">> \o <<s>> : s \in Contract!BothSlots}
            f == [baselines |-> cases, slot_0_cancelled_first |-> Contract!Direction,
                  slot_1_cancelled_first |-> Contract!Direction]
<1>1. Contract!Interleaving = Contract!Obj(f)
  BY DEF Contract!Interleaving
<1>2. /\ DOMAIN cases \subseteq Seq(Keys) /\ DOMAIN cases \subseteq LeavesAt(places, CasePaths)
      /\ ShapeAt(cases, places, Contract!Case)
  BY KeyGroups, CasesOfAll
<1>. HIDE DEF cases
<1>3. /\ DOMAIN f = {"baselines"} \cup Contract!DirectionNames /\ f["baselines"] = cases
      /\ \A n \in Contract!DirectionNames : f[n] = Contract!Direction
      /\ "baselines" \notin Contract!DirectionNames
  BY DEF Contract!DirectionNames
<1>. HIDE DEF f
<1>4. /\ DOMAIN Contract!Direction \subseteq LeavesAt(below, CasePaths) \cup {<<x>> : x \in Contract!Flags}
      /\ DOMAIN Contract!Direction \subseteq Seq(Keys)
      /\ ShapeAt(Contract!Direction, below, Contract!Case)
  BY DirectionLeaves
<1>5. "baselines" \in Keys /\ Contract!DirectionNames \subseteq Keys /\ Contract!Flags \subseteq Keys
  BY KeyGroups DEF InterleavingKeys
<1>6. IsFields(f)
  BY <1>2, <1>3, <1>4, <1>5 DEF IsFields
<1>7. DOMAIN Contract!Case = CasePaths /\ CasePaths \in SUBSET Seq(Keys)
  BY CaseLeaves, CasePathsAreKeys
<1>8. places \in SUBSET Seq(Keys) /\ below \in SUBSET Seq(Keys)
  <2>1. \A s \in Contract!BothSlots : <<s>> \in Seq(Keys)
    BY KeyGroups
  <2>2. "reuses" \in Keys /\ \A s \in Contract!BothSlots : s \in Keys
    BY KeyGroups DEF InterleavingKeys
  <2>3. \A s \in Contract!BothSlots : <<"reuses">> \o <<s>> \in Seq(Keys)
    BY <2>1, <2>2, BelowKeys
  <2>4. QED
    BY <2>1, <2>3
<1>. DEFINE allBase == {<<"baselines">> \o P : P \in places}
            allReuse(n) == {<<n>> \o P : P \in below}
<1>9. \E n : n \in Contract!DirectionNames
  BY DEF Contract!DirectionNames
<1>10. allBase = BasePlaces /\ \A n \in Contract!DirectionNames : allReuse(n) = ReusePlaces(n)
  BY <1>9, InterleavingPlaces
<1>11. ShapeAt(Contract!Obj(f), allBase, Contract!Case)
  BY <1>2, <1>3, <1>6, <1>7, ShapeBelow
<1>12. ASSUME NEW n \in Contract!DirectionNames
       PROVE  ShapeAt(Contract!Obj(f), allReuse(n), Contract!Case)
  BY <1>3, <1>4, <1>6, <1>7, ShapeBelow
<1>. HIDE DEF places, below
<1>13. \A q \in LeavesAt(places, CasePaths) : <<"baselines">> \o q \in LeavesAt(allBase, CasePaths)
  BY <1>5, <1>7, <1>8, LeavesBelow
<1>14. ASSUME NEW n \in Contract!DirectionNames, NEW q \in LeavesAt(below, CasePaths)
       PROVE  <<n>> \o q \in LeavesAt(allReuse(n), CasePaths)
  BY <1>5, <1>7, <1>8, LeavesBelow
<1>. HIDE DEF allBase, allReuse
<1>15. ASSUME NEW p \in DOMAIN Contract!Obj(f)
       PROVE  \/ p \in LeavesAt(BasePlaces, CasePaths)
              \/ \E n \in Contract!DirectionNames : \/ p \in LeavesAt(ReusePlaces(n), CasePaths)
                                                    \/ \E x \in Contract!Flags : p = <<n, x>>
  <2>1. PICK k \in DOMAIN f : \E q \in DOMAIN f[k] :
                p = <<k>> \o q /\ Contract!Obj(f)[p] = f[k][q]
    BY <1>6, ObjOnly
  <2>2. PICK q \in DOMAIN f[k] : p = <<k>> \o q
    BY <2>1
  <2>3. CASE k = "baselines"
    BY <1>2, <1>3, <1>10, <1>13, <2>2, <2>3
  <2>4. CASE k \in Contract!DirectionNames
    <3>1. q \in LeavesAt(below, CasePaths) \/ \E x \in Contract!Flags : q = <<x>>
      BY <1>3, <1>4, <2>4
    <3>2. CASE q \in LeavesAt(below, CasePaths)
      BY <1>10, <1>14, <2>2, <2>4, <3>2
    <3>3. CASE \E x \in Contract!Flags : q = <<x>>
      <4>1. PICK x \in Contract!Flags : q = <<x>>
        BY <3>3
      <4>2. p = <<k, x>>
        BY <1>5, <2>2, <2>4, <4>1, TwoKeys
      <4>3. QED
        BY <2>4, <4>2
    <3>4. QED
      BY <3>1, <3>2, <3>3
  <2>5. QED
    BY <1>3, <2>3, <2>4
<1>16. QED
  BY <1>1, <1>10, <1>11, <1>12, <1>15

-----------------------------------------------------------------------------
TokenParts == {"source", "cache_on_target", "cache_off_target"}

TokenPlaces == Contract!TokenNames \X TokenParts

LEMMA TokenLeaves ==
    /\ DOMAIN Contract!TokenPrefix \subseteq LeavesAt(TokenPlaces, PrefillPaths)
    /\ ShapeAt(Contract!TokenPrefix, TokenPlaces, Contract!PrefillCase)
<1>. DEFINE inner == Contract!All(TokenParts, Contract!PrefillCase)
            f == [t \in Contract!TokenNames |-> inner]
            places == {<<x>> : x \in TokenParts}
            above(t) == {<<t>> \o P : P \in places}
<1>1. Contract!TokenPrefix = Contract!Obj(f)
  <2>1. /\ {"exact", "first_token_divergence", "shared_prefix"} = Contract!TokenNames
        /\ {"cache_off_target", "cache_on_target", "source"} = TokenParts
    BY DEF Contract!TokenNames, TokenParts
  <2>2. Contract!TokenPrefix = Contract!All(Contract!TokenNames, inner)
    BY <2>1 DEF Contract!TokenPrefix
  <2>3. QED
    BY <2>2 DEF Contract!All
<1>2. Contract!TokenNames \subseteq Keys /\ TokenParts \subseteq Keys
  BY KeyGroups DEF TokenParts, TokenKeys
<1>3. DOMAIN Contract!PrefillCase = PrefillPaths /\ PrefillPaths \in SUBSET Seq(Keys)
  BY PrefillLeaves, CasePathsAreKeys
<1>4. /\ DOMAIN inner \subseteq LeavesAt(places, PrefillPaths) /\ DOMAIN inner \subseteq Seq(Keys)
      /\ ShapeAt(inner, places, Contract!PrefillCase)
  BY <1>2, <1>3, ShapeOfAll
<1>. HIDE DEF inner
<1>5. DOMAIN f = Contract!TokenNames /\ \A t \in DOMAIN f : f[t] = inner
  OBVIOUS
<1>. HIDE DEF f
<1>6. IsFields(f)
  BY <1>2, <1>4, <1>5 DEF IsFields
<1>7. places \in SUBSET Seq(Keys)
  <2>1. \A x \in TokenParts : <<x>> \in Seq(Keys)
    BY <1>2
  <2>2. QED
    BY <2>1
<1>8. ASSUME NEW t \in Contract!TokenNames
      PROVE  above(t) \subseteq TokenPlaces /\ \A x \in TokenParts : <<t, x>> \in above(t)
  <2>1. \A x \in TokenParts : <<t>> \o <<x>> = <<t, x>>
    BY <1>2, TwoKeys
  <2>2. above(t) = {<<t>> \o <<x>> : x \in TokenParts}
    OBVIOUS
  <2>3. \A x \in TokenParts : <<t, x>> \in TokenPlaces
    BY DEF TokenPlaces
  <2>. HIDE DEF above
  <2>4. \A P \in above(t) : \E x \in TokenParts : P = <<t, x>>
    BY <2>1, <2>2
  <2>5. above(t) \subseteq TokenPlaces
    BY <2>3, <2>4
  <2>6. \A x \in TokenParts : <<t, x>> \in above(t)
    BY <2>1, <2>2
  <2>7. QED
    BY <2>5, <2>6
<1>9. ASSUME NEW t \in Contract!TokenNames
      PROVE  ShapeAt(Contract!Obj(f), above(t), Contract!PrefillCase)
  BY <1>3, <1>4, <1>5, <1>6, ShapeBelow
<1>. HIDE DEF places
<1>10. ASSUME NEW t \in Contract!TokenNames, NEW q \in LeavesAt(places, PrefillPaths)
       PROVE  <<t>> \o q \in LeavesAt(above(t), PrefillPaths)
  BY <1>2, <1>3, <1>7, LeavesBelow
<1>. HIDE DEF above
<1>11. ASSUME NEW p \in DOMAIN Contract!Obj(f) PROVE p \in LeavesAt(TokenPlaces, PrefillPaths)
  <2>1. PICK t \in DOMAIN f : \E q \in DOMAIN f[t] :
                p = <<t>> \o q /\ Contract!Obj(f)[p] = f[t][q]
    BY <1>6, ObjOnly
  <2>2. PICK q \in DOMAIN f[t] : p = <<t>> \o q
    BY <2>1
  <2>3. t \in Contract!TokenNames /\ q \in LeavesAt(places, PrefillPaths)
    BY <1>4, <1>5
  <2>4. p \in LeavesAt(above(t), PrefillPaths)
    BY <1>10, <2>2, <2>3
  <2>. DEFINE near == above(t)
  <2>5. near \subseteq TokenPlaces /\ p \in LeavesAt(near, PrefillPaths)
    BY <1>8, <2>3, <2>4
  <2>. HIDE DEF near
  <2>6. PICK P \in near : \E r \in PrefillPaths : p = P \o r
    BY <2>5, OfLeaves
  <2>7. PICK r \in PrefillPaths : p = P \o r
    BY <2>6
  <2>8. P \in TokenPlaces
    BY <2>5
  <2>9. QED
    BY <2>7, <2>8, InLeaves
<1>12. ShapeAt(Contract!Obj(f), TokenPlaces, Contract!PrefillCase)
  <2>. SUFFICES ASSUME NEW c \in TokenPlaces
                PROVE  /\ c \in Seq(Keys)
                       /\ \A r \in DOMAIN Contract!PrefillCase :
                             /\ c \o r \in DOMAIN Contract!Obj(f)
                             /\ Contract!Obj(f)[c \o r] = Contract!PrefillCase[r]
    BY DEF ShapeAt
  <2>1. PICK t \in Contract!TokenNames, x \in TokenParts : c = <<t, x>>
    BY DEF TokenPlaces
  <2>2. c \in above(t)
    BY <1>8, <2>1
  <2>3. QED
    BY <1>9, <2>2 DEF ShapeAt
<1>13. QED
  BY <1>1, <1>11, <1>12

RestoredNames == {"same_process", "after_restart"}

StateNames == {"slot_state_before_restart", "slot_state_after_restart"}

SavePlaces == {<<"source">>} \cup {<<n, "restored">> : n \in RestoredNames}

SaveCounts == {<<"saved_tokens">>} \cup {<<n, "restored_tokens">> : n \in RestoredNames}

StatePlaces == {<<n>> : n \in StateNames}

StatePaths == {<<k>> : k \in {"bytes", "sha256"}}

LEMMA RestoredLeaves ==
    /\ DOMAIN Contract!Restored \subseteq LeavesAt({<<"restored">>}, CasePaths) \cup {<<"restored_tokens">>}
    /\ DOMAIN Contract!Restored \subseteq Seq(Keys) /\ <<"restored_tokens">> \in DOMAIN Contract!Restored
    /\ ShapeAt(Contract!Restored, {<<"restored">>}, Contract!Case)
<1>. DEFINE f == [restored |-> Contract!Case, restored_tokens |-> Contract!Leaf("pos")]
<1>1. Contract!Restored = Contract!Obj(f)
  BY DEF Contract!Restored
<1>2. /\ DOMAIN f = {"restored", "restored_tokens"} /\ f["restored"] = Contract!Case
      /\ f["restored_tokens"] = Contract!Leaf("pos")
  OBVIOUS
<1>. HIDE DEF f
<1>3. "restored" \in Keys /\ "restored_tokens" \in Keys
  BY KeyGroups DEF SaveKeys
<1>4. IsFields(f)
  BY <1>2, <1>3, CaseLeaves, CasePathsAreKeys, LeafFacts DEF IsFields
<1>5. ShapeAt(Contract!Obj(f), {<<"restored">>}, Contract!Case)
  BY <1>2, <1>4, ShapeAtKey
<1>6. <<"restored_tokens">> \in DOMAIN Contract!Obj(f)
  BY <1>2, <1>4, LeafOfObj
<1>7. ASSUME NEW p \in DOMAIN Contract!Obj(f)
      PROVE  p \in LeavesAt({<<"restored">>}, CasePaths) \cup {<<"restored_tokens">>}
  <2>1. PICK k \in DOMAIN f : \E q \in DOMAIN f[k] :
                p = <<k>> \o q /\ Contract!Obj(f)[p] = f[k][q]
    BY <1>4, ObjOnly
  <2>2. PICK q \in DOMAIN f[k] : p = <<k>> \o q
    BY <2>1
  <2>3. CASE k = "restored"
    <3>1. q \in CasePaths /\ <<k>> \in {<<"restored">>}
      BY <1>2, <2>3, CaseLeaves
    <3>2. <<k>> \o q \in LeavesAt({<<"restored">>}, CasePaths)
      BY <3>1, InLeaves
    <3>3. QED
      BY <2>2, <3>2
  <2>4. CASE k = "restored_tokens"
    <3>1. q = <<>>
      BY <1>2, <2>4, LeafFacts
    <3>2. p = <<"restored_tokens">>
      BY <1>3, <2>2, <2>4, <3>1, PathOfOne
    <3>3. QED
      BY <3>2
  <2>5. QED
    BY <1>2, <2>3, <2>4
<1>8. DOMAIN Contract!Obj(f) \subseteq Seq(Keys)
  BY <1>4, ObjOnly
<1>9. QED
  BY <1>1, <1>5, <1>6, <1>7, <1>8

LEMMA StateLeaves == DOMAIN Contract!SlotState = StatePaths /\ StatePaths \subseteq Seq(Keys)
<1>. DEFINE f == [bytes |-> Contract!Leaf("pos"), sha256 |-> Contract!Leaf("sha")]
<1>1. Contract!SlotState = Contract!Obj(f)
  BY DEF Contract!SlotState
<1>2. /\ DOMAIN f = {"bytes", "sha256"} /\ \A k \in DOMAIN f : \E x : f[k] = Contract!Leaf(x)
  OBVIOUS
<1>3. DOMAIN f \subseteq Keys
  BY KeyGroups DEF SaveKeys
<1>. HIDE DEF f
<1>4. IsFields(f) /\ DOMAIN Contract!Obj(f) = {<<k>> : k \in DOMAIN f}
  BY <1>2, <1>3, LeafPaths
<1>5. DOMAIN Contract!Obj(f) \subseteq Seq(Keys)
  BY <1>4, ObjOnly
<1>6. QED
  BY <1>1, <1>2, <1>4, <1>5 DEF StatePaths

LEMMA SaveLeaves ==
    /\ DOMAIN Contract!SaveRestore
         \subseteq LeavesAt(SavePlaces, CasePaths) \cup LeavesAt(StatePlaces, StatePaths)
                     \cup SaveCounts \cup {<<"process_restart_confirmed">>}
    /\ SaveCounts \subseteq DOMAIN Contract!SaveRestore
    /\ ShapeAt(Contract!SaveRestore, SavePlaces, Contract!Case)
    /\ ShapeAt(Contract!SaveRestore, StatePlaces, Contract!SlotState)
<1>. DEFINE f == [after_restart |-> Contract!Restored, same_process |-> Contract!Restored,
                  process_restart_confirmed |-> Contract!Leaf("bool"),
                  saved_tokens |-> Contract!Leaf("pos"), source |-> Contract!Case,
                  slot_state_after_restart |-> Contract!SlotState,
                  slot_state_before_restart |-> Contract!SlotState]
            leaves == {"process_restart_confirmed", "saved_tokens"}
<1>1. Contract!SaveRestore = Contract!Obj(f)
  BY DEF Contract!SaveRestore
<1>2. /\ DOMAIN f = {"source"} \cup RestoredNames \cup StateNames \cup leaves
      /\ f["source"] = Contract!Case
      /\ \A n \in RestoredNames : f[n] = Contract!Restored
      /\ \A n \in StateNames : f[n] = Contract!SlotState
      /\ f["process_restart_confirmed"] = Contract!Leaf("bool")
      /\ f["saved_tokens"] = Contract!Leaf("pos")
  BY DEF RestoredNames, StateNames
<1>. HIDE DEF f
<1>3. /\ DOMAIN f \subseteq Keys /\ "restored" \in Keys /\ "restored_tokens" \in Keys
      /\ RestoredNames \subseteq Keys
  BY <1>2, KeyGroups DEF SaveKeys, RestoredNames, StateNames
<1>4. /\ DOMAIN Contract!Case = CasePaths /\ CasePaths \subseteq Seq(Keys)
      /\ DOMAIN Contract!SlotState = StatePaths /\ StatePaths \subseteq Seq(Keys)
      /\ DOMAIN Contract!Restored \subseteq Seq(Keys)
  BY CaseLeaves, CasePathsAreKeys, StateLeaves, RestoredLeaves
<1>5. IsFields(f)
  <2>1. ASSUME NEW k \in DOMAIN f PROVE DOMAIN f[k] \subseteq Seq(Keys)
    <3>1. CASE k \in leaves
      BY <1>2, <3>1, LeafFacts
    <3>2. QED
      BY <1>2, <1>4, <3>1
  <2>2. QED
    BY <1>3, <2>1 DEF IsFields
<1>6. ASSUME NEW n \in RestoredNames
      PROVE  /\ <<n>> \o <<"restored">> = <<n, "restored">>
             /\ <<n>> \o <<"restored_tokens">> = <<n, "restored_tokens">>
  <2>1. n \in Keys
    BY <1>3
  <2>2. QED
    BY <1>3, <2>1, TwoKeys
<1>7. ShapeAt(Contract!Obj(f), SavePlaces, Contract!Case)
  <2>1. ShapeAt(Contract!Obj(f), {<<"source">>}, Contract!Case)
    BY <1>2, <1>5, ShapeAtKey
  <2>2. ASSUME NEW n \in RestoredNames
        PROVE  ShapeAt(Contract!Obj(f), {<<n, "restored">>}, Contract!Case)
    <3>1. n \in DOMAIN f /\ ShapeAt(f[n], {<<"restored">>}, Contract!Case)
      BY <1>2, RestoredLeaves
    <3>2. ShapeAt(Contract!Obj(f), {<<n>> \o P : P \in {<<"restored">>}}, Contract!Case)
      BY <1>4, <1>5, <3>1, ShapeBelow
    <3>3. {<<n>> \o P : P \in {<<"restored">>}} = {<<n, "restored">>}
      BY <1>6
    <3>4. QED
      BY <3>2, <3>3
  <2>3. QED
    BY <2>1, <2>2 DEF ShapeAt, SavePlaces
<1>8. ShapeAt(Contract!Obj(f), StatePlaces, Contract!SlotState)
  <2>1. ASSUME NEW n \in StateNames PROVE ShapeAt(Contract!Obj(f), {<<n>>}, Contract!SlotState)
    <3>1. n \in DOMAIN f /\ f[n] = Contract!SlotState
      BY <1>2
    <3>2. QED
      BY <1>5, <3>1, ShapeAtKey
  <2>2. QED
    BY <2>1 DEF ShapeAt, StatePlaces
<1>9. SaveCounts \subseteq DOMAIN Contract!Obj(f)
  <2>1. <<"saved_tokens">> \in DOMAIN Contract!Obj(f)
    BY <1>2, <1>5, LeafOfObj
  <2>2. ASSUME NEW n \in RestoredNames PROVE <<n, "restored_tokens">> \in DOMAIN Contract!Obj(f)
    <3>1. n \in DOMAIN f /\ <<"restored_tokens">> \in DOMAIN f[n]
      BY <1>2, RestoredLeaves
    <3>2. <<n>> \o <<"restored_tokens">> \in DOMAIN Contract!Obj(f)
      BY <1>5, <3>1, ObjAt
    <3>3. QED
      BY <1>6, <3>2
  <2>3. QED
    BY <2>1, <2>2 DEF SaveCounts
<1>10. ASSUME NEW p \in DOMAIN Contract!Obj(f)
       PROVE  \/ p \in LeavesAt(SavePlaces, CasePaths) \/ p \in LeavesAt(StatePlaces, StatePaths)
              \/ p \in SaveCounts \/ p = <<"process_restart_confirmed">>
  <2>1. PICK k \in DOMAIN f : \E q \in DOMAIN f[k] :
                p = <<k>> \o q /\ Contract!Obj(f)[p] = f[k][q]
    BY <1>5, ObjOnly
  <2>2. PICK q \in DOMAIN f[k] : p = <<k>> \o q
    BY <2>1
  <2>3. CASE k = "source"
    <3>1. q \in CasePaths /\ <<k>> \in SavePlaces
      BY <1>2, <1>4, <2>3 DEF SavePlaces
    <3>2. <<k>> \o q \in LeavesAt(SavePlaces, CasePaths)
      BY <3>1, InLeaves
    <3>3. QED
      BY <2>2, <3>2
  <2>4. CASE k \in RestoredNames
    <3>1. q \in LeavesAt({<<"restored">>}, CasePaths) \/ q = <<"restored_tokens">>
      BY <1>2, <2>4, RestoredLeaves
    <3>2. CASE q \in LeavesAt({<<"restored">>}, CasePaths)
      <4>1. <<"restored">> \in Seq(Keys) /\ k \in Keys
        BY <1>3
      <4>2. {<<"restored">>} \in SUBSET Seq(Keys) /\ CasePaths \in SUBSET Seq(Keys)
        BY <1>4, <4>1
      <4>3. <<k>> \o q \in LeavesAt({<<k>> \o P : P \in {<<"restored">>}}, CasePaths)
        BY <3>2, <4>1, <4>2, LeavesBelow
      <4>4. {<<k>> \o P : P \in {<<"restored">>}} = {<<k, "restored">>}
        BY <1>6, <2>4
      <4>5. p \in LeavesAt({<<k, "restored">>}, CasePaths)
        BY <2>2, <4>3, <4>4
      <4>6. PICK r \in CasePaths : p = <<k, "restored">> \o r
        <5>. DEFINE only == {<<k, "restored">>}
        <5>1. \A P \in only : P = <<k, "restored">>
          OBVIOUS
        <5>2. p \in LeavesAt(only, CasePaths)
          BY <4>5
        <5>. HIDE DEF only
        <5>3. PICK P \in only : \E r \in CasePaths : p = P \o r
          BY <5>2 DEF LeavesAt
        <5>4. QED
          BY <5>1, <5>3
      <4>7. <<k, "restored">> \in SavePlaces
        BY <2>4 DEF SavePlaces
      <4>8. QED
        BY <4>6, <4>7, InLeaves
    <3>3. CASE q = <<"restored_tokens">>
      <4>1. p = <<k, "restored_tokens">>
        BY <1>6, <2>2, <2>4, <3>3
      <4>2. QED
        BY <2>4, <4>1 DEF SaveCounts
    <3>4. QED
      BY <3>1, <3>2, <3>3
  <2>5. CASE k \in StateNames
    <3>1. q \in StatePaths /\ <<k>> \in StatePlaces
      BY <1>2, <1>4, <2>5 DEF StatePlaces
    <3>2. <<k>> \o q \in LeavesAt(StatePlaces, StatePaths)
      BY <3>1, InLeaves
    <3>3. QED
      BY <2>2, <3>2
  <2>6. CASE k \in leaves
    <3>1. q = <<>>
      BY <1>2, <2>6, LeafFacts
    <3>2. p = <<k>>
      BY <1>3, <2>2, <3>1, PathOfOne
    <3>3. QED
      BY <2>6, <3>2 DEF SaveCounts
  <2>7. QED
    BY <1>2, <2>3, <2>4, <2>5, <2>6
<1>11. QED
  BY <1>1, <1>7, <1>8, <1>9, <1>10

-----------------------------------------------------------------------------
(* What the invariants tie together, lane by lane                           *)

CacheTies(d) ==
    \A c \in {<<x>> : x \in Contract!CacheCalls} :
        Contract!SameResult(d, <<"cold_cache_on">>, c) /\ Contract!ViewsAgree(d, c) /\ Contract!Idle(d, c)

CancellationTies(d) ==
    /\ \A f \in Contract!CancelFlags : d[<<"disconnect", f>>] = Contract!True
    /\ Contract!SameResult(d, <<"clean_baseline">>, <<"reused_slot">>)
    /\ Contract!ViewsAgree(d, <<"clean_baseline">>) /\ Contract!ViewsAgree(d, <<"reused_slot">>)
    /\ Contract!Idle(d, <<"reused_slot">>)

InterleavingTies(d) ==
    /\ \A P \in BasePlaces : Contract!Idle(d, P) /\ Contract!ViewsAgree(d, P)
    /\ \A n \in Contract!DirectionNames :
          /\ \A f \in Contract!Gating : d[<<n, f>>] = Contract!True
          /\ \A s \in Contract!BothSlots :
                LET P == <<n, "reuses", s>> IN
                /\ Contract!ViewsAgree(d, P) /\ Contract!Idle(d, P)
                /\ Contract!SameResult(d, <<"baselines", s>>, P)

LEMMA WorkPaths ==
    /\ <<"completion", "prompt_work">> \in CasePaths
    /\ <<"idle_slot", "prompt_work">> \in CasePaths
BY DEF CasePaths, CompletionKeys

(* The changed leaf of a case.                                              *)
LEMMA CaseOfShape ==
    ASSUME NEW d, NEW shape, Contract!HasShape(d, shape), NEW places,
           ShapeAt(shape, places, Contract!Case), NEW P \in places
    PROVE  /\ P \in Seq(Keys) /\ \A r \in CasePaths : P \o r \in DOMAIN d
           /\ d[P \o <<"completion", "prompt_work">>].type = "int"
           /\ d[P \o <<"idle_slot", "prompt_work">>].type = "int"
<1>1. /\ P \in Seq(Keys)
      /\ \A r \in CasePaths : P \o r \in DOMAIN shape /\ shape[P \o r] = Contract!Case[r]
  BY CaseLeaves DEF ShapeAt
<1>2. \A q \in DOMAIN shape : q \in DOMAIN d /\ Contract!Fits(d[q], shape[q])
  BY DEF Contract!HasShape
<1>3. \A r \in {<<"completion", "prompt_work">>, <<"idle_slot", "prompt_work">>} :
          r \in CasePaths /\ Contract!Case[r] = "nat"
  BY CaseLeaves, WorkPaths
<1>4. ASSUME NEW r \in {<<"completion", "prompt_work">>, <<"idle_slot", "prompt_work">>}
      PROVE  d[P \o r].type = "int"
  <2>1. Contract!Fits(d[P \o r], "nat")
    BY <1>1, <1>2, <1>3
  <2>2. QED
    BY <2>1 DEF Contract!Fits
<1>5. QED
  BY <1>1, <1>2, <1>4

LEMMA SameIsSymmetric ==
    ASSUME NEW d, NEW P, NEW Q, Contract!SameResult(d, P, Q)
    PROVE  Contract!SameResult(d, Q, P)
BY DEF Contract!SameResult

CachedPath == <<"completion", "response_cached_tokens">>

IdlePath == <<"idle_slot", "idle">>

(* A case whose result is that of another: all but two leaves are tied.     *)
LEMMA PairNoticed ==
    ASSUME NEW d, NEW e, NEW shape, Contract!HasShape(d, shape), Contract!HasShape(e, shape),
           NEW places, ShapeAt(shape, places, Contract!Case),
           NEW P \in places, NEW Q \in places, P # Q, NEW r \in CasePaths, OneLeaf(d, e, P \o r),
           Contract!SameResult(d, P, Q), Contract!SameResult(e, P, Q),
           Contract!ViewsAgree(d, P), Contract!ViewsAgree(e, P)
    PROVE  Contract!Equal(d[P \o r], e[P \o r]) \/ r = CachedPath \/ r = IdlePath
<1>1. /\ P \in Seq(Keys) /\ Q \in Seq(Keys)
      /\ \A x \in CasePaths : P \o x \in DOMAIN d /\ Q \o x \in DOMAIN d
  BY CaseOfShape
<1>2. TiedCase(d, P, Q) /\ TiedCase(e, P, Q)
  BY CaseOfShape DEF TiedCase
<1>3. QED
  BY <1>1, <1>2, CaseNoticed DEF CachedPath, IdlePath

(* The leaf of an idle slot.                                                *)
LEMMA IdleNoticed ==
    ASSUME NEW d, NEW e, NEW P, Contract!Idle(d, P), Contract!Idle(e, P)
    PROVE  Contract!Equal(d[P \o IdlePath], e[P \o IdlePath])
BY DEF Contract!Idle, Contract!Equal, IdlePath

LEMMA EqualValues == ASSUME NEW x, NEW y, x = y PROVE Contract!Equal(x, y)
BY DEF Contract!Equal

(* The number of cached tokens is compared with nothing.                    *)
LEMMA CachedIsUnrelated ==
    ASSUME NEW l \in Keys, NEW P \in Seq(Keys)
    PROVE  Contract!Unrelated(<<l>> \o (P \o CachedPath))
<1>1. "completion" \in Keys /\ "response_cached_tokens" \in Keys
  BY KeyGroups DEF CaseKeys, CompletionKeys
<1>. DEFINE q == P \o CachedPath
<1>2. q \in Seq(Keys) /\ Contract!Last(q) = "response_cached_tokens"
  BY <1>1, EndOfPath DEF CachedPath
<1>3. q # <<>>
  <2>1. CachedPath \in Seq(Keys) /\ CachedPath # <<>>
    BY <1>1 DEF CachedPath
  <2>2. QED
    BY <2>1, ConcatEmptySeq, ConcatSimplifications, <1>2
<1>. HIDE DEF q
<1>4. Contract!Last(<<l>> \o q) = "response_cached_tokens"
  BY <1>1, <1>2, <1>3, PathEnd
<1>5. QED
  BY <1>4 DEF q, Contract!Unrelated

(* A case with a partner whose slot is known to be idle.                    *)
LEMMA CaseIsNoticed ==
    ASSUME NEW l \in Keys,
           NEW d, NEW e, NEW shape, Contract!HasShape(d, shape), Contract!HasShape(e, shape),
           NEW places, ShapeAt(shape, places, Contract!Case),
           NEW P \in places, NEW Q \in places, P # Q, NEW r \in CasePaths, OneLeaf(d, e, P \o r),
           Contract!SameResult(d, P, Q), Contract!SameResult(e, P, Q),
           Contract!ViewsAgree(d, P), Contract!ViewsAgree(e, P),
           Contract!Idle(d, P), Contract!Idle(e, P)
    PROVE  Contract!Equal(d[P \o r], e[P \o r]) \/ Contract!Unrelated(<<l>> \o (P \o r))
<1>1. CASE r = CachedPath
  BY <1>1, CachedIsUnrelated DEF ShapeAt
<1>2. CASE r = IdlePath
  BY <1>2, IdleNoticed
<1>3. QED
  BY <1>1, <1>2, PairNoticed

LEMMA CacheNoticed ==
    ASSUME NEW d, NEW e, Contract!HasShape(d, Contract!CachePairing),
           Contract!HasShape(e, Contract!CachePairing), CacheTies(d), CacheTies(e),
           NEW p \in DOMAIN d, OneLeaf(d, e, p)
    PROVE  Contract!Equal(d[p], e[p]) \/ Contract!Unrelated(<<"cache_pairing">> \o p)
<1>. DEFINE places == {<<x>> : x \in Contract!CacheCalls}
            cold == <<"cold_cache_on">>
            again == <<"repeat_cache_on">>
<1>1. cold \in places /\ again \in places /\ cold # again
  BY DEF Contract!CacheCalls
<1>2. /\ p \in LeavesAt(places, CasePaths)
      /\ ShapeAt(Contract!CachePairing, places, Contract!Case)
  BY CacheLeaves DEF Contract!HasShape
<1>3. \A c \in places : /\ Contract!SameResult(d, cold, c) /\ Contract!SameResult(e, cold, c)
                        /\ Contract!ViewsAgree(d, c) /\ Contract!ViewsAgree(e, c)
                        /\ Contract!Idle(d, c) /\ Contract!Idle(e, c)
  BY DEF CacheTies
<1>. HIDE DEF places, cold, again
<1>4. PICK P \in places : \E r \in CasePaths : p = P \o r
  BY <1>2, OfLeaves
<1>5. PICK r \in CasePaths : p = P \o r
  BY <1>4
<1>6. \E Q \in places : P # Q /\ Contract!SameResult(d, P, Q) /\ Contract!SameResult(e, P, Q)
  <2>1. CASE P = cold
    BY <1>1, <1>3, <2>1
  <2>2. CASE P # cold
    BY <1>1, <1>3, <2>2, SameIsSymmetric
  <2>3. QED
    BY <2>1, <2>2
<1>7. "cache_pairing" \in Keys
  BY KeyGroups DEF LaneNames
<1>8. QED
  BY <1>2, <1>3, <1>5, <1>6, <1>7, CaseIsNoticed

LEMMA FourKeys ==
    ASSUME NEW a \in Keys, NEW b \in Keys, NEW c \in Keys, NEW d \in Keys
    PROVE  <<a, b, c, d>> = <<a>> \o (<<b>> \o <<c, d>>)
<1>1. <<b>> \o <<c, d>> = <<b, c, d>> /\ <<b, c, d>> \in Seq(Keys)
  BY ThreeKeys
<1>2. /\ Len(<<b, c, d>>) = 3 /\ <<b, c, d>>[1] = b /\ <<b, c, d>>[2] = c /\ <<b, c, d>>[3] = d
      /\ <<a, b, c, d>> \in Seq(Keys) /\ Len(<<a, b, c, d>>) = 4
      /\ <<a, b, c, d>>[1] = a /\ <<a, b, c, d>>[2] = b /\ <<a, b, c, d>>[3] = c
      /\ <<a, b, c, d>>[4] = d
  OBVIOUS
<1>. DEFINE p == <<b, c, d>>
            s == <<a>> \o p
            t == <<a, b, c, d>>
<1>3. /\ p \in Seq(Keys) /\ Len(p) = 3 /\ p[1] = b /\ p[2] = c /\ p[3] = d
      /\ t \in Seq(Keys) /\ Len(t) = 4 /\ t[1] = a /\ t[2] = b /\ t[3] = c /\ t[4] = d
  BY <1>1, <1>2
<1>. HIDE DEF p, t
<1>4. s \in Seq(Keys) /\ Len(s) = 4 /\ s[1] = a /\ \A i \in 1 .. 3 : s[i + 1] = p[i]
  <2>1. /\ s \in Seq(Keys) /\ Len(s) = Len(p) + 1 /\ s[1] = a
        /\ \A i \in 1 .. Len(p) : s[i + 1] = p[i]
    BY <1>3, PathByKey
  <2>2. QED
    BY <1>3, <2>1
<1>. HIDE DEF s
<1>5. s[2] = b /\ s[3] = c /\ s[4] = d
  <2>1. s[1 + 1] = p[1] /\ s[2 + 1] = p[2] /\ s[3 + 1] = p[3]
    BY <1>4
  <2>2. QED
    BY <1>3, <2>1
<1>6. \A i \in 1 .. 4 : s[i] = t[i]
  BY <1>3, <1>4, <1>5
<1>7. s = t
  BY <1>3, <1>4, <1>6, SeqEqual
<1>8. QED
  BY <1>1, <1>7 DEF s, t, p

LEMMA CancellationNoticed ==
    ASSUME NEW d, NEW e, Contract!HasShape(d, Contract!Cancellation),
           Contract!HasShape(e, Contract!Cancellation), CancellationTies(d), CancellationTies(e),
           NEW p \in DOMAIN d, OneLeaf(d, e, p)
    PROVE  Contract!Equal(d[p], e[p]) \/ Contract!Unrelated(<<"cancellation_reuse">> \o p)
<1>. DEFINE places == {<<"clean_baseline">>, <<"reused_slot">>}
            clean == <<"clean_baseline">>
            reused == <<"reused_slot">>
<1>1. clean \in places /\ reused \in places /\ clean # reused
      /\ \A P \in places : P = clean \/ P = reused
  OBVIOUS
<1>2. /\ p \in LeavesAt(places, CasePaths) \/ \E f \in Contract!CancelFlags : p = <<"disconnect", f>>
      /\ ShapeAt(Contract!Cancellation, places, Contract!Case)
  BY CancellationLeaves DEF Contract!HasShape
<1>3. /\ Contract!SameResult(d, clean, reused) /\ Contract!SameResult(e, clean, reused)
      /\ Contract!ViewsAgree(d, clean) /\ Contract!ViewsAgree(e, clean)
      /\ Contract!ViewsAgree(d, reused) /\ Contract!ViewsAgree(e, reused)
      /\ Contract!Idle(d, reused) /\ Contract!Idle(e, reused)
  BY DEF CancellationTies
<1>4. "cancellation_reuse" \in Keys /\ "clean_baseline" \in Keys /\ "idle_slot" \in Keys
      /\ "idle" \in Keys
  BY KeyGroups DEF LaneNames, CancellationKeys, CaseKeys
<1>5. Contract!Unrelated(<<"cancellation_reuse">> \o (clean \o IdlePath))
  <2>1. \A a, b, c, x \in Keys : <<a, b, c, x>> = <<a>> \o (<<b>> \o <<c, x>>)
    BY FourKeys
  <2>2. <<"cancellation_reuse", "clean_baseline", "idle_slot", "idle">>
          = <<"cancellation_reuse">> \o (<<"clean_baseline">> \o <<"idle_slot", "idle">>)
    BY <1>4, <2>1
  <2>3. Contract!Unrelated(<<"cancellation_reuse", "clean_baseline", "idle_slot", "idle">>)
    BY DEF Contract!Unrelated
  <2>4. QED
    BY <2>2, <2>3 DEF IdlePath
<1>. HIDE DEF places, clean, reused
<1>6. CASE p \in LeavesAt(places, CasePaths)
  <2>1. PICK P \in places : \E r \in CasePaths : p = P \o r
    BY <1>6, OfLeaves
  <2>2. PICK r \in CasePaths : p = P \o r
    BY <2>1
  <2>3. CASE P = reused
    <3>1. Contract!SameResult(d, reused, clean) /\ Contract!SameResult(e, reused, clean)
      BY <1>3, SameIsSymmetric
    <3>2. QED
      BY <1>1, <1>2, <1>3, <1>4, <2>2, <2>3, <3>1, CaseIsNoticed
  <2>4. CASE P = clean
    <3>1. Contract!Equal(d[clean \o r], e[clean \o r]) \/ r = CachedPath \/ r = IdlePath
      BY <1>1, <1>2, <1>3, <2>2, <2>4, PairNoticed
    <3>2. CASE r = CachedPath
      <4>1. clean \in Seq(Keys)
        BY <1>1, <1>2 DEF ShapeAt
      <4>2. QED
        BY <1>4, <2>2, <2>4, <3>2, <4>1, CachedIsUnrelated
    <3>3. CASE r = IdlePath
      BY <1>5, <2>2, <2>4, <3>3
    <3>4. QED
      BY <2>2, <2>4, <3>1, <3>2, <3>3
  <2>5. QED
    BY <1>1, <2>3, <2>4
<1>7. CASE \E f \in Contract!CancelFlags : p = <<"disconnect", f>>
  <2>1. d[p] = e[p]
    BY <1>7 DEF CancellationTies
  <2>2. QED
    BY <2>1, EqualValues
<1>8. QED
  BY <1>2, <1>6, <1>7

LEMMA InterleavingNoticed ==
    ASSUME NEW d, NEW e, Contract!HasShape(d, Contract!Interleaving),
           Contract!HasShape(e, Contract!Interleaving), InterleavingTies(d), InterleavingTies(e),
           NEW p \in DOMAIN d, OneLeaf(d, e, p)
    PROVE  Contract!Equal(d[p], e[p]) \/ Contract!Unrelated(<<"interleaving_isolation">> \o p)
<1>. DEFINE lane == "interleaving_isolation"
            Noticed == Contract!Equal(d[p], e[p]) \/ Contract!Unrelated(<<lane>> \o p)
<1>1. /\ lane \in Keys /\ Contract!DirectionNames \subseteq Keys
      /\ Contract!Flags \subseteq Keys /\ Contract!BothSlots \subseteq Keys
  BY KeyGroups DEF LaneNames
<1>2. \/ p \in LeavesAt(BasePlaces, CasePaths)
      \/ \E n \in Contract!DirectionNames : \/ p \in LeavesAt(ReusePlaces(n), CasePaths)
                                            \/ \E f \in Contract!Flags : p = <<n, f>>
  BY InterleavingLeaves DEF Contract!HasShape
<1>3. ASSUME NEW n \in Contract!DirectionNames, NEW P \in BasePlaces \cup ReusePlaces(n),
             NEW r \in CasePaths, p = P \o r
      PROVE  Noticed
  <2>1. ShapeAt(Contract!Interleaving, BasePlaces \cup ReusePlaces(n), Contract!Case)
    BY InterleavingLeaves DEF ShapeAt
  <2>2. PICK s \in Contract!BothSlots : P = <<"baselines", s>> \/ P = <<n, "reuses", s>>
    BY DEF BasePlaces, ReusePlaces
  <2>. DEFINE base == <<"baselines", s>>
              reuse == <<n, "reuses", s>>
  <2>3. base \in BasePlaces /\ reuse \in ReusePlaces(n)
    BY DEF BasePlaces, ReusePlaces
  <2>4. base # reuse
    <3>1. Len(base) = 2 /\ Len(reuse) = 3
      OBVIOUS
    <3>2. QED
      BY <3>1
  <2>5. \A x \in {d, e} : /\ Contract!Idle(x, base) /\ Contract!ViewsAgree(x, base)
                          /\ Contract!Idle(x, reuse) /\ Contract!ViewsAgree(x, reuse)
                          /\ Contract!SameResult(x, base, reuse)
    BY <2>3 DEF InterleavingTies
  <2>6. P = base \/ P = reuse
    BY <2>2
  <2>. HIDE DEF base, reuse
  <2>7. \A x \in {d, e} : Contract!SameResult(x, reuse, base)
    BY <2>5, SameIsSymmetric
  <2>8. CASE P = base
    BY <1>1, <1>3, <2>1, <2>3, <2>4, <2>5, <2>8, CaseIsNoticed
  <2>9. CASE P = reuse
    BY <1>1, <1>3, <2>1, <2>3, <2>4, <2>5, <2>7, <2>9, CaseIsNoticed
  <2>10. QED
    BY <2>6, <2>8, <2>9
<1>4. ASSUME NEW n \in Contract!DirectionNames, NEW f \in Contract!Flags, p = <<n, f>>
      PROVE  Noticed
  <2>1. CASE f \in Contract!Gating
    <3>1. d[p] = Contract!True /\ e[p] = Contract!True
      BY <1>4, <2>1 DEF InterleavingTies
    <3>2. QED
      BY <3>1, EqualValues
  <2>2. CASE f \notin Contract!Gating
    <3>1. n \in Keys /\ f \in Keys
      BY <1>1
    <3>2. p \in Seq(Keys) /\ p # <<>> /\ Contract!Last(p) = f
      BY <1>4, <3>1 DEF Contract!Last
    <3>3. Head(<<lane>> \o p) = lane
      BY <1>1, <3>2, PathByKey
    <3>4. Contract!Last(<<lane>> \o p) = f
      BY <1>1, <3>1, <3>2, PathEnd
    <3>5. QED
      BY <2>2, <3>3, <3>4 DEF Contract!Unrelated
  <2>3. QED
    BY <2>1, <2>2
<1>5. CASE p \in LeavesAt(BasePlaces, CasePaths)
  <2>1. PICK P \in BasePlaces, r \in CasePaths : p = P \o r
    BY <1>5 DEF LeavesAt
  <2>2. PICK n \in Contract!DirectionNames : TRUE
    BY DEF Contract!DirectionNames
  <2>3. QED
    BY <1>3, <2>1, <2>2
<1>6. ASSUME NEW n \in Contract!DirectionNames, p \in LeavesAt(ReusePlaces(n), CasePaths)
      PROVE  Noticed
  <2>1. PICK P \in ReusePlaces(n), r \in CasePaths : p = P \o r
    BY <1>6 DEF LeavesAt
  <2>2. QED
    BY <1>3, <2>1
<1>7. QED
  BY <1>2, <1>4, <1>5, <1>6

(* The numbers of a direct-token case, which the registration determines.   *)
CountOf(c) ==
    LET counts == Contract!Registered[c[1]]
        expected == IF counts.common = counts.target THEN counts.common - 1 ELSE counts.common
        count == IF c[2] = "source" THEN counts.source ELSE counts.target
        cached == IF c[2] = "cache_on_target" THEN expected ELSE 0
    IN  [predicted_tokens |-> 1, prompt_tokens |-> count, cache_tokens |-> cached,
         prompt_work |-> IF c[2] = "cache_on_target" THEN counts.target - expected ELSE count]

TokenTies(d) ==
    \A c \in TokenPlaces :
        /\ \A f \in PrefillKeys : Contract!Prefill(d, c, f) = CountOf(c)[f]
        /\ Contract!Prefill(d, c, "prompt_work") = Contract!SlotWork(d, c)
        /\ Contract!Idle(d, c)

LEMMA PrefillOfShape ==
    ASSUME NEW d, Contract!HasShape(d, Contract!TokenPrefix), NEW P \in TokenPlaces
    PROVE  /\ \A f \in PrefillKeys : d[P \o <<"prefill", f>>].type = "int"
           /\ d[P \o <<"idle_slot", "prompt_work">>].type = "int"
<1>1. \A r \in PrefillPaths : /\ P \o r \in DOMAIN Contract!TokenPrefix
                              /\ Contract!TokenPrefix[P \o r] = Contract!PrefillCase[r]
  BY TokenLeaves, PrefillLeaves DEF ShapeAt
<1>2. \A q \in DOMAIN Contract!TokenPrefix : Contract!Fits(d[q], Contract!TokenPrefix[q])
  BY DEF Contract!HasShape
<1>3. \A r \in PrefillPaths : Contract!PrefillCase[r] = "nat" => d[P \o r].type = "int"
  BY <1>1, <1>2 DEF Contract!Fits
<1>4. /\ \A f \in PrefillKeys : <<"prefill", f>> \in PrefillPaths
      /\ <<"idle_slot", "prompt_work">> \in PrefillPaths
  BY DEF PrefillPaths
<1>5. QED
  BY <1>3, <1>4, PrefillLeaves

LEMMA TokenNoticed ==
    ASSUME NEW d, NEW e, Contract!HasShape(d, Contract!TokenPrefix),
           Contract!HasShape(e, Contract!TokenPrefix), TokenTies(d), TokenTies(e), NEW p \in DOMAIN d
    PROVE  Contract!Equal(d[p], e[p])
<1>1. PICK P \in TokenPlaces, r \in PrefillPaths : p = P \o r
  BY TokenLeaves DEF Contract!HasShape, LeavesAt
<1>2. \/ \E f \in PrefillKeys : r = <<"prefill", f>>
      \/ r = <<"idle_slot", "idle">> \/ r = <<"idle_slot", "prompt_work">>
  BY DEF PrefillPaths
<1>3. ASSUME NEW f \in PrefillKeys, r = <<"prefill", f>>
      PROVE  Contract!Equal(d[p], e[p])
  <2>1. d[P \o r].type = "int" /\ e[P \o r].type = "int"
    BY <1>3, PrefillOfShape
  <2>2. d[P \o r].n = CountOf(P)[f] /\ e[P \o r].n = CountOf(P)[f]
    BY <1>3 DEF TokenTies, Contract!Prefill
  <2>3. QED
    BY <1>1, <2>1, <2>2 DEF Contract!Equal, Contract!Numeric
<1>4. CASE r = <<"idle_slot", "idle">>
  BY <1>1, <1>4 DEF TokenTies, Contract!Idle, Contract!Equal
<1>5. CASE r = <<"idle_slot", "prompt_work">>
  <2>1. d[P \o r].type = "int" /\ e[P \o r].type = "int"
    BY <1>5, PrefillOfShape
  <2>2. "prompt_work" \in PrefillKeys
    BY DEF PrefillKeys
  <2>3. d[P \o r].n = CountOf(P)["prompt_work"] /\ e[P \o r].n = CountOf(P)["prompt_work"]
    BY <1>5, <2>2 DEF TokenTies, Contract!SlotWork
  <2>4. QED
    BY <1>1, <2>1, <2>3 DEF Contract!Equal, Contract!Numeric
<1>6. QED
  BY <1>2, <1>3, <1>4, <1>5

SaveTies(d) ==
    /\ \A P \in SavePlaces : /\ Contract!SameResult(d, <<"source">>, P)
                             /\ Contract!ViewsAgree(d, P) /\ Contract!Idle(d, P)
    /\ \A c \in SaveCounts : d[c] = d[<<"saved_tokens">>]
    /\ \A r \in StatePaths : \A m, n \in StateNames : d[<<m>> \o r] = d[<<n>> \o r]
    /\ d[<<"process_restart_confirmed">>] = Contract!True

LEMMA SaveNoticed ==
    ASSUME NEW d, NEW e, Contract!HasShape(d, Contract!SaveRestore),
           Contract!HasShape(e, Contract!SaveRestore), SaveTies(d), SaveTies(e),
           NEW p \in DOMAIN d, OneLeaf(d, e, p)
    PROVE  Contract!Equal(d[p], e[p]) \/ Contract!Unrelated(<<"save_restore">> \o p)
<1>1. /\ p \in LeavesAt(SavePlaces, CasePaths) \/ p \in LeavesAt(StatePlaces, StatePaths)
            \/ p \in SaveCounts \/ p = <<"process_restart_confirmed">>
      /\ SaveCounts \subseteq DOMAIN d
      /\ ShapeAt(Contract!SaveRestore, SavePlaces, Contract!Case)
      /\ ShapeAt(Contract!SaveRestore, StatePlaces, Contract!SlotState)
  BY SaveLeaves DEF Contract!HasShape
<1>2. CASE p \in LeavesAt(SavePlaces, CasePaths)
  <2>1. PICK P \in SavePlaces, r \in CasePaths : p = P \o r
    BY <1>2 DEF LeavesAt
  <2>. DEFINE source == <<"source">>
              same == <<"same_process", "restored">>
  <2>2. source \in SavePlaces /\ same \in SavePlaces
    BY DEF SavePlaces, RestoredNames
  <2>3. source # same
    <3>1. Len(source) = 1 /\ Len(same) = 2
      OBVIOUS
    <3>2. QED
      BY <3>1
  <2>4. \A x \in {d, e} : \A Q \in SavePlaces :
            /\ Contract!SameResult(x, source, Q) /\ Contract!SameResult(x, Q, source)
            /\ Contract!ViewsAgree(x, Q) /\ Contract!Idle(x, Q)
    BY SameIsSymmetric DEF SaveTies
  <2>5. "save_restore" \in Keys
    BY KeyGroups DEF LaneNames
  <2>. HIDE DEF source, same
  <2>6. PICK Q \in SavePlaces : /\ Q # P
                                /\ \A x \in {d, e} : Contract!SameResult(x, P, Q)
    <3>1. CASE P = source
      BY <2>2, <2>3, <2>4, <3>1
    <3>2. CASE P # source
      BY <2>2, <2>4, <3>2
    <3>3. QED
      BY <3>1, <3>2
  <2>7. QED
    BY <1>1, <2>1, <2>4, <2>5, <2>6, CaseIsNoticed
<1>3. CASE p \in LeavesAt(StatePlaces, StatePaths)
  <2>1. PICK n \in StateNames, r \in StatePaths : p = <<n>> \o r
    BY <1>3 DEF LeavesAt, StatePlaces
  <2>2. PICK m \in StateNames : m # n
    BY DEF StateNames
  <2>. DEFINE q == <<m>> \o r
  <2>3. m \in Keys /\ n \in Keys /\ r \in Seq(Keys)
    BY StateLeaves, KeyGroups DEF StateNames, SaveKeys
  <2>4. q # p
    BY <2>1, <2>2, <2>3, PathByKey
  <2>5. q \in DOMAIN d
    BY <1>1, StateLeaves DEF ShapeAt, StatePlaces, Contract!HasShape
  <2>6. d[q] = e[q]
    BY <2>4, <2>5 DEF OneLeaf
  <2>7. d[p] = d[q] /\ e[p] = e[q]
    BY <2>1 DEF SaveTies
  <2>8. QED
    BY <2>6, <2>7, EqualValues
<1>4. CASE p \in SaveCounts
  <2>1. PICK q \in SaveCounts : q # p
    <3>1. <<"saved_tokens">> \in SaveCounts /\ <<"same_process", "restored_tokens">> \in SaveCounts
      BY DEF SaveCounts, RestoredNames
    <3>2. <<"saved_tokens">> # <<"same_process", "restored_tokens">>
      <4>1. Len(<<"saved_tokens">>) = 1 /\ Len(<<"same_process", "restored_tokens">>) = 2
        OBVIOUS
      <4>2. QED
        BY <4>1
    <3>3. QED
      BY <3>1, <3>2
  <2>2. d[q] = e[q]
    BY <1>1, <2>1 DEF OneLeaf
  <2>3. d[p] = d[q] /\ e[p] = e[q]
    BY <1>4 DEF SaveTies
  <2>4. QED
    BY <2>2, <2>3, EqualValues
<1>5. CASE p = <<"process_restart_confirmed">>
  BY <1>5, EqualValues DEF SaveTies
<1>6. QED
  BY <1>1, <1>2, <1>3, <1>4, <1>5

-----------------------------------------------------------------------------
(* What passed invariants say of the lanes                                  *)

AllPassed(f) == \A k \in DOMAIN f : Contract!Passed(f[k])

LEMMA PassedFields ==
    ASSUME NEW f, IsFields(f), Contract!Passed(Contract!Obj(f))
    PROVE  AllPassed(f)
BY ObjAt DEF AllPassed, Contract!Passed

LEMMA PassedFlag ==
    ASSUME NEW b \in BOOLEAN, Contract!Passed(Contract!Leaf(Contract!Bool(b)))
    PROVE  b
<1>1. Contract!Bool(b) = Contract!True
  BY LeafFacts DEF Contract!Passed
<1>2. QED
  BY <1>1 DEF Contract!Bool, Contract!True, Contract!Value

LEMMA PassedMerge ==
    ASSUME NEW f, NEW g, AllPassed(Contract!Merge(f, g))
    PROVE  /\ AllPassed(f)
           /\ DOMAIN f \cap DOMAIN g = {} => AllPassed(g)
<1>. DEFINE h == Contract!Merge(f, g)
<1>1. /\ DOMAIN h = DOMAIN f \cup DOMAIN g
      /\ \A k \in DOMAIN f : h[k] = f[k]
      /\ \A k \in DOMAIN g : k \notin DOMAIN f => h[k] = g[k]
  BY MergeFacts
<1>. HIDE DEF h
<1>2. \A k \in DOMAIN h : Contract!Passed(h[k])
  BY DEF AllPassed, h
<1>3. AllPassed(f)
  BY <1>1, <1>2 DEF AllPassed
<1>4. ASSUME DOMAIN f \cap DOMAIN g = {} PROVE AllPassed(g)
  <2>1. ASSUME NEW k \in DOMAIN g PROVE Contract!Passed(g[k])
    BY <1>1, <1>2, <1>4
  <2>2. QED
    BY <2>1 DEF AllPassed
<1>5. QED
  BY <1>3, <1>4

LEMMA LanesPassed ==
    ASSUME NEW lane, Contract!Passed(Contract!Invariants(lane, 3))
    PROVE  /\ AllPassed(Contract!CacheInvariants(lane["cache_pairing"]))
           /\ AllPassed(Contract!CancellationInvariants(lane["cancellation_reuse"]))
           /\ AllPassed(Contract!SaveRestoreInvariants(lane["save_restore"]))
           /\ AllPassed(Contract!InterleavingInvariants(lane["interleaving_isolation"]))
           /\ AllPassed(Contract!TokenPrefixInvariants(lane["token_prefix_divergence"],
                                                       Contract!Registered))
<1>. DEFINE c == Contract!CacheInvariants(lane.cache_pairing)
            e == Contract!CancellationInvariants(lane.cancellation_reuse)
            s == Contract!SaveRestoreInvariants(lane.save_restore)
            i == Contract!InterleavingInvariants(lane.interleaving_isolation)
            t == Contract!TokenPrefixInvariants(lane.token_prefix_divergence, Contract!Registered)
            es == Contract!Merge(e, s)
            oldest == Contract!Merge(c, es)
            second == Contract!Merge(oldest, i)
            third == Contract!Merge(second, t)
            own == {"interleave_baselines_idle", "interleave_baseline_prompt_work_views_consistent"}
                     \cup Contract!DirectionNames
            tokens == TokenPrefixNames \cup Contract!TokenNames
<1>1. Contract!Invariants(lane, 3) = Contract!Obj(third)
  BY DEF Contract!Invariants
<1>2. IsFields(c) /\ IsFields(e) /\ IsFields(s) /\ IsFields(i) /\ IsFields(t)
  BY LaneInvariantsFields
<1>3. /\ DOMAIN c = CacheNames /\ DOMAIN e = CancellationNames /\ DOMAIN s = SaveRestoreNames
      /\ DOMAIN i = own /\ DOMAIN t = tokens
  BY CacheFlags, CancellationFlags, SaveRestoreFlags, InterleavingFields,
    TokenPrefixFields
    DEF AreFlags
<1>. HIDE DEF c, e, s, i, t
<1>4. /\ CancellationNames \cap SaveRestoreNames = {}
      /\ CacheNames \cap (CancellationNames \cup SaveRestoreNames) = {}
  BY DEF CacheNames, CancellationNames, SaveRestoreNames
<1>5. /\ CacheNames \cap own = {} /\ CancellationNames \cap own = {} /\ SaveRestoreNames \cap own = {}
  BY DEF CacheNames, CancellationNames, SaveRestoreNames, Contract!DirectionNames
<1>6. /\ CacheNames \cap tokens = {} /\ CancellationNames \cap tokens = {}
      /\ SaveRestoreNames \cap tokens = {} /\ own \cap tokens = {}
  BY DEF CacheNames, CancellationNames, SaveRestoreNames, Contract!DirectionNames,
    TokenPrefixNames, Contract!TokenNames
<1>. HIDE DEF own, tokens
<1>7. /\ DOMAIN es = CancellationNames \cup SaveRestoreNames
      /\ DOMAIN oldest = CacheNames \cup CancellationNames \cup SaveRestoreNames
      /\ DOMAIN second = CacheNames \cup CancellationNames \cup SaveRestoreNames \cup own
  <2>1. DOMAIN es = DOMAIN e \cup DOMAIN s
    BY MergeFacts
  <2>2. DOMAIN oldest = DOMAIN c \cup DOMAIN es
    BY MergeFacts
  <2>3. DOMAIN second = DOMAIN oldest \cup DOMAIN i
    BY MergeFacts
  <2>. HIDE DEF es, oldest, second
  <2>4. QED
    BY <1>3, <2>1, <2>2, <2>3
<1>8. IsFields(third)
  BY <1>2, MergeFacts
<1>. HIDE DEF es, oldest, second, third
<1>9. AllPassed(third)
  BY <1>1, <1>8, PassedFields
<1>10. AllPassed(second) /\ AllPassed(t)
  BY <1>3, <1>6, <1>7, <1>9, PassedMerge DEF third
<1>11. AllPassed(oldest) /\ AllPassed(i)
  BY <1>3, <1>5, <1>7, <1>10, PassedMerge DEF second
<1>12. AllPassed(c) /\ AllPassed(es)
  BY <1>3, <1>4, <1>7, <1>11, PassedMerge DEF oldest
<1>13. AllPassed(e) /\ AllPassed(s)
  BY <1>3, <1>4, <1>12, PassedMerge DEF es
<1>14. QED
  BY <1>10, <1>11, <1>12, <1>13 DEF c, e, s, i, t

LEMMA CacheTied ==
    ASSUME NEW d, AllPassed(Contract!CacheInvariants(d))
    PROVE  CacheTies(d)
<1>. DEFINE f == Contract!CacheInvariants(d)
            cases == {<<c>> : c \in Contract!CacheCalls}
            same == \A c \in cases : Contract!SameResult(d, <<"cold_cache_on">>, c)
            views == \A c \in cases : Contract!ViewsAgree(d, c)
            idle == \A c \in cases : Contract!Idle(d, c)
<1>1. /\ f["cache_all_results_equal"] = Contract!Leaf(Contract!Bool(same))
      /\ f["cache_prompt_work_views_consistent"] = Contract!Leaf(Contract!Bool(views))
      /\ f["cache_slots_idle"] = Contract!Leaf(Contract!Bool(idle))
  BY DEF Contract!CacheInvariants, Contract!Judged
<1>2. \A k \in CacheNames : Contract!Passed(f[k])
  BY CacheFlags DEF AreFlags, AllPassed
<1>3. same \in BOOLEAN /\ views \in BOOLEAN /\ idle \in BOOLEAN
  OBVIOUS
<1>. HIDE DEF f, same, views, idle
<1>4. same /\ views /\ idle
  BY <1>1, <1>2, <1>3, PassedFlag DEF CacheNames
<1>5. QED
  BY <1>4 DEF same, views, idle, CacheTies

LEMMA CancellationTied ==
    ASSUME NEW d, AllPassed(Contract!CancellationInvariants(d))
    PROVE  CancellationTies(d)
<1>. DEFINE f == Contract!CancellationInvariants(d)
            clean == <<"clean_baseline">>
            reused == <<"reused_slot">>
            active == d[<<"disconnect", "active_processing_observed">>] = Contract!True
            first == d[<<"disconnect", "first_event_observed">>] = Contract!True
            more == d[<<"disconnect", "first_event_nonterminal">>] = Contract!True
            after == d[<<"disconnect", "idle_after_disconnect">>] = Contract!True
            same == Contract!SameResult(d, clean, reused)
            views == Contract!ViewsAgree(d, clean) /\ Contract!ViewsAgree(d, reused)
            idle == Contract!Idle(d, reused)
<1>1. /\ f["cancel_active_processing_observed"] = Contract!Leaf(Contract!Bool(active))
      /\ f["cancel_first_event_observed"] = Contract!Leaf(Contract!Bool(first))
      /\ f["cancel_first_event_nonterminal"] = Contract!Leaf(Contract!Bool(more))
      /\ f["cancel_idle_after_disconnect"] = Contract!Leaf(Contract!Bool(after))
      /\ f["cancel_reuse_result_matches_clean_slot"] = Contract!Leaf(Contract!Bool(same))
      /\ f["cancel_prompt_work_views_consistent"] = Contract!Leaf(Contract!Bool(views))
      /\ f["cancel_reused_slot_idle"] = Contract!Leaf(Contract!Bool(idle))
  BY DEF Contract!CancellationInvariants, Contract!Judged
<1>2. \A k \in CancellationNames : Contract!Passed(f[k])
  BY CancellationFlags DEF AreFlags, AllPassed
<1>3. /\ active \in BOOLEAN /\ first \in BOOLEAN /\ more \in BOOLEAN /\ after \in BOOLEAN
      /\ same \in BOOLEAN /\ views \in BOOLEAN /\ idle \in BOOLEAN
  BY DEF Contract!SameResult, Contract!Idle
<1>. HIDE DEF f, active, first, more, after, same, views, idle
<1>4. active /\ first /\ more /\ after
  BY <1>1, <1>2, <1>3, PassedFlag DEF CancellationNames
<1>5. same /\ views /\ idle
  BY <1>1, <1>2, <1>3, PassedFlag DEF CancellationNames
<1>6. \A x \in Contract!CancelFlags : d[<<"disconnect", x>>] = Contract!True
  BY <1>4 DEF active, first, more, after, Contract!CancelFlags
<1>7. QED
  BY <1>5, <1>6 DEF same, views, idle, CancellationTies

(* The fields of a part of a lane.                                          *)
LEMMA InnerAt ==
    ASSUME NEW d, NEW k \in Keys, NEW r \in Seq(Keys), <<k>> \o r \in DOMAIN d
    PROVE  /\ r \in DOMAIN Contract!Inner(d, k)
           /\ Contract!Inner(d, k)[r] = d[<<k>> \o r]
<1>. DEFINE q == <<k>> \o r
            paths == {Tail(p) : p \in {x \in DOMAIN d : Head(x) = k}}
<1>1. Head(q) = k /\ Tail(q) = r
  BY PathByKey
<1>. HIDE DEF q
<1>2. r \in paths
  BY <1>1 DEF q
<1>. HIDE DEF paths
<1>3. Contract!Inner(d, k) = [p \in paths |-> d[<<k>> \o p]]
  BY DEF Contract!Inner, paths
<1>4. QED
  BY <1>2, <1>3

LEMMA SaveTied ==
    ASSUME NEW d, Contract!HasShape(d, Contract!SaveRestore),
           AllPassed(Contract!SaveRestoreInvariants(d))
    PROVE  SaveTies(d)
<1>. DEFINE f == Contract!SaveRestoreInvariants(d)
            source == <<"source">>
            same == <<"same_process", "restored">>
            restart == <<"after_restart", "restored">>
            cases == {source, same, restart}
            sameCount == d[<<"same_process", "restored_tokens">>] = d[<<"saved_tokens">>]
            restartCount == d[<<"after_restart", "restored_tokens">>] = d[<<"saved_tokens">>]
            sameResult == Contract!SameResult(d, source, same)
            restartResult == Contract!SameResult(d, source, restart)
            views == \A c \in cases : Contract!ViewsAgree(d, c)
            idle == \A c \in cases : Contract!Idle(d, c)
            confirmed == d[<<"process_restart_confirmed">>] = Contract!True
            unchanged == Contract!Inner(d, "slot_state_before_restart")
                           = Contract!Inner(d, "slot_state_after_restart")
<1>1. /\ f["same_process_restore_count_matches_save"] = Contract!Leaf(Contract!Bool(sameCount))
      /\ f["restart_restore_count_matches_save"] = Contract!Leaf(Contract!Bool(restartCount))
      /\ f["same_process_restore_result_matches_source"] = Contract!Leaf(Contract!Bool(sameResult))
      /\ f["restart_restore_result_matches_source"] = Contract!Leaf(Contract!Bool(restartResult))
      /\ f["restore_prompt_work_views_consistent"] = Contract!Leaf(Contract!Bool(views))
      /\ f["restore_slots_idle"] = Contract!Leaf(Contract!Bool(idle))
      /\ f["server_process_restart_confirmed"] = Contract!Leaf(Contract!Bool(confirmed))
      /\ f["slot_state_file_unchanged_across_restart"] = Contract!Leaf(Contract!Bool(unchanged))
  BY DEF Contract!SaveRestoreInvariants, Contract!Judged
<1>2. \A k \in SaveRestoreNames : Contract!Passed(f[k])
  BY SaveRestoreFlags DEF AreFlags, AllPassed
<1>3. /\ sameCount \in BOOLEAN /\ restartCount \in BOOLEAN /\ sameResult \in BOOLEAN
      /\ restartResult \in BOOLEAN /\ views \in BOOLEAN /\ idle \in BOOLEAN
      /\ confirmed \in BOOLEAN /\ unchanged \in BOOLEAN
  BY DEF Contract!SameResult
<1>4. SavePlaces = cases
  BY DEF SavePlaces, RestoredNames
<1>. HIDE DEF f, sameCount, restartCount, sameResult, restartResult, views, idle, confirmed,
             unchanged
<1>5. sameCount /\ restartCount /\ confirmed /\ unchanged
  BY <1>1, <1>2, <1>3, PassedFlag DEF SaveRestoreNames
<1>6. sameResult /\ restartResult /\ views /\ idle
  BY <1>1, <1>2, <1>3, PassedFlag DEF SaveRestoreNames
<1>7. \A P \in SavePlaces : /\ Contract!SameResult(d, source, P)
                            /\ Contract!ViewsAgree(d, P) /\ Contract!Idle(d, P)
  <2>1. Contract!SameResult(d, source, source)
    BY DEF Contract!SameResult
  <2>2. QED
    BY <1>4, <1>6, <2>1 DEF sameResult, restartResult, views, idle
<1>8. \A c \in SaveCounts : d[c] = d[<<"saved_tokens">>]
  BY <1>5 DEF SaveCounts, RestoredNames, sameCount, restartCount
<1>9. ASSUME NEW r \in StatePaths
      PROVE  d[<<"slot_state_before_restart">> \o r] = d[<<"slot_state_after_restart">> \o r]
  <2>1. r \in Seq(Keys) /\ \A n \in StateNames : n \in Keys
    BY StateLeaves, KeyGroups DEF StateNames, SaveKeys
  <2>2. \A n \in StateNames : <<n>> \o r \in DOMAIN d
    BY StateLeaves, SaveLeaves DEF ShapeAt, StatePlaces, Contract!HasShape
  <2>3. \A n \in StateNames : Contract!Inner(d, n)[r] = d[<<n>> \o r]
    BY <2>1, <2>2, InnerAt
  <2>4. QED
    BY <1>5, <2>3 DEF unchanged, StateNames
<1>10. \A r \in StatePaths : \A m, n \in StateNames : d[<<m>> \o r] = d[<<n>> \o r]
  BY <1>9 DEF StateNames
<1>11. QED
  BY <1>5, <1>7, <1>8, <1>10 DEF SaveTies, confirmed

(* The fields of a direction, each with the leaves it judges.               *)
LEMMA DirectionValues ==
    ASSUME NEW d, NEW n
    PROVE  LET f == Contract!DirectionInvariants(d, n) IN
           /\ IsFields(f)
           /\ \A g \in Contract!Gating :
                 f[g] = Contract!Leaf(Contract!Bool(d[<<n, g>>] = Contract!True))
           /\ f["result_views_consistent"]
                = Contract!Leaf(Contract!Bool(\A s \in Contract!BothSlots :
                                    Contract!ViewsAgree(d, <<n, "reuses", s>>)))
           /\ f["result_slots_idle"]
                = Contract!Leaf(Contract!Bool(\A s \in Contract!BothSlots :
                                    Contract!Idle(d, <<n, "reuses", s>>)))
           /\ \A s \in Contract!BothSlots :
                 f[s] = Contract!Obj(Contract!ReuseInvariants(d, <<"baselines", s>>, <<n, "reuses", s>>))
<1>. DEFINE f == Contract!DirectionInvariants(d, n)
            own == {"result_views_consistent", "result_slots_idle"}
<1>1. own \cap Contract!Gating = {} /\ Contract!BothSlots \cap Contract!Gating = {}
      /\ Contract!BothSlots \cap own = {}
  BY DEF Contract!Gating, Contract!Flags, Contract!BothSlots
<1>2. \A g \in Contract!Gating :
          f[g] = Contract!Leaf(Contract!Bool(d[<<n, g>>] = Contract!True))
  BY DEF Contract!DirectionInvariants, Contract!Judged, Contract!Merge
<1>3. f["result_views_consistent"]
        = Contract!Leaf(Contract!Bool(\A s \in Contract!BothSlots :
                            Contract!ViewsAgree(d, <<n, "reuses", s>>)))
  BY <1>1 DEF Contract!DirectionInvariants, Contract!Judged, Contract!Merge
<1>4. f["result_slots_idle"]
        = Contract!Leaf(Contract!Bool(\A s \in Contract!BothSlots :
                            Contract!Idle(d, <<n, "reuses", s>>)))
  BY <1>1 DEF Contract!DirectionInvariants, Contract!Judged, Contract!Merge
<1>5. ASSUME NEW k \in Contract!BothSlots
      PROVE  f[k] = Contract!Obj(Contract!ReuseInvariants(d, <<"baselines", k>>, <<n, "reuses", k>>))
  <2>1. k \notin Contract!Gating /\ k \notin own
    BY <1>1
  <2>2. QED
    BY <2>1 DEF Contract!DirectionInvariants, Contract!Judged, Contract!Merge
<1>6. IsFields(f)
  <2>1. InterleavingNames \subseteq Keys /\ Contract!Gating \subseteq Keys
        /\ Contract!BothSlots \subseteq Keys
    BY KeyGroups DEF InvariantKeys
  <2>2. own \subseteq Keys /\ {"reuse_matches_baseline", "prompt_work_matches_baseline"} \subseteq Keys
    BY <2>1 DEF InterleavingNames
  <2>3. DOMAIN f = Contract!Gating \cup own \cup Contract!BothSlots
    BY DirectionFields
  <2>4. ASSUME NEW k \in Contract!Gating \cup own PROVE DOMAIN f[k] \subseteq Seq(Keys)
    BY <1>2, <1>3, <1>4, LeafFacts
  <2>5. ASSUME NEW k \in Contract!BothSlots PROVE DOMAIN f[k] \subseteq Seq(Keys)
    BY <1>5, <2>2, ReuseFlags, FlagFields
  <2>. HIDE DEF f, own
  <2>6. QED
    BY <2>1, <2>2, <2>3, <2>4, <2>5 DEF IsFields
<1>7. QED
  BY <1>2, <1>3, <1>4, <1>5, <1>6

LEMMA ReuseTied ==
    ASSUME NEW d, NEW base, NEW reuse,
           Contract!Passed(Contract!Obj(Contract!ReuseInvariants(d, base, reuse)))
    PROVE  Contract!SameResult(d, base, reuse)
<1>. DEFINE f == Contract!ReuseInvariants(d, base, reuse)
            same == Contract!SameResult(d, base, reuse)
            names == {"reuse_matches_baseline", "prompt_work_matches_baseline"}
<1>1. f["reuse_matches_baseline"] = Contract!Leaf(Contract!Bool(same))
  BY DEF Contract!ReuseInvariants, Contract!Judged
<1>2. AreFlags(f, names)
  BY ReuseFlags
<1>3. names \subseteq Keys
  BY KeyGroups DEF InvariantKeys, InterleavingNames
<1>4. same \in BOOLEAN
  BY DEF Contract!SameResult
<1>. HIDE DEF f, same
<1>5. AllPassed(f)
  BY <1>2, <1>3, FlagFields, PassedFields DEF f
<1>6. Contract!Passed(f["reuse_matches_baseline"])
  BY <1>2, <1>5 DEF AllPassed, AreFlags
<1>7. QED
  BY <1>1, <1>4, <1>6, PassedFlag DEF same

LEMMA DirectionTied ==
    ASSUME NEW d, NEW n, Contract!Passed(Contract!Obj(Contract!DirectionInvariants(d, n)))
    PROVE  /\ \A g \in Contract!Gating : d[<<n, g>>] = Contract!True
           /\ \A s \in Contract!BothSlots :
                 LET P == <<n, "reuses", s>> IN
                 /\ Contract!ViewsAgree(d, P) /\ Contract!Idle(d, P)
                 /\ Contract!SameResult(d, <<"baselines", s>>, P)
<1>. DEFINE f == Contract!DirectionInvariants(d, n)
            views == \A s \in Contract!BothSlots : Contract!ViewsAgree(d, <<n, "reuses", s>>)
            idle == \A s \in Contract!BothSlots : Contract!Idle(d, <<n, "reuses", s>>)
            own == {"result_views_consistent", "result_slots_idle"}
<1>1. /\ IsFields(f) /\ DOMAIN f = Contract!Gating \cup own \cup Contract!BothSlots
      /\ \A g \in Contract!Gating :
            f[g] = Contract!Leaf(Contract!Bool(d[<<n, g>>] = Contract!True))
      /\ f["result_views_consistent"] = Contract!Leaf(Contract!Bool(views))
      /\ f["result_slots_idle"] = Contract!Leaf(Contract!Bool(idle))
      /\ \A s \in Contract!BothSlots :
            f[s] = Contract!Obj(Contract!ReuseInvariants(d, <<"baselines", s>>, <<n, "reuses", s>>))
  <2>1. DOMAIN f = Contract!Gating \cup own \cup Contract!BothSlots
    BY DirectionFields
  <2>2. /\ IsFields(f)
        /\ \A g \in Contract!Gating :
              f[g] = Contract!Leaf(Contract!Bool(d[<<n, g>>] = Contract!True))
    BY DirectionValues, ZenonT(60)
  <2>3. /\ f["result_views_consistent"] = Contract!Leaf(Contract!Bool(views))
        /\ f["result_slots_idle"] = Contract!Leaf(Contract!Bool(idle))
    BY DirectionValues
  <2>4. \A s \in Contract!BothSlots :
            f[s] = Contract!Obj(Contract!ReuseInvariants(d, <<"baselines", s>>, <<n, "reuses", s>>))
    BY DirectionValues
  <2>. HIDE DEF f, views, idle, own
  <2>5. QED
    BY <2>1, <2>2, <2>3, <2>4
<1>2. views \in BOOLEAN /\ idle \in BOOLEAN
  OBVIOUS
<1>. HIDE DEF f, views, idle
<1>3. \A k \in DOMAIN f : Contract!Passed(f[k])
  BY <1>1, PassedFields DEF f, AllPassed
<1>4. ASSUME NEW g \in Contract!Gating PROVE d[<<n, g>>] = Contract!True
  <2>. DEFINE b == d[<<n, g>>] = Contract!True
  <2>1. Contract!Passed(Contract!Leaf(Contract!Bool(b)))
    <3>1. g \in DOMAIN f /\ f[g] = Contract!Leaf(Contract!Bool(b))
      BY <1>1
    <3>2. QED
      BY <1>3, <3>1
  <2>2. b \in BOOLEAN
    OBVIOUS
  <2>. HIDE DEF b
  <2>3. b
    BY <2>1, <2>2, PassedFlag
  <2>4. QED
    BY <2>3 DEF b
<1>5. views /\ idle
  BY <1>1, <1>2, <1>3, PassedFlag
<1>6. ASSUME NEW s \in Contract!BothSlots
      PROVE  Contract!SameResult(d, <<"baselines", s>>, <<n, "reuses", s>>)
  BY <1>1, <1>3, ReuseTied
<1>7. QED
  BY <1>4, <1>5, <1>6 DEF views, idle

LEMMA InterleavingTied ==
    ASSUME NEW d, AllPassed(Contract!InterleavingInvariants(d))
    PROVE  InterleavingTies(d)
<1>. DEFINE f == Contract!InterleavingInvariants(d)
            idle == \A s \in Contract!BothSlots : Contract!Idle(d, <<"baselines", s>>)
            views == \A s \in Contract!BothSlots : Contract!ViewsAgree(d, <<"baselines", s>>)
            own == {"interleave_baselines_idle", "interleave_baseline_prompt_work_views_consistent"}
<1>1. /\ f["interleave_baselines_idle"] = Contract!Leaf(Contract!Bool(idle))
      /\ f["interleave_baseline_prompt_work_views_consistent"] = Contract!Leaf(Contract!Bool(views))
  BY DEF Contract!InterleavingInvariants, Contract!Judged, Contract!Merge
<1>2. /\ DOMAIN f = own \cup Contract!DirectionNames
      /\ \A k \in Contract!DirectionNames : f[k] = Contract!Obj(Contract!DirectionInvariants(d, k))
  BY InterleavingFields
<1>3. \A k \in DOMAIN f : Contract!Passed(f[k])
  BY DEF AllPassed
<1>4. idle \in BOOLEAN /\ views \in BOOLEAN
  OBVIOUS
<1>. HIDE DEF f, idle, views
<1>5. idle /\ views
  BY <1>1, <1>2, <1>3, <1>4, PassedFlag
<1>6. \A P \in BasePlaces : Contract!Idle(d, P) /\ Contract!ViewsAgree(d, P)
  BY <1>5 DEF BasePlaces, idle, views
<1>7. \A n \in Contract!DirectionNames : Contract!Passed(Contract!Obj(Contract!DirectionInvariants(d, n)))
  BY <1>2, <1>3
<1>8. QED
  BY <1>6, <1>7, DirectionTied DEF InterleavingTies

Expected(counts) == IF counts.common = counts.target THEN counts.common - 1 ELSE counts.common

LEMMA TokenCaseTied ==
    ASSUME NEW d, NEW t, NEW counts,
           Contract!Passed(Contract!Obj(Contract!TokenCaseInvariants(d, t, counts)))
    PROVE  /\ Contract!Prefill(d, <<t, "source">>, "cache_tokens") = 0
           /\ Contract!Prefill(d, <<t, "source">>, "prompt_work") = counts.source
           /\ Contract!Prefill(d, <<t, "cache_off_target">>, "cache_tokens") = 0
           /\ Contract!Prefill(d, <<t, "cache_off_target">>, "prompt_work") = counts.target
           /\ Contract!Prefill(d, <<t, "cache_on_target">>, "cache_tokens") = Expected(counts)
           /\ Contract!Prefill(d, <<t, "cache_on_target">>, "prompt_work")
                = counts.target - Expected(counts)
<1>. DEFINE f == Contract!TokenCaseInvariants(d, t, counts)
            source == /\ Contract!Prefill(d, <<t, "source">>, "cache_tokens") = 0
                      /\ Contract!Prefill(d, <<t, "source">>, "prompt_work") = counts.source
            off == /\ Contract!Prefill(d, <<t, "cache_off_target">>, "cache_tokens") = 0
                   /\ Contract!Prefill(d, <<t, "cache_off_target">>, "prompt_work") = counts.target
            cache == Contract!Prefill(d, <<t, "cache_on_target">>, "cache_tokens") = Expected(counts)
            work == Contract!Prefill(d, <<t, "cache_on_target">>, "prompt_work")
                      = counts.target - Expected(counts)
<1>1. /\ f["source_is_cold"] = Contract!Leaf(Contract!Bool(source))
      /\ f["cache_off_is_cold"] = Contract!Leaf(Contract!Bool(off))
      /\ f["cache_on_cache_matches_lcp_rule"] = Contract!Leaf(Contract!Bool(cache))
      /\ f["cache_on_work_matches_lcp_rule"] = Contract!Leaf(Contract!Bool(work))
  BY DEF Contract!TokenCaseInvariants, Contract!Judged, Expected
<1>2. AreFlags(f, TokenCaseNames) /\ TokenCaseNames \subseteq Keys
  BY TokenCaseFlags, KeyGroups DEF InvariantKeys
<1>3. source \in BOOLEAN /\ off \in BOOLEAN /\ cache \in BOOLEAN /\ work \in BOOLEAN
  OBVIOUS
<1>. HIDE DEF f, source, off, cache, work
<1>4. AllPassed(f)
  BY <1>2, FlagFields, PassedFields DEF f
<1>5. \A k \in TokenCaseNames : Contract!Passed(f[k])
  BY <1>2, <1>4 DEF AllPassed, AreFlags
<1>6. source /\ off /\ cache /\ work
  BY <1>1, <1>3, <1>5, PassedFlag DEF TokenCaseNames
<1>7. QED
  BY <1>6 DEF source, off, cache, work

LEMMA TokenTied ==
    ASSUME NEW d, AllPassed(Contract!TokenPrefixInvariants(d, Contract!Registered))
    PROVE  TokenTies(d)
<1>. DEFINE reg == Contract!Registered
            f == Contract!TokenPrefixInvariants(d, reg)
            Count(c) == reg[c[1]][IF c[2] = "source" THEN "source" ELSE "target"]
            predicted == \A c \in TokenPlaces : Contract!Prefill(d, c, "predicted_tokens") = 1
            prompt == \A c \in TokenPlaces : Contract!Prefill(d, c, "prompt_tokens") = Count(c)
            views == \A c \in TokenPlaces :
                        Contract!Prefill(d, c, "prompt_work") = Contract!SlotWork(d, c)
            idle == \A c \in TokenPlaces : Contract!Idle(d, c)
<1>1. (DOMAIN reg) \X {"source", "cache_on_target", "cache_off_target"} = TokenPlaces
  BY DEF Contract!Registered, TokenPlaces, TokenParts, Contract!TokenNames
<1>2. DOMAIN f = TokenPrefixNames \cup Contract!TokenNames
  BY TokenPrefixFields
<1>3. DOMAIN reg = Contract!TokenNames /\ TokenPrefixNames \cap Contract!TokenNames = {}
  <2>1. DOMAIN reg = Contract!TokenNames
    BY DEF Contract!Registered, Contract!TokenNames
  <2>2. TokenPrefixNames \cap Contract!TokenNames = {}
    BY DEF Contract!TokenNames, TokenPrefixNames
  <2>3. QED
    BY <2>1, <2>2
<1>. HIDE DEF reg
<1>4. /\ f["prefix_predicted_tokens_are_one"] = Contract!Leaf(Contract!Bool(predicted))
      /\ f["prefix_prompt_counts_match_registration"] = Contract!Leaf(Contract!Bool(prompt))
      /\ f["prefix_prompt_work_views_consistent"] = Contract!Leaf(Contract!Bool(views))
      /\ f["prefix_slots_idle"] = Contract!Leaf(Contract!Bool(idle))
  BY <1>1 DEF Contract!TokenPrefixInvariants, Contract!Judged, Contract!Merge
<1>5. ASSUME NEW t \in Contract!TokenNames
      PROVE  f[t] = Contract!Obj(Contract!TokenCaseInvariants(d, t, reg[t]))
  <2>1. t \in DOMAIN reg /\ t \notin TokenPrefixNames
    BY <1>3
  <2>2. QED
    BY <2>1 DEF Contract!TokenPrefixInvariants, Contract!Judged, Contract!Merge,
      TokenPrefixNames
<1>6. \A k \in DOMAIN f : Contract!Passed(f[k])
  BY DEF AllPassed, reg
<1>7. predicted \in BOOLEAN /\ prompt \in BOOLEAN /\ views \in BOOLEAN /\ idle \in BOOLEAN
  OBVIOUS
<1>. HIDE DEF f, predicted, prompt, views, idle
<1>8. predicted /\ prompt /\ views /\ idle
  BY <1>2, <1>4, <1>6, <1>7, PassedFlag DEF TokenPrefixNames
<1>9. ASSUME NEW c \in TokenPlaces, NEW k \in PrefillKeys
      PROVE  Contract!Prefill(d, c, k) = CountOf(c)[k]
  <2>1. PICK t \in Contract!TokenNames, x \in TokenParts : c = <<t, x>>
    BY DEF TokenPlaces
  <2>. DEFINE counts == reg[t]
  <2>2. Contract!Passed(Contract!Obj(Contract!TokenCaseInvariants(d, t, counts)))
    BY <1>2, <1>5, <1>6
  <2>3. c[1] = t /\ c[2] = x /\ reg[c[1]] = counts
    BY <2>1
  <2>. HIDE DEF counts
  <2>4. /\ CountOf(c)["predicted_tokens"] = 1
        /\ CountOf(c)["prompt_tokens"] = IF x = "source" THEN counts.source ELSE counts.target
        /\ CountOf(c)["cache_tokens"] = IF x = "cache_on_target" THEN Expected(counts) ELSE 0
        /\ CountOf(c)["prompt_work"]
             = IF x = "cache_on_target" THEN counts.target - Expected(counts)
               ELSE IF x = "source" THEN counts.source ELSE counts.target
    BY <2>3 DEF CountOf, Expected, reg
  <2>5. CASE k = "predicted_tokens"
    BY <1>8, <2>4, <2>5 DEF predicted
  <2>6. CASE k = "prompt_tokens"
    <3>1. Count(c) = IF x = "source" THEN counts.source ELSE counts.target
      BY <2>3
    <3>2. QED
      BY <1>8, <2>4, <2>6, <3>1 DEF prompt
  <2>7. CASE k = "cache_tokens" \/ k = "prompt_work"
    <3>1. CASE x = "source"
      BY <2>1, <2>2, <2>4, <2>7, <3>1, TokenCaseTied, ZenonT(60)
    <3>2. CASE x = "cache_off_target"
      BY <2>1, <2>2, <2>4, <2>7, <3>2, TokenCaseTied, ZenonT(60)
    <3>3. CASE x = "cache_on_target"
      BY <2>1, <2>2, <2>4, <2>7, <3>3, TokenCaseTied
    <3>4. QED
      BY <3>1, <3>2, <3>3 DEF TokenParts
  <2>8. QED
    BY <2>5, <2>6, <2>7 DEF PrefillKeys
<1>10. QED
  BY <1>8, <1>9 DEF TokenTies, views, idle

-----------------------------------------------------------------------------
(* The parts of a document that differs from a valid one in one of them     *)

(* What the validator asks of a document of one version.                    *)
ValidAs(d, v) ==
    /\ d["schema"] = Contract!Leaf(Contract!Text(v))
    /\ Contract!Keys(d) = Contract!TopKeys(v)
    /\ Contract!SameObject(d["producer"], Contract!Producer(v))
    /\ d["source_revision"] \in Contract!Revisions
    /\ Contract!SameObject(d["registration"], Contract!Registration(v))
    /\ Contract!SameObject(d["fixture"], Contract!Fixture)
    /\ Contract!ValidRuntime(d, v)
    /\ Contract!SameObject(d["transport"], Contract!Transport)
    /\ Contract!ValidBoundary(d["boundary"])
    /\ \A l \in Contract!LanesOf(v) : Contract!ValidLane(d[l], Contract!Shape[l])
    /\ Contract!ValidInvariants(d, v)

LEMMA ValidMeans ==
    ASSUME NEW d, Contract!Valid(d)
    PROVE  \E v \in Contract!Versions : ValidAs(d, v)
BY DEF Contract!Valid, ValidAs

(* The parts of a document of the current version.                          *)
CurrentParts == FixedParts \cup LaneNames

LEMMA CurrentLanes == Contract!LanesOf(3) = LaneNames /\ 3 \in Contract!Versions
BY DEF Contract!LanesOf, LaneNames, Contract!Versions

(* One part differs.                                                        *)
OnePart(d, e, k) == k \in CurrentParts /\ \A x \in CurrentParts : x # k => e[x] = d[x]

(* A document that differs in one part from one of the current version is   *)
(* of that version or of none: two parts name it.                           *)
LEMMA VersionIsKept ==
    ASSUME NEW d, ValidAs(d, 3), NEW e, Contract!Valid(e), NEW k, OnePart(d, e, k)
    PROVE  ValidAs(e, 3)
<1>1. PICK v \in Contract!Versions : ValidAs(e, v)
  BY ValidMeans
<1>2. "schema" \in CurrentParts /\ "registration" \in CurrentParts
  BY DEF CurrentParts, FixedParts
<1>3. CASE k # "schema"
  <2>1. e["schema"] = d["schema"]
    BY <1>2, <1>3 DEF OnePart
  <2>2. Contract!Leaf(Contract!Text(v)) = Contract!Leaf(Contract!Text(3))
    BY <1>1, <2>1 DEF ValidAs
  <2>3. Contract!Text(v) = Contract!Text(3)
    BY <2>2, LeafFacts
  <2>4. QED
    BY <1>1, <2>3, EqualMeans
<1>4. CASE k = "schema"
  <2>. DEFINE key == <<"schema">>
              r == d["registration"]
  <2>1. e["registration"] = r
    BY <1>2, <1>4 DEF OnePart
  <2>2. 3 \in Contract!Versions
    BY CurrentLanes
  <2>3. /\ key \in DOMAIN Contract!Registration(v) /\ key \in DOMAIN Contract!Registration(3)
        /\ Contract!Registration(v)[key] = Contract!Text(v)
        /\ Contract!Registration(3)[key] = Contract!Text(3)
    BY <2>2, LeavesOfVersion
  <2>4. /\ Contract!SameObject(r, Contract!Registration(v))
        /\ Contract!SameObject(r, Contract!Registration(3))
    BY <1>1, <2>1 DEF ValidAs
  <2>. HIDE DEF key, r
  <2>5. Contract!Equal(r[key], Contract!Text(v)) /\ Contract!Equal(r[key], Contract!Text(3))
    BY <2>3, <2>4 DEF Contract!SameObject
  <2>6. Contract!Text(v) = Contract!Text(3)
    BY <2>5 DEF Contract!Equal, Contract!Text, Contract!Value, Contract!Numeric
  <2>7. QED
    BY <1>1, <2>6, EqualMeans
<1>5. QED
  BY <1>3, <1>4

(* The invariants are those of the lanes.                                   *)
LEMMA InvariantsOfLanes ==
    ASSUME NEW d, NEW e, \A l \in LaneNames : e[l] = d[l]
    PROVE  Contract!Invariants(e, 3) = Contract!Invariants(d, 3)
<1>1. /\ e["cache_pairing"] = d["cache_pairing"]
      /\ e["cancellation_reuse"] = d["cancellation_reuse"]
      /\ e["save_restore"] = d["save_restore"]
      /\ e["interleaving_isolation"] = d["interleaving_isolation"]
      /\ e["token_prefix_divergence"] = d["token_prefix_divergence"]
  BY DEF LaneNames
<1>2. QED
  BY <1>1 DEF Contract!Invariants

(* So the part has the leaves it had.                                       *)
LEMMA LeavesAreKept ==
    ASSUME NEW d, ValidAs(d, 3), NEW e, ValidAs(e, 3), NEW k, OnePart(d, e, k)
    PROVE  DOMAIN e[k] = DOMAIN d[k]
<1>1. k \in LaneNames \/ k \in FixedParts
  BY DEF OnePart, CurrentParts
<1>2. CASE k \in LaneNames
  <2>1. Contract!ValidLane(d[k], Contract!Shape[k]) /\ Contract!ValidLane(e[k], Contract!Shape[k])
    BY <1>2, CurrentLanes DEF ValidAs
  <2>2. QED
    BY <2>1 DEF Contract!ValidLane, Contract!HasShape
<1>3. CASE k = "boundary"
  BY <1>3 DEF ValidAs, Contract!ValidBoundary
<1>4. CASE k = "fixture"
  BY <1>4 DEF ValidAs, Contract!SameObject
<1>5. CASE k = "producer"
  BY <1>5 DEF ValidAs, Contract!SameObject
<1>6. CASE k = "registration"
  BY <1>6 DEF ValidAs, Contract!SameObject
<1>7. CASE k = "transport"
  BY <1>7 DEF ValidAs, Contract!SameObject
<1>8. CASE k = "runtime"
  BY <1>8 DEF ValidAs, Contract!ValidRuntime
<1>9. CASE k = "schema"
  BY <1>9 DEF ValidAs
<1>10. CASE k = "source_revision"
  <2>1. \A r \in Contract!Revisions : DOMAIN r = {<<>>}
    BY LeafFacts DEF Contract!Revisions
  <2>2. d[k] \in Contract!Revisions /\ e[k] \in Contract!Revisions
    BY <1>10 DEF ValidAs
  <2>3. QED
    BY <2>1, <2>2
<1>11. CASE k = "invariants"
  <2>1. \A l \in LaneNames : e[l] = d[l]
    BY <1>11 DEF OnePart, CurrentParts, LaneNames
  <2>2. Contract!Invariants(e, 3) = Contract!Invariants(d, 3)
    BY <2>1, InvariantsOfLanes
  <2>3. /\ DOMAIN d["invariants"] = DOMAIN Contract!Invariants(d, 3)
        /\ DOMAIN e["invariants"] = DOMAIN Contract!Invariants(e, 3)
    BY DEF ValidAs, Contract!ValidInvariants
  <2>4. QED
    BY <1>11, <2>2, <2>3
<1>12. QED
  BY <1>1, <1>2, <1>3, <1>4, <1>5, <1>6, <1>7, <1>8, <1>9, <1>10, <1>11 DEF FixedParts

(* The paths of a shape are paths of keys.                                  *)
LEMMA LeavesAreKeys ==
    ASSUME NEW d, NEW places, NEW x, ShapeAt(d, places, x), NEW paths, paths \subseteq Seq(Keys)
    PROVE  LeavesAt(places, paths) \subseteq Seq(Keys)
<1>1. ASSUME NEW q \in LeavesAt(places, paths) PROVE q \in Seq(Keys)
  <2>1. PICK P \in places : \E r \in paths : q = P \o r
    BY OfLeaves
  <2>2. PICK r \in paths : q = P \o r
    BY <2>1
  <2>3. P \in Seq(Keys) /\ r \in Seq(Keys)
    BY DEF ShapeAt
  <2>4. QED
    BY <2>2, <2>3, ConcatProperties
<1>2. QED
  BY <1>1

LEMMA LanePaths ==
    ASSUME NEW l \in LaneNames
    PROVE  DOMAIN Contract!Shape[l] \subseteq Seq(Keys)
<1>1. /\ Contract!Shape["cache_pairing"] = Contract!CachePairing
      /\ Contract!Shape["cancellation_reuse"] = Contract!Cancellation
      /\ Contract!Shape["interleaving_isolation"] = Contract!Interleaving
      /\ Contract!Shape["token_prefix_divergence"] = Contract!TokenPrefix
      /\ Contract!Shape["save_restore"] = Contract!SaveRestore
  BY DEF Contract!Shape
<1>2. DOMAIN Contract!CachePairing \subseteq Seq(Keys)
  <2>1. LeavesAt({<<c>> : c \in Contract!CacheCalls}, CasePaths) \subseteq Seq(Keys)
    BY CacheLeaves, LeavesAreKeys, CasePathsAreKeys
  <2>2. QED
    BY <2>1, CacheLeaves
<1>3. DOMAIN Contract!Cancellation \subseteq Seq(Keys)
  <2>1. LeavesAt({<<"clean_baseline">>, <<"reused_slot">>}, CasePaths) \subseteq Seq(Keys)
    BY CancellationLeaves, LeavesAreKeys, CasePathsAreKeys
  <2>2. \A f \in Contract!CancelFlags : <<"disconnect", f>> \in Seq(Keys)
    BY TwoKeys, KeyGroups DEF CancellationKeys
  <2>3. QED
    BY <2>1, <2>2, CancellationLeaves
<1>4. DOMAIN Contract!Interleaving \subseteq Seq(Keys)
  <2>1. LeavesAt(BasePlaces, CasePaths) \subseteq Seq(Keys)
    BY InterleavingLeaves, LeavesAreKeys, CasePathsAreKeys
  <2>2. ASSUME NEW n \in Contract!DirectionNames
        PROVE  LeavesAt(ReusePlaces(n), CasePaths) \subseteq Seq(Keys)
    <3>1. ShapeAt(Contract!Interleaving, ReusePlaces(n), Contract!Case)
      BY InterleavingLeaves
    <3>2. QED
      BY <3>1, LeavesAreKeys, CasePathsAreKeys
  <2>3. \A n \in Contract!DirectionNames : \A f \in Contract!Flags : <<n, f>> \in Seq(Keys)
    BY TwoKeys, KeyGroups
  <2>4. ASSUME NEW q \in DOMAIN Contract!Interleaving PROVE q \in Seq(Keys)
    BY <2>1, <2>2, <2>3, InterleavingLeaves
  <2>5. QED
    BY <2>4
<1>5. DOMAIN Contract!TokenPrefix \subseteq Seq(Keys)
  <2>1. LeavesAt(TokenPlaces, PrefillPaths) \subseteq Seq(Keys)
    BY TokenLeaves, LeavesAreKeys, CasePathsAreKeys
  <2>2. QED
    BY <2>1, TokenLeaves
<1>6. DOMAIN Contract!SaveRestore \subseteq Seq(Keys)
  <2>1. LeavesAt(SavePlaces, CasePaths) \subseteq Seq(Keys)
    BY SaveLeaves, LeavesAreKeys, CasePathsAreKeys
  <2>2. LeavesAt(StatePlaces, StatePaths) \subseteq Seq(Keys)
    BY SaveLeaves, StateLeaves, LeavesAreKeys
  <2>3. {"saved_tokens", "restored_tokens", "process_restart_confirmed"} \cup RestoredNames \subseteq Keys
    BY KeyGroups DEF SaveKeys, RestoredNames
  <2>4. SaveCounts \cup {<<"process_restart_confirmed">>} \subseteq Seq(Keys)
    <3>1. ASSUME NEW n \in RestoredNames PROVE <<n, "restored_tokens">> \in Seq(Keys)
      BY <2>3, TwoKeys
    <3>2. <<"saved_tokens">> \in Seq(Keys) /\ <<"process_restart_confirmed">> \in Seq(Keys)
      BY <2>3
    <3>3. QED
      BY <3>1, <3>2 DEF SaveCounts
  <2>5. QED
    BY <2>1, <2>2, <2>4, SaveLeaves
<1>7. QED
  BY <1>1, <1>2, <1>3, <1>4, <1>5, <1>6 DEF LaneNames

(* The paths of a fixed part.                                               *)
LEMMA FlatPaths ==
    /\ DOMAIN Contract!Fixture \subseteq Seq(Keys)
    /\ DOMAIN Contract!Transport \subseteq Seq(Keys)
<1>1. ASSUME NEW f, DOMAIN f \subseteq Keys, \A k \in DOMAIN f : \E x : f[k] = Contract!Leaf(x)
      PROVE  DOMAIN Contract!Obj(f) \subseteq Seq(Keys)
  BY <1>1, LeafFields, ObjOnly
<1>2. DOMAIN Contract!Fixture \subseteq Seq(Keys)
  <2>. DEFINE f == [checkpoint_sha256 |-> Contract!Leaf(Contract!Sha(11)),
                    model_sha256 |-> Contract!Leaf(Contract!Sha(12)),
                    source_revision |-> Contract!Leaf(Contract!Text(13)),
                    tokenizer_sha256 |-> Contract!Leaf(Contract!Sha(14))]
  <2>1. Contract!Fixture = Contract!Obj(f)
    BY DEF Contract!Fixture
  <2>2. DOMAIN f \subseteq Keys
    BY KeyGroups DEF FixedKeys
  <2>3. \A k \in DOMAIN f : \E x : f[k] = Contract!Leaf(x)
    OBVIOUS
  <2>. HIDE DEF f
  <2>4. QED
    BY <1>1, <2>1, <2>2, <2>3
<1>3. DOMAIN Contract!Transport \subseteq Seq(Keys)
  <2>. DEFINE f == [api_key_enabled |-> Contract!Leaf(Contract!True),
                    endpoint |-> Contract!Leaf(Contract!Text(26)),
                    proxy_bypass |-> Contract!Leaf(Contract!True)]
  <2>1. Contract!Transport = Contract!Obj(f)
    BY DEF Contract!Transport
  <2>2. DOMAIN f \subseteq Keys
    BY KeyGroups DEF FixedKeys
  <2>3. \A k \in DOMAIN f : \E x : f[k] = Contract!Leaf(x)
    OBVIOUS
  <2>. HIDE DEF f
  <2>4. QED
    BY <1>1, <2>1, <2>2, <2>3
<1>4. QED
  BY <1>2, <1>3

LEMMA PartPaths ==
    ASSUME NEW d, ValidAs(d, 3), NEW k \in CurrentParts
    PROVE  DOMAIN d[k] \subseteq Seq(Keys)
<1>1. k \in LaneNames \/ k \in FixedParts
  BY DEF CurrentParts
<1>2. CASE k \in LaneNames
  <2>1. Contract!ValidLane(d[k], Contract!Shape[k])
    BY <1>2, CurrentLanes DEF ValidAs
  <2>2. QED
    BY <1>2, <2>1, LanePaths DEF Contract!ValidLane, Contract!HasShape
<1>3. CASE k = "boundary"
  <2>1. DOMAIN d[k] = {<<x>> : x \in Contract!BoundaryKeys}
    BY <1>3 DEF ValidAs, Contract!ValidBoundary
  <2>2. ASSUME NEW x \in Contract!BoundaryKeys PROVE <<x>> \in Seq(Keys)
    <3>1. x \in Keys
      BY KeyGroups
    <3>2. QED
      BY <3>1
  <2>3. QED
    BY <2>1, <2>2
<1>4. CASE k = "fixture"
  BY <1>4, FlatPaths DEF ValidAs, Contract!SameObject
<1>5. CASE k = "producer"
  BY <1>5, LeavesOfVersion, CurrentLanes DEF ValidAs, Contract!SameObject
<1>6. CASE k = "registration"
  BY <1>6, LeavesOfVersion, CurrentLanes DEF ValidAs, Contract!SameObject
<1>7. CASE k = "transport"
  BY <1>7, FlatPaths DEF ValidAs, Contract!SameObject
<1>8. CASE k = "runtime"
  <2>1. DOMAIN d[k] = DOMAIN Contract!Runtime(3, Contract!Text(20))
    BY <1>8 DEF ValidAs, Contract!ValidRuntime
  <2>2. \A v \in Contract!Versions : \A platform :
            DOMAIN Contract!Runtime(v, platform) \subseteq Seq(Keys)
    BY RuntimeFields
  <2>3. QED
    BY <2>1, <2>2, CurrentLanes
<1>9. CASE k = "schema"
  <2>1. d[k] = Contract!Leaf(Contract!Text(3))
    BY <1>9 DEF ValidAs
  <2>. DEFINE x == Contract!Text(3)
  <2>. HIDE DEF x
  <2>2. DOMAIN Contract!Leaf(x) \subseteq Seq(Keys)
    BY LeafFacts
  <2>3. QED
    BY <2>1, <2>2 DEF x
<1>10. CASE k = "source_revision"
  <2>1. \A r \in Contract!Revisions : DOMAIN r \subseteq Seq(Keys)
    BY LeafFacts DEF Contract!Revisions
  <2>2. QED
    BY <1>10, <2>1 DEF ValidAs
<1>11. CASE k = "invariants"
  <2>1. DOMAIN d[k] = DOMAIN Contract!Invariants(d, 3)
    BY <1>11 DEF ValidAs, Contract!ValidInvariants
  <2>2. PICK f : IsFields(f) /\ Contract!Invariants(d, 3) = Contract!Obj(f)
    BY InvariantsByVersion, CurrentLanes
  <2>3. QED
    BY <2>1, <2>2, ObjOnly
<1>12. QED
  BY <1>1, <1>2, <1>3, <1>4, <1>5, <1>6, <1>7, <1>8, <1>9, <1>10, <1>11 DEF FixedParts

(* A name that no document has.                                             *)
LEMMA UnknownIsNew ==
    /\ "unknown" \notin Keys
    /\ \A v : "unknown" \notin Contract!TopKeys(v)
<1>1. "unknown" \notin MeasuredKeys
  BY DEF MeasuredKeys, CompletionKeys, PrefillKeys, CaseKeys, CancellationKeys,
    InterleavingKeys,
     TokenKeys, SaveKeys, Contract!CacheCalls, Contract!CancelFlags, Contract!Flags
<1>2. "unknown" \notin InvariantKeys
  BY DEF InvariantKeys, CacheNames, CancellationNames, SaveRestoreNames,
    InterleavingNames,
     TokenPrefixNames, TokenCaseNames
<1>3. "unknown" \notin LaneNames \cup FixedKeys \cup Contract!BoundaryKeys
  BY DEF LaneNames, FixedKeys, Contract!BoundaryKeys
<1>4. \A v : "unknown" \notin Contract!TopKeys(v)
  BY DEF Contract!TopKeys, Contract!LanesOf
<1>5. QED
  BY <1>1, <1>2, <1>3, <1>4 DEF Keys

LEMMA UnknownLeaf ==
    ASSUME NEW p \in Seq(Keys), p # <<>>
    PROVE  Append(Contract!Front(p), "unknown") \notin Seq(Keys)
<1>. DEFINE n == Len(p)
            fp == Contract!Front(p)
            a == Append(fp, "unknown")
<1>1. n \in Nat \ {0} /\ \A i \in 1 .. n : p[i] \in Keys
  BY EmptySeq, LenProperties
<1>2. fp \in Seq(Keys) /\ Len(fp) = n - 1
  <2>1. fp = SubSeq(p, 1, n - 1)
    BY DEF Contract!Front
  <2>2. \A i \in 1 .. n - 1 : p[i] \in Keys
    BY <1>1
  <2>. HIDE DEF fp, n
  <2>3. QED
    BY <1>1, <2>1, <2>2, SubSeqProperties
<1>. HIDE DEF fp, n
<1>3. fp \in Seq(Keys \cup {"unknown"})
  BY <1>2
<1>4. Len(a) = n /\ a[n] = "unknown"
  BY <1>1, <1>2, <1>3, AppendProperties
<1>. HIDE DEF a
<1>5. ASSUME a \in Seq(Keys) PROVE a[n] \in Keys
  BY <1>1, <1>4, <1>5
<1>6. a \notin Seq(Keys)
  BY <1>4, <1>5, UnknownIsNew
<1>7. QED
  BY <1>6 DEF a, fp

LEMMA EqualBothWays == ASSUME NEW x, NEW y, Contract!Equal(x, y) PROVE Contract!Equal(y, x)
BY DEF Contract!Equal

(* A document of the current version that a run returned.                   *)
IsCurrent(d) ==
    /\ DOMAIN d = CurrentParts
    /\ d["fixture"] = Contract!Fixture
    /\ d["producer"] = Contract!Producer(3)
    /\ d["registration"] = Contract!Registration(3)
    /\ d["runtime"] = Contract!Runtime(3, Contract!Text(20))
    /\ d["schema"] = Contract!Leaf(Contract!Text(3))
    /\ d["transport"] = Contract!Transport

LEMMA CurrentIsCurrent ==
    ASSUME NEW lane
    PROVE  IsCurrent(Contract!Document(lane, Contract!Current))
<1>. DEFINE p == Contract!Current
            d == Contract!Document(lane, p)
<1>1. /\ p["schema"] = 3 /\ p["producer"] = 3 /\ p["registration"] = 3 /\ p["runtime"] = 3
      /\ p["lanes"] = 3
  BY DEF Contract!Current, Contract!Parts
<1>2. DOMAIN d = FixedParts \cup Contract!LanesOf(p["lanes"])
  BY DocumentParts
<1>3. d["fixture"] = Contract!Fixture /\ d["transport"] = Contract!Transport
  BY DocumentParts
<1>4. /\ d["producer"] = Contract!Producer(p["producer"])
      /\ d["registration"] = Contract!Registration(p["registration"])
      /\ d["runtime"] = Contract!Runtime(p["runtime"], Contract!Text(20))
      /\ d["schema"] = Contract!Leaf(Contract!Text(p["schema"]))
  BY DocumentParts
<1>. HIDE DEF d, p
<1>5. QED
  BY <1>1, <1>2, <1>3, <1>4, CurrentLanes DEF IsCurrent, CurrentParts, d, p

(* The document differs in one leaf.                                        *)
OneChanged(d, e, k, p) == OnePart(d, e, k) /\ OneLeaf(d[k], e[k], p)

(* The platform of the runtime is tied to the hash of its archive.          *)
LEMMA RuntimeNoticed ==
    ASSUME NEW d, IsCurrent(d), NEW e, ValidAs(e, 3), NEW p, OneChanged(d, e, "runtime", p)
    PROVE  Contract!Equal(d["runtime"][p], e["runtime"][p])
<1>. DEFINE r == e["runtime"]
            platform == r[<<"asset_platform">>]
            old == Contract!Text(20)
<1>1. \A x : LET q == Contract!Runtime(3, x) IN
          /\ <<"asset_platform">> \in DOMAIN q /\ q[<<"asset_platform">>] = x
          /\ <<"asset_sha256">> \in DOMAIN q /\ q[<<"asset_sha256">>] = Contract!Sha(x.n)
  BY RuntimeFields, CurrentLanes
<1>2. /\ platform \in Contract!Platforms
      /\ Contract!SameObject(r, Contract!Runtime(3, platform))
  BY DEF ValidAs, Contract!ValidRuntime, Contract!ExpectedRuntime
<1>3. d["runtime"] = Contract!Runtime(3, old)
  BY DEF IsCurrent
<1>4. p \in DOMAIN d["runtime"] /\ \A q \in DOMAIN d["runtime"] : q # p => r[q] = d["runtime"][q]
  BY DEF OneChanged, OneLeaf
<1>5. old.n = 20 /\ \A x \in Contract!Platforms : x.n = 20 => x = old
  BY DEF Contract!Platforms, Contract!Text, Contract!Value
<1>6. \A q \in DOMAIN r : Contract!Equal(r[q], Contract!Runtime(3, platform)[q])
  BY <1>2 DEF Contract!SameObject
<1>7. DOMAIN r = DOMAIN Contract!Runtime(3, platform)
  BY <1>2 DEF Contract!SameObject
<1>. HIDE DEF r, platform, old
<1>8. CASE p = <<"asset_platform">>
  <2>1. <<"asset_sha256">> # <<"asset_platform">>
    OBVIOUS
  <2>2. r[<<"asset_sha256">>] = Contract!Sha(old.n)
    BY <1>1, <1>3, <1>4, <1>8, <2>1
  <2>3. Contract!Equal(Contract!Sha(old.n), Contract!Sha(platform.n))
    BY <1>1, <1>6, <1>7, <2>2
  <2>4. platform.n = old.n
    BY <2>3 DEF Contract!Equal, Contract!Sha, Contract!Value, Contract!Numeric
  <2>5. platform = old
    BY <1>2, <1>5, <2>4
  <2>6. d["runtime"][p] = r[p]
    BY <1>1, <1>3, <1>8, <2>5 DEF platform
  <2>7. QED
    BY <2>6, EqualValues DEF r
<1>9. CASE p # <<"asset_platform">>
  <2>1. platform = old
    BY <1>1, <1>3, <1>4, <1>9 DEF platform
  <2>2. p \in DOMAIN r
    BY <1>3, <1>4, <1>7, <2>1
  <2>3. Contract!Equal(r[p], d["runtime"][p])
    BY <1>3, <1>6, <2>1, <2>2
  <2>4. QED
    BY <2>3, EqualBothWays DEF r
<1>10. QED
  BY <1>8, <1>9

(* The lanes.                                                               *)
LEMMA LanesOfValid ==
    ASSUME NEW d, ValidAs(d, 3)
    PROVE  /\ Contract!HasShape(d["cache_pairing"], Contract!CachePairing)
           /\ Contract!HasShape(d["cancellation_reuse"], Contract!Cancellation)
           /\ Contract!HasShape(d["interleaving_isolation"], Contract!Interleaving)
           /\ Contract!HasShape(d["token_prefix_divergence"], Contract!TokenPrefix)
           /\ Contract!HasShape(d["save_restore"], Contract!SaveRestore)
           /\ Contract!Passed(Contract!Invariants(d, 3))
<1>1. /\ Contract!Shape["cache_pairing"] = Contract!CachePairing
      /\ Contract!Shape["cancellation_reuse"] = Contract!Cancellation
      /\ Contract!Shape["interleaving_isolation"] = Contract!Interleaving
      /\ Contract!Shape["token_prefix_divergence"] = Contract!TokenPrefix
      /\ Contract!Shape["save_restore"] = Contract!SaveRestore
  BY DEF Contract!Shape
<1>2. \A l \in LaneNames : Contract!HasShape(d[l], Contract!Shape[l])
  BY CurrentLanes DEF ValidAs, Contract!ValidLane
<1>3. /\ "cache_pairing" \in LaneNames /\ "cancellation_reuse" \in LaneNames
      /\ "interleaving_isolation" \in LaneNames /\ "token_prefix_divergence" \in LaneNames
      /\ "save_restore" \in LaneNames
  BY DEF LaneNames
<1>4. Contract!Passed(Contract!Invariants(d, 3))
  BY DEF ValidAs, Contract!ValidInvariants, Contract!Passed
<1>5. QED
  BY <1>1, <1>2, <1>3, <1>4

LEMMA LaneNoticed ==
    ASSUME NEW d, ValidAs(d, 3), NEW e, ValidAs(e, 3), NEW k \in LaneNames, NEW p,
           OneChanged(d, e, k, p)
    PROVE  Contract!Equal(d[k][p], e[k][p]) \/ Contract!Unrelated(<<k>> \o p)
<1>1. p \in DOMAIN d[k] /\ OneLeaf(d[k], e[k], p)
  BY DEF OneChanged, OneLeaf
<1>2. CASE k = "cache_pairing"
  <2>. DEFINE a == d[k]
              b == e[k]
  <2>1. /\ Contract!HasShape(a, Contract!CachePairing) /\ Contract!HasShape(b, Contract!CachePairing)
        /\ AllPassed(Contract!CacheInvariants(a)) /\ AllPassed(Contract!CacheInvariants(b))
    BY <1>2, LanesOfValid, LanesPassed
  <2>. HIDE DEF a, b
  <2>2. CacheTies(a) /\ CacheTies(b)
    BY <2>1, CacheTied
  <2>3. p \in DOMAIN a /\ OneLeaf(a, b, p)
    BY <1>1 DEF a, b
  <2>4. Contract!Equal(a[p], b[p]) \/ Contract!Unrelated(<<"cache_pairing">> \o p)
    BY <2>1, <2>2, <2>3, CacheNoticed
  <2>5. QED
    BY <1>2, <2>4 DEF a, b
<1>3. CASE k = "cancellation_reuse"
  <2>. DEFINE a == d[k]
              b == e[k]
  <2>1. /\ Contract!HasShape(a, Contract!Cancellation) /\ Contract!HasShape(b, Contract!Cancellation)
        /\ AllPassed(Contract!CancellationInvariants(a)) /\ AllPassed(Contract!CancellationInvariants(b))
    BY <1>3, LanesOfValid, LanesPassed
  <2>. HIDE DEF a, b
  <2>2. CancellationTies(a) /\ CancellationTies(b)
    BY <2>1, CancellationTied
  <2>3. p \in DOMAIN a /\ OneLeaf(a, b, p)
    BY <1>1 DEF a, b
  <2>4. Contract!Equal(a[p], b[p]) \/ Contract!Unrelated(<<"cancellation_reuse">> \o p)
    BY <2>1, <2>2, <2>3, CancellationNoticed
  <2>5. QED
    BY <1>3, <2>4 DEF a, b
<1>4. CASE k = "save_restore"
  <2>. DEFINE a == d[k]
              b == e[k]
  <2>1. /\ Contract!HasShape(a, Contract!SaveRestore) /\ Contract!HasShape(b, Contract!SaveRestore)
        /\ AllPassed(Contract!SaveRestoreInvariants(a)) /\ AllPassed(Contract!SaveRestoreInvariants(b))
    BY <1>4, LanesOfValid, LanesPassed
  <2>. HIDE DEF a, b
  <2>2. SaveTies(a) /\ SaveTies(b)
    BY <2>1, SaveTied
  <2>3. p \in DOMAIN a /\ OneLeaf(a, b, p)
    BY <1>1 DEF a, b
  <2>4. Contract!Equal(a[p], b[p]) \/ Contract!Unrelated(<<"save_restore">> \o p)
    BY <2>1, <2>2, <2>3, SaveNoticed
  <2>5. QED
    BY <1>4, <2>4 DEF a, b
<1>5. CASE k = "interleaving_isolation"
  <2>. DEFINE a == d[k]
              b == e[k]
  <2>1. /\ Contract!HasShape(a, Contract!Interleaving) /\ Contract!HasShape(b, Contract!Interleaving)
        /\ AllPassed(Contract!InterleavingInvariants(a)) /\ AllPassed(Contract!InterleavingInvariants(b))
    BY <1>5, LanesOfValid, LanesPassed
  <2>. HIDE DEF a, b
  <2>2. InterleavingTies(a) /\ InterleavingTies(b)
    BY <2>1, InterleavingTied
  <2>3. p \in DOMAIN a /\ OneLeaf(a, b, p)
    BY <1>1 DEF a, b
  <2>4. Contract!Equal(a[p], b[p]) \/ Contract!Unrelated(<<"interleaving_isolation">> \o p)
    BY <2>1, <2>2, <2>3, InterleavingNoticed
  <2>5. QED
    BY <1>5, <2>4 DEF a, b
<1>6. CASE k = "token_prefix_divergence"
  <2>. DEFINE a == d[k]
              b == e[k]
              counts == Contract!Registered
  <2>1. /\ Contract!HasShape(a, Contract!TokenPrefix) /\ Contract!HasShape(b, Contract!TokenPrefix)
        /\ AllPassed(Contract!TokenPrefixInvariants(a, counts))
        /\ AllPassed(Contract!TokenPrefixInvariants(b, counts))
    BY <1>6, LanesOfValid, LanesPassed
  <2>. HIDE DEF a, b
  <2>2. TokenTies(a) /\ TokenTies(b)
    BY <2>1, TokenTied
  <2>3. p \in DOMAIN a
    BY <1>1 DEF a
  <2>4. Contract!Equal(a[p], b[p])
    BY <2>1, <2>2, <2>3, TokenNoticed
  <2>5. QED
    BY <1>6, <2>4 DEF a, b
<1>7. QED
  BY <1>2, <1>3, <1>4, <1>5, <1>6 DEF LaneNames

(* Another value of any leaf is noticed.                                    *)
LEMMA AlteredNoticed ==
    ASSUME NEW d, IsCurrent(d), ValidAs(d, 3), NEW e, ValidAs(e, 3), NEW k, NEW p,
           OneChanged(d, e, k, p)
    PROVE  Contract!Unrelated(<<k>> \o p) \/ Contract!Equal(d[k][p], e[k][p])
<1>1. k \in LaneNames \/ k \in FixedParts
  BY DEF OneChanged, OnePart, CurrentParts
<1>2. /\ OnePart(d, e, k) /\ p \in DOMAIN d[k] /\ DOMAIN e[k] = DOMAIN d[k]
  BY LeavesAreKept DEF OneChanged, OneLeaf
<1>3. ASSUME NEW x, d[k] = x, Contract!SameObject(e[k], x)
      PROVE  Contract!Equal(d[k][p], e[k][p])
  BY <1>2, <1>3, EqualBothWays DEF Contract!SameObject
<1>4. CASE k \in LaneNames
  BY <1>4, LaneNoticed
<1>5. CASE k = "boundary"
  <2>1. d[k][p] = Contract!Bool(FALSE) /\ e[k][p] = Contract!Bool(FALSE)
    BY <1>2, <1>5 DEF ValidAs, Contract!ValidBoundary
  <2>2. QED
    BY <2>1, EqualValues
<1>6. CASE k = "fixture"
  BY <1>3, <1>6 DEF IsCurrent, ValidAs
<1>7. CASE k = "producer"
  BY <1>3, <1>7 DEF IsCurrent, ValidAs
<1>8. CASE k = "registration"
  BY <1>3, <1>8 DEF IsCurrent, ValidAs
<1>9. CASE k = "transport"
  BY <1>3, <1>9 DEF IsCurrent, ValidAs
<1>10. CASE k = "runtime"
  BY <1>10, RuntimeNoticed
<1>11. CASE k = "schema"
  <2>1. d[k] = e[k]
    BY <1>11 DEF ValidAs
  <2>2. QED
    BY <2>1, EqualValues
<1>12. CASE k = "source_revision"
  <2>1. \A r \in Contract!Revisions : DOMAIN r = {<<>>}
    BY LeafFacts DEF Contract!Revisions
  <2>2. d[k] \in Contract!Revisions
    BY <1>12 DEF ValidAs
  <2>3. p = <<>>
    BY <1>2, <2>1, <2>2
  <2>4. k \in Keys
    BY <1>12, KeyGroups DEF FixedKeys
  <2>5. Contract!Last(<<k>> \o p) = k
    BY <2>3, <2>4, PathOfOne
  <2>6. QED
    BY <1>12, <2>5 DEF Contract!Unrelated
<1>13. CASE k = "invariants"
  <2>1. \A l \in LaneNames : e[l] = d[l]
    BY <1>2, <1>13 DEF OnePart, CurrentParts, LaneNames
  <2>2. Contract!Invariants(e, 3) = Contract!Invariants(d, 3)
    BY <2>1, InvariantsOfLanes
  <2>3. /\ d[k][p] = Contract!Invariants(d, 3)[p]
        /\ e[k][p] = Contract!Invariants(e, 3)[p]
    BY <1>2, <1>13 DEF ValidAs, Contract!ValidInvariants
  <2>4. d[k][p] = e[k][p]
    BY <2>2, <2>3
  <2>5. QED
    BY <2>4, EqualValues
<1>14. QED
  BY <1>1, <1>4, <1>5, <1>6, <1>7, <1>8, <1>9, <1>10, <1>11, <1>12, <1>13 DEF FixedParts

(* One leaf of the document is altered, removed or added.                   *)
Altered(d, e, change, k, p) ==
    \E v \in Contract!EditValues \ {d[k][p]} :
        /\ e = [d EXCEPT ![k][p] = v]
        /\ change = [path |-> <<k>> \o p, old |-> d[k][p], new |-> v]

Removed(d, e, change, k, p) ==
    /\ e = [d EXCEPT ![k] = [q \in DOMAIN d[k] \ {p} |-> d[k][q]]]
    /\ change = [path |-> <<k>> \o p, old |-> d[k][p], new |-> Contract!None.new]

Added(d, e, change, k, p) ==
    /\ e = IF p = <<>> THEN Contract!Merge([unknown |-> Contract!Leaf(d[k][p])], d)
           ELSE [d EXCEPT ![k] = Contract!Merge(
                     [q \in {Append(Contract!Front(p), "unknown")} |-> d[k][p]], d[k])]
    /\ change = [path |-> <<k>> \o p, old |-> d[k][p], new |-> Contract!None.new]

Changed(d, e, change) ==
    \E k \in DOMAIN d : \E p \in DOMAIN d[k] :
        Altered(d, e, change, k, p) \/ Removed(d, e, change, k, p) \/ Added(d, e, change, k, p)

(* What is still valid was altered in an unrelated leaf, or to an equal     *)
(* value.                                                                   *)
LEMMA ChangeNoticed ==
    ASSUME NEW d, IsCurrent(d), Contract!Valid(d), NEW e, Contract!Valid(e),
           NEW change, Changed(d, e, change)
    PROVE  Contract!Unrelated(change.path) \/ Contract!Equal(change.old, change.new)
<1>1. PICK k \in DOMAIN d : \E p \in DOMAIN d[k] :
          Altered(d, e, change, k, p) \/ Removed(d, e, change, k, p) \/ Added(d, e, change, k, p)
  BY DEF Changed
<1>2. PICK p \in DOMAIN d[k] :
          Altered(d, e, change, k, p) \/ Removed(d, e, change, k, p) \/ Added(d, e, change, k, p)
  BY <1>1
<1>3. k \in CurrentParts /\ DOMAIN d = CurrentParts
  BY DEF IsCurrent
<1>4. ValidAs(d, 3)
  <2>1. PICK v \in Contract!Versions : ValidAs(d, v)
    BY ValidMeans
  <2>2. Contract!Leaf(Contract!Text(v)) = Contract!Leaf(Contract!Text(3))
    BY <2>1 DEF ValidAs, IsCurrent
  <2>3. Contract!Text(v) = Contract!Text(3)
    BY <2>2, LeafFacts
  <2>4. QED
    BY <2>1, <2>3, EqualMeans
<1>5. ASSUME OnePart(d, e, k)
      PROVE  ValidAs(e, 3) /\ DOMAIN e[k] = DOMAIN d[k]
  BY <1>4, <1>5, VersionIsKept, LeavesAreKept
<1>6. CASE Altered(d, e, change, k, p)
  <2>1. PICK v \in Contract!EditValues \ {d[k][p]} :
            /\ e = [d EXCEPT ![k][p] = v]
            /\ change = [path |-> <<k>> \o p, old |-> d[k][p], new |-> v]
    BY <1>6 DEF Altered
  <2>2. OnePart(d, e, k)
    BY <1>3, <2>1 DEF OnePart
  <2>3. OneLeaf(d[k], e[k], p) /\ e[k][p] = v
    BY <1>3, <2>1 DEF OneLeaf
  <2>4. OneChanged(d, e, k, p)
    BY <2>2, <2>3 DEF OneChanged
  <2>5. Contract!Unrelated(<<k>> \o p) \/ Contract!Equal(d[k][p], e[k][p])
    BY <1>4, <1>5, <2>2, <2>4, AlteredNoticed
  <2>6. change.path = <<k>> \o p /\ change.old = d[k][p] /\ change.new = v
    BY <2>1
  <2>7. QED
    BY <2>3, <2>5, <2>6
<1>7. CASE Removed(d, e, change, k, p)
  <2>1. e = [d EXCEPT ![k] = [q \in DOMAIN d[k] \ {p} |-> d[k][q]]]
    BY <1>7 DEF Removed
  <2>2. OnePart(d, e, k) /\ DOMAIN e[k] = DOMAIN d[k] \ {p}
    BY <1>3, <2>1 DEF OnePart
  <2>3. QED
    BY <1>5, <2>2
<1>8. CASE Added(d, e, change, k, p) /\ p = <<>>
  <2>. DEFINE leaf == Contract!Leaf(d[k][p])
  <2>1. e = Contract!Merge([unknown |-> leaf], d)
    BY <1>8 DEF Added
  <2>2. DOMAIN leaf # {}
    BY LeafFacts
  <2>. HIDE DEF leaf
  <2>3. "unknown" \in DOMAIN e /\ e["unknown"] = leaf
    BY <2>1 DEF Contract!Merge
  <2>4. "unknown" \in Contract!Keys(e)
    BY <2>2, <2>3 DEF Contract!Keys
  <2>5. PICK v \in Contract!Versions : ValidAs(e, v)
    BY ValidMeans
  <2>6. QED
    BY <2>4, <2>5, UnknownIsNew DEF ValidAs
<1>9. CASE Added(d, e, change, k, p) /\ p # <<>>
  <2>. DEFINE new == Append(Contract!Front(p), "unknown")
              leaf == d[k][p]
              own == d[k]
  <2>1. e = [d EXCEPT ![k] = Contract!Merge([q \in {new} |-> leaf], own)]
    BY <1>9 DEF Added
  <2>2. new \notin DOMAIN own
    <3>1. DOMAIN own \subseteq Seq(Keys)
      BY <1>3, <1>4, PartPaths
    <3>2. new \notin Seq(Keys)
      BY <1>2, <1>9, <3>1, UnknownLeaf
    <3>3. QED
      BY <3>1, <3>2
  <2>. HIDE DEF new, leaf
  <2>3. OnePart(d, e, k) /\ e[k] = Contract!Merge([q \in {new} |-> leaf], own)
    BY <1>3, <2>1 DEF OnePart
  <2>4. new \in DOMAIN e[k]
    BY <2>3 DEF Contract!Merge
  <2>5. QED
    BY <1>5, <2>2, <2>3, <2>4
<1>10. QED
  BY <1>2, <1>6, <1>7, <1>8, <1>9

-----------------------------------------------------------------------------
(* The document of the contract gate                                        *)

ContractPcs == {"measured", "raised", "returned", "published", "unwritable", "received", "accepted",
    "refused"}

(* The document of what the server of a run answered.                       *)
ReturnedDoc == Contract!Document(Contract!Measured(Contract!Answers(odd)), Contract!Current)

(* What is put together from parts of several versions is as it was made,   *)
(* and accepted only when it is valid; what a run returns is the document of*)
(* what its server answered, of which no answer was refused and every       *)
(* invariant holds; so it is never found unwritable.  What was changed is   *)
(* one leaf away from it.                                                   *)
ContractInv ==
    /\ odd \in SUBSET Contract!Oddities /\ part \in [Contract!Parts -> Contract!Versions]
    /\ pc \in ContractPcs \ {"unwritable"}
    /\ \/ part = Contract!Current
       \/ /\ pc \in {"received", "accepted", "refused"}
          /\ doc = Contract!Document(Contract!Measured(Contract!Answers({})), part)
    /\ pc = "accepted" => Contract!Valid(doc)
    /\ pc = "returned" =>
          /\ \A c \in Contract!Calls : ~Contract!Refuses(Contract!Answers(odd)[c])
          /\ doc = ReturnedDoc /\ Contract!Passed(doc["invariants"])
    /\ pc = "published" => doc = ReturnedDoc /\ Contract!Valid(doc)
    /\ edit # Contract!None =>
          /\ pc \in {"received", "accepted", "refused"}
          /\ Contract!Valid(ReturnedDoc) /\ Changed(ReturnedDoc, doc, edit)

LEMMA ContractInit == Contract!Init => ContractInv
<1>1. Contract!Current \in [Contract!Parts -> Contract!Versions]
  BY DEF Contract!Current, Contract!Versions
<1>2. QED
  BY <1>1 DEF Contract!Init, ContractInv, ContractPcs

LEMMA ContractStep == ContractInv /\ Contract!Next => ContractInv'
<1>. SUFFICES ASSUME ContractInv, Contract!Next PROVE ContractInv'
  OBVIOUS
<1>1. odd' = odd /\ part' = part
  BY DEF Contract!Next, Contract!Measure, Contract!Build, Contract!Write,
    Contract!Change,
     Contract!Verify, Contract!AllOver, Contract!vars
<1>2. ReturnedDoc' = ReturnedDoc
  BY <1>1 DEF ReturnedDoc
<1>3. CASE Contract!Measure
  BY <1>3, <1>1, <1>2 DEF ContractInv, ContractPcs, Contract!Measure, Contract!Move
<1>4. CASE Contract!Build
  BY <1>4, <1>1, <1>2 DEF ContractInv, ContractPcs, Contract!Build, Contract!Move,
    ReturnedDoc
<1>5. CASE Contract!Write
  <2>1. pc = "returned" /\ UNCHANGED <<odd, doc, part, edit>>
        /\ pc' = IF Contract!Valid(doc) THEN "published" ELSE "unwritable"
    BY <1>5 DEF Contract!Write, Contract!Move
  <2>2. Contract!Valid(doc)
    BY <2>1, UnrefusedIsTaken, ReturnedIsValid DEF ContractInv, ReturnedDoc
  <2>3. QED
    BY <1>2, <2>1, <2>2 DEF ContractInv, ContractPcs
<1>6. CASE Contract!Change
  <2>1. /\ pc = "published" /\ pc' = "received" /\ doc = ReturnedDoc /\ Contract!Valid(doc)
        /\ part = Contract!Current
    BY <1>6 DEF ContractInv, Contract!Change, Contract!Move
  <2>2. Changed(doc, doc', edit')
    BY <1>6 DEF Contract!Change, Changed, Altered, Removed, Added
  <2>3. QED
    BY <1>1, <1>2, <2>1, <2>2 DEF ContractInv, ContractPcs
<1>7. CASE Contract!Verify
  BY <1>7, <1>1, <1>2 DEF ContractInv, ContractPcs, Contract!Verify
<1>8. CASE Contract!AllOver
  BY <1>8, <1>1, <1>2 DEF ContractInv, ContractPcs, Contract!AllOver, Contract!vars
<1>9. QED
  BY <1>3, <1>4, <1>5, <1>6, <1>7, <1>8 DEF Contract!Next

LEMMA AcceptedIsOfOneVersion == ContractInv => Contract!VersionsDoNotMix
<1>. SUFFICES ASSUME ContractInv, pc = "accepted"
              PROVE  \E v \in Contract!Versions : \A k \in Contract!Parts :
                        part[k] = v \/ (k = "runtime" /\ Contract!ContextTotal(part[k])
                                                            = Contract!ContextTotal(v))
  BY DEF Contract!VersionsDoNotMix
<1>1. CASE part = Contract!Current
  BY <1>1 DEF Contract!Current, Contract!Versions
<1>2. CASE part # Contract!Current
  <2>. DEFINE lane == Contract!Measured(Contract!Answers({}))
  <2>1. /\ Contract!Valid(Contract!Document(lane, part))
        /\ part \in [Contract!Parts -> Contract!Versions]
    BY <1>2 DEF ContractInv
  <2>2. /\ DOMAIN lane["interleaving_isolation"] # {}
        /\ DOMAIN lane["token_prefix_divergence"] # {}
    BY NewLanesHaveLeaves
  <2>. HIDE DEF lane
  <2>3. QED
    BY <2>1, <2>2, MixedIsRefused
<1>3. QED
  BY <1>1, <1>2

LEMMA AcceptedChangeIsNoticed == ContractInv => Contract!ChangesAreNoticed
<1>. SUFFICES ASSUME ContractInv, pc = "accepted", edit # Contract!None
              PROVE  Contract!Unrelated(edit.path) \/ Contract!Equal(edit.old, edit.new)
  BY DEF Contract!ChangesAreNoticed
<1>1. Contract!Valid(doc) /\ Contract!Valid(ReturnedDoc) /\ Changed(ReturnedDoc, doc, edit)
  BY DEF ContractInv
<1>2. IsCurrent(ReturnedDoc)
  BY CurrentIsCurrent DEF ReturnedDoc
<1>3. QED
  BY <1>1, <1>2, ChangeNoticed

-----------------------------------------------------------------------------
(* The theorems                                                             *)

(* What is known of the gate that a behaviour goes through.                 *)
IInv ==
    /\ Is("scan") => ScanInv
    /\ Is("bundle") => BundleInv
    /\ Is("archives") => ArchivesInv
    /\ Is("guards") => GuardsInv
    /\ Is("contract") => ContractInv

(* The invariant holds in every reachable state.                            *)
THEOREM Inductive == Spec => []IInv
<1>1. Init => IInv
  BY ScanInit, BundleInit, ArchivesKept, GuardsKept, ContractInit DEF Init, IInv, Is
<1>2. IInv /\ [Next]_vars => IInv'
  <2>. SUFFICES ASSUME IInv, [Next]_vars PROVE IInv'
    OBVIOUS
  <2>1. CASE Is("scan") /\ Scan!Next /\ UNCHANGED subject
    BY <2>1, ScanStep DEF IInv, Is
  <2>2. CASE Is("bundle") /\ Bundle!Next /\ UNCHANGED subject
    BY <2>2, BundleStep DEF IInv, Is
  <2>3. CASE Is("archives") /\ Archives!Next /\ UNCHANGED subject
    BY <2>3, ArchivesKept DEF IInv, Is
  <2>4. CASE Is("guards") /\ Guards!Next /\ UNCHANGED subject
    BY <2>4, GuardsKept DEF IInv, Is
  <2>5. CASE Is("contract") /\ Contract!Next /\ UNCHANGED subject
    BY <2>5, ContractStep DEF IInv, Is
  <2>6. CASE UNCHANGED vars
    <3>1. ScanInv => ScanInv'
      BY <2>6 DEF vars, scan, ScanInv, Accounted, HasFinding, Scan!Skipped,
         Scan!Innocent
    <3>2. BundleInv => BundleInv'
      BY <2>6 DEF vars, bundle, BundleInv
    <3>3. ArchivesInv => ArchivesInv'
      BY <2>6 DEF vars, archives, ArchivesInv, Archives!Packaged,
         Archives!SdistSources, Archives!Has
    <3>4. GuardsInv => GuardsInv'
      BY <2>6 DEF vars, guards, GuardsInv
    <3>5. ContractInv => ContractInv'
      BY <2>6 DEF vars, contract, ContractInv, ReturnedDoc
    <3>6. QED
      BY <2>6, <3>1, <3>2, <3>3, <3>4, <3>5 DEF IInv, Is, vars
  <2>7. QED
    BY <2>1, <2>2, <2>3, <2>5, <2>6, <2>4 DEF Next, Is
<1>3. QED
  BY <1>1, <1>2, PTL DEF Spec

(* tools/privacy_scan.py fails closed in a tree of any size that is edited  *)
(* any number of times while it is scanned: a path that it has passed has a *)
(* finding, or it was looked at to the end and is innocent.                 *)
THEOREM ScanFailsClosed == Spec => []EveryPathAccounted
<1>1. IInv => EveryPathAccounted
  BY DEF IInv, EveryPathAccounted, Scan!EveryPathAccounted, ScanInv, Accounted,
     HasFinding, Scan!Skipped
<1>2. QED
  BY Inductive, <1>1, PTL

(* verify_bundle accepts a directory just when write_bundle could have made *)
(* it, up to the spelling of its JSON and the order of its records, whatever*)
(* was changed in it and however often.                                     *)
THEOREM VerificationIsExact == Spec => []AcceptedIsWritten
<1>1. IInv => AcceptedIsWritten
  BY VerifierIsExact DEF IInv, AcceptedIsWritten
<1>2. QED
  BY Inductive, <1>1, PTL

(* tools/check_dist.py: a wheel and a source archive that pass have the same*)
(* Python files of the package, with current bytes, and every notice.       *)
THEOREM PassingArchivesAgree == Spec => []ArchivesAgree
<1>1. IInv => ArchivesAgree
  BY ReleaseAgrees DEF IInv, ArchivesAgree
<1>2. QED
  BY Inductive, <1>1, PTL

(* util.reject_reparse_chain, require_plain_path and require_regular_file,  *)
(* for a path of any length over any names: what they let through is reached*)
(* without a link, and a pinned file has one name.                          *)
THEOREM OneNameIsLeft == Spec => []GuardsLeaveOneName
<1>1. IInv => GuardsLeaveOneName
  BY GuardedIsOne DEF IInv, GuardsLeaveOneName
<1>2. QED
  BY Inductive, <1>1, PTL

(* verify.validate_evidence, of a document that is put together from parts  *)
(* of the three schemas: what it accepts is of one version throughout, but  *)
(* for a context total that two of them have.                               *)
THEOREM OneVersion == Spec => []VersionsDoNotMix
<1>1. IInv => VersionsDoNotMix
  BY AcceptedIsOfOneVersion DEF IInv, VersionsDoNotMix
<1>2. QED
  BY Inductive, <1>1, PTL

(* runner.run_scenarios and evidence.write_bundle: whatever a server answers*)
(* that the adapter does not refuse, a document of which all invariants hold*)
(* has the fields, the types and the ranges that the validator asks for.    *)
THEOREM ReturnedIsWritten == Spec => []ReturnedCanBeWritten
<1>1. IInv => ReturnedCanBeWritten
  BY DEF IInv, ReturnedCanBeWritten, ContractInv, Contract!ReturnedCanBeWritten
<1>2. QED
  BY Inductive, <1>1, PTL

(* verify.validate_evidence, of a document of a run whatever the server of  *)
(* the run answered: a leaf that has another value, is gone or has an       *)
(* unknown one beside it is noticed, but for the leaves that nothing is     *)
(* compared with and for values that Python takes for equal.                *)
THEOREM ChangesAreSeen == Spec => []ChangesAreNoticed
<1>1. IInv => ChangesAreNoticed
  BY AcceptedChangeIsNoticed DEF IInv, ChangesAreNoticed
<1>2. QED
  BY Inductive, <1>1, PTL
=============================================================================
