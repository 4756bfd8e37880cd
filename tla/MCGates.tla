------------------------------- MODULE MCGates -------------------------------
(***************************************************************************)
(* The checks that stand between the running system and what leaves it,    *)
(* explored together: a behaviour goes through one of them.                *)
(*   contract  what a run measured, as a document, and its validation      *)
(*   bundle    the files of a published bundle, and their verification     *)
(*   guards    a path that is about to be used                             *)
(*   scan      the tree before it is published                             *)
(*   archives  the wheel and the source archive before they are published  *)
(* They share no state: the variables of the others stay idle.             *)
(***************************************************************************)
EXTENDS Naturals

CONSTANTS
    MaxCount,       \* contract: the greatest number in a leaf
    MaxChanges,     \* contract: odd answers and edits
    MaxEdits,       \* bundle: the changes to a published bundle
    Name,           \* guards: the names of directory entries
    MaxLength,      \* guards: the parts of a path
    LastPath,       \* scan: the paths of the tree
    ScanEdits,      \* scan: the changes made while it runs
    BuildChanges    \* archives: how far they are from those of a build

VARIABLES
    subject,
    pc, odd, doc, part, edit,
    evidence, junit, records, header, present, plain, edits,
    disk, path,
    name, thing, listed, at, step, findings, met, read, scanEdits,
    wheel, sdist, linked, repeated, relative, changes

contract == <<pc, odd, doc, part, edit>>
bundle == <<evidence, junit, records, header, present, plain, edits>>
guards == <<disk, path>>
scan == <<name, thing, listed, at, step, findings, met, read, scanEdits>>
archives == <<wheel, sdist, linked, repeated, relative, changes>>
vars == <<subject, contract, bundle, guards, scan, archives>>

Contract == INSTANCE EvidenceContract
Bundle == INSTANCE BundleFiles
Guards == INSTANCE PlainPath
Scan == INSTANCE PrivacyScan WITH edits <- scanEdits, MaxEdits <- ScanEdits
Archives == INSTANCE DistCheck WITH MaxChanges <- BuildChanges

Subjects == {"contract", "bundle", "guards", "scan", "archives"}

ASSUME CountsAssumption == MaxCount \in Nat /\ MaxCount >= 5
ASSUME BoundsAssumption ==
    {MaxChanges, MaxEdits, MaxLength, LastPath, ScanEdits, BuildChanges} \subseteq Nat
ASSUME NameAssumption == Guards!Up \notin Name

Idle == "idle"

ContractIdle == pc = Idle /\ odd = Idle /\ doc = Idle /\ part = Idle /\ edit = Idle
BundleIdle ==
    /\ evidence = Idle /\ junit = Idle /\ records = Idle /\ header = Idle
    /\ present = Idle /\ plain = Idle /\ edits = Idle
GuardsIdle == disk = Idle /\ path = Idle
ScanIdle ==
    /\ name = Idle /\ thing = Idle /\ listed = Idle /\ at = Idle /\ step = Idle
    /\ findings = Idle /\ met = Idle /\ read = Idle /\ scanEdits = Idle
ArchivesIdle ==
    /\ wheel = Idle /\ sdist = Idle /\ linked = Idle /\ repeated = Idle
    /\ relative = Idle /\ changes = Idle

Is(gate) == subject = gate

Init ==
    /\ subject \in Subjects
    /\ (Is("contract") /\ Contract!Init) \/ (~Is("contract") /\ ContractIdle)
    /\ (Is("bundle") /\ Bundle!Init) \/ (~Is("bundle") /\ BundleIdle)
    /\ (Is("guards") /\ Guards!Init) \/ (~Is("guards") /\ GuardsIdle)
    /\ (Is("scan") /\ Scan!Init) \/ (~Is("scan") /\ ScanIdle)
    /\ (Is("archives") /\ Archives!Init) \/ (~Is("archives") /\ ArchivesIdle)

Next ==
    /\ \/ Is("contract") /\ Contract!Next /\ UNCHANGED <<bundle, guards, scan, archives>>
       \/ Is("bundle") /\ Bundle!Next /\ UNCHANGED <<contract, guards, scan, archives>>
       \/ Is("guards") /\ Guards!Next /\ UNCHANGED <<contract, bundle, scan, archives>>
       \/ Is("scan") /\ Scan!Next /\ UNCHANGED <<contract, bundle, guards, archives>>
       \/ Is("archives") /\ Archives!Next /\ UNCHANGED <<contract, bundle, guards, scan>>
    /\ UNCHANGED subject

Spec == Init /\ [][Next]_vars

-----------------------------------------------------------------------------
(* Each gate's properties, of the behaviours that go through it             *)

(* What a run returns can be written (EvidenceContract).                    *)
ReturnedCanBeWritten == Is("contract") => Contract!ReturnedCanBeWritten

(* Parts of different schema versions are refused (EvidenceContract).       *)
VersionsDoNotMix == Is("contract") => Contract!VersionsDoNotMix

(* One changed leaf of a published document is noticed (EvidenceContract).  *)
ChangesAreNoticed == Is("contract") => Contract!ChangesAreNoticed

(* The verifier accepts a directory just when the writer could have         *)
(* published it (BundleFiles).                                              *)
AcceptedIsWritten == Is("bundle") => Bundle!AcceptedIsWritten

(* The path guards leave no link and no second name (PlainPath).            *)
GuardsLeaveOneName == Is("guards") => Guards!GuardsLeaveOneName

(* The privacy scan fails closed for every path (PrivacyScan).              *)
EveryPathAccounted == Is("scan") => Scan!EveryPathAccounted

(* The two archives of a release agree with the tree (DistCheck).           *)
ArchivesAgree == Is("archives") => Archives!ArchivesAgree
=============================================================================
