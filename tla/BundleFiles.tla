------------------------------ MODULE BundleFiles ------------------------------
(***************************************************************************)
(* The three files of a bundle: what evidence.write_bundle puts in them,   *)
(* and what verify.verify_bundle asks of a directory before it accepts it. *)
(* Bundle has the order of the writes and reads; EvidenceContract has what *)
(* makes a document valid; here the files refer to each other, and a       *)
(* reader may have changed them in between.                                *)
(*                                                                         *)
(* A text is the document it parses to and the form it is written in; two  *)
(* texts have one hash only if they are equal, and may have one length.    *)
(***************************************************************************)
EXTENDS Naturals, Sequences, FiniteSets

CONSTANT MaxEdits   \* bound: the changes made to a published bundle

-----------------------------------------------------------------------------
(* Documents and texts                                                      *)

(* Two documents of the current schema, one of an older schema and one that *)
(* validate_evidence refuses.                                               *)
Documents == {"current", "other", "older", "refused"}

ValidEvidence(doc) == doc # "refused"

(* The names that an oracle of the document's schema gives its invariants.  *)
InvariantsOf(doc) == IF doc = "older" THEN "older names" ELSE "current names"

(* pretty_json; any other spelling of the same value; a text that the       *)
(* strict parser refuses: a repeated key, NaN, no UTF-8, too long, empty.   *)
Forms == {"pretty", "respelt", "unparsable"}

EvidenceTexts == [doc : Documents, form : Forms]
JunitTexts == [suite : {"current names", "older names", "no suite"}]

JunitBytes(invariants) == [suite |-> invariants]

(* Respelling changes the length; another document need not.                *)
Length(text) == IF "form" \in DOMAIN text /\ text.form # "pretty" THEN 2 ELSE 1

Hashed == {"evidence.json", "junit.xml"}
ExpectedFiles == Hashed \cup {"manifest.json"}

Entry(path, text) == [path |-> path, bytes |-> Length(text), sha256 |-> text]

VARIABLES
    evidence,  \* the text of evidence.json
    junit,     \* the text of junit.xml
    records,   \* the file records of manifest.json, in order
    header,    \* manifest.json parses, and has the registered schema and keys
    present,   \* the names in the directory
    plain,     \* the names that are regular files
    edits

files == <<evidence, junit, records, header, present, plain>>
vars == <<files, edits>>

TextOf(path) == IF path = "evidence.json" THEN evidence ELSE junit

TypeOK ==
    /\ evidence \in EvidenceTexts /\ junit \in JunitTexts
    /\ \A i \in DOMAIN records :
          /\ records[i].path \in ExpectedFiles /\ records[i].bytes \in Nat \ {0}
          /\ records[i].sha256 \in EvidenceTexts \cup JunitTexts
    /\ header \in BOOLEAN
    /\ present \in SUBSET (ExpectedFiles \cup {"notes"}) /\ plain \subseteq present
    /\ edits \in 0 .. MaxEdits

-----------------------------------------------------------------------------
(* write_bundle                                                             *)

Written(doc) ==
    LET e == [doc |-> doc, form |-> "pretty"]
        j == JunitBytes(InvariantsOf(doc))
    IN  [evidence |-> e, junit |-> j,
         records |-> << Entry("evidence.json", e), Entry("junit.xml", j) >>]

Init ==
    /\ \E doc \in {d \in Documents : ValidEvidence(d)} :
          /\ evidence = Written(doc).evidence
          /\ junit = Written(doc).junit
          /\ records = Written(doc).records
    /\ header = TRUE
    /\ present = ExpectedFiles /\ plain = ExpectedFiles
    /\ edits = 0

(* What somebody may do to the directory afterwards.                        *)
EditText ==
    /\ \/ evidence' \in EvidenceTexts /\ UNCHANGED junit
       \/ junit' \in JunitTexts /\ UNCHANGED evidence
    /\ UNCHANGED <<records, header, present, plain>>

EditManifest ==
    /\ \/ /\ header' = FALSE /\ UNCHANGED records
       \/ /\ \/ \E i \in DOMAIN records, p \in ExpectedFiles :
                   records' = [records EXCEPT ![i] = Entry(p, TextOf(p))]
             \/ \E i \in DOMAIN records, p \in ExpectedFiles :
                   records' = [records EXCEPT ![i].path = p]
             \/ \E i \in DOMAIN records : records' = Append(records, records[i])
             \/ records # <<>> /\ records' = Tail(records)
             \/ Len(records) = 2 /\ records' = << records[2], records[1] >>
          /\ UNCHANGED header
    /\ UNCHANGED <<evidence, junit, present, plain>>

EditDirectory ==
    /\ \/ \E n \in ExpectedFiles \cup {"notes"} :
             present' = present \cup {n} /\ plain' = plain \cup {n}
       \/ \E n \in present : present' = present \ {n} /\ plain' = plain \ {n}
       \/ \E n \in present : UNCHANGED present /\ plain' = plain \ {n}
    /\ UNCHANGED <<evidence, junit, records, header>>

Edit ==
    /\ edits < MaxEdits
    /\ EditText \/ EditManifest \/ EditDirectory
    /\ edits' = edits + 1

Stay == edits = MaxEdits /\ UNCHANGED vars

Next == Edit \/ Stay

Spec == Init /\ [][Next]_vars

-----------------------------------------------------------------------------
(* verify_bundle                                                            *)

(* The names, and each of them a regular file.                              *)
FileSetHolds == present = ExpectedFiles /\ plain = ExpectedFiles

(* One turn of the loop in _validate_manifest: the path is one of the two   *)
(* and has not been seen, and the file has the length and the hash.         *)
RecordHolds(i) ==
    /\ records[i].path \in Hashed
    /\ \A j \in 1 .. i - 1 : records[j].path # records[i].path
    /\ Length(TextOf(records[i].path)) = records[i].bytes
    /\ TextOf(records[i].path) = records[i].sha256

ManifestHolds ==
    /\ header
    /\ Len(records) = 2
    /\ \A i \in 1 .. 2 : RecordHolds(i)

(* Mutation of ProjectionHolds: the suites are only counted.                *)
ProjectionHoldsCounted == junit.suite # "no suite"

(* junit.xml is what the writer would have made of these invariants.        *)
ProjectionHolds == junit = JunitBytes(InvariantsOf(evidence.doc))

Accepted ==
    /\ FileSetHolds
    /\ ManifestHolds
    /\ evidence.form # "unparsable" /\ ValidEvidence(evidence.doc)
    /\ ProjectionHolds

-----------------------------------------------------------------------------
(* Properties                                                               *)

(* What is accepted could have been published: it is the bundle of some     *)
(* valid document, with nothing added, missing, repeated or exchanged, up to*)
(* the spelling of its JSON and the order of the two records.               *)
LikeWritten(doc) ==
    LET w == Written(doc) IN
    /\ present = ExpectedFiles /\ plain = present /\ header
    /\ evidence.doc = doc /\ evidence.form # "unparsable" /\ junit = w.junit
    /\ { [path |-> records[i].path, text |-> records[i].sha256] : i \in DOMAIN records }
          = { [path |-> "evidence.json", text |-> evidence],
              [path |-> "junit.xml", text |-> w.junit] }
    /\ Len(records) = 2

(* The other way round it asks for nothing that the writer's manifest does  *)
(* not promise: a bundle whose records come in the other order or whose JSON*)
(* is spelt differently, and hashed again, is still accepted.               *)
AcceptedIsWritten ==
    Accepted <=>
        /\ \E doc \in Documents : ValidEvidence(doc) /\ LikeWritten(doc)
        /\ \A i \in DOMAIN records : records[i].bytes = Length(TextOf(records[i].path))
=============================================================================
