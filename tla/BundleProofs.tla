---------------------------- MODULE BundleProofs ----------------------------
(***************************************************************************)
(* Proofs about Bundle for any set of writers, on systems where os.replace *)
(* takes an empty directory's place and on those where it does not: its    *)
(* types, the inductive invariant behind its safety invariants, those      *)
(* invariants, and that the output path is written once.                   *)
(***************************************************************************)
EXTENDS Bundle, TLAPS

(* A writer that is about to rename its directory has verified what is in   *)
(* it; the directory at the output path is that of a writer which has left  *)
(* the files alone since, and has no second name; a call that is about to   *)
(* report success still finds its own directory there.                      *)
PublishInv ==
    \A w \in Writers :
        /\ pc[w] = "replace" => Verifies(w)
        /\ output = w =>
              /\ Verifies(w) /\ w \notin staging
              /\ pc[w] \in {"return", "published", "cleanup", "failed", "dead"}
        /\ pc[w] \in {"return", "published"} => output = w

(* When a writer has not made its staging directory yet, or has removed it. *)
StagingInv ==
    \A w \in Writers : pc[w] \in {"check", "mkdtemp", "failed"} => w \notin staging

(* What the reader has seen so far is the directory at the output path.     *)
ReaderInv ==
    /\ rpc = "list" => seen = {}
    /\ rpc # "list" => output \in Writers /\ seen = {output}

IInv == TypeOK /\ PublishInv /\ StagingInv /\ ReaderInv

-----------------------------------------------------------------------------
(* Types                                                                    *)

(* The types hold at the start.                                             *)
LEMMA InitTypeOK == Init => TypeOK
BY DEF Init, TypeOK, WriterPcs, ReaderPcs

(* Every step keeps the types: one step of the proof per action.            *)
LEMMA NextTypeOK == TypeOK /\ [Next]_vars => TypeOK'
<1>. SUFFICES ASSUME TypeOK, [Next]_vars PROVE TypeOK'
  OBVIOUS
<1>. USE DEF TypeOK, WriterPcs, Move
<1>1. ASSUME NEW w \in Writers, Check(w) PROVE TypeOK'
  BY <1>1 DEF Check
<1>2. ASSUME NEW w \in Writers, MakeStaging(w) PROVE TypeOK'
  BY <1>2 DEF MakeStaging
<1>3. ASSUME NEW w \in Writers, RequirePlain(w) PROVE TypeOK'
  BY <1>3 DEF RequirePlain
<1>4. ASSUME NEW w \in Writers, WriteFile(w) PROVE TypeOK'
  BY <1>4 DEF WriteFile, NextFile, Files
<1>5. ASSUME NEW w \in Writers, VerifyStaged(w) PROVE TypeOK'
  BY <1>5 DEF VerifyStaged
<1>6. ASSUME NEW w \in Writers, Replace(w) PROVE TypeOK'
  BY <1>6 DEF Replace
<1>7. ASSUME NEW w \in Writers, Return(w) PROVE TypeOK'
  BY <1>7 DEF Return
<1>8. ASSUME NEW w \in Writers, Cleanup(w) PROVE TypeOK'
  BY <1>8 DEF Cleanup
<1>9. ASSUME NEW w \in Writers, Interrupt(w) PROVE TypeOK'
  BY <1>9 DEF Interrupt
<1>10. ASSUME NEW w \in Writers, Die(w) PROVE TypeOK'
  BY <1>10 DEF Die
<1>11. CASE ReadStep
  BY <1>11 DEF ReadStep, ReaderSteps, ReaderPcs
<1>12. CASE SomebodyElse
  BY <1>12 DEF SomebodyElse
<1>13. CASE UNCHANGED vars
  BY <1>13 DEF vars
<1>14. QED
  BY <1>1, <1>2, <1>3, <1>4, <1>5, <1>6, <1>7, <1>8, <1>9, <1>10, <1>11, <1>12, <1>13
  DEF Next, Writer, AllOver

-----------------------------------------------------------------------------
(* The inductive invariant                                                  *)

(* A step that leaves the content of a directory alone leaves its verdict.  *)
LEMMA SameVerdict ==
    ASSUME NEW w \in Writers, disk'[w] = disk[w], sound' = sound
    PROVE  Verifies(w)' <=> Verifies(w)
BY DEF Verifies

(* A free place at the output path is not a writer's directory.             *)
LEMMA FreeIsNobodys ==
    ASSUME NEW w \in Writers PROVE output = w => output # Absent /\ ~Replaceable
BY NamesAssumption DEF Replaceable

(* Only the writer that holds a verified directory renames it, and only on  *)
(* a free place.                                                            *)
LEMMA PublishInvStep == TypeOK /\ PublishInv /\ StagingInv /\ [Next]_vars => PublishInv'
<1>. SUFFICES ASSUME TypeOK, PublishInv, StagingInv, [Next]_vars PROVE PublishInv'
  OBVIOUS
<1>. USE DEF PublishInv, TypeOK, Move
<1>1. ASSUME NEW w \in Writers, Check(w) PROVE PublishInv'
  BY <1>1, SameVerdict DEF Check
<1>2. ASSUME NEW w \in Writers, MakeStaging(w) PROVE PublishInv'
  BY <1>2, SameVerdict DEF MakeStaging
<1>3. ASSUME NEW w \in Writers, RequirePlain(w) PROVE PublishInv'
  BY <1>3, SameVerdict DEF RequirePlain
<1>4. ASSUME NEW w \in Writers, WriteFile(w) PROVE PublishInv'
  <2>1. PICK f \in Files : Move(w, f, NextFile[f]) \/ Move(w, f, "cleanup")
    BY <1>4 DEF WriteFile
  <2>2. pc[w] = f /\ pc'[w] \in Files \cup {"verify", "cleanup"}
    BY <2>1 DEF NextFile, Files
  <2>3. output # w
    BY <2>2 DEF Files
  <2>4. \A v \in Writers \ {w} : pc'[v] = pc[v] /\ disk'[v] = disk[v]
    BY <1>4 DEF WriteFile
  <2>5. UNCHANGED <<staging, output, sound>>
    BY <1>4 DEF WriteFile
  <2>6. QED
    BY <2>2, <2>3, <2>4, <2>5, SameVerdict DEF Files
<1>5. ASSUME NEW w \in Writers, VerifyStaged(w) PROVE PublishInv'
  BY <1>5, SameVerdict DEF VerifyStaged
<1>6. ASSUME NEW w \in Writers, Replace(w) PROVE PublishInv'
  <2>1. CASE Replaceable
    <3>1. /\ output' = w /\ staging' = staging \ {w}
          /\ pc[w] = "replace" /\ pc' = [pc EXCEPT ![w] = "return"]
          /\ UNCHANGED <<disk, sound>>
      BY <1>6, <2>1 DEF Replace
    <3>2. Verifies(w)'
      BY <3>1, SameVerdict
    <3>3. \A v \in Writers : pc[v] \notin {"return", "published"}
      BY <2>1, FreeIsNobodys
    <3>4. QED
      BY <3>1, <3>2, <3>3, SameVerdict
  <2>2. CASE ~Replaceable
    BY <1>6, <2>2, SameVerdict DEF Replace
  <2>3. QED
    BY <2>1, <2>2
<1>7. ASSUME NEW w \in Writers, Return(w) PROVE PublishInv'
  BY <1>7, SameVerdict DEF Return
<1>8. ASSUME NEW w \in Writers, Cleanup(w) PROVE PublishInv'
  BY <1>8, SameVerdict DEF Cleanup
<1>9. ASSUME NEW w \in Writers, Interrupt(w) PROVE PublishInv'
  BY <1>9, SameVerdict DEF Interrupt, InTry, Files
<1>10. ASSUME NEW w \in Writers, Die(w) PROVE PublishInv'
  BY <1>10, SameVerdict DEF Die, Over
<1>11. CASE ReadStep
  BY <1>11, SameVerdict DEF ReadStep
<1>12. CASE SomebodyElse
  BY <1>12, SameVerdict, NamesAssumption DEF SomebodyElse
<1>13. CASE UNCHANGED vars
  BY <1>13, SameVerdict DEF vars
<1>14. QED
  BY <1>1, <1>2, <1>3, <1>4, <1>5, <1>6, <1>7, <1>8, <1>9, <1>10, <1>11, <1>12, <1>13
  DEF Next, Writer, AllOver

(* The staging directory is made after the checks and removed by the        *)
(* handler; what fails elsewhere does not end as "failed".                  *)
LEMMA StagingInvStep == TypeOK /\ StagingInv /\ [Next]_vars => StagingInv'
<1>. SUFFICES ASSUME TypeOK, StagingInv, [Next]_vars PROVE StagingInv'
  OBVIOUS
<1>. USE DEF StagingInv, TypeOK, Move
<1>1. ASSUME NEW w \in Writers, Writer(w) PROVE StagingInv'
  BY <1>1 DEF Writer, Check, MakeStaging, RequirePlain, WriteFile, NextFile, Files,
    VerifyStaged, Replace, Return, Cleanup
<1>2. ASSUME NEW w \in Writers, Interrupt(w) \/ Die(w) PROVE StagingInv'
  BY <1>2 DEF Interrupt, Die
<1>3. CASE ReadStep \/ SomebodyElse \/ UNCHANGED vars
  BY <1>3 DEF ReadStep, SomebodyElse, vars
<1>4. QED
  BY <1>1, <1>2, <1>3 DEF Next, AllOver

(* A directory that the reader has begun to read stays where it is.         *)
LEMMA ReaderInvStep == TypeOK /\ ReaderInv /\ [Next]_vars => ReaderInv'
<1>. SUFFICES ASSUME TypeOK, ReaderInv, [Next]_vars PROVE ReaderInv'
  OBVIOUS
<1>. USE DEF ReaderInv, TypeOK
<1>1. ASSUME NEW w \in Writers, Replace(w) PROVE ReaderInv'
  BY <1>1, FreeIsNobodys DEF Replace
<1>2. CASE UNCHANGED <<output, rpc, seen>>
  BY <1>2
<1>3. CASE ReadStep
  BY <1>3 DEF ReadStep, ReaderSteps
<1>4. CASE SomebodyElse
  BY <1>4, FreeIsNobodys DEF SomebodyElse
<1>5. QED
  BY <1>1, <1>2, <1>3, <1>4 DEF Next, Writer, Check, MakeStaging, RequirePlain,
    WriteFile, VerifyStaged, Return, Cleanup, Interrupt, Die, AllOver, vars

(* The inductive invariant holds at the start.                              *)
LEMMA InitIInv == Init => IInv
BY InitTypeOK, NamesAssumption DEF Init, IInv, PublishInv, StagingInv, ReaderInv

(* Every step keeps the inductive invariant.                                *)
LEMMA NextIInv == IInv /\ [Next]_vars => IInv'
BY NextTypeOK, PublishInvStep, StagingInvStep, ReaderInvStep DEF IInv

(* Every reachable state satisfies the inductive invariant.                 *)
THEOREM Inductive == Spec => []IInv
BY InitIInv, NextIInv, PTL DEF Spec

-----------------------------------------------------------------------------
(* What a writer and a reader rely on                                       *)

(* The variables of writers and reader keep their types.                    *)
THEOREM TypesHold == Spec => []TypeOK
<1>1. IInv => TypeOK
  BY DEF IInv
<1>2. QED
  BY <1>1, Inductive, PTL

(* However many processes write to one path, fail, are interrupted or die   *)
(* there, a bundle at that path is complete and verifies, and a call that   *)
(* reports success has put it there.                                        *)
THEOREM PublishedBundlesVerify == Spec => []PublishedVerifies
<1>1. IInv => PublishedVerifies
  BY DEF IInv, PublishInv, PublishedVerifies
<1>2. QED
  BY <1>1, Inductive, PTL

(* verify_bundle, which resolves the path for each file, has read all files *)
(* of one bundle when it succeeds.                                          *)
THEOREM ReadersSeeOneBundle == Spec => []ReaderSeesOneBundle
<1>1. IInv => ReaderSeesOneBundle
  BY DEF IInv, ReaderInv, ReaderSeesOneBundle
<1>2. QED
  BY <1>1, Inductive, PTL

(* A call that reports success or a handled failure leaves no staging       *)
(* directory behind.                                                        *)
THEOREM LitterIsExplained == Spec => []LitterHasAReason
<1>1. IInv => LitterHasAReason
  BY DEF IInv, PublishInv, StagingInv, LitterHasAReason
<1>2. QED
  BY <1>1, Inductive, PTL

(* The output path is written at most once, with a bundle that verifies or  *)
(* by somebody else, and never overwritten.                                 *)
THEOREM WrittenOnce == Spec => IsWrittenOnce
<1>1. Init => Once!WriteInit
  BY NamesAssumption DEF Init, Once!WriteInit
<1>2. IInv /\ [Next]_vars => [Once!Write]_(IF output \in Writers \cup {Foreign}
                                           THEN output ELSE "nothing")
  <2>. SUFFICES ASSUME IInv, [Next]_vars, output' # output
                PROVE  [Once!Write]_(IF output \in Writers \cup {Foreign}
                                     THEN output ELSE "nothing")
    OBVIOUS
  <2>1. \/ \E w \in Writers : Replace(w)
        \/ SomebodyElse
    BY DEF Next, Writer, Check, MakeStaging, RequirePlain, WriteFile, VerifyStaged,
      Return, Cleanup, Interrupt, Die, ReadStep, AllOver, vars
  <2>2. output = Absent \/ output = Empty
    BY <2>1 DEF Replace, Replaceable, SomebodyElse
  <2>3. output \notin Writers \cup {Foreign}
    BY <2>2, NamesAssumption DEF Absent, Empty, Foreign
  <2>4. output' \in Writers => output' \in {w \in Writers : Verifies(w)}
    <3>1. ASSUME NEW w \in Writers, Replace(w) PROVE output' = w /\ Verifies(w)
      BY <3>1 DEF Replace, Move, IInv, PublishInv
    <3>2. QED
      BY <2>1, <3>1, NamesAssumption DEF SomebodyElse
  <2>5. QED
    BY <2>3, <2>4 DEF Once!Write
<1>3. QED
  BY <1>1, <1>2, Inductive, PTL DEF Spec, IsWrittenOnce, Once!WriteSpec
=============================================================================
