--------------------------- MODULE ProvisionProofs ---------------------------
(***************************************************************************)
(* Proofs about Provision for any sets of fetch, convert and run commands, *)
(* that overlap in any way: its types, the inductive invariant behind its  *)
(* safety invariants, and those invariants.                                *)
(***************************************************************************)
EXTENDS Provision, TLAPS

(* Commands of one kind that are under way have met.                        *)
MetInv ==
    /\ \A p, q \in Fetchers : p # q /\ Active(p) /\ Active(q) => {p, q} \in met
    /\ \A c, d \in Converters : c # d /\ Active(c) /\ Active(d) => {c, d} \in met

(* An empty destination holds no download, and a fetch begins with the      *)
(* archive.                                                                 *)
EmptyInv ==
    /\ ~dirty => \A f \in Downloads : ~Exists(f)
    /\ \A p \in Fetchers : Active(p) /\ pc[p] # "request" => dirty
    /\ \A p \in Fetchers : pc[p] = "start" => target[p] = "archive"

(* Downloads and lock are made by fetches, the model by conversions, each   *)
(* when its time has come.                                                  *)
MakerInv ==
    /\ \A f \in Inputs : path[f] \in Fetchers \cup {None}
    /\ path["model"] \in Converters \cup {None}
    /\ \A c \in Converters :
          pc[c] \in {"start", "inspect", "convert", "open"} => path["model"] # c

(* What a fetch that is under way finds of another was made while both were *)
(* under way, as it began with an empty destination; so was the model that  *)
(* a conversion finds which has found none before.                          *)
RaceInv ==
    /\ \A p \in Fetchers, f \in Downloads :
          Active(p) /\ Foreign(p, f) => {p, path[f]} \in met
    /\ \A c \in Converters :
          Active(c) /\ pc[c] # "inspect" /\ Foreign(c, "model") => {c, path["model"]} \in met

(* The artifact at the path is the one that p made and verified.            *)
Kept(p, f) == path[f] = p /\ inode[p][f] = "whole"

(* The artifacts that a fetch has verified.                                 *)
Before == [archive |-> {}, checkpoint |-> {"archive"},
           tokenizer |-> {"archive", "checkpoint"}]

Verified(p) ==
    CASE pc[p] \in {"request", "create", "fill", "check"} -> Before[target[p]]
      [] pc[p] \in {"extract", "lock", "validate", "ok"} -> Downloads
      [] OTHER -> {}

(* What a fetch has made and verified stays at its path, and what it is     *)
(* making is there, unless it is lost to another that it has met.           *)
FetchInv ==
    \A p \in Fetchers :
        /\ \A f \in Verified(p) : Kept(p, f) \/ f \in lost
        /\ pc[p] \in {"fill", "check"} => path[target[p]] = p \/ target[p] \in lost
        /\ pc[p] = "ok" => Whole("lock")

(* A complete lock is of a fetch that has verified all artifacts.           *)
LockInv ==
    Whole("lock") =>
        /\ pc[path["lock"]] \in {"validate", "ok", "failed", "dead"}
        /\ \A f \in Downloads : Kept(path["lock"], f) \/ f \in lost

(* The model at the path is the one that a conversion has opened, or it is  *)
(* lost to another that it has met.                                         *)
ModelInv ==
    \A c \in Converters :
        /\ pc[c] \in {"body", "compare", "confirm", "ok"} =>
              path["model"] = c \/ "model" \in lost
        /\ pc[c] = "ok" => Whole("model") \/ "model" \in lost

(* The model that a run has validated stays as it is, until a conversion    *)
(* withdraws it or one opens that of another.                               *)
LoadInv ==
    (\A c \in Converters : pc[c] # "withdrew") /\ "model" \notin lost =>
        \A p \in Runners : pc[p] \in {"reExtract", "load", "reload"} => Whole("model")

IInv ==
    /\ TypeOK /\ MetInv /\ EmptyInv /\ MakerInv /\ RaceInv
    /\ FetchInv /\ LockInv /\ ModelInv /\ LoadInv

-----------------------------------------------------------------------------
(* Types                                                                    *)

(* The types hold at the start.                                             *)
LEMMA InitTypeOK == Init => TypeOK
<1>. SUFFICES ASSUME Init PROVE TypeOK
  OBVIOUS
<1>1. pc \in [Procs -> Pcs]
  BY DEF Init, Pcs
<1>2. /\ target \in [Fetchers -> Downloads]
      /\ path \in [Files -> Procs \cup {None}]
      /\ inode \in [Procs -> [Files -> {"none", "partial", "whole", "wrong"}]]
  BY DEF Init, Downloads
<1>3. QED
  BY <1>1, <1>2 DEF Init, TypeOK

(* A move of one process to a place that exists keeps the type of pc.       *)
LEMMA MoveType ==
    ASSUME TypeOK, NEW p, NEW from, NEW to \in Pcs, Move(p, from, to)
    PROVE  pc' \in [Procs -> Pcs]
BY DEF TypeOK, Move

(* The record of meetings keeps its type.                                   *)
LEMMA MeetType ==
    ASSUME TypeOK, NEW p \in Procs, NEW kind \in SUBSET Procs, Meet(p, kind)
    PROVE  met' \subseteq SUBSET Procs
BY DEF TypeOK, Meet

(* So does the record of lost files.                                        *)
LEMMA LoseType ==
    ASSUME TypeOK, NEW p \in Procs, NEW f \in Files, Lose(p, f)
    PROVE  lost' \subseteq Files
BY DEF TypeOK, Lose

(* Every step keeps the types: one step of the proof per action.            *)
LEMMA NextTypeOK == TypeOK /\ [Next]_vars => TypeOK'
<1>. SUFFICES ASSUME TypeOK, [Next]_vars PROVE TypeOK'
  OBVIOUS
<1>1. ASSUME NEW p \in Fetchers, FetchStart(p) PROVE TypeOK'
  <2>1. pc' \in [Procs -> Pcs]
    BY <1>1, MoveType DEF FetchStart, FetchPcs, ConvertPcs, RunPcs, Over, Pcs
  <2>2. met' \subseteq SUBSET Procs
    BY <1>1, MeetType DEF FetchStart, Procs, TypeOK
  <2>3. UNCHANGED <<target, path, inode, dirty, writer, lost>>
    BY <1>1 DEF FetchStart
  <2>4. QED
    BY <2>1, <2>2, <2>3 DEF TypeOK
<1>2. ASSUME NEW p \in Fetchers, Request(p) PROVE TypeOK'
  <2>1. pc' \in [Procs -> Pcs]
    BY <1>2, MoveType DEF Request, FetchPcs, ConvertPcs, RunPcs, Over, Pcs
  <2>2. dirty' \in BOOLEAN
    BY <1>2 DEF Request, TypeOK
  <2>3. UNCHANGED <<target, path, inode, writer, met, lost>>
    BY <1>2 DEF Request
  <2>4. QED
    BY <2>1, <2>2, <2>3 DEF TypeOK
<1>3. ASSUME NEW p \in Fetchers, CreateFile(p) PROVE TypeOK'
  <2>1. pc' \in [Procs -> Pcs]
    BY <1>3, MoveType DEF CreateFile, FetchPcs, ConvertPcs, RunPcs, Over, Pcs
  <2>2. path' \in [Files -> Procs \cup {None}]
    BY <1>3 DEF CreateFile, Create, Files, TypeOK, Procs
  <2>3. inode' \in [Procs -> [Files -> {"none", "partial", "whole", "wrong"}]]
    BY <1>3 DEF CreateFile, Create, Files, TypeOK
  <2>4. UNCHANGED <<target, dirty, writer, met, lost>>
    BY <1>3 DEF CreateFile
  <2>5. QED
    BY <2>1, <2>2, <2>3, <2>4 DEF TypeOK
<1>4. ASSUME NEW p \in Fetchers, Fill(p) PROVE TypeOK'
  <2>1. pc' \in [Procs -> Pcs]
    BY <1>4, MoveType DEF Fill, FetchPcs, ConvertPcs, RunPcs, Over, Pcs
  <2>2. inode' \in [Procs -> [Files -> {"none", "partial", "whole", "wrong"}]]
    BY <1>4 DEF Fill, Files, TypeOK
  <2>3. UNCHANGED <<target, path, dirty, writer, met, lost>>
    BY <1>4 DEF Fill
  <2>4. QED
    BY <2>1, <2>2, <2>3 DEF TypeOK
<1>5. ASSUME NEW p \in Fetchers, CheckFile(p) PROVE TypeOK'
  <2>1. pc' \in [Procs -> Pcs]
    BY <1>5, MoveType DEF CheckFile, FetchPcs, ConvertPcs, RunPcs, Over, Pcs
  <2>2. target' \in [Fetchers -> Downloads]
    BY <1>5 DEF CheckFile, NextTarget, Downloads, TypeOK
  <2>3. UNCHANGED <<path, inode, dirty, writer, met, lost>>
    BY <1>5 DEF CheckFile
  <2>4. QED
    BY <2>1, <2>2, <2>3 DEF TypeOK
<1>6. ASSUME NEW p \in Fetchers, Discard(p) PROVE TypeOK'
  <2>1. pc' \in [Procs -> Pcs]
    BY <1>6, MoveType DEF Discard, FetchPcs, ConvertPcs, RunPcs, Over, Pcs
  <2>2. path' \in [Files -> Procs \cup {None}]
    BY <1>6 DEF Discard, Unlink, Files, TypeOK, Procs
  <2>3. lost' \subseteq Files
    BY <1>6, LoseType DEF Discard, Files, TypeOK, Procs
  <2>4. UNCHANGED <<target, inode, dirty, writer, met>>
    BY <1>6 DEF Discard
  <2>5. QED
    BY <2>1, <2>2, <2>3, <2>4 DEF TypeOK
<1>7. ASSUME NEW p \in Fetchers, Extract(p) PROVE TypeOK'
  <2>1. pc' \in [Procs -> Pcs]
    BY <1>7, MoveType DEF Extract, FetchPcs, ConvertPcs, RunPcs, Over, Pcs
  <2>2. UNCHANGED <<target, path, inode, dirty, writer, met, lost>>
    BY <1>7 DEF Extract
  <2>3. QED
    BY <2>1, <2>2 DEF TypeOK
<1>8. ASSUME NEW p \in Fetchers, WriteLock(p) PROVE TypeOK'
  <2>1. pc' \in [Procs -> Pcs]
    BY <1>8, MoveType DEF WriteLock, FetchPcs, ConvertPcs, RunPcs, Over, Pcs
  <2>2. path' \in [Files -> Procs \cup {None}]
    BY <1>8 DEF WriteLock, Create, Files, TypeOK, Procs
  <2>3. inode' \in [Procs -> [Files -> {"none", "partial", "whole", "wrong"}]]
    BY <1>8 DEF WriteLock, Create, Files, TypeOK
  <2>4. UNCHANGED <<target, dirty, writer, met, lost>>
    BY <1>8 DEF WriteLock
  <2>5. QED
    BY <2>1, <2>2, <2>3, <2>4 DEF TypeOK
<1>9. ASSUME NEW p \in Fetchers, Validate(p) PROVE TypeOK'
  <2>1. pc' \in [Procs -> Pcs]
    BY <1>9, MoveType DEF Validate, FetchPcs, ConvertPcs, RunPcs, Over, Pcs
  <2>2. UNCHANGED <<target, path, inode, dirty, writer, met, lost>>
    BY <1>9 DEF Validate
  <2>3. QED
    BY <2>1, <2>2 DEF TypeOK
<1>10. ASSUME NEW c \in Converters, ConvertStart(c) PROVE TypeOK'
  <2>1. pc' \in [Procs -> Pcs]
    BY <1>10, MoveType DEF ConvertStart, FetchPcs, ConvertPcs, RunPcs, Over, Pcs
  <2>2. met' \subseteq SUBSET Procs
    BY <1>10, MeetType DEF ConvertStart, Procs, TypeOK
  <2>3. UNCHANGED <<target, path, inode, dirty, writer, lost>>
    BY <1>10 DEF ConvertStart
  <2>4. QED
    BY <2>1, <2>2, <2>3 DEF TypeOK
<1>11. ASSUME NEW c \in Converters, Inspect(c) PROVE TypeOK'
  <2>1. pc' \in [Procs -> Pcs]
    BY <1>11, MoveType DEF Inspect, FetchPcs, ConvertPcs, RunPcs, Over, Pcs
  <2>2. UNCHANGED <<target, path, inode, dirty, writer, met, lost>>
    BY <1>11 DEF Inspect
  <2>3. QED
    BY <2>1, <2>2 DEF TypeOK
<1>12. ASSUME NEW c \in Converters, LoadFixture(c) PROVE TypeOK'
  <2>1. pc' \in [Procs -> Pcs]
    BY <1>12, MoveType DEF LoadFixture, FetchPcs, ConvertPcs, RunPcs, Over, Pcs
  <2>2. UNCHANGED <<target, path, inode, dirty, writer, met, lost>>
    BY <1>12 DEF LoadFixture
  <2>3. QED
    BY <2>1, <2>2 DEF TypeOK
<1>13. ASSUME NEW c \in Converters, OpenModel(c) PROVE TypeOK'
  <2>1. pc' \in [Procs -> Pcs]
    BY <1>13, MoveType DEF OpenModel, FetchPcs, ConvertPcs, RunPcs, Over, Pcs
  <2>2. path' \in [Files -> Procs \cup {None}]
    BY <1>13 DEF OpenModel, Create, Files, Exists, TypeOK, Procs
  <2>3. inode' \in [Procs -> [Files -> {"none", "partial", "whole", "wrong"}]]
    BY <1>13 DEF OpenModel, Create, Files, Exists, TypeOK
  <2>4. writer' \in Converters \cup {None}
    BY <1>13 DEF OpenModel, TypeOK
  <2>5. lost' \subseteq Files
    BY <1>13, LoseType DEF OpenModel, Files, Procs
  <2>6. UNCHANGED <<target, dirty, met>>
    BY <1>13 DEF OpenModel
  <2>7. QED
    BY <2>1, <2>2, <2>3, <2>4, <2>5, <2>6 DEF TypeOK
<1>14. ASSUME NEW c \in Converters, WriteModel(c) PROVE TypeOK'
  <2>1. pc' \in [Procs -> Pcs]
    BY <1>14, MoveType DEF WriteModel, FetchPcs, ConvertPcs, RunPcs, Over, Pcs
  <2>2. inode' \in [Procs -> [Files -> {"none", "partial", "whole", "wrong"}]]
    BY <1>14 DEF WriteModel, Files, Exists, TypeOK
  <2>3. UNCHANGED <<target, path, dirty, writer, met, lost>>
    BY <1>14 DEF WriteModel
  <2>4. QED
    BY <2>1, <2>2, <2>3 DEF TypeOK
<1>15. ASSUME NEW c \in Converters, Compare(c) PROVE TypeOK'
  <2>1. pc' \in [Procs -> Pcs]
    BY <1>15, MoveType DEF Compare, FetchPcs, ConvertPcs, RunPcs, Over, Pcs
  <2>2. UNCHANGED <<target, path, inode, dirty, writer, met, lost>>
    BY <1>15 DEF Compare
  <2>3. QED
    BY <2>1, <2>2 DEF TypeOK
<1>16. ASSUME NEW c \in Converters, Remove(c) PROVE TypeOK'
  <2>1. pc' \in [Procs -> Pcs]
    BY <1>16, MoveType DEF Remove, FetchPcs, ConvertPcs, RunPcs, Over, Pcs
  <2>2. path' \in [Files -> Procs \cup {None}]
    BY <1>16 DEF Remove, Unlink, Files, TypeOK, Procs
  <2>3. lost' \subseteq Files
    BY <1>16, LoseType DEF Remove, Files, TypeOK, Procs
  <2>4. UNCHANGED <<target, inode, dirty, writer, met>>
    BY <1>16 DEF Remove
  <2>5. QED
    BY <2>1, <2>2, <2>3, <2>4 DEF TypeOK
<1>17. ASSUME NEW c \in Converters, Confirm(c) PROVE TypeOK'
  <2>1. pc' \in [Procs -> Pcs]
    BY <1>17, MoveType DEF Confirm, FetchPcs, ConvertPcs, RunPcs, Over, Pcs
  <2>2. UNCHANGED <<target, path, inode, dirty, writer, met, lost>>
    BY <1>17 DEF Confirm
  <2>3. QED
    BY <2>1, <2>2 DEF TypeOK
<1>18. ASSUME NEW r \in Runners, RunStart(r) PROVE TypeOK'
  <2>1. pc' \in [Procs -> Pcs]
    BY <1>18, MoveType DEF RunStart, FetchPcs, ConvertPcs, RunPcs, Over, Pcs
  <2>2. UNCHANGED <<target, path, inode, dirty, writer, met, lost>>
    BY <1>18 DEF RunStart
  <2>3. QED
    BY <2>1, <2>2 DEF TypeOK
<1>19. ASSUME NEW r \in Runners, ValidateAll(r) PROVE TypeOK'
  <2>1. pc' \in [Procs -> Pcs]
    BY <1>19, MoveType DEF ValidateAll, FetchPcs, ConvertPcs, RunPcs, Over, Pcs
  <2>2. UNCHANGED <<target, path, inode, dirty, writer, met, lost>>
    BY <1>19 DEF ValidateAll
  <2>3. QED
    BY <2>1, <2>2 DEF TypeOK
<1>20. ASSUME NEW r \in Runners, ReExtract(r) PROVE TypeOK'
  <2>1. pc' \in [Procs -> Pcs]
    BY <1>20, MoveType DEF ReExtract, FetchPcs, ConvertPcs, RunPcs, Over, Pcs
  <2>2. UNCHANGED <<target, path, inode, dirty, writer, met, lost>>
    BY <1>20 DEF ReExtract
  <2>3. QED
    BY <2>1, <2>2 DEF TypeOK
<1>21. ASSUME NEW r \in Runners, Load(r) PROVE TypeOK'
  <2>1. pc' \in [Procs -> Pcs]
    BY <1>21, MoveType DEF Load, FetchPcs, ConvertPcs, RunPcs, Over, Pcs
  <2>2. UNCHANGED <<target, path, inode, dirty, writer, met, lost>>
    BY <1>21 DEF Load
  <2>3. QED
    BY <2>1, <2>2 DEF TypeOK
<1>22. ASSUME NEW p \in Procs, Die(p) PROVE TypeOK'
  BY <1>22 DEF Die, TypeOK, Pcs, Over
<1>23. CASE UNCHANGED vars
  BY <1>23 DEF vars, TypeOK
<1>24. QED
  BY <1>1, <1>2, <1>3, <1>4, <1>5, <1>6, <1>7, <1>8, <1>9, <1>10, <1>11, <1>12, <1>13,
    <1>14, <1>15, <1>16, <1>17, <1>18, <1>19, <1>20, <1>21, <1>22, <1>23 DEF Next,
    Fetch, Convert, Run, AllOver

-----------------------------------------------------------------------------
(* What a step changes                                                      *)

(* A command moves only by a step of its own, and only a check changes what *)
(* a fetch downloads next.                                                  *)
LEMMA OwnSteps ==
    ASSUME TypeOK, [Next]_vars
    PROVE  /\ \A p \in Fetchers : pc'[p] = pc[p] \/ Fetch(p) \/ Die(p)
           /\ \A c \in Converters : pc'[c] = pc[c] \/ Convert(c) \/ Die(c)
           /\ \A r \in Runners : pc'[r] = pc[r] \/ Run(r) \/ Die(r)
           /\ \A p \in Fetchers : target'[p] = target[p] \/ CheckFile(p)
<1>. USE ProcsAssumption DEF TypeOK, Move, Procs
<1>1. CASE \E p \in Fetchers : Fetch(p)
  <2>1. PICK p \in Fetchers : Fetch(p)
    BY <1>1
  <2>2. \A q \in Procs \ {p} : pc'[q] = pc[q]
    BY <2>1 DEF Fetch, FetchStart, Request, CreateFile, Fill, CheckFile, Discard, Extract,
      WriteLock, Validate
  <2>3. \A q \in Fetchers : target'[q] = target[q] \/ CheckFile(q)
    BY <2>1 DEF Fetch, FetchStart, Request, CreateFile, Fill, CheckFile, Discard, Extract,
      WriteLock, Validate
  <2>4. QED
    BY <2>1, <2>2, <2>3
<1>2. CASE \E c \in Converters : Convert(c)
  <2>1. PICK c \in Converters : Convert(c)
    BY <1>2
  <2>2. (\A q \in Procs \ {c} : pc'[q] = pc[q]) /\ target' = target
    BY <2>1 DEF Convert, ConvertStart, Inspect, LoadFixture, OpenModel, WriteModel,
      Compare, Remove, Confirm
  <2>3. QED
    BY <2>1, <2>2
<1>3. CASE \E r \in Runners : Run(r)
  <2>1. PICK r \in Runners : Run(r)
    BY <1>3
  <2>2. (\A q \in Procs \ {r} : pc'[q] = pc[q]) /\ target' = target
    BY <2>1 DEF Run, RunStart, ValidateAll, ReExtract, Load
  <2>3. QED
    BY <2>1, <2>2
<1>4. CASE \E p \in Procs : Die(p)
  BY <1>4 DEF Die
<1>5. CASE UNCHANGED vars
  BY <1>5 DEF vars
<1>6. QED
  BY <1>1, <1>2, <1>3, <1>4, <1>5 DEF Next, AllOver

(* What has been met or lost stays recorded.                                *)
LEMMA HistoryGrows == [Next]_vars => met \subseteq met' /\ lost \subseteq lost'
BY DEF Next, Fetch, FetchStart, Request, CreateFile, Fill, CheckFile, Discard, Extract,
  WriteLock, Validate, Convert, ConvertStart, Inspect, LoadFixture, OpenModel,
  WriteModel, Compare, Remove, Confirm, Run, RunStart, ValidateAll, ReExtract, Load,
  Die, AllOver, Meet, Lose, vars

(* A path changes when a download is created or discarded, when the lock is *)
(* written, and when the model is created or removed.                       *)
LEMMA PathChanges ==
    ASSUME TypeOK, [Next]_vars
    PROVE  /\ \A f \in Downloads : path'[f] = path[f] \/
                 \E p \in Fetchers :
                    /\ f = target[p]
                    /\ \/ CreateFile(p) /\ ~Exists(f) /\ path'[f] = p
                       \/ Discard(p) /\ path'[f] = None
           /\ path'["lock"] = path["lock"] \/
                 \E p \in Fetchers :
                    WriteLock(p) /\ ~Exists("lock") /\ path'["lock"] = p
           /\ path'["model"] = path["model"] \/
                 \E c \in Converters :
                    \/ OpenModel(c) /\ ~Exists("model") /\ path'["model"] = c
                    \/ Remove(c) /\ path'["model"] = None
<1>. USE DEF TypeOK, Files, Downloads
<1>1. ASSUME NEW p \in Fetchers, CreateFile(p) \/ Discard(p)
      PROVE  \A f \in Files \ {target[p]} : path'[f] = path[f]
  BY <1>1 DEF CreateFile, Discard, Create, Unlink
<1>2. ASSUME NEW p \in Fetchers, CreateFile(p)
      PROVE  path' = path \/ (~Exists(target[p]) /\ path'[target[p]] = p)
  BY <1>2 DEF CreateFile, Create
<1>3. ASSUME NEW p \in Fetchers, Discard(p) PROVE path'[target[p]] = None
  BY <1>3 DEF Discard, Unlink
<1>4. ASSUME NEW p \in Fetchers, WriteLock(p)
      PROVE  path' = path
             \/ /\ ~Exists("lock") /\ path'["lock"] = p
                /\ \A f \in Files \ {"lock"} : path'[f] = path[f]
  BY <1>4 DEF WriteLock, Create
<1>5. ASSUME NEW c \in Converters, OpenModel(c) \/ Remove(c)
      PROVE  \A f \in Files \ {"model"} : path'[f] = path[f]
  BY <1>5 DEF OpenModel, Remove, Create, Unlink
<1>6. ASSUME NEW c \in Converters, OpenModel(c)
      PROVE  path' = path \/ (~Exists("model") /\ path'["model"] = c)
  BY <1>6 DEF OpenModel, Create
<1>7. ASSUME NEW c \in Converters, Remove(c) PROVE path'["model"] = None
  BY <1>7 DEF Remove, Unlink
<1>8. \/ path' = path
      \/ \E p \in Fetchers : CreateFile(p) \/ Discard(p) \/ WriteLock(p)
      \/ \E c \in Converters : OpenModel(c) \/ Remove(c)
  BY DEF Next, Fetch, FetchStart, Request, Fill, CheckFile, Extract, Validate, Convert,
    ConvertStart, Inspect, LoadFixture, WriteModel, Compare, Confirm, Run, RunStart,
    ValidateAll, ReExtract, Load, Die, AllOver, vars
<1>9. CASE path' = path
  BY <1>9
<1>10. ASSUME NEW p \in Fetchers, CreateFile(p) \/ Discard(p)
       PROVE  \A f \in Downloads : path'[f] = path[f] \/
                 /\ f = target[p]
                 /\ \/ CreateFile(p) /\ ~Exists(f) /\ path'[f] = p
                    \/ Discard(p) /\ path'[f] = None
  BY <1>1, <1>2, <1>3, <1>10
<1>11. ASSUME NEW p \in Fetchers, CreateFile(p) \/ Discard(p)
       PROVE  path'["lock"] = path["lock"] /\ path'["model"] = path["model"]
  BY <1>1, <1>11
<1>12. CASE \E p \in Fetchers : CreateFile(p) \/ Discard(p)
  BY <1>10, <1>11, <1>12
<1>13. CASE \E p \in Fetchers : WriteLock(p)
  BY <1>4, <1>13
<1>14. CASE \E c \in Converters : OpenModel(c) \/ Remove(c)
  BY <1>5, <1>6, <1>7, <1>14
<1>15. QED
  BY <1>8, <1>9, <1>12, <1>13, <1>14

(* An inode changes by the downloads of its maker, by the lock it writes,   *)
(* and by the conversions that open and write a model.                      *)
LEMMA InodeChanges ==
    ASSUME TypeOK, [Next]_vars, NEW q \in Procs
    PROVE  /\ \A f \in Downloads : inode'[q][f] = inode[q][f] \/
                 (q \in Fetchers /\ f = target[q] /\ (CreateFile(q) \/ Fill(q)))
           /\ inode'[q]["lock"] = inode[q]["lock"] \/
                 (q \in Fetchers /\ WriteLock(q) /\ ~Exists("lock"))
           /\ inode'[q]["model"] = inode[q]["model"] \/
                 \E c \in Converters : OpenModel(c) \/ WriteModel(c)
<1>. USE DEF TypeOK, Files, Downloads, Procs
<1>1. ASSUME NEW p \in Fetchers, CreateFile(p) \/ Fill(p)
      PROVE  \A f \in Files : inode'[q][f] = inode[q][f] \/ (q = p /\ f = target[p])
  BY <1>1 DEF CreateFile, Fill, Create
<1>2. ASSUME NEW p \in Fetchers, WriteLock(p)
      PROVE  \A f \in Files :
                inode'[q][f] = inode[q][f] \/ (q = p /\ f = "lock" /\ ~Exists("lock"))
  BY <1>2 DEF WriteLock, Create
<1>3. ASSUME NEW c \in Converters, OpenModel(c) \/ WriteModel(c)
      PROVE  \A f \in Files \ {"model"} : inode'[q][f] = inode[q][f]
  BY <1>3 DEF OpenModel, WriteModel, Create, Exists
<1>4. \/ inode' = inode
      \/ \E p \in Fetchers : CreateFile(p) \/ Fill(p) \/ WriteLock(p)
      \/ \E c \in Converters : OpenModel(c) \/ WriteModel(c)
  BY DEF Next, Fetch, FetchStart, Request, CheckFile, Discard, Extract, Validate, Convert,
    ConvertStart, Inspect, LoadFixture, Remove, Compare, Confirm, Run, RunStart,
    ValidateAll, ReExtract, Load, Die, AllOver, vars
<1>5. CASE inode' = inode
  BY <1>5
<1>6. CASE \E p \in Fetchers : CreateFile(p) \/ Fill(p)
  BY <1>1, <1>6
<1>7. CASE \E p \in Fetchers : WriteLock(p)
  BY <1>2, <1>7
<1>8. CASE \E c \in Converters : OpenModel(c) \/ WriteModel(c)
  BY <1>3, <1>8
<1>9. QED
  BY <1>4, <1>5, <1>6, <1>7, <1>8

-----------------------------------------------------------------------------
(* The inductive invariant                                                  *)

(* A command that works after a step has worked before it, unless the step  *)
(* is its start.                                                            *)
LEMMA ActiveBefore ==
    ASSUME TypeOK, [Next]_vars, NEW q \in Procs, Active(q)'
    PROVE  \/ Active(q)
           \/ q \in Fetchers /\ FetchStart(q)
           \/ q \in Converters /\ ConvertStart(q)
           \/ q \in Runners /\ RunStart(q)
<1>. USE DEF TypeOK, Move, Active, Over, Procs
<1>1. ASSUME NEW p \in Fetchers, Fetch(p), ~Active(q) PROVE q = p /\ FetchStart(q)
  BY <1>1 DEF Fetch, FetchStart, Request, CreateFile, Fill, CheckFile, Discard, Extract,
    WriteLock, Validate
<1>2. ASSUME NEW c \in Converters, Convert(c), ~Active(q) PROVE q = c /\ ConvertStart(q)
  BY <1>2 DEF Convert, ConvertStart, Inspect, LoadFixture, OpenModel, WriteModel,
    Compare, Remove, Confirm
<1>3. ASSUME NEW r \in Runners, Run(r), ~Active(q) PROVE q = r /\ RunStart(q)
  BY <1>3 DEF Run, RunStart, ValidateAll, ReExtract, Load
<1>4. ASSUME NEW p \in Procs, Die(p) PROVE Active(q)
  BY <1>4 DEF Die
<1>5. CASE UNCHANGED vars
  BY <1>5 DEF vars
<1>6. QED
  BY <1>1, <1>2, <1>3, <1>4, <1>5 DEF Next, AllOver

(* A command that begins meets those of its kind that are under way.        *)
LEMMA MetInvStep == TypeOK /\ MetInv /\ [Next]_vars => MetInv'
<1>. SUFFICES ASSUME TypeOK, MetInv, [Next]_vars PROVE MetInv'
  OBVIOUS
<1>1. met \subseteq met'
  BY DEF Next, Fetch, FetchStart, Request, CreateFile, Fill, CheckFile, Discard, Extract,
    WriteLock, Validate, Convert, ConvertStart, Inspect, LoadFixture, OpenModel,
    WriteModel, Compare, Remove, Confirm, Run, RunStart, ValidateAll, ReExtract, Load,
    Die, AllOver, Meet, vars
<1>2. ASSUME NEW p \in Fetchers, NEW q \in Fetchers, p # q, Active(p)', Active(q)'
      PROVE  {p, q} \in met'
  <2>1. (Active(p) \/ FetchStart(p)) /\ (Active(q) \/ FetchStart(q))
    BY <1>2, ActiveBefore, ProcsAssumption DEF Procs
  <2>2. CASE Active(p) /\ Active(q)
    BY <1>1, <1>2, <2>2 DEF MetInv
  <2>3. ASSUME NEW s \in {p, q}, NEW t \in {p, q} \ {s}, FetchStart(s)
        PROVE  {p, q} \in met'
    <3>1. Meet(s, Fetchers) /\ pc' = [pc EXCEPT ![s] = "request"]
      BY <1>2, <2>3 DEF FetchStart, Move, Active, Over, TypeOK, Procs
    <3>2. Active(t)
      BY <1>2, <2>3, <3>1 DEF Active, TypeOK, Procs
    <3>3. {s, t} \in met'
      BY <1>2, <2>3, <3>1, <3>2 DEF Meet
    <3>4. {s, t} = {p, q}
      BY <2>3
    <3>5. QED
      BY <3>3, <3>4
  <2>4. QED
    BY <1>2, <2>1, <2>2, <2>3
<1>3. ASSUME NEW c \in Converters, NEW d \in Converters, c # d, Active(c)', Active(d)'
      PROVE  {c, d} \in met'
  <2>1. (Active(c) \/ ConvertStart(c)) /\ (Active(d) \/ ConvertStart(d))
    BY <1>3, ActiveBefore, ProcsAssumption DEF Procs
  <2>2. CASE Active(c) /\ Active(d)
    BY <1>1, <1>3, <2>2 DEF MetInv
  <2>3. ASSUME NEW s \in {c, d}, NEW t \in {c, d} \ {s}, ConvertStart(s)
        PROVE  {c, d} \in met'
    <3>1. Meet(s, Converters) /\ pc' = [pc EXCEPT ![s] = "inspect"]
      BY <1>3, <2>3 DEF ConvertStart, Move, Active, Over, TypeOK, Procs
    <3>2. Active(t)
      BY <1>3, <2>3, <3>1 DEF Active, TypeOK, Procs
    <3>3. {s, t} \in met'
      BY <1>3, <2>3, <3>1, <3>2 DEF Meet
    <3>4. {s, t} = {c, d}
      BY <2>3
    <3>5. QED
      BY <3>3, <3>4
  <2>4. QED
    BY <1>3, <2>1, <2>2, <2>3
<1>4. QED
  BY <1>2, <1>3 DEF MetInv

(* The destination is empty until a fetch has made its directory.           *)
LEMMA EmptyInvStep == TypeOK /\ EmptyInv /\ [Next]_vars => EmptyInv'
<1>. SUFFICES ASSUME TypeOK, EmptyInv, [Next]_vars PROVE EmptyInv'
  OBVIOUS
<1>. USE DEF EmptyInv, TypeOK, Move, Over, Procs, Files, Downloads, Inputs, Active, Exists
<1>1. ASSUME NEW p \in Fetchers, FetchStart(p) PROVE EmptyInv'
  BY <1>1, ProcsAssumption DEF FetchStart
<1>2. ASSUME NEW p \in Fetchers, Request(p) PROVE EmptyInv'
  BY <1>2 DEF Request
<1>3. ASSUME NEW p \in Fetchers, CreateFile(p) PROVE EmptyInv'
  BY <1>3 DEF CreateFile, Create
<1>4. ASSUME NEW p \in Fetchers, Fill(p) PROVE EmptyInv'
  BY <1>4 DEF Fill
<1>5. ASSUME NEW p \in Fetchers, CheckFile(p) PROVE EmptyInv'
  BY <1>5 DEF CheckFile
<1>6. ASSUME NEW p \in Fetchers, Discard(p) PROVE EmptyInv'
  BY <1>6 DEF Discard, Unlink
<1>7. ASSUME NEW p \in Fetchers, Extract(p) PROVE EmptyInv'
  BY <1>7 DEF Extract
<1>8. ASSUME NEW p \in Fetchers, WriteLock(p) PROVE EmptyInv'
  BY <1>8 DEF WriteLock, Create
<1>9. ASSUME NEW p \in Fetchers, Validate(p) PROVE EmptyInv'
  BY <1>9 DEF Validate
<1>10. ASSUME NEW c \in Converters, ConvertStart(c) PROVE EmptyInv'
  <2>1. UNCHANGED <<target, path, dirty>> /\ \A q \in Procs \ {c} : pc'[q] = pc[q]
    BY <1>10 DEF ConvertStart
  <2>2. QED
    BY <2>1, ProcsAssumption
<1>11. ASSUME NEW c \in Converters, Inspect(c) PROVE EmptyInv'
  BY <1>11 DEF Inspect
<1>12. ASSUME NEW c \in Converters, LoadFixture(c) PROVE EmptyInv'
  BY <1>12 DEF LoadFixture
<1>13. ASSUME NEW c \in Converters, OpenModel(c) PROVE EmptyInv'
  BY <1>13 DEF OpenModel, Create
<1>14. ASSUME NEW c \in Converters, WriteModel(c) PROVE EmptyInv'
  BY <1>14 DEF WriteModel
<1>15. ASSUME NEW c \in Converters, Compare(c) PROVE EmptyInv'
  BY <1>15 DEF Compare
<1>16. ASSUME NEW c \in Converters, Remove(c) PROVE EmptyInv'
  BY <1>16 DEF Remove, Unlink
<1>17. ASSUME NEW c \in Converters, Confirm(c) PROVE EmptyInv'
  BY <1>17 DEF Confirm
<1>18. ASSUME NEW r \in Runners, RunStart(r) PROVE EmptyInv'
  BY <1>18, ProcsAssumption DEF RunStart
<1>19. ASSUME NEW r \in Runners, ValidateAll(r) PROVE EmptyInv'
  BY <1>19 DEF ValidateAll
<1>20. ASSUME NEW r \in Runners, ReExtract(r) PROVE EmptyInv'
  BY <1>20 DEF ReExtract
<1>21. ASSUME NEW r \in Runners, Load(r) PROVE EmptyInv'
  BY <1>21 DEF Load
<1>22. ASSUME NEW p \in Procs, Die(p) PROVE EmptyInv'
  BY <1>22 DEF Die
<1>23. CASE UNCHANGED vars
  BY <1>23 DEF vars
<1>24. QED
  BY <1>1, <1>2, <1>3, <1>4, <1>5, <1>6, <1>7, <1>8, <1>9, <1>10, <1>11, <1>12, <1>13,
    <1>14, <1>15, <1>16, <1>17, <1>18, <1>19, <1>20, <1>21, <1>22, <1>23
  DEF Next, Fetch, Convert, Run, AllOver

(* A fetch makes downloads and a lock, a conversion a model.                *)
LEMMA MakerInvStep == TypeOK /\ MakerInv /\ [Next]_vars => MakerInv'
<1>. SUFFICES ASSUME TypeOK, MakerInv, [Next]_vars PROVE MakerInv'
  OBVIOUS
<1>. USE DEF MakerInv, TypeOK, Move, Over, Procs, Files, Downloads, Inputs
<1>1. ASSUME NEW p \in Fetchers, FetchStart(p) PROVE MakerInv'
  BY <1>1, ProcsAssumption DEF FetchStart
<1>2. ASSUME NEW p \in Fetchers, Request(p) PROVE MakerInv'
  BY <1>2, ProcsAssumption DEF Request
<1>3. ASSUME NEW p \in Fetchers, CreateFile(p) PROVE MakerInv'
  BY <1>3 DEF CreateFile, Create
<1>4. ASSUME NEW p \in Fetchers, Fill(p) PROVE MakerInv'
  BY <1>4, ProcsAssumption DEF Fill
<1>5. ASSUME NEW p \in Fetchers, CheckFile(p) PROVE MakerInv'
  BY <1>5, ProcsAssumption DEF CheckFile
<1>6. ASSUME NEW p \in Fetchers, Discard(p) PROVE MakerInv'
  BY <1>6 DEF Discard, Unlink
<1>7. ASSUME NEW p \in Fetchers, Extract(p) PROVE MakerInv'
  BY <1>7, ProcsAssumption DEF Extract
<1>8. ASSUME NEW p \in Fetchers, WriteLock(p) PROVE MakerInv'
  BY <1>8 DEF WriteLock, Create
<1>9. ASSUME NEW p \in Fetchers, Validate(p) PROVE MakerInv'
  BY <1>9, ProcsAssumption DEF Validate
<1>10. ASSUME NEW c \in Converters, ConvertStart(c) PROVE MakerInv'
  BY <1>10, ProcsAssumption DEF ConvertStart
<1>11. ASSUME NEW c \in Converters, Inspect(c) PROVE MakerInv'
  BY <1>11, ProcsAssumption DEF Inspect
<1>12. ASSUME NEW c \in Converters, LoadFixture(c) PROVE MakerInv'
  BY <1>12, ProcsAssumption DEF LoadFixture
<1>13. ASSUME NEW c \in Converters, OpenModel(c) PROVE MakerInv'
  BY <1>13, ProcsAssumption, NoneAssumption DEF OpenModel, Create, Exists
<1>14. ASSUME NEW c \in Converters, WriteModel(c) PROVE MakerInv'
  BY <1>14, ProcsAssumption DEF WriteModel
<1>15. ASSUME NEW c \in Converters, Compare(c) PROVE MakerInv'
  BY <1>15, ProcsAssumption DEF Compare
<1>16. ASSUME NEW c \in Converters, Remove(c) PROVE MakerInv'
  BY <1>16, NoneAssumption DEF Remove, Unlink
<1>17. ASSUME NEW c \in Converters, Confirm(c) PROVE MakerInv'
  BY <1>17, ProcsAssumption DEF Confirm
<1>18. ASSUME NEW r \in Runners, RunStart(r) PROVE MakerInv'
  BY <1>18, ProcsAssumption DEF RunStart
<1>19. ASSUME NEW r \in Runners, ValidateAll(r) PROVE MakerInv'
  BY <1>19, ProcsAssumption DEF ValidateAll
<1>20. ASSUME NEW r \in Runners, ReExtract(r) PROVE MakerInv'
  BY <1>20, ProcsAssumption DEF ReExtract
<1>21. ASSUME NEW r \in Runners, Load(r) PROVE MakerInv'
  BY <1>21, ProcsAssumption DEF Load
<1>22. ASSUME NEW p \in Procs, Die(p) PROVE MakerInv'
  BY <1>22, ProcsAssumption DEF Die
<1>23. CASE UNCHANGED vars
  BY <1>23 DEF vars
<1>24. QED
  BY <1>1, <1>2, <1>3, <1>4, <1>5, <1>6, <1>7, <1>8, <1>9, <1>10, <1>11, <1>12, <1>13,
    <1>14, <1>15, <1>16, <1>17, <1>18, <1>19, <1>20, <1>21, <1>22, <1>23
  DEF Next, Fetch, Convert, Run, AllOver

(* What appears at a path while a command is under way was made by one that *)
(* it has met.                                                              *)
LEMMA RaceInvStep ==
    TypeOK /\ MetInv /\ EmptyInv /\ RaceInv /\ [Next]_vars => RaceInv'
<1>. SUFFICES ASSUME TypeOK, MetInv, EmptyInv, RaceInv, [Next]_vars PROVE RaceInv'
  OBVIOUS
<1>1. met \subseteq met' /\ MetInv'
  BY HistoryGrows, MetInvStep
<1>2. ASSUME NEW p \in Fetchers, NEW f \in Downloads, Active(p)', Foreign(p, f)'
      PROVE  {p, path'[f]} \in met'
  <2>1. CASE FetchStart(p)
    <3>1. ~dirty /\ path' = path
      BY <1>2, <2>1 DEF FetchStart, Move, Active, Over, TypeOK, Procs
    <3>2. QED
      BY <1>2, <3>1 DEF EmptyInv, Exists, Foreign
  <2>2. CASE Active(p) /\ path'[f] = path[f]
    BY <1>1, <1>2, <2>2 DEF RaceInv, Foreign
  <2>3. CASE Active(p) /\ path'[f] # path[f]
    <3>1. PICK q \in Fetchers : CreateFile(q) /\ path'[f] = q
      BY <1>2, <2>3, PathChanges DEF Foreign
    <3>2. Active(q)'
      BY <3>1 DEF CreateFile, Move, Active, Over, TypeOK, Procs
    <3>3. QED
      BY <1>1, <1>2, <3>1, <3>2 DEF MetInv, Foreign
  <2>4. QED
    BY <1>2, <2>1, <2>2, <2>3, ActiveBefore, ProcsAssumption DEF Procs
<1>3. ASSUME NEW c \in Converters, Active(c)', pc'[c] # "inspect", Foreign(c, "model")'
      PROVE  {c, path'["model"]} \in met'
  <2>1. Active(c) /\ (pc[c] # "inspect" \/ Inspect(c))
    BY <1>3, OwnSteps DEF Convert, ConvertStart, Inspect, LoadFixture, OpenModel,
      WriteModel, Compare, Remove, Confirm, Die, Move, Active, Over, TypeOK, Procs
  <2>2. CASE Inspect(c)
    BY <1>3, <2>2 DEF Inspect, Move, Exists, Foreign, Active, Over, TypeOK, Procs
  <2>3. CASE pc[c] # "inspect" /\ path'["model"] = path["model"]
    BY <1>1, <1>3, <2>1, <2>3 DEF RaceInv, Foreign
  <2>4. CASE path'["model"] # path["model"]
    <3>1. PICK d \in Converters : OpenModel(d) /\ path'["model"] = d
      BY <1>3, <2>4, PathChanges DEF Foreign
    <3>2. Active(d)'
      BY <3>1 DEF OpenModel, Move, Active, Over, TypeOK, Procs
    <3>3. QED
      BY <1>1, <1>3, <3>1, <3>2 DEF MetInv, Foreign
  <2>5. QED
    BY <2>1, <2>2, <2>3, <2>4
<1>4. QED
  BY <1>2, <1>3 DEF RaceInv

(* A download that is neither being discarded nor lost to another fetch     *)
(* that its maker has met stays at its path.                                *)
LEMMA DownloadStays ==
    ASSUME TypeOK, RaceInv, [Next]_vars, NEW p \in Fetchers, NEW f \in Downloads,
           path[f] = p, pc[p] # "discard", f \notin lost'
    PROVE  path'[f] = p
<1>. SUFFICES ASSUME path'[f] # p PROVE FALSE
  OBVIOUS
<1>1. PICK q \in Fetchers : Discard(q) /\ f = target[q]
  BY PathChanges, NoneAssumption DEF Exists, Procs
<1>2. q # p /\ Active(q)
  BY <1>1 DEF Discard, Move, Active, Over
<1>3. {q, p} \in met
  BY <1>1, <1>2, NoneAssumption DEF RaceInv, Foreign, Procs
<1>4. QED
  BY <1>1, <1>2, <1>3, NoneAssumption DEF Discard, Lose, Foreign, Procs

(* A lock that is there stays as it is.                                     *)
LEMMA LockStays ==
    ASSUME TypeOK, [Next]_vars, Exists("lock")
    PROVE  path'["lock"] = path["lock"] /\ (Whole("lock")' <=> Whole("lock"))
<1>1. path'["lock"] = path["lock"]
  BY PathChanges
<1>2. inode'[path["lock"]]["lock"] = inode[path["lock"]]["lock"]
  BY InodeChanges DEF Exists, TypeOK, Files
<1>3. QED
  BY <1>1, <1>2 DEF Whole, Exists

(* A model that is there stays, as complete as it is, unless the conversion *)
(* that made it withdraws it or it is lost to another that it has met.      *)
LEMMA ModelStays ==
    ASSUME TypeOK, MakerInv, RaceInv, [Next]_vars, Exists("model"),
           "model" \notin lost', \A c \in Converters : Remove(c) => path["model"] # c
    PROVE  path'["model"] = path["model"] /\ (Whole("model") => Whole("model")')
<1>1. ASSUME NEW c \in Converters, OpenModel(c) \/ Remove(c) PROVE FALSE
  <2>1. Active(c) /\ pc[c] # "inspect" /\ Foreign(c, "model")
    BY <1>1 DEF OpenModel, Remove, Move, Active, Over, MakerInv, Foreign, Exists
  <2>2. {c, path["model"]} \in met
    BY <2>1 DEF RaceInv
  <2>3. QED
    BY <1>1, <2>1, <2>2 DEF OpenModel, Remove, Lose
<1>2. path'["model"] = path["model"]
  BY <1>1, PathChanges
<1>3. path["model"] \in Procs
  BY DEF TypeOK, Exists, Files
<1>4. CASE inode'[path["model"]]["model"] = inode[path["model"]]["model"]
  BY <1>2, <1>4 DEF Whole, Exists
<1>5. CASE \E c \in Converters : WriteModel(c)
  <2>1. inode' = inode \/ inode'[path["model"]]["model"] = "whole"
    BY <1>3, <1>5 DEF WriteModel, TypeOK, Files
  <2>2. QED
    BY <1>2, <2>1 DEF Whole, Exists
<1>6. QED
  BY <1>1, <1>2, <1>3, <1>4, <1>5, InodeChanges

(* A fetch has verified what it had before, and what it checks now.         *)
LEMMA VerifiedGrows ==
    ASSUME TypeOK, EmptyInv, [Next]_vars, NEW p \in Fetchers
    PROVE  \A f \in Verified(p)' :
              f \in Verified(p) \/ (CheckFile(p) /\ f = target[p] /\ Whole(f))
<1>. USE DEF TypeOK, Move, Procs
<1>1. CASE CheckFile(p)
  BY <1>1 DEF CheckFile, NextTarget, Verified, Before, Downloads
<1>2. CASE target'[p] = target[p]
  <2>1. CASE pc'[p] = pc[p] \/ Die(p)
    BY <1>2, <2>1 DEF Die, Verified
  <2>2. CASE FetchStart(p)
    BY <1>2, <2>2 DEF FetchStart, Verified, Before, EmptyInv
  <2>3. CASE Request(p) \/ CreateFile(p) \/ Fill(p)
    BY <1>2, <2>3 DEF Request, CreateFile, Fill, Verified
  <2>4. CASE Discard(p) \/ Extract(p) \/ WriteLock(p) \/ Validate(p)
    BY <1>2, <2>4 DEF Discard, Extract, WriteLock, Validate, Verified
  <2>5. QED
    BY <1>1, <2>1, <2>2, <2>3, <2>4, OwnSteps DEF Fetch
<1>3. QED
  BY <1>1, <1>2, OwnSteps

(* A fetch makes each of its artifacts itself; only one that it has met can *)
(* take it away.                                                            *)
LEMMA FetchInvStep ==
    TypeOK /\ EmptyInv /\ RaceInv /\ FetchInv /\ [Next]_vars => FetchInv'
<1>. SUFFICES ASSUME TypeOK, EmptyInv, RaceInv, FetchInv, [Next]_vars, NEW p \in Fetchers
     PROVE  /\ \A f \in Verified(p)' : Kept(p, f)' \/ f \in lost'
            /\ pc'[p] \in {"fill", "check"} => path'[target'[p]] = p \/ target'[p] \in lost'
            /\ pc'[p] = "ok" => Whole("lock")'
  BY DEF FetchInv
<1>1. p \in Procs /\ lost \subseteq lost'
  BY HistoryGrows DEF Procs
<1>2. ASSUME NEW f \in Verified(p)', f \notin lost' PROVE Kept(p, f)'
  <2>1. CASE f \in Verified(p)
    <3>1. f \in Downloads /\ pc[p] # "discard"
          /\ (pc[p] \in {"create", "fill"} => f # target[p])
      BY <2>1 DEF Verified, Before, Downloads, TypeOK
    <3>2. Kept(p, f)
      BY <1>1, <1>2, <2>1 DEF FetchInv
    <3>3. path'[f] = p
      BY <1>2, <3>1, <3>2, DownloadStays DEF Kept
    <3>4. inode'[p][f] = inode[p][f]
      BY <1>1, <3>1, InodeChanges DEF CreateFile, Fill, Move
    <3>5. QED
      BY <3>2, <3>3, <3>4 DEF Kept
  <2>2. CASE CheckFile(p) /\ f = target[p] /\ Whole(f)
    <3>1. path[f] = p /\ UNCHANGED <<path, inode>>
      BY <1>1, <1>2, <2>2 DEF FetchInv, CheckFile, Move
    <3>2. QED
      BY <2>2, <3>1 DEF Kept, Whole
  <2>3. QED
    BY <2>1, <2>2, VerifiedGrows
<1>3. ASSUME pc'[p] \in {"fill", "check"}, target'[p] \notin lost' PROVE path'[target'[p]] = p
  <2>1. CASE CreateFile(p)
    BY <1>1, <1>3, <2>1 DEF CreateFile, Create, Move, TypeOK, Files
  <2>2. CASE pc[p] \in {"fill", "check"} /\ target'[p] = target[p]
    <3>1. path[target[p]] = p /\ target[p] \in Downloads
      BY <1>1, <1>3, <2>2 DEF FetchInv, TypeOK
    <3>2. QED
      BY <1>3, <2>2, <3>1, DownloadStays
  <2>3. pc'[p] # pc[p] => CreateFile(p) \/ Fill(p)
    BY <1>1, <1>3, OwnSteps DEF Fetch, FetchStart, Request, Fill, CheckFile, Discard,
      Extract, WriteLock, Validate, Die, Move, TypeOK
  <2>4. ~CheckFile(p)
    BY <1>1, <1>3 DEF CheckFile, Move, TypeOK
  <2>5. QED
    BY <1>3, <2>1, <2>2, <2>3, <2>4, OwnSteps DEF Fill, Move
<1>4. ASSUME pc'[p] = "ok" PROVE Whole("lock")'
  <2>1. Whole("lock")
    <3>1. pc[p] = "ok" \/ Validate(p)
      BY <1>1, <1>4, OwnSteps DEF Fetch, FetchStart, Request, CreateFile, Fill, CheckFile,
        Discard, Extract, WriteLock, Die, Move, TypeOK
    <3>2. CASE Validate(p)
      BY <1>1, <1>4, <3>2 DEF Validate, Valid, Inputs, Move, TypeOK
    <3>3. QED
      BY <3>1, <3>2 DEF FetchInv
  <2>2. QED
    BY <2>1, LockStays DEF Whole
<1>5. QED
  BY <1>2, <1>3, <1>4

(* A lock is written once, by a fetch that has verified its artifacts, and  *)
(* is never removed.                                                        *)
LEMMA LockInvStep ==
    TypeOK /\ MakerInv /\ RaceInv /\ FetchInv /\ LockInv /\ [Next]_vars => LockInv'
<1>. SUFFICES ASSUME TypeOK, MakerInv, RaceInv, FetchInv, LockInv, [Next]_vars, Whole("lock")'
     PROVE  LockInv'
  BY DEF LockInv
<1>1. lost \subseteq lost'
  BY HistoryGrows
<1>2. CASE Whole("lock")
  <2>1. PICK p \in Fetchers : path["lock"] = p /\ path'["lock"] = p
    BY <1>2, LockStays DEF MakerInv, Inputs, Whole, Exists
  <2>2. pc[p] \in {"validate", "ok", "failed", "dead"}
    BY <1>2, <2>1 DEF LockInv
  <2>3. pc'[p] \in {"validate", "ok", "failed", "dead"}
    BY <2>2, OwnSteps DEF Fetch, FetchStart, Request, CreateFile, Fill, CheckFile, Discard,
      Extract, WriteLock, Validate, Die, Move, TypeOK, Procs
  <2>4. ASSUME NEW f \in Downloads, f \notin lost' PROVE Kept(p, f)'
    <3>1. Kept(p, f)
      BY <1>1, <1>2, <2>1, <2>4 DEF LockInv
    <3>2. path'[f] = p
      BY <2>2, <2>4, <3>1, DownloadStays DEF Kept
    <3>3. inode'[p][f] = inode[p][f]
      BY <2>2, InodeChanges DEF CreateFile, Fill, Move, Procs
    <3>4. QED
      BY <3>1, <3>2, <3>3 DEF Kept
  <2>5. QED
    BY <2>1, <2>3, <2>4 DEF LockInv
<1>3. CASE ~Whole("lock")
  <2>1. ~Exists("lock")
    BY <1>3, LockStays
  <2>2. PICK p \in Fetchers : WriteLock(p) /\ path'["lock"] = p
    BY <2>1, PathChanges DEF Whole, Exists
  <2>3. pc[p] = "lock" /\ pc'[p] \in {"validate", "failed"} /\ UNCHANGED lost
    BY <2>2 DEF WriteLock, Move, TypeOK, Procs
  <2>4. ASSUME NEW f \in Downloads, f \notin lost' PROVE Kept(p, f)'
    <3>1. Kept(p, f)
      BY <2>3, <2>4 DEF FetchInv, Verified
    <3>2. path'[f] = path[f] /\ inode'[p][f] = inode[p][f]
      BY <2>2 DEF WriteLock, Create, Downloads, Files, TypeOK, Procs
    <3>3. QED
      BY <3>1, <3>2 DEF Kept
  <2>5. QED
    BY <2>2, <2>3, <2>4 DEF LockInv
<1>4. QED
  BY <1>2, <1>3

(* A conversion opens a model of its own, or that of one it has met.        *)
LEMMA ModelInvStep == TypeOK /\ MakerInv /\ RaceInv /\ ModelInv /\ [Next]_vars => ModelInv'
<1>. SUFFICES ASSUME TypeOK, MakerInv, RaceInv, ModelInv, [Next]_vars, NEW c \in Converters,
                     "model" \notin lost',
                     pc'[c] \in {"body", "compare", "confirm", "ok"}
     PROVE  path'["model"] = c /\ (pc'[c] = "ok" => Whole("model")')
  BY DEF ModelInv
<1>1. c \in Procs /\ lost \subseteq lost'
  BY HistoryGrows DEF Procs
<1>2. CASE OpenModel(c)
  <2>1. pc[c] = "open" /\ pc'[c] = "body" /\ Lose(c, "model")
    BY <1>1, <1>2 DEF OpenModel, Move, TypeOK
  <2>2. ASSUME Exists("model") PROVE FALSE
    <3>1. Active(c) /\ Foreign(c, "model")
      BY <2>1, <2>2 DEF Active, Over, Foreign, MakerInv, Exists
    <3>2. {c, path["model"]} \in met
      BY <2>1, <3>1 DEF RaceInv
    <3>3. QED
      BY <2>1, <3>1, <3>2 DEF Lose
  <2>3. path'["model"] = c
    BY <1>2, <2>2 DEF OpenModel, Create, Files, TypeOK
  <2>4. QED
    BY <2>1, <2>3
<1>3. CASE pc[c] \in {"body", "compare", "confirm", "ok"}
  <2>1. path["model"] = c
    BY <1>1, <1>3 DEF ModelInv
  <2>2. \A d \in Converters : Remove(d) => path["model"] # d
    BY <1>3, <2>1 DEF Remove, Move
  <2>3. path'["model"] = c /\ (Whole("model") => Whole("model")')
    BY <1>1, <2>1, <2>2, ModelStays, NoneAssumption DEF Exists
  <2>4. ASSUME pc'[c] = "ok" PROVE Whole("model")
    <3>1. pc[c] = "ok" \/ Confirm(c)
      BY <1>1, <2>4, OwnSteps DEF Convert, ConvertStart, Inspect, LoadFixture, OpenModel,
        WriteModel, Compare, Remove, Die, Move, TypeOK
    <3>2. CASE Confirm(c)
      BY <1>1, <2>4, <3>2 DEF Confirm, Valid, Move, TypeOK
    <3>3. QED
      BY <1>1, <3>1, <3>2 DEF ModelInv
  <2>5. QED
    BY <2>3, <2>4
<1>4. QED
  BY <1>1, <1>2, <1>3, OwnSteps DEF Convert, ConvertStart, Inspect, LoadFixture,
    WriteModel, Compare, Remove, Confirm, Die, Move, TypeOK

(* Only a withdrawal, or a conversion that opens the model of another,      *)
(* takes away a model that a run has validated.                             *)
LEMMA LoadInvStep == TypeOK /\ MakerInv /\ RaceInv /\ LoadInv /\ [Next]_vars => LoadInv'
<1>. SUFFICES ASSUME TypeOK, MakerInv, RaceInv, LoadInv, [Next]_vars, NEW r \in Runners,
                     \A c \in Converters : pc'[c] # "withdrew", "model" \notin lost',
                     pc'[r] \in {"reExtract", "load", "reload"}
     PROVE  Whole("model")'
  BY DEF LoadInv
<1>1. r \in Procs /\ "model" \notin lost
  BY HistoryGrows DEF Procs
<1>2. \A c \in Converters : pc[c] # "withdrew"
  BY OwnSteps DEF Convert, ConvertStart, Inspect, LoadFixture, OpenModel, WriteModel,
    Compare, Remove, Confirm, Die, Move, Over
<1>3. Whole("model")
  <2>1. pc[r] \in {"reExtract", "load", "reload"} \/ ValidateAll(r)
    BY <1>1, OwnSteps DEF Run, RunStart, ReExtract, Load, Die, Move, TypeOK
  <2>2. CASE ValidateAll(r)
    BY <1>1, <2>2 DEF ValidateAll, Valid, Move, TypeOK
  <2>3. QED
    BY <1>1, <1>2, <2>1, <2>2 DEF LoadInv
<1>4. \A c \in Converters : ~Remove(c)
  BY DEF Remove, Move, TypeOK, Procs
<1>5. QED
  BY <1>3, <1>4, ModelStays DEF Whole

(* The inductive invariant holds at the start.                              *)
LEMMA InitIInv == Init => IInv
BY InitTypeOK, ProcsAssumption, NoneAssumption
DEF Init, IInv, MetInv, Active, EmptyInv, MakerInv, RaceInv, FetchInv, Verified, LockInv,
  ModelInv, LoadInv, Exists, Whole, Over, Files, Downloads, Inputs, Procs

(* Every step keeps the inductive invariant.                                *)
LEMMA NextIInv == IInv /\ [Next]_vars => IInv'
BY NextTypeOK, MetInvStep, EmptyInvStep, MakerInvStep, RaceInvStep, FetchInvStep,
  LockInvStep, ModelInvStep, LoadInvStep DEF IInv

(* Every reachable state satisfies the inductive invariant.                 *)
THEOREM Inductive == Spec => []IInv
BY InitIInv, NextIInv, PTL DEF Spec

-----------------------------------------------------------------------------
(* What the commands rely on                                                *)

(* The variables of the commands and the files keep their types.            *)
THEOREM TypesHold == Spec => []TypeOK
BY InitTypeOK, NextTypeOK, PTL DEF Spec

(* A complete lock pins artifacts that are there and have the registered    *)
(* content, wherever any command failed or died and however they overlap,   *)
(* but for what was lost between fetches that have met.                     *)
THEOREM LocksMeanInputs == Spec => []LockMeansInputs
<1>1. IInv => LockMeansInputs
  BY NoneAssumption
  DEF IInv, LockInv, LockMeansInputs, MakerInv, Inputs, Kept, Whole, Exists, Procs
<1>2. QED
  BY <1>1, Inductive, PTL

(* What a fetch or a conversion reported as verified is not taken away or   *)
(* changed by any command that it has not met, in any number of them.       *)
THEOREM VerifiedFilesStay == Spec => []VerifiedStays
<1>1. IInv => VerifiedStays
  BY NoneAssumption
  DEF IInv, FetchInv, Verified, ModelInv, VerifiedStays, Inputs, Kept, Whole, Exists,
    Procs
<1>2. QED
  BY <1>1, Inductive, PTL

(* Until a conversion withdraws its output, or opens that of one it has met,*)
(* the model that a run loads by its path has the registered bytes, which   *)
(* nothing checks again.                                                    *)
THEOREM WholeModelsAreLoaded == Spec => []LoadsWholeModel
<1>1. IInv => LoadsWholeModel
  BY DEF IInv, LoadInv, LoadsWholeModel
<1>2. QED
  BY <1>1, Inductive, PTL
=============================================================================
