--------------------------- MODULE Tools_proofs ----------------------------
(***************************************************************************)
(* Theorems about the tools. The packaging tool, for any platforms, build  *)
(* directories and hosts, any number of builds and runs, and a kill        *)
(* between any two steps:                                                  *)
(*   CommittedCorrect   what is committed is what was found, whole when a  *)
(*                      build wrote it, and unstripped only for a reason   *)
(*   ReportsCorrect     what a run says it did, it did                     *)
(*   BareBuildCorrect   a build under its bare name is found first         *)
(*   OwnBusinessCorrect a run writes its own platform's files only         *)
(* The script-vector gate and its test, for any sections, rows, floors,    *)
(* fixtures and surroundings:                                              *)
(*   GateCorrect        a gate that exits 0 has run all it could, at or    *)
(*                      above the floors, and no row of it disagreed       *)
(*   PassCorrect        when the test passes, the gate sees every defect   *)
(*                      tried, the shipped demos have none, and nothing    *)
(*                      was left out                                       *)
(* The registry check, for any prefixes, enumerators and constants:        *)
(*   RegistryCorrect    files in step pass, and where every enumerator has *)
(*                      a value of its own nothing else does               *)
(***************************************************************************)
EXTENDS PackageExtension, ScriptVectorGate, RecordRegistry, SequenceTheorems, FiniteSetTheorems, TLAPS

-----------------------------------------------------------------------------
(* The packaging tool.                                                     *)

States == {"full", "stripped", "partial"}

-----------------------------------------------------------------------------
(* Files and contents.                                                     *)

LEMMA InLib ==
  ASSUME NEW c \in Lib, NEW s \in States
  PROVE  In(c, s) \in Lib /\ In(c, s).state = s /\ In(c, s) # NoFile
<1>1. In(c, s) \in Lib /\ In(c, s).state = s
  BY DEF In, Lib, States
<1> QED BY <1>1, PackageAssumption

LEMMA FileType == NoPick \in File
<1>1. PICK p \in Platforms : TRUE
  BY PackageAssumption
<1>2. StagedAs(p) \in File
  BY DEF File
<1> QED BY <1>2 DEF NoPick

(* A file of the build directory is a product or a staged copy. *)
LEMMA StagedDir ==
  ASSUME NEW f \in File, f \notin Product
  PROVE  f.dir \in Platforms /\ f.name = "bare"
  BY DEF File, StagedAs

LEMMA ContentType ==
  ASSUME TypeOK, NEW f \in File
  PROVE  ContentOf(f) \in Content
<1>1. CASE f \in Product
  BY <1>1 DEF ContentOf, TypeOK
<1>2. CASE f \notin Product
  BY <1>2, StagedDir DEF ContentOf, TypeOK
<1> QED BY <1>1, <1>2

LEMMA SourcesType ==
  ASSUME TypeOK, NEW f \in Sources
  PROVE  f \in File /\ pid \in Platforms /\ ContentOf(f) # NoFile
<1>1. pid \in Platforms
  BY DEF Sources
<1>2. CASE args.lib = Search
  BY <1>1, <1>2 DEF Sources, find_built_lib, Candidates
<1>3. CASE args.lib # Search
  <2>1. args.lib \in Product
    BY <1>3 DEF TypeOK, Args
  <2>2. f = args.lib /\ products[f] # NoFile
    BY <1>1, <1>3 DEF Sources
  <2> QED BY <1>1, <2>1, <2>2 DEF ContentOf, File
<1> QED BY <1>2, <1>3

LEMMA PickIsLib ==
  ASSUME TypeOK, pc \notin {"idle", "locate"}
  PROVE  ContentOf(pick) \in Lib /\ pid \in Platforms
  BY ContentType DEF TypeOK, Content

-----------------------------------------------------------------------------
(* What is still to be staged is committed, only a run that may write and  *)
(* was told to stage gets there, and what is stripped is what was found.   *)
StagingInv ==
  /\ pc \notin {"stage", "staging"} => todo = {}
  /\ pc = "staging" => todo # {}
  /\ \A p \in todo : tree[p] # NoFile
  /\ todo # {} => args.assemble
  /\ pc \in {"copy", "strip", "staging"} => ~args.dry
  /\ pc = "strip" => tree[pid] = ContentOf(pick)

LEMMA CurrentType ==
  ASSUME TypeOK, StagingInv, todo # {}
  PROVE  Current \in todo /\ Current \in Platforms /\ tree[Current] \in Lib
<1>1. Current \in todo
  BY DEF Current
<1> QED BY <1>1 DEF TypeOK, StagingInv, Content

LEMMA TypeStep == TypeOK /\ StagingInv /\ [Next]_vars => TypeOK'
<1> SUFFICES ASSUME TypeOK, StagingInv, [Next]_vars PROVE TypeOK'
  OBVIOUS
<1>1. ASSUME NEW p \in Platforms, NEW d \in Dirs, NEW n \in Names, Build(p, d, n) PROVE TypeOK'
  <2>1. built + 1 \in 1..MaxBuilds /\ built + 1 \in 0..MaxBuilds
    BY <1>1, PackageAssumption DEF Build, TypeOK
  <2>2. [for |-> p, version |-> built + 1, state |-> "full"] \in Lib
    BY <2>1 DEF Lib
  <2>3. products' \in [Product -> Content]
    BY <1>1, <2>2 DEF Build, TypeOK, Content
  <2> QED BY <1>1, <2>1, <2>3 DEF Build, runVars, TypeOK
<1>2. CASE Clean
  <2>1. products' \in [Product -> Content]
    BY <1>2 DEF Clean, Content
  <2> QED BY <1>2, <2>1 DEF Clean, runVars, TypeOK
<1>3. ASSUME NEW a \in Calls, NEW h \in Hosts \cup {NoHost}, NEW p, Start(a, h, p) PROVE TypeOK'
  <2>1. a \in Args
    BY PackageAssumption
  <2> QED BY <1>3, <2>1 DEF Start, TypeOK, Places
<1>4. ASSUME Exit, UNCHANGED <<built, products, staged, tree>>, excused' \subseteq Platforms PROVE TypeOK'
  <2>1. NoArgs \in Args
    BY DEF NoArgs, Args
  <2>2. before' \in [Platforms -> Content]
    BY <1>4 DEF Exit, Content
  <2> QED BY <1>4, <2>1, <2>2, FileType DEF Exit, TypeOK, Places, Statuses
<1>5. CASE Locate
  <2>1. pick' \in File /\ pid \in Platforms /\ ContentOf(pick') # NoFile
    BY <1>5, SourcesType DEF Locate
  <2> QED BY <1>5, <2>1 DEF Locate, TypeOK, Places, ContentOf
<1>6. CASE Unchanged
  BY <1>6 DEF Unchanged, runVars, TypeOK, Places, Statuses, ContentOf
<1>7. CASE WouldCopy
  BY <1>7 DEF WouldCopy, runVars, TypeOK, Places, Statuses, ContentOf
<1>8. CASE BeginCopy
  <2>1. In(ContentOf(pick), "partial") \in Content
    BY <1>8, PickIsLib, InLib DEF BeginCopy, Content, States
  <2>2. tree' \in [Platforms -> Content]
    BY <1>8, <2>1 DEF BeginCopy, TypeOK
  <2> QED BY <1>8, <2>2 DEF BeginCopy, runVars, TypeOK, Places, Statuses, ContentOf
<1>9. CASE EndCopy
  <2>1. tree' \in [Platforms -> Content]
    BY <1>9, PickIsLib DEF EndCopy, TypeOK, Content
  <2> QED BY <1>9, <2>1 DEF EndCopy, runVars, TypeOK, Places, ContentOf
<1>10. CASE Strip
  <2>1. pid \in Platforms
    BY <1>10, PickIsLib DEF Strip
  <2>2. tree' \in [Platforms -> Content]
    <3>1. CASE tree[pid].state # "partial" /\ tree' = [tree EXCEPT ![pid] = In(@, "stripped")]
      <4>1. tree[pid] \in Lib
        BY <1>10, PickIsLib DEF Strip, StagingInv
      <4>2. In(tree[pid], "stripped") \in Content
        BY <4>1, InLib DEF Content, States
      <4> QED BY <3>1, <4>2 DEF TypeOK
    <3>2. CASE UNCHANGED tree
      BY <3>2 DEF TypeOK
    <3> QED BY <1>10, <3>1, <3>2 DEF Strip
  <2>3. excused' \subseteq Platforms
    BY <1>10, <2>1 DEF Strip, TypeOK
  <2> QED BY <1>10, <2>2, <2>3 DEF Strip, runVars, TypeOK, Places, ContentOf
<1>11. CASE PlanStaging
  BY <1>11 DEF PlanStaging, runVars, TypeOK, Places, ContentOf
<1>12. CASE WouldStage
  BY <1>12 DEF WouldStage, runVars, TypeOK, ContentOf
<1>13. ASSUME NEW c \in Lib, staged' = [staged EXCEPT ![Current] = c], todo # {},
              pc \notin {"idle", "locate"}, pc' \in Places, todo' \subseteq Platforms,
              UNCHANGED <<built, products, tree, runVars, pick, status, before, excused>>
       PROVE  TypeOK'
  <2>1. Current \in Platforms
    BY <1>13, CurrentType
  <2>2. staged' \in [Platforms -> Content]
    BY <1>13, <2>1 DEF TypeOK, Content
  <2>3. ContentOf(pick)' # NoFile
    <3>1. pick' = pick /\ products' = products /\ ContentOf(pick) # NoFile /\ c # NoFile
      BY <1>13, PackageAssumption DEF TypeOK
    <3>2. CASE pick \in Product
      BY <3>1, <3>2 DEF ContentOf
    <3>3. CASE pick \notin Product
      <4>1. pick.dir \in Platforms
        BY <3>3, StagedDir DEF TypeOK
      <4> QED BY <1>13, <3>1, <3>3, <4>1 DEF ContentOf, TypeOK
    <3> QED BY <3>2, <3>3
  <2> QED BY <1>13, <2>2, <2>3 DEF runVars, TypeOK
<1>14. CASE BeginStage
  <2>1. In(tree[Current], "partial") \in Lib
    BY <1>14, CurrentType, InLib DEF BeginStage, States
  <2> QED BY <1>13, <1>14, <2>1 DEF BeginStage, Places, TypeOK
<1>15. CASE EndStage
  <2>1. todo # {} /\ tree[Current] \in Lib
    BY <1>15, CurrentType DEF EndStage, StagingInv
  <2> QED BY <1>13, <1>15, <2>1 DEF EndStage, Places, TypeOK
<1>16. CASE Refuse \/ Finish
  BY <1>4, <1>16 DEF Refuse, Finish, TypeOK
<1>17. CASE Die
  <2>1. excused' \subseteq Platforms
    BY <1>17, PickIsLib DEF Die, TypeOK
  <2> QED BY <1>4, <1>17, <2>1 DEF Die
<1>18. CASE UNCHANGED vars
  BY <1>18 DEF vars, runVars, TypeOK, ContentOf
<1>19. CASE StartExplicit \/ StartAuto
  BY <1>3, <1>19 DEF StartExplicit, StartAuto
<1> QED
  BY <1>1, <1>2, <1>5, <1>6, <1>7, <1>8, <1>9, <1>10, <1>11, <1>12, <1>14, <1>15, <1>16, <1>17,
     <1>18, <1>19 DEF Next, Run

-----------------------------------------------------------------------------
(* What a step leaves alone. The file found does not change while it is     *)
(* compared and copied: only staging, which comes after, writes to the      *)
(* build directory.                                                         *)
LEMMA ContentKept ==
  ASSUME UNCHANGED <<products, staged, pick>>
  PROVE  ContentOf(pick)' = ContentOf(pick)
  BY DEF ContentOf

LEMMA InitTypes == Init => TypeOK /\ StagingInv
<1> SUFFICES ASSUME Init PROVE TypeOK /\ StagingInv
  OBVIOUS
<1>1. /\ products \in [Product -> Content] /\ staged \in [Platforms -> Content]
      /\ tree \in [Platforms -> Content] /\ before \in [Platforms -> Content]
  BY DEF Init, Content
<1>2. built \in 0..MaxBuilds
  BY PackageAssumption DEF Init
<1>3. args \in Args
  BY DEF Init, NoArgs, Args
<1> QED BY <1>1, <1>2, <1>3, FileType DEF Init, TypeOK, StagingInv, Places, Statuses

LEMMA StagingStep == TypeOK /\ StagingInv /\ [Next]_vars => StagingInv'
<1> SUFFICES ASSUME TypeOK, StagingInv, [Next]_vars PROVE StagingInv'
  OBVIOUS
<1>1. CASE (\E p \in Platforms, d \in Dirs, n \in Names : Build(p, d, n)) \/ Clean
  BY <1>1 DEF Build, Clean, runVars, StagingInv
<1>2. CASE StartExplicit \/ StartAuto
  BY <1>2 DEF StartExplicit, StartAuto, Start, StagingInv
<1>3. CASE Refuse \/ Finish \/ Die
  BY <1>3 DEF Refuse, Finish, Die, Exit, StagingInv
<1>4. CASE Locate \/ Unchanged \/ WouldCopy
  BY <1>4 DEF Locate, Unchanged, WouldCopy, runVars, StagingInv
<1>5. CASE BeginCopy
  BY <1>5 DEF BeginCopy, runVars, StagingInv
<1>6. CASE EndCopy
  <2>1. tree'[pid] = ContentOf(pick) /\ ContentOf(pick)' = ContentOf(pick) /\ pid' = pid
    BY <1>6, PickIsLib, ContentKept DEF EndCopy, TypeOK, runVars
  <2> QED BY <1>6, <2>1 DEF EndCopy, runVars, StagingInv
<1>7. CASE Strip
  BY <1>7 DEF Strip, runVars, StagingInv
<1>8. CASE PlanStaging
  BY <1>8 DEF PlanStaging, runVars, StagingInv
<1>9. CASE WouldStage
  BY <1>9 DEF WouldStage, runVars, StagingInv
<1>10. CASE BeginStage
  BY <1>10 DEF BeginStage, runVars, StagingInv
<1>11. CASE EndStage
  BY <1>11 DEF EndStage, runVars, StagingInv
<1>12. CASE UNCHANGED vars
  BY <1>12 DEF vars, runVars, StagingInv, ContentOf
<1> QED
  BY <1>1, <1>2, <1>3, <1>4, <1>5, <1>6, <1>7, <1>8, <1>9, <1>10, <1>11, <1>12 DEF Next, Run

-----------------------------------------------------------------------------
(* The copy. From its end to the end of the strip the tree's file is what   *)
(* was found; a full one is left in the tree only with an excuse, or to be  *)
(* stripped next.                                                           *)
CopyInv ==
  /\ Refreshed
  /\ \A p \in Platforms : tree[p] # NoFile /\ tree[p].state = "full" => p \in excused \/ (pc = "strip" /\ p = pid)

LEMMA CopyStep == TypeOK /\ StagingInv /\ CopyInv /\ [Next]_vars => CopyInv'
<1> SUFFICES ASSUME TypeOK, StagingInv, CopyInv, [Next]_vars PROVE CopyInv'
  OBVIOUS
<1>1. ASSUME UNCHANGED <<tree, excused>>, pc' # "plan", pc # "strip" PROVE CopyInv'
  BY <1>1 DEF CopyInv, Refreshed
<1>2. CASE (\E p \in Platforms, d \in Dirs, n \in Names : Build(p, d, n)) \/ Clean \/ StartExplicit \/ StartAuto
  BY <1>1, <1>2 DEF Build, Clean, StartExplicit, StartAuto, Start
<1>3. CASE Refuse \/ Finish \/ Locate
  BY <1>1, <1>3 DEF Refuse, Finish, Done, Exit, Locate
<1>4. CASE Unchanged \/ WouldCopy
  <2>1. /\ UNCHANGED <<tree, excused, pid, args>> /\ pc = "compare" /\ pc' = "plan"
        /\ ContentOf(pick)' = ContentOf(pick)
    BY <1>4, ContentKept DEF Unchanged, WouldCopy, runVars
  <2>2. args.dry \/ tree[pid] = ContentOf(pick)
    BY <1>4 DEF Unchanged, WouldCopy
  <2> QED BY <2>1, <2>2 DEF CopyInv, Refreshed
<1>5. CASE BeginCopy
  <2>1. In(ContentOf(pick), "partial").state = "partial" /\ pid \in Platforms
    BY <1>5, PickIsLib, InLib DEF BeginCopy, States
  <2> QED BY <1>5, <2>1 DEF BeginCopy, runVars, CopyInv, Refreshed, TypeOK
<1>6. CASE EndCopy
  BY <1>6 DEF EndCopy, runVars, CopyInv, Refreshed, TypeOK
<1>7. CASE Strip
  <2>1. /\ tree[pid] = ContentOf(pick) /\ tree[pid] \in Lib /\ pid \in Platforms
        /\ ContentOf(pick)' = ContentOf(pick) /\ UNCHANGED <<pid, args>> /\ pc = "strip" /\ pc' = "plan"
    BY <1>7, PickIsLib, ContentKept DEF Strip, StagingInv, runVars
  <2>2. CASE tree' = [tree EXCEPT ![pid] = In(@, "stripped")] /\ excused' = excused \ {pid}
    <3>1. tree'[pid] = In(tree[pid], "stripped") /\ tree'[pid].state = "stripped"
      BY <2>1, <2>2, InLib DEF TypeOK, States
    <3> QED BY <2>1, <2>2, <3>1 DEF CopyInv, Refreshed, TypeOK
  <2>3. CASE excused' = excused \cup {pid} /\ UNCHANGED tree
    BY <2>1, <2>3 DEF CopyInv, Refreshed
  <2> QED BY <1>7, <2>2, <2>3 DEF Strip
<1>8. CASE PlanStaging \/ WouldStage \/ BeginStage \/ EndStage
  BY <1>1, <1>8 DEF PlanStaging, WouldStage, BeginStage, EndStage
<1>9. CASE Die
  BY <1>9 DEF Die, Exit, CopyInv, Refreshed
<1>10. CASE UNCHANGED vars
  BY <1>10 DEF vars, runVars, CopyInv, Refreshed, ContentOf
<1> QED
  BY <1>2, <1>3, <1>4, <1>5, <1>6, <1>7, <1>8, <1>9, <1>10 DEF Next, Run

-----------------------------------------------------------------------------
(* What a build wrote is whole: only staged copies are ever cut short in   *)
(* the build directory.                                                    *)
BuildsWhole == \A f \in Product : products[f] # NoFile => products[f].state = "full"

LEMMA BuildsStep == BuildsWhole /\ [Next]_vars => BuildsWhole'
<1> SUFFICES ASSUME BuildsWhole, [Next]_vars PROVE BuildsWhole'
  OBVIOUS
<1>1. CASE products' = products
  BY <1>1 DEF BuildsWhole
<1>2. ASSUME NEW p \in Platforms, NEW d \in Dirs, NEW n \in Names, Build(p, d, n) PROVE BuildsWhole'
  BY <1>2 DEF Build, BuildsWhole
<1>3. CASE Clean
  BY <1>3 DEF Clean, BuildsWhole
<1>4. CASE StartExplicit \/ StartAuto
  BY <1>1, <1>4 DEF StartExplicit, StartAuto, Start
<1>5. CASE Run
  <2>1. CASE Refuse \/ Locate \/ Unchanged \/ WouldCopy \/ BeginCopy \/ EndCopy
    BY <1>1, <2>1 DEF Refuse, Locate, Unchanged, WouldCopy, BeginCopy, EndCopy
  <2>2. CASE Strip \/ PlanStaging \/ WouldStage \/ BeginStage \/ EndStage \/ Finish \/ Die
    BY <1>1, <2>2 DEF Strip, PlanStaging, WouldStage, BeginStage, EndStage, Finish, Die
  <2> QED BY <1>5, <2>1, <2>2 DEF Run
<1> QED BY <1>1, <1>2, <1>3, <1>4, <1>5 DEF Next, vars

(* So what ends up cut short in the tree was found among the staged copies. *)
LEMMA WholeFromBuild == TypeOK /\ Refreshed /\ BuildsWhole => WholeIfBuilt
<1> SUFFICES ASSUME TypeOK, Refreshed, BuildsWhole,
                    pc = "plan", ~args.dry, tree[pid].state = "partial"
             PROVE  pick \notin Product /\ staged[pick.dir].state = "partial"
  BY DEF WholeIfBuilt
<1>1. ContentOf(pick) \in Lib
  BY PickIsLib
<1>2. In(ContentOf(pick), "stripped").state = "stripped"
  BY <1>1, InLib DEF States
<1>3. ContentOf(pick).state = "partial"
  BY <1>2 DEF Refreshed
<1>4. ContentOf(pick) # NoFile
  BY DEF TypeOK
<1>5. pick \notin Product
  BY <1>3, <1>4 DEF ContentOf, BuildsWhole
<1> QED BY <1>3, <1>5 DEF ContentOf

-----------------------------------------------------------------------------
(* The report. Nothing is written before the status is set, and the status  *)
(* is set from the file that the copy then replaces.                        *)
ReportInv ==
  /\ pc \in {"idle", "locate", "compare"} => status = "none"
  /\ pc \in {"copy", "strip"} => status \in {"created", "updated"}
  /\ pc # "idle" => CASE status = "created" -> before[pid] = NoFile /\ tree[pid] # NoFile
                      [] status = "updated" -> before[pid] # NoFile /\ tree[pid] # NoFile
                      [] OTHER -> tree = before
  /\ pc \in {"stage", "staging"} /\ args.assemble /\ ~args.dry
       => \A p \in Platforms : tree[p] # NoFile /\ p \notin todo => staged[p] = tree[p]

LEMMA ReportStep == TypeOK /\ StagingInv /\ ReportInv /\ [Next]_vars => ReportInv'
<1> SUFFICES ASSUME TypeOK, StagingInv, ReportInv, [Next]_vars PROVE ReportInv'
  OBVIOUS
<1>1. CASE (\E p \in Platforms, d \in Dirs, n \in Names : Build(p, d, n)) \/ Clean
  BY <1>1 DEF Build, Clean, runVars, ReportInv
<1>2. CASE StartExplicit \/ StartAuto
  BY <1>2 DEF StartExplicit, StartAuto, Start, ReportInv
<1>3. CASE Refuse \/ Finish \/ Die
  BY <1>3 DEF Refuse, Finish, Die, Exit, ReportInv
<1>4. CASE Locate
  BY <1>4 DEF Locate, ReportInv
<1>5. CASE Unchanged \/ WouldCopy
  BY <1>5 DEF Unchanged, WouldCopy, runVars, ReportInv
<1>6. CASE BeginCopy
  <2>1. tree = before /\ pid \in Platforms
    BY <1>6, PickIsLib DEF BeginCopy, ReportInv
  <2>2. tree'[pid] # NoFile
    BY <1>6, <2>1, PickIsLib, InLib DEF BeginCopy, States, TypeOK
  <2> QED BY <1>6, <2>1, <2>2 DEF BeginCopy, runVars, ReportInv
<1>7. CASE EndCopy \/ Strip
  <2>1. /\ pc \in {"copy", "strip"} /\ pc' \in {"strip", "plan"} /\ UNCHANGED <<status, before, pid>>
        /\ pid \in Platforms
    BY <1>7, PickIsLib DEF EndCopy, Strip, runVars
  <2>2. tree'[pid] # NoFile
    <3>1. CASE EndCopy
      BY <2>1, <3>1 DEF EndCopy, TypeOK
    <3>2. CASE Strip
      <4>1. tree[pid] \in Lib /\ tree[pid] # NoFile
        BY <3>2, PickIsLib, PackageAssumption DEF Strip, StagingInv
      <4> QED BY <2>1, <3>2, <4>1, InLib DEF Strip, States, TypeOK
    <3> QED BY <1>7, <3>1, <3>2
  <2> QED BY <2>1, <2>2 DEF ReportInv
<1>8. CASE PlanStaging
  BY <1>8 DEF PlanStaging, runVars, ReportInv
<1>9. CASE WouldStage
  BY <1>9 DEF WouldStage, runVars, ReportInv
<1>10. CASE BeginStage
  <2>1. Current \in todo /\ \A p \in Platforms : p \notin todo => staged'[p] = staged[p]
    BY <1>10, CurrentType DEF BeginStage, TypeOK
  <2> QED BY <1>10, <2>1 DEF BeginStage, runVars, ReportInv
<1>11. CASE EndStage
  <2>1. todo # {} /\ Current \in todo
    BY <1>11, CurrentType DEF EndStage, StagingInv
  <2>2. \A p \in Platforms : staged'[p] = IF p = Current THEN tree[p] ELSE staged[p]
    BY <1>11 DEF EndStage, TypeOK
  <2>3. \A p \in Platforms : p \notin todo' => p = Current \/ p \notin todo
    BY <1>11 DEF EndStage
  <2> QED BY <1>11, <2>1, <2>2, <2>3 DEF EndStage, runVars, ReportInv
<1>12. CASE UNCHANGED vars
  BY <1>12 DEF vars, runVars, ReportInv
<1> QED
  BY <1>1, <1>2, <1>3, <1>4, <1>5, <1>6, <1>7, <1>8, <1>9, <1>10, <1>11, <1>12 DEF Next, Run

-----------------------------------------------------------------------------
(* The search. A candidate that nothing is preferred to is bare if any is,  *)
(* and among the bare ones no path is shorter; a staged copy has a longer   *)
(* path than any product.                                                   *)
LEMMA BestIsBare ==
  ASSUME TypeOK, NEW p \in Platforms, NEW f \in find_built_lib(Suffix[p])
  PROVE  LET bare == {g \in Product : g.name = "bare" /\ g.suffix = Suffix[p] /\ products[g] # NoFile}
         IN  bare # {} => f \in bare /\ \A g \in bare : PathLen[f.dir] <= PathLen[g.dir]
<1> DEFINE bare == {g \in Product : g.name = "bare" /\ g.suffix = Suffix[p] /\ products[g] # NoFile}
<1> SUFFICES ASSUME bare # {} PROVE f \in bare /\ \A g \in bare : PathLen[f.dir] <= PathLen[g.dir]
  OBVIOUS
<1>1. /\ f \in File /\ f.suffix = Suffix[p] /\ ContentOf(f) # NoFile
      /\ \A g \in Candidates(Suffix[p]) : ~Preferred(g, f)
  BY DEF find_built_lib, Candidates
<1>2. ASSUME NEW g \in bare
      PROVE  g \in Product /\ g.name = "bare" /\ g.dir \in Dirs /\ ~Preferred(g, f)
  <2>1. g \in Product /\ g \in File /\ g.suffix = Suffix[p] /\ ContentOf(g) # NoFile
    BY DEF File, ContentOf
  <2>2. g \in Candidates(Suffix[p])
    BY <2>1 DEF Candidates
  <2> QED BY <1>1, <2>1, <2>2 DEF Product
<1>3. PICK g \in bare : TRUE
  OBVIOUS
<1>4. f.name = "bare"
  <2>1. f.name \in {"bare", "lib"}
    BY <1>1 DEF File, Product, Names, StagedAs
  <2> QED BY <1>2, <1>3, <2>1 DEF Preferred
<1>5. \A x \in bare : ~(PathLen[x.dir] < PathLen[f.dir])
  BY <1>2, <1>4 DEF Preferred
<1>6. f \in Product
  <2> SUFFICES ASSUME f \notin Product PROVE FALSE
    OBVIOUS
  <2>1. f.dir \in Platforms
    BY <1>1, StagedDir
  <2> QED BY <1>2, <1>3, <1>5, <2>1, PackageAssumption
<1>7. f \in bare
  BY <1>1, <1>4, <1>6 DEF ContentOf
<1>8. \A x \in bare : PathLen[x.dir] \in Nat
  BY <1>2, PackageAssumption
<1> QED BY <1>5, <1>7, <1>8

LEMMA BareStep == TypeOK /\ BareBuildWins /\ [Next]_vars => BareBuildWins'
<1> SUFFICES ASSUME TypeOK, BareBuildWins, [Next]_vars PROVE BareBuildWins'
  OBVIOUS
<1>1. ASSUME pc' # "compare" PROVE BareBuildWins'
  BY <1>1 DEF BareBuildWins
<1>2. CASE Locate
  <2> SUFFICES ASSUME args.lib = Search PROVE BareBuildWins'
    BY <1>2 DEF Locate, BareBuildWins
  <2>1. pid \in Platforms /\ pick' \in find_built_lib(Suffix[pid]) /\ UNCHANGED <<products, pid>>
    BY <1>2 DEF Locate, Sources
  <2> QED BY <2>1, BestIsBare DEF BareBuildWins
<1>3. CASE (\E p \in Platforms, d \in Dirs, n \in Names : Build(p, d, n)) \/ Clean \/ StartExplicit \/ StartAuto
  BY <1>1, <1>3 DEF Build, Clean, StartExplicit, StartAuto, Start
<1>4. CASE Refuse \/ Unchanged \/ WouldCopy \/ BeginCopy \/ EndCopy \/ Strip \/ PlanStaging \/ WouldStage
           \/ BeginStage \/ EndStage \/ Finish \/ Die
  BY <1>1, <1>4 DEF Refuse, Unchanged, WouldCopy, BeginCopy, EndCopy, Strip, PlanStaging, WouldStage,
     BeginStage, EndStage, Finish, Die, Exit
<1>5. CASE UNCHANGED vars
  BY <1>5 DEF vars, runVars, BareBuildWins
<1> QED BY <1>2, <1>3, <1>4, <1>5 DEF Next, Run

-----------------------------------------------------------------------------
(* The host. It is remembered only until the search, and the platform-id    *)
(* is the one detected for it.                                              *)
HostInv == host # NoHost => pc = "locate" /\ host \in Hosts /\ pid = detect_platform_id(host)

LEMMA HostStep == HostInv /\ [Next]_vars => HostInv'
<1> SUFFICES ASSUME HostInv, [Next]_vars PROVE HostInv'
  OBVIOUS
<1>1. CASE (\E p \in Platforms, d \in Dirs, n \in Names : Build(p, d, n)) \/ Clean
  BY <1>1 DEF Build, Clean, runVars, HostInv
<1>2. CASE StartExplicit \/ StartAuto
  BY <1>2 DEF StartExplicit, StartAuto, Start, HostInv
<1>3. CASE Refuse \/ Finish \/ Die \/ Locate
  BY <1>3 DEF Refuse, Finish, Die, Exit, Locate, HostInv
<1>4. CASE Unchanged \/ WouldCopy \/ BeginCopy \/ EndCopy \/ Strip \/ PlanStaging \/ WouldStage
           \/ BeginStage \/ EndStage
  BY <1>4 DEF Unchanged, WouldCopy, BeginCopy, EndCopy, Strip, PlanStaging, WouldStage,
     BeginStage, EndStage, Done, runVars, HostInv
<1>5. CASE UNCHANGED vars
  BY <1>5 DEF vars, runVars, HostInv
<1> QED BY <1>1, <1>2, <1>3, <1>4, <1>5 DEF Next, Run

(* The machines there are, by what Python's platform module says of them,   *)
(* each with the platform-id whose library runs there. On a Mac there is    *)
(* one library for every machine; a 32-bit process of an ARM machine is of  *)
(* no platform the tree has.                                                *)
Machine64(system, id) == [system : {system}, machine : {"x86_64", "amd64", "x64"}, wide : BOOLEAN, platform : {id}]
Machine32(system, id) == [system : {system}, machine : {"i386", "i686", "x86"}, wide : BOOLEAN, platform : {id}]
MachineArm(system, id) == [system : {system}, machine : {"aarch64", "arm64"}, wide : {TRUE}, platform : {id}]

KnownMachine(h) ==
  \/ h \in [system : {"Darwin"}, machine : STRING, wide : BOOLEAN, platform : {"universal-mac"}]
  \/ h \in Machine64("Linux", "x86_64-linux") \/ h \in Machine64("Windows", "x86_64-win32")
  \/ h \in Machine32("Linux", "x86-linux")    \/ h \in Machine32("Windows", "x86-win32")
  \/ h \in MachineArm("Linux", "arm64-linux") \/ h \in MachineArm("Windows", "arm64-win32")

(* The tool detects the platform-id of every machine there is.              *)
LEMMA Detects ==
  ASSUME NEW h, KnownMachine(h)
  PROVE  detect_platform_id(h) = h.platform
<1>1. CASE h \in [system : {"Darwin"}, machine : STRING, wide : BOOLEAN, platform : {"universal-mac"}]
  BY <1>1 DEF detect_platform_id
<1>2. ASSUME NEW s \in {"Linux", "Windows"}, NEW id, h \in Machine64(s, id)
      PROVE  h.system = s /\ h.platform = id /\ Arch(h) = "x86_64"
  BY <1>2 DEF Machine64, Arch
<1>3. ASSUME NEW s \in {"Linux", "Windows"}, NEW id, h \in Machine32(s, id)
      PROVE  h.system = s /\ h.platform = id /\ Arch(h) = "x86"
  BY <1>3 DEF Machine32, Arch
<1>4. ASSUME NEW s \in {"Linux", "Windows"}, NEW id, h \in MachineArm(s, id)
      PROVE  h.system = s /\ h.platform = id /\ Arch(h) = "arm64"
  BY <1>4 DEF MachineArm, Arch
<1>5. /\ LinuxId["x86_64"] = "x86_64-linux" /\ LinuxId["x86"] = "x86-linux" /\ LinuxId["arm64"] = "arm64-linux"
      /\ WindowsId["x86_64"] = "x86_64-win32" /\ WindowsId["x86"] = "x86-win32" /\ WindowsId["arm64"] = "arm64-win32"
  BY DEF LinuxId, WindowsId
<1>6. ASSUME h.system = "Linux" PROVE detect_platform_id(h) = LinuxId[Arch(h)]
  BY <1>6 DEF detect_platform_id
<1>7. ASSUME h.system = "Windows" PROVE detect_platform_id(h) = WindowsId[Arch(h)]
  BY <1>7 DEF detect_platform_id
<1> QED BY <1>1, <1>2, <1>3, <1>4, <1>5, <1>6, <1>7 DEF KnownMachine

-----------------------------------------------------------------------------
PackageInv == TypeOK /\ StagingInv /\ CopyInv /\ BuildsWhole /\ ReportInv /\ BareBuildWins /\ HostInv

LEMMA PackageAlways == Spec => []PackageInv
<1>1. Init => PackageInv
  <2> SUFFICES ASSUME Init PROVE PackageInv
    OBVIOUS
  <2>1. CopyInv /\ BuildsWhole /\ ReportInv /\ BareBuildWins /\ HostInv
    BY DEF Init, CopyInv, BuildsWhole, Refreshed, ReportInv, BareBuildWins, HostInv
  <2> QED BY <2>1, InitTypes DEF PackageInv
<1>2. PackageInv /\ [Next]_vars => PackageInv'
  BY TypeStep, StagingStep, CopyStep, BuildsStep, ReportStep, BareStep, HostStep DEF PackageInv
<1> QED BY <1>1, <1>2, PTL DEF Spec

(* However earlier runs ended, what a run has copied is the file that it    *)
(* found, as it was or stripped; it is whole when a build wrote that file,  *)
(* and cut short only when it was a staged copy cut short; and between runs *)
(* an unstripped library is committed only when its strip failed or was     *)
(* never reached.                                                           *)
THEOREM CommittedCorrect == Spec => []Committed
<1>1. PackageInv => Committed
  BY WholeFromBuild DEF PackageInv, CopyInv, Committed, UnstrippedIsExcused
<1> QED BY <1>1, PackageAlways, PTL

(* When a run ends it has done what it reports, and with --assemble every   *)
(* committed library is staged as it is in the tree.                        *)
THEOREM ReportsCorrect == Spec => []Reports
<1>1. PackageInv => Reports
  BY DEF PackageInv, ReportInv, Reports, ReportTrue, StagedIsCommitted, Done
<1> QED BY <1>1, PackageAlways, PTL

(* A library that a build wrote under its bare name is found before any     *)
(* other, and of several the one with the shortest path.                    *)
THEOREM BareBuildCorrect == Spec => []BareBuildWins
<1>1. PackageInv => BareBuildWins
  BY DEF PackageInv
<1> QED BY <1>1, PackageAlways, PTL

(* A run writes its own platform's file and, with --assemble, the staged    *)
(* ones, nothing with --dry-run, and never what the build wrote.            *)
LEMMA WritesStep ==
  ASSUME TypeOK, StagingInv, Next, pc # "idle"
  PROVE  /\ products' = products
         /\ \A p \in Platforms : p # pid => tree'[p] = tree[p]
         /\ ~args.assemble => staged' = staged
         /\ args.dry => staged' = staged /\ tree' = tree
<1>1. CASE Refuse \/ Locate \/ Unchanged \/ WouldCopy \/ PlanStaging \/ WouldStage \/ Finish \/ Die
  BY <1>1 DEF Refuse, Locate, Unchanged, WouldCopy, PlanStaging, WouldStage, Finish, Die
<1>2. CASE BeginCopy \/ EndCopy \/ Strip
  <2>1. ~args.dry /\ UNCHANGED <<products, staged>>
    BY <1>2 DEF BeginCopy, EndCopy, Strip, StagingInv
  <2>2. \A p \in Platforms : p # pid => tree'[p] = tree[p]
    BY <1>2 DEF BeginCopy, EndCopy, Strip, TypeOK
  <2> QED BY <2>1, <2>2
<1>3. CASE BeginStage \/ EndStage
  BY <1>3 DEF BeginStage, EndStage, StagingInv
<1> QED
  BY <1>1, <1>2, <1>3 DEF Next, Run, Build, Clean, StartExplicit, StartAuto, Start

(* A run that detects its platform-id works for the platform of its host,   *)
(* and no run writes another platform's file.                               *)
THEOREM OwnBusinessCorrect ==
  ASSUME \A h \in Hosts : h.platform # "other" => KnownMachine(h)
  PROVE  Spec => OwnBusiness
<1>1. PackageInv /\ [Next]_vars
      => [pc # "idle" => /\ products' = products
                         /\ \A p \in Platforms : p # pid => tree'[p] = tree[p]
                         /\ ~args.assemble => staged' = staged
                         /\ args.dry => staged' = staged /\ tree' = tree]_vars
  BY WritesStep DEF PackageInv
<1>2. PackageInv /\ [Next]_vars
      => [host # NoHost /\ host.platform # "other"
            => pid = host.platform /\ (pc' = "compare" => host.platform \in Platforms)]_vars
  <2> SUFFICES ASSUME PackageInv, Next, host # NoHost, host.platform # "other"
               PROVE  pid = host.platform /\ (pc' = "compare" => host.platform \in Platforms)
    OBVIOUS
  <2>1. pc = "locate" /\ pid = host.platform
    BY Detects DEF PackageInv, HostInv
  <2>2. ASSUME pc' = "compare" PROVE Locate
    BY <2>1, <2>2 DEF Next, Build, Clean, StartExplicit, StartAuto, Start, Run, Refuse, Unchanged, WouldCopy,
       BeginCopy, EndCopy, Strip, PlanStaging, WouldStage, BeginStage, EndStage, Finish, Die, Done, Exit
  <2>3. Locate => pid \in Platforms
    BY DEF Locate, Sources
  <2> QED BY <2>1, <2>2, <2>3
<1> QED
  BY <1>1, <1>2, PackageAlways, PTL DEF Spec, OwnBusiness, WritesAllowed, AutoIsHost

-----------------------------------------------------------------------------
(* The script-vector gate and its test.                                    *)

-----------------------------------------------------------------------------
(* The constants.                                                          *)
LEMMA SectionType ==
  /\ Len(Sections) \in Nat /\ DOMAIN Sections = 1..Len(Sections)
  /\ \A k \in DOMAIN Sections :
       /\ Sections[k].demo \in {"ch", "qs", "both"} /\ Sections[k].tier \in {1, 2}
       /\ Rows[Sections[k].key] \subseteq AllRows
       /\ FLOORS[Sections[k].key] \in Int
<1>1. Sections \in Seq([key : DOMAIN Rows, demo : {"ch", "qs", "both"}, tier : {1, 2}])
  BY VectorGateAssumption
<1>2. Len(Sections) \in Nat /\ DOMAIN Sections = 1..Len(Sections)
  BY <1>1, LenProperties
<1>3. \A k \in DOMAIN Sections : Sections[k] \in [key : DOMAIN Rows, demo : {"ch", "qs", "both"}, tier : {1, 2}]
  BY <1>1, <1>2, ElementOfSeq
<1>4. \A k \in DOMAIN Sections : Rows[Sections[k].key] \subseteq AllRows
  BY DEF AllRows
<1>5. \A k \in DOMAIN Sections : FLOORS[Sections[k].key] \in Int
  BY VectorGateAssumption
<1> QED BY <1>2, <1>3, <1>4, <1>5

LEMMA FixtureType ==
  /\ Len(Fixtures) \in Nat /\ DOMAIN Fixtures = 1..Len(Fixtures)
  /\ \A f \in DOMAIN Fixtures :
       /\ Fixtures[f].demo \in {"ch", "qs"} /\ Fixtures[f].tier \in {1, 2}
       /\ Fixtures[f].row \in AllRows /\ Fixtures[f].breaks \subseteq AllRows
<1>1. Fixtures \in Seq([demo : {"ch", "qs"}, tier : {1, 2}, row : AllRows, breaks : SUBSET AllRows])
  BY VectorGateAssumption
<1>2. Len(Fixtures) \in Nat /\ DOMAIN Fixtures = 1..Len(Fixtures)
  BY <1>1, LenProperties
<1>3. \A f \in DOMAIN Fixtures :
        Fixtures[f] \in [demo : {"ch", "qs"}, tier : {1, 2}, row : AllRows, breaks : SUBSET AllRows]
  BY <1>1, <1>2, ElementOfSeq
<1> QED BY <1>2, <1>3

(* The last two turns are the untouched copies, one of each demo.           *)
LEMMA Turns ==
  /\ Last = Len(Fixtures) + 2 /\ Last \in Nat
  /\ \A n \in 1..Last : /\ DemoAt(n) \in {"ch", "qs"}
                        /\ n \in DOMAIN Fixtures => DemoAt(n) = Fixtures[n].demo
  /\ DemoAt(Len(Fixtures) + 1) = "ch" /\ DemoAt(Len(Fixtures) + 2) = "qs"
  /\ Len(Fixtures) + 1 \notin DOMAIN Fixtures /\ Len(Fixtures) + 2 \notin DOMAIN Fixtures
<1>1. Len(Demos) = 2 /\ Demos[1] = "ch" /\ Demos[2] = "qs"
  BY DEF Demos
<1>2. Last = Len(Fixtures) + 2 /\ Last \in Nat
  BY <1>1, FixtureType DEF Last
<1>3. Len(Fixtures) + 1 \notin DOMAIN Fixtures /\ Len(Fixtures) + 2 \notin DOMAIN Fixtures
      /\ Len(Fixtures) + 1 - Len(Fixtures) = 1 /\ Len(Fixtures) + 2 - Len(Fixtures) = 2
  BY FixtureType
<1>4. DemoAt(Len(Fixtures) + 1) = "ch" /\ DemoAt(Len(Fixtures) + 2) = "qs"
  BY <1>1, <1>3 DEF DemoAt
<1>5. ASSUME NEW n \in 1..Last
      PROVE  DemoAt(n) \in {"ch", "qs"} /\ (n \in DOMAIN Fixtures => DemoAt(n) = Fixtures[n].demo)
  <2>1. CASE n \in DOMAIN Fixtures
    BY <2>1, FixtureType DEF DemoAt
  <2>2. CASE n \notin DOMAIN Fixtures
    <3>1. n = Len(Fixtures) + 1 \/ n = Len(Fixtures) + 2
      BY <1>2, <2>2, FixtureType
    <3> QED BY <1>4, <2>2, <3>1
  <2> QED BY <2>1, <2>2
<1> QED BY <1>2, <1>3, <1>4, <1>5

LEMMA WorldType ==
  ASSUME world \in Worlds
  PROVE  /\ world.cases \subseteq AllRows /\ world.shipped \subseteq AllRows
         /\ world.library \in BOOLEAN /\ world.require \in BOOLEAN /\ world.runner \in BOOLEAN
         /\ \A n \in 1..Last : Broken(n) \subseteq AllRows
         /\ \A k \in DOMAIN Sections : Cases(Sections[k].key) \subseteq world.cases \cap AllRows
<1>1. /\ world.cases \subseteq AllRows /\ world.shipped \subseteq AllRows
      /\ world.library \in BOOLEAN /\ world.require \in BOOLEAN /\ world.runner \in BOOLEAN
  BY VectorGateAssumption
<1>2. \A n \in 1..Last : Broken(n) \subseteq AllRows
  BY <1>1, FixtureType DEF Broken
<1>3. \A k \in DOMAIN Sections : Cases(Sections[k].key) \subseteq world.cases \cap AllRows
  BY SectionType DEF Cases
<1> QED BY <1>1, <1>2, <1>3

-----------------------------------------------------------------------------
(* The running gate. It is that of the current turn, and reads that turn's  *)
(* copy unless it could not start; what it noted is what it met in the      *)
(* sections behind it; and its verdict is that of main.                     *)
Counts == [key : {Sections[k].key : k \in DOMAIN Sections}, rows : Nat]

GateSet == [demo : {"none", "ch", "qs"}, broken : SUBSET AllRows, section : 0..(Len(Sections) + 2),
            counts : SUBSET Counts, failed : SUBSET AllRows, rc : 0..2]

GateType ==
  /\ gate \in GateSet
  /\ world \in Worlds /\ at \in 1..(Last + 1)

OfTurn ==
  gate # Idle => /\ at <= Last /\ gate.demo = DemoAt(at) /\ gate.section # 0
                 /\ gate.broken = Broken(at) \/ (Ended /\ gate.broken = {} /\ gate.rc = 2)
                 /\ at \in DOMAIN Fixtures => Fixtures[at].tier = 1 \/ world.library

Behind ==
  gate.section \in 1..(Len(Sections) + 1) =>
    \A k \in InScope(gate.demo) : k < gate.section =>
      LET rows == Cases(Sections[k].key)
      IN  /\ [key |-> Sections[k].key, rows |-> Cardinality(rows)] \in gate.counts
          /\ rows \cap world.raises = {} /\ rows \cap gate.broken \subseteq gate.failed

Noted ==
  \A r \in gate.failed : \E k \in InScope(gate.demo) : r \in Cases(Sections[k].key) \cap gate.broken

Verdict ==
  Ended /\ gate.rc = 0 => /\ world.require => world.library
                          /\ \A k \in InScope(gate.demo) :
                               LET rows == Cases(Sections[k].key)
                               IN  /\ Cardinality(rows) >= FLOORS[Sections[k].key]
                                   /\ rows \cap (gate.broken \cup world.raises) = {}

GateInv == GateType /\ OfTurn /\ Behind /\ Noted /\ Verdict

LEMMA IdleType ==
  /\ Idle.demo = "none" /\ Idle.section = 0 /\ Idle.rc = 0 /\ Idle.failed = {} /\ Idle.broken = {} /\ Idle.counts = {}
  /\ Idle \in GateSet
<1>1. 0 \in 0..(Len(Sections) + 2) /\ 0 \in 0..2
  BY SectionType
<1> QED BY <1>1 DEF Idle, GateSet

LEMMA GateIdle == gate = Idle /\ world \in Worlds /\ at \in 1..(Last + 1) => GateInv
<1> SUFFICES ASSUME gate = Idle, world \in Worlds, at \in 1..(Last + 1) PROVE GateInv
  OBVIOUS
<1>1. ~Ended /\ gate.section \notin 1..(Len(Sections) + 1)
  BY IdleType, SectionType DEF Ended
<1> QED BY <1>1, IdleType DEF GateInv, GateType, OfTurn, Behind, Noted, Verdict

LEMMA GateIdlePrimed == gate' = Idle /\ world' \in Worlds /\ at' \in 1..(Last + 1) => GateInv'
<1>1. (gate = Idle /\ world \in Worlds /\ at \in 1..(Last + 1) => GateInv)'
  BY GateIdle, PTL
<1>2. Idle' = Idle /\ Last' = Last
  BY DEF Idle, Last
<1> QED BY <1>1, <1>2

(* A section of the gate's demo and tier is in scope, no other.             *)
LEMMA ScopeIs ==
  ASSUME NEW k \in DOMAIN Sections
  PROVE  k \in InScope(gate.demo) <=> Applies(Sections[k])
  BY DEF InScope, Applies

LEMMA CasesFinite ==
  ASSUME NEW k \in DOMAIN Sections
  PROVE  Cardinality(Cases(Sections[k].key)) \in Nat
<1>1. IsFiniteSet(Rows[Sections[k].key]) /\ Cases(Sections[k].key) \in SUBSET Rows[Sections[k].key]
  BY VectorGateAssumption DEF Cases
<1> QED BY <1>1, FS_Subset, FS_CardinalityType

LEMMA PassOverStep ==
  ASSUME GateInv, PassOver
  PROVE  GateInv'
<1>1. /\ gate' = [gate EXCEPT !.section = gate.section + 1] /\ UNCHANGED <<world, at>>
      /\ gate.section \in DOMAIN Sections /\ ~Applies(Sections[gate.section])
  BY DEF PassOver, Running
<1>2. /\ gate'.section = gate.section + 1 /\ gate'.section \in 2..(Len(Sections) + 1) /\ gate.section \in Int
      /\ gate'.demo = gate.demo /\ gate'.broken = gate.broken /\ gate'.counts = gate.counts
      /\ gate'.failed = gate.failed /\ gate'.rc = gate.rc
  BY <1>1, SectionType DEF GateInv, GateType, GateSet
<1>3. GateType'
  BY <1>1, <1>2, SectionType DEF GateInv, GateType, GateSet
<1>4. gate # Idle
  BY <1>1, SectionType, IdleType
<1>5. OfTurn'
  BY <1>1, <1>2, <1>4, SectionType DEF GateInv, OfTurn, Ended, DemoAt, Broken
<1>6. InScope(gate.demo)' = InScope(gate.demo) /\ InScope(gate.demo) \subseteq DOMAIN Sections
  BY <1>1, <1>2 DEF InScope
<1>7. gate.section \notin InScope(gate.demo)
  BY <1>1, ScopeIs
<1>8. Behind'
  <2> SUFFICES ASSUME NEW k \in InScope(gate.demo), k < gate.section + 1
               PROVE  LET rows == Cases(Sections[k].key)
                      IN  /\ [key |-> Sections[k].key, rows |-> Cardinality(rows)] \in gate.counts
                          /\ rows \cap world.raises = {} /\ rows \cap gate.broken \subseteq gate.failed
    BY <1>1, <1>2, <1>6 DEF Behind, Cases
  <2>1. k \in Int /\ k < gate.section /\ gate.section \in 1..(Len(Sections) + 1)
    BY <1>1, <1>2, <1>6, <1>7, SectionType
  <2> QED BY <2>1 DEF GateInv, Behind
<1>9. Noted'
  BY <1>1, <1>2, <1>6 DEF GateInv, Noted, Cases
<1>10. Verdict'
  BY <1>2, SectionType DEF Verdict, Ended
<1> QED BY <1>3, <1>5, <1>8, <1>9, <1>10 DEF GateInv

LEMMA RunSectionStep ==
  ASSUME GateInv, RunSection
  PROVE  GateInv'
<1> DEFINE s == gate.section
           c == [key |-> Sections[s].key, rows |-> Cardinality(Cases(Sections[s].key))]
<1>1. /\ gate' = [gate EXCEPT !.section = s + 1, !.counts = gate.counts \cup {c},
                              !.failed = gate.failed \cup Failing(Cases(Sections[s].key))]
      /\ UNCHANGED <<world, at>> /\ Cases(Sections[s].key) \cap world.raises = {}
      /\ s \in DOMAIN Sections /\ Applies(Sections[s])
  BY DEF RunSection, Running
<1>2. c \in Counts
  BY <1>1, CasesFinite DEF Counts
<1>3. Failing(Cases(Sections[s].key)) \subseteq AllRows
  BY <1>1, WorldType DEF GateInv, GateType, Failing
<1>4. s \in Int /\ s + 1 \in 2..(Len(Sections) + 1)
  BY <1>1, SectionType
<1> HIDE DEF c
<1>5. /\ gate'.section = s + 1 /\ gate'.demo = gate.demo /\ gate'.broken = gate.broken
      /\ gate'.counts = gate.counts \cup {c} /\ gate'.rc = gate.rc
      /\ gate'.failed = gate.failed \cup Failing(Cases(Sections[s].key))
  BY <1>1 DEF GateInv, GateType, GateSet
<1>6. GateType'
  <2>1. gate \in GateSet /\ s + 1 \in 0..(Len(Sections) + 2) /\ gate.counts \cup {c} \in SUBSET Counts
        /\ gate.failed \cup Failing(Cases(Sections[s].key)) \in SUBSET AllRows
    BY <1>2, <1>3, <1>4, SectionType DEF GateInv, GateType, GateSet
  <2> HIDE DEF s
  <2>2. gate' \in GateSet
    BY <1>1, <2>1 DEF GateSet
  <2> QED BY <1>1, <2>2 DEF GateInv, GateType, GateSet
<1>7. gate # Idle
  BY <1>1, SectionType, IdleType
<1>8. OfTurn'
  BY <1>1, <1>4, <1>5, <1>7 DEF GateInv, OfTurn, Ended, DemoAt, Broken
<1>9. InScope(gate.demo)' = InScope(gate.demo) /\ InScope(gate.demo) \subseteq DOMAIN Sections
  BY <1>1, <1>5 DEF InScope
<1>10. s \in InScope(gate.demo)
  BY <1>1, ScopeIs
<1>11. Behind'
  <2> SUFFICES ASSUME NEW k \in InScope(gate.demo), k < s + 1
               PROVE  LET rows == Cases(Sections[k].key)
                      IN  /\ [key |-> Sections[k].key, rows |-> Cardinality(rows)] \in gate'.counts
                          /\ rows \cap world.raises = {} /\ rows \cap gate.broken \subseteq gate'.failed
    BY <1>1, <1>5, <1>9 DEF Behind, Cases
  <2>1. CASE k = s
    BY <1>1, <1>5, <2>1 DEF c, Failing
  <2>2. CASE k # s
    <3>1. k < s /\ s \in 1..(Len(Sections) + 1)
      BY <1>1, <1>4, <1>9, <2>2, SectionType
    <3> QED BY <1>5, <3>1 DEF GateInv, Behind
  <2> QED BY <2>1, <2>2
<1>12. Noted'
  BY <1>1, <1>5, <1>9, <1>10 DEF GateInv, Noted, Cases, Failing
<1>13. Verdict'
  BY <1>4, <1>5, SectionType DEF Verdict, Ended
<1> QED BY <1>6, <1>8, <1>11, <1>12, <1>13 DEF GateInv

LEMMA SectionRaisesStep ==
  ASSUME GateInv, SectionRaises
  PROVE  GateInv'
<1>1. /\ gate' = [gate EXCEPT !.section = Len(Sections) + 2, !.failed = {}, !.rc = 1] /\ UNCHANGED <<world, at>>
      /\ gate.section \in DOMAIN Sections
  BY DEF SectionRaises, Running
<1>2. /\ gate'.section = Len(Sections) + 2 /\ gate'.demo = gate.demo /\ gate'.broken = gate.broken
      /\ gate'.failed = {} /\ gate'.rc = 1
  BY <1>1 DEF GateInv, GateType, GateSet
<1>3. GateType'
  <2>1. gate \in GateSet /\ Len(Sections) + 2 \in 0..(Len(Sections) + 2) /\ 1 \in 0..2
    BY SectionType DEF GateInv, GateType, GateSet
  <2>2. gate' \in GateSet
    BY <1>1, <2>1 DEF GateSet
  <2> QED BY <1>1, <2>2 DEF GateInv, GateType, GateSet
<1>4. gate # Idle
  BY <1>1, SectionType, IdleType
<1>5. OfTurn'
  BY <1>1, <1>2, <1>4, SectionType DEF GateInv, OfTurn, Ended, DemoAt, Broken
<1>6. Behind' /\ Noted' /\ Verdict'
  BY <1>2, SectionType DEF Behind, Noted, Verdict
<1> QED BY <1>3, <1>5, <1>6 DEF GateInv

(* The verdict. Every section in scope is behind, so that what was not      *)
(* counted short is at its floor, and what is broken was noted.             *)
LEMMA GateEndStep ==
  ASSUME GateInv, GateEnd
  PROVE  GateInv'
<1>1. /\ gate' = [gate EXCEPT !.section = gate.section + 1,
                    !.rc = IF gate.failed # {} \/ (~world.library /\ world.require) \/ Short # {} THEN 1 ELSE 0]
      /\ UNCHANGED <<world, at>> /\ gate.section = Len(Sections) + 1
  BY DEF GateEnd
<1>2. /\ gate'.section = Len(Sections) + 2 /\ gate'.demo = gate.demo /\ gate'.broken = gate.broken
      /\ gate'.failed = gate.failed
      /\ gate'.rc = IF gate.failed # {} \/ (~world.library /\ world.require) \/ Short # {} THEN 1 ELSE 0
  BY <1>1, SectionType DEF GateInv, GateType, GateSet
<1>3. GateType'
  <2> DEFINE rc == IF gate.failed # {} \/ (~world.library /\ world.require) \/ Short # {} THEN 1 ELSE 0
  <2>1. gate \in GateSet /\ gate.section + 1 \in 0..(Len(Sections) + 2) /\ rc \in 0..2
    BY <1>1, SectionType DEF GateInv, GateType, GateSet
  <2>2. gate' = [gate EXCEPT !.section = gate.section + 1, !.rc = rc]
    BY <1>1
  <2> HIDE DEF rc
  <2>3. gate' \in GateSet
    BY <2>1, <2>2 DEF GateSet
  <2> QED BY <1>1, <2>3 DEF GateInv, GateType, GateSet
<1>4. gate # Idle
  BY <1>1, SectionType, IdleType
<1>5. OfTurn'
  BY <1>1, <1>2, <1>4, SectionType DEF GateInv, OfTurn, Ended, DemoAt, Broken
<1>6. InScope(gate.demo)' = InScope(gate.demo) /\ InScope(gate.demo) \subseteq DOMAIN Sections
  BY <1>1, <1>2 DEF InScope
<1>7. Behind' /\ Noted'
  <2>1. Behind'
    BY <1>2, SectionType DEF Behind
  <2>2. Noted'
    BY <1>1, <1>2, <1>6 DEF GateInv, Noted, Cases
  <2> QED BY <2>1, <2>2
<1>8. Verdict'
  <2> SUFFICES ASSUME gate'.rc = 0 PROVE Verdict'
    BY DEF Verdict
  <2>1. gate.failed = {} /\ Short = {} /\ (world.require => world.library)
    BY <1>2, WorldType DEF GateInv, GateType, GateSet
  <2>2. ASSUME NEW k \in InScope(gate.demo)
        PROVE  LET rows == Cases(Sections[k].key)
               IN  /\ Cardinality(rows) >= FLOORS[Sections[k].key]
                   /\ rows \cap (gate.broken \cup world.raises) = {}
    <3> DEFINE rows == Cases(Sections[k].key)
               c == [key |-> Sections[k].key, rows |-> Cardinality(rows)]
    <3>1. k \in 1..Len(Sections) /\ k < gate.section /\ gate.section \in 1..(Len(Sections) + 1)
      BY <1>1, <1>6, SectionType
    <3>2. c \in gate.counts /\ rows \cap world.raises = {} /\ rows \cap gate.broken \subseteq gate.failed
      BY <3>1 DEF GateInv, Behind
    <3>3. ~(Cardinality(rows) < FLOORS[Sections[k].key])
      BY <2>1, <3>2 DEF Short
    <3>4. Cardinality(rows) >= FLOORS[Sections[k].key]
      BY <3>1, <3>3, SectionType, CasesFinite
    <3> QED BY <2>1, <3>2, <3>4
  <2> QED BY <1>1, <1>2, <1>6, <2>1, <2>2 DEF Verdict, Cases
<1> QED BY <1>3, <1>5, <1>7, <1>8 DEF GateInv

LEMMA RunGateStep ==
  ASSUME GateInv, RunGate
  PROVE  GateInv'
<1>1. /\ at \in 1..Last /\ UNCHANGED <<world, at>> /\ GateStart
      /\ at \in DOMAIN Fixtures => Fixtures[at].tier = 1 \/ world.library
  BY Turns, FixtureType, WorldType DEF RunGate, NoLibrary, GateInv, GateType
<1>2. DemoAt(at) \in {"ch", "qs"} /\ Broken(at) \subseteq AllRows
  BY <1>1, Turns, WorldType DEF GateInv, GateType, GateSet
<1>3. CASE world.runner
  <2>1. gate' = [demo |-> DemoAt(at), broken |-> Broken(at), section |-> 1, counts |-> {}, failed |-> {}, rc |-> 0]
    BY <1>1, <1>3 DEF GateStart, Idle
  <2>2. GateType'
    BY <1>1, <1>2, <2>1, SectionType DEF GateInv, GateType, GateSet
  <2>3. OfTurn'
    BY <1>1, <2>1, Turns DEF OfTurn, Ended, DemoAt, Broken
  <2>4. Behind' /\ Noted' /\ Verdict'
    BY <2>1, SectionType DEF Behind, Noted, Verdict, Ended, InScope
  <2> QED BY <2>2, <2>3, <2>4 DEF GateInv
<1>4. CASE ~world.runner
  <2>1. gate' = [demo |-> DemoAt(at), broken |-> {}, section |-> Len(Sections) + 2,
                 counts |-> {}, failed |-> {}, rc |-> 2]
    <3>1. gate' = [Idle EXCEPT !.demo = DemoAt(at), !.section = Len(Sections) + 2, !.rc = 2]
      BY <1>1, <1>4 DEF GateStart
    <3>2. Idle = [demo |-> "none", broken |-> {}, section |-> 0, counts |-> {}, failed |-> {}, rc |-> 0]
      BY DEF Idle
    <3> QED BY <3>1, <3>2
  <2>2. GateType'
    BY <1>1, <1>2, <2>1, SectionType DEF GateInv, GateType, GateSet
  <2>3. OfTurn'
    BY <1>1, <2>1, Turns, SectionType DEF OfTurn, Ended, DemoAt, Broken
  <2>4. Behind' /\ Noted' /\ Verdict'
    BY <2>1, SectionType DEF Behind, Noted, Verdict, Ended, InScope
  <2> QED BY <2>2, <2>3, <2>4 DEF GateInv
<1> QED BY <1>3, <1>4

-----------------------------------------------------------------------------
(* The test. As long as nothing failed, each turn behind was judged well.   *)
SeesDefect(n) ==
  \E k \in InScope(Fixtures[n].demo) : Contains[Fixtures[n].row] \cap Cases(Sections[k].key) \cap Broken(n) # {}

ShipsClean(n) ==
  /\ world.require => world.library
  /\ \A k \in InScope(DemoAt(n)) : Cases(Sections[k].key) \cap world.shipped = {}

JudgedWell(n) ==
  IF n \in DOMAIN Fixtures THEN Fixtures[n].tier = 1 \/ world.library => SeesDefect(n) ELSE ShipsClean(n)

Accounted ==
  caught + skipped = IF at \in 1..(Len(Fixtures) + 1) THEN at - 1 ELSE Len(Fixtures)

Judged ==
  /\ caught \in Nat /\ skipped \in Nat /\ failed \in Nat /\ caught + skipped + failed < at
  /\ skipped # 0 => ~world.library /\ ~world.require
  /\ failed = 0 => Accounted /\ \A n \in 1..(at - 1) : JudgedWell(n)

TestInv == GateInv /\ Judged

LEMMA Below ==
  ASSUME NEW c \in Nat, NEW s \in Nat, NEW f \in Nat, NEW d \in Nat, NEW t \in Nat, NEW g \in Nat, NEW n \in Nat,
         c + s + f < n, d + t + g <= c + s + f + 1
  PROVE  d + t + g < n + 1
OBVIOUS

LEMMA SumOfNat == \A a, b \in Nat : a + b \in Nat
OBVIOUS

LEMMA Adding ==
  ASSUME NEW x \in Nat, NEW y \in Nat, NEW n \in Nat \ {0}, NEW F \in Nat,
         x = IF n \in 1..(F + 1) THEN n - 1 ELSE F,
         y = x + (IF n \in 1..F THEN 1 ELSE 0)
  PROVE  y = IF n + 1 \in 1..(F + 1) THEN n ELSE F
<1>1. CASE n \in 1..F
  BY <1>1
<1>2. CASE n \notin 1..F
  BY <1>2
<1> QED BY <1>1, <1>2

(* A turn ends in one verdict, which is a failure or is deserved.           *)
LEMMA TurnEnds ==
  ASSUME TestInv, at \in 1..Last, at' = at + 1, world' = world,
         caught' \in Nat, skipped' \in Nat, failed' \in Nat,
         caught' + skipped' + failed' <= caught + skipped + failed + 1,
         skipped' # 0 => ~world.library /\ ~world.require,
         failed' = 0 => /\ failed = 0 /\ JudgedWell(at)
                        /\ caught' + skipped' = caught + skipped + (IF at \in DOMAIN Fixtures THEN 1 ELSE 0)
  PROVE  Judged'
<1> at \in Nat \ {0} /\ caught \in Nat /\ skipped \in Nat /\ failed \in Nat
  BY Turns DEF TestInv, Judged
<1>1. caught' + skipped' + failed' < at'
  <2>1. caught + skipped + failed < at
    BY DEF TestInv, Judged
  <2>2. caught' + skipped' + failed' < at + 1
    BY <2>1, Below
  <2> QED BY <2>2
<1>2. ASSUME failed' = 0 PROVE Accounted'
  <2>1. failed = 0 /\ caught' + skipped' = caught + skipped + (IF at \in DOMAIN Fixtures THEN 1 ELSE 0)
    BY <1>2
  <2>2. caught + skipped = IF at \in 1..(Len(Fixtures) + 1) THEN at - 1 ELSE Len(Fixtures)
    BY <2>1 DEF TestInv, Judged, Accounted
  <2>3. caught' + skipped' = IF at + 1 \in 1..(Len(Fixtures) + 1) THEN at ELSE Len(Fixtures)
    <3> DEFINE F == Len(Fixtures)
    <3>1. F \in Nat /\ DOMAIN Fixtures = 1..F
      BY FixtureType
    <3> HIDE DEF F
    <3>2. caught' + skipped' = caught + skipped + (IF at \in 1..F THEN 1 ELSE 0)
      BY <2>1, <3>1
    <3>3. caught + skipped = IF at \in 1..(F + 1) THEN at - 1 ELSE F
      BY <2>2 DEF F
    <3>4. caught' + skipped' = IF at + 1 \in 1..(F + 1) THEN at ELSE F
      <4> DEFINE x == caught + skipped
                 y == caught' + skipped'
      <4>1. x \in Nat /\ y \in Nat
        BY SumOfNat
      <4> HIDE DEF x, y
      <4>2. y = x + (IF at \in 1..F THEN 1 ELSE 0) /\ x = IF at \in 1..(F + 1) THEN at - 1 ELSE F
        BY <3>2, <3>3 DEF x, y
      <4>3. y = IF at + 1 \in 1..(F + 1) THEN at ELSE F
        BY <3>1, <4>1, <4>2, Adding
      <4> QED BY <4>3 DEF y
    <3> QED BY <3>4 DEF F
  <2>4. Len(Fixtures)' = Len(Fixtures) /\ at' - 1 = at
    OBVIOUS
  <2> QED BY <2>3, <2>4 DEF Accounted
<1>3. ASSUME failed' = 0, NEW n \in 1..(at' - 1) PROVE JudgedWell(n)'
  <2>1. JudgedWell(n)
    <3>1. n = at \/ n \in 1..(at - 1)
      BY <1>3, Turns
    <3> QED BY <1>3, <3>1 DEF TestInv, Judged
  <2>2. JudgedWell(n)' = JudgedWell(n)
    BY DEF JudgedWell, SeesDefect, ShipsClean, InScope, Cases, Broken, DemoAt
  <2> QED BY <2>1, <2>2
<1> QED BY <1>1, <1>2, <1>3 DEF Judged

LEMMA AnchorFailsStep ==
  ASSUME TestInv, AnchorFails
  PROVE  TestInv'
<1>1. /\ at \in 1..Last /\ at' = at + 1 /\ failed' = failed + 1
      /\ gate' = Idle /\ UNCHANGED <<world, caught, skipped>>
  BY Turns, FixtureType DEF AnchorFails
<1>2. GateInv'
  <2>1. gate' = Idle /\ world' \in Worlds /\ at' \in 1..(Last + 1)
    BY <1>1, Turns DEF TestInv, GateInv, GateType
  <2> QED BY <2>1, GateIdlePrimed
<1>3. Judged'
  BY <1>1, TurnEnds DEF TestInv, Judged
<1> QED BY <1>2, <1>3 DEF TestInv

LEMMA SkipFixtureStep ==
  ASSUME TestInv, SkipFixture
  PROVE  TestInv'
<1>1. /\ at \in 1..Last /\ at' = at + 1 /\ at \in DOMAIN Fixtures
      /\ gate' = Idle /\ UNCHANGED <<world, caught>>
      /\ IF world.require THEN failed' = failed + 1 /\ skipped' = skipped
                          ELSE skipped' = skipped + 1 /\ failed' = failed
      /\ ~(Fixtures[at].tier = 1 \/ world.library)
  BY Turns, FixtureType DEF SkipFixture, NoLibrary
<1>2. GateInv'
  <2>1. gate' = Idle /\ world' \in Worlds /\ at' \in 1..(Last + 1)
    BY <1>1, Turns DEF TestInv, GateInv, GateType
  <2> QED BY <2>1, GateIdlePrimed
<1>3. JudgedWell(at)
  BY <1>1 DEF JudgedWell
<1>4. Judged'
  <2>1. CASE world.require
    BY <1>1, <2>1, TurnEnds DEF TestInv, Judged
  <2>2. CASE ~world.require
    BY <1>1, <1>3, <2>2, TurnEnds DEF TestInv, Judged
  <2> QED BY <2>1, <2>2
<1> QED BY <1>2, <1>4 DEF TestInv

(* A fixture is caught by a row that was noted, so one in scope and broken. *)
LEMMA JudgeFixtureStep ==
  ASSUME TestInv, JudgeFixture
  PROVE  TestInv'
<1>1. /\ at \in 1..Last /\ at' = at + 1 /\ at \in DOMAIN Fixtures
      /\ gate' = Idle /\ UNCHANGED <<world, skipped>> /\ gate # Idle
      /\ IF gate.rc # 0 /\ Named(Fixtures[at].row) THEN caught' = caught + 1 /\ failed' = failed
                                                    ELSE failed' = failed + 1 /\ caught' = caught
  BY Turns, FixtureType, SectionType, IdleType DEF JudgeFixture, Ended
<1>2. GateInv'
  <2>1. gate' = Idle /\ world' \in Worlds /\ at' \in 1..(Last + 1)
    BY <1>1, Turns DEF TestInv, GateInv, GateType
  <2> QED BY <2>1, GateIdlePrimed
<1>3. ASSUME Named(Fixtures[at].row) PROVE JudgedWell(at)
  <2>1. PICK r \in gate.failed : r \in Contains[Fixtures[at].row]
    BY <1>3 DEF Named
  <2>2. PICK k \in InScope(gate.demo) : r \in Cases(Sections[k].key) \cap gate.broken
    BY <2>1 DEF TestInv, GateInv, Noted
  <2>3. gate.demo = Fixtures[at].demo /\ gate.broken \subseteq Broken(at)
    BY <1>1, Turns DEF TestInv, GateInv, OfTurn
  <2> QED BY <1>1, <2>1, <2>2, <2>3 DEF JudgedWell, SeesDefect
<1>4. Judged'
  <2>1. CASE gate.rc # 0 /\ Named(Fixtures[at].row)
    BY <1>1, <1>3, <2>1, TurnEnds DEF TestInv, Judged
  <2>2. CASE ~(gate.rc # 0 /\ Named(Fixtures[at].row))
    BY <1>1, <2>2, TurnEnds DEF TestInv, Judged
  <2> QED BY <2>1, <2>2
<1> QED BY <1>2, <1>4 DEF TestInv

(* An untouched copy is passed by the gate's own verdict on the demo.       *)
LEMMA JudgeCleanStep ==
  ASSUME TestInv, JudgeClean
  PROVE  TestInv'
<1>1. /\ at' = at + 1 /\ at \notin DOMAIN Fixtures /\ Ended
      /\ gate' = Idle /\ UNCHANGED <<world, caught, skipped>> /\ gate # Idle
      /\ failed' = failed + (IF gate.rc = 0 THEN 0 ELSE 1)
  BY SectionType, IdleType DEF JudgeClean, Ended
<1>2. at \in 1..Last
  BY <1>1, Turns DEF TestInv, GateInv, GateType, OfTurn
<1>3. GateInv'
  <2>1. gate' = Idle /\ world' \in Worlds /\ at' \in 1..(Last + 1)
    BY <1>1, <1>2, Turns DEF TestInv, GateInv, GateType
  <2> QED BY <2>1, GateIdlePrimed
<1>4. ASSUME gate.rc = 0 PROVE JudgedWell(at)
  <2>1. gate.demo = DemoAt(at) /\ gate.broken = world.shipped
    <3>1. gate.demo = DemoAt(at) /\ gate.broken = Broken(at)
      BY <1>1, <1>4 DEF TestInv, GateInv, OfTurn
    <3> QED BY <1>1, <3>1 DEF Broken
  <2> QED BY <1>1, <1>4, <2>1 DEF TestInv, GateInv, Verdict, JudgedWell, ShipsClean
<1>5. Judged'
  <2>1. CASE gate.rc = 0
    BY <1>1, <1>2, <1>4, <2>1, TurnEnds DEF TestInv, Judged
  <2>2. CASE gate.rc # 0
    BY <1>1, <1>2, <2>2, TurnEnds DEF TestInv, Judged
  <2> QED BY <2>1, <2>2
<1> QED BY <1>3, <1>5 DEF TestInv

-----------------------------------------------------------------------------
(* The invariant of the whole.                                              *)
LEMMA TestInitially ==
  ASSUME TestInit
  PROVE  TestInv
<1>1. gate = Idle /\ world \in Worlds /\ at \in 1..(Last + 1)
  BY Turns DEF TestInit
<1>2. Judged
  BY FixtureType DEF TestInit, Judged, Accounted
<1> QED BY <1>1, <1>2, GateIdle DEF TestInv

LEMMA TestStep ==
  ASSUME TestInv, [TestNext]_testVars
  PROVE  TestInv'
<1>1. ASSUME UNCHANGED <<world, at, caught, skipped, failed>> PROVE Judged'
  <2>1. ASSUME NEW n PROVE JudgedWell(n)' = JudgedWell(n)
    BY <1>1 DEF JudgedWell, SeesDefect, ShipsClean, InScope, Cases, Broken, DemoAt
  <2> QED BY <1>1, <2>1 DEF TestInv, Judged, Accounted
<1>2. CASE PassOver
  BY <1>1, <1>2, PassOverStep DEF TestInv, PassOver
<1>3. CASE RunSection
  BY <1>1, <1>3, RunSectionStep DEF TestInv, RunSection
<1>4. CASE SectionRaises
  BY <1>1, <1>4, SectionRaisesStep DEF TestInv, SectionRaises
<1>5. CASE GateEnd
  BY <1>1, <1>5, GateEndStep DEF TestInv, GateEnd
<1>6. CASE RunGate
  BY <1>1, <1>6, RunGateStep DEF TestInv, RunGate
<1>7. CASE AnchorFails
  BY <1>7, AnchorFailsStep
<1>8. CASE SkipFixture
  BY <1>8, SkipFixtureStep
<1>9. CASE JudgeFixture
  BY <1>9, JudgeFixtureStep
<1>10. CASE JudgeClean
  BY <1>10, JudgeCleanStep
<1>11. CASE UNCHANGED testVars
  <2>1. GateInv'
    BY <1>11 DEF testVars, TestInv, GateInv, GateType, OfTurn, Behind, Noted, Verdict, Ended, InScope, Cases, Broken, DemoAt
  <2> QED BY <1>1, <1>11, <2>1 DEF testVars, TestInv
<1> QED
  BY <1>2, <1>3, <1>4, <1>5, <1>6, <1>7, <1>8, <1>9, <1>10, <1>11 DEF TestNext

LEMMA TestInvariant == TestSpec => []TestInv
<1>1. TestInit => TestInv
  BY TestInitially
<1>2. TestInv /\ [TestNext]_testVars => TestInv'
  BY TestStep
<1> QED BY <1>1, <1>2, PTL DEF TestSpec

(* A gate that exits 0 has run every section of its demo that it could, at  *)
(* or above its floor, and no row it ran disagreed or raised: main's        *)
(* verdict, whatever the case lists, the copy and the surroundings.         *)
THEOREM GateCorrect == TestSpec => []GateHonest
<1>1. TestInv => GateHonest
  <2> SUFFICES ASSUME TestInv PROVE GateHonest
    OBVIOUS
  <2>1. TestTypeOK
    BY Turns DEF TestInv, GateInv, GateType, GateSet, Judged, TestTypeOK
  <2>2. OkMeansExercised
    BY DEF TestInv, GateInv, Verdict, OkMeansExercised
  <2> QED BY <2>1, <2>2 DEF GateHonest
<1> QED BY <1>1, TestInvariant, PTL

(* When the test of the gate passes, every defect that was tried is one the *)
(* gate tells from the shipped demo, the shipped demos have no failing row, *)
(* and each fixture was caught or skipped aloud, none where the library is  *)
(* required: main of tools/test-script-vectors.py.                          *)
THEOREM PassCorrect == TestSpec => []PassEarned
<1>1. TestInv => PassEarned
  <2> SUFFICES ASSUME TestInv, Passed PROVE PassEarned
    BY DEF PassEarned, PassedMeansSighted, PassedMeansShippedClean, NothingUnaccounted
  <2>1. at = Len(Fixtures) + 3 /\ \A n \in 1..Last : JudgedWell(n)
    BY Turns DEF Passed, TestInv, Judged
  <2>2. ShipsClean(Len(Fixtures) + 1) /\ ShipsClean(Len(Fixtures) + 2)
    BY <2>1, Turns, FixtureType DEF JudgedWell
  <2>3. /\ world.require => world.library
        /\ \A k \in InScope("qs") \cup InScope("ch") : Cases(Sections[k].key) \cap world.shipped = {}
    BY <2>2, Turns DEF ShipsClean
  <2>4. PassedMeansSighted
    <3> SUFFICES ASSUME NEW n \in DOMAIN Fixtures, Fixtures[n].tier = 1 \/ world.library
                 PROVE  (Contains[Fixtures[n].row] \cap Fixtures[n].breaks \cap world.cases) \ world.shipped # {}
      BY DEF PassedMeansSighted
    <3>1. n \in 1..Last
      BY Turns, FixtureType
    <3>2. PICK k \in InScope(Fixtures[n].demo) :
            Contains[Fixtures[n].row] \cap Cases(Sections[k].key) \cap Broken(n) # {}
      BY <2>1, <3>1 DEF JudgedWell, SeesDefect
    <3>3. PICK r \in Contains[Fixtures[n].row] : r \in Cases(Sections[k].key) \cap Broken(n)
      BY <3>2
    <3>4. r \notin world.shipped
      BY <2>3, <3>2, <3>3, FixtureType
    <3>5. r \in Fixtures[n].breaks
      BY <3>3, <3>4 DEF Broken
    <3>6. r \in world.cases
      BY <3>3 DEF Cases
    <3> QED BY <3>3, <3>4, <3>5, <3>6
  <2>5. NothingUnaccounted
    <3>1. caught + skipped = Len(Fixtures)
      <4>1. at \notin 1..(Len(Fixtures) + 1)
        BY <2>1, FixtureType
      <4> QED BY <4>1 DEF Passed, TestInv, Judged, Accounted
    <3>2. skipped # 0 => ~world.library /\ ~world.require
      BY DEF TestInv, Judged
    <3> QED BY <2>3, <3>1, <3>2 DEF NothingUnaccounted
  <2> QED BY <2>3, <2>4, <2>5 DEF PassEarned, PassedMeansShippedClean
<1> QED BY <1>1, TestInvariant, PTL

-----------------------------------------------------------------------------
(* The registry check.                                                     *)

(* Every item of the files is one they may hold; this is inductive.        *)
FilesOfItems == files \in Seq(Items)

(* It holds however the files grow. *)
LEMMA FilesInvariant == RegistrySpec => []FilesOfItems
<1>1. RegistryInit => FilesOfItems
  BY RegistryAssumption DEF RegistryInit, FilesOfItems
<1>2. FilesOfItems /\ [Declare]_files => FilesOfItems'
  <2> SUFFICES ASSUME FilesOfItems, Declare PROVE FilesOfItems'
    BY DEF FilesOfItems
  <2>1. PICK d \in Declarations : files' = Append(files, d)
    BY DEF Declare
  <2>2. d \in Items
    BY DEF Items
  <2> QED BY <2>1, <2>2, AppendProperties DEF FilesOfItems
<1> QED BY <1>1, <1>2, PTL DEF RegistrySpec

(* The assumption on the registry's elements, at one place of the source. *)
LEMMA RegistryItem ==
  ASSUME FilesOfItems, NEW i \in DOMAIN files
  PROVE  /\ i \in Int
         /\ files[i].file = "header" => \E p \in Registries : files[i].name \in Enumerators[p]
         /\ files[i].file = "abi" => files[i].name = "BTX_ABI_VERSION"
<1>1. i \in Int /\ files[i] \in Items
  BY ElementOfSeq DEF FilesOfItems
<1> QED BY <1>1, RegistryAssumption DEF FilesOfItems

(* The patterns find of a name exactly its one declaration. *)
LEMMA OneMatch ==
  ASSUME FilesOfItems, DeclaredOnce, NEW file, NEW name,
         NEW i \in Matches(files, file, name)
  PROVE  /\ i \in Declared(file) /\ files[i].name = name
         /\ ParsedValue(files, file, name) = files[i].value
         /\ files[FirstMatch(files, file, name)].value = files[i].value
<1>1. i \in Declared(file) /\ files[i].file = file /\ files[i].name = name
  BY DEF Matches, Declared
<1>2. i \in Int
  BY <1>1, RegistryItem DEF Declared
<1>3. ASSUME NEW j \in Matches(files, file, name)
      PROVE  j = i
  BY <1>1, <1>3 DEF Matches, Declared, DeclaredOnce
<1>4. Matches(files, file, name) = {i}
  BY <1>3
<1>5. FirstMatch(files, file, name) = i /\ LastMatch(files, file, name) = i
  BY <1>2, <1>4 DEF FirstMatch, LastMatch
<1> QED BY <1>1, <1>5 DEF ParsedValue

(* And a declaration is found under its own name. *)
LEMMA DeclarationFound ==
  ASSUME NEW file, NEW i \in Declared(file)
  PROVE  i \in Matches(files, file, files[i].name) /\ i \in DOMAIN files /\ files[i].file = file
BY DEF Matches, Declared

(* What it means that the check finds nothing. *)
LEMMA NothingFound ==
  ASSUME RegistryExit(files, TRUE) = 0
  PROVE  AbiProblems(files) = {} /\ \A p \in Registries : RegistryProblems(files, p) = {}
BY DEF RegistryExit, DriftProblems

(* When it says nothing of the enumerators of one prefix. *)
LEMMA SilentRegistry ==
  ASSUME NEW p \in Registries
  PROVE  RegistryProblems(files, p) = {} <=>
           /\ HeaderEnum(files, p) # {}
           /\ \A n \in HeaderEnum(files, p) :
                /\ HasConstant(files, LcbName[n])
                /\ ParsedValue(files, "lcb", LcbName[n]) = ParsedValue(files, "header", n)
BY DEF RegistryProblems

(* When it says nothing of the two ABI versions. *)
LEMMA SilentAbi ==
  AbiProblems(files) = {} <=>
    /\ Matches(files, "abi", "BTX_ABI_VERSION") # {}
    /\ HasConstant(files, "kABIVersion")
    /\ files[FirstMatch(files, "abi", "BTX_ABI_VERSION")].value = ParsedValue(files, "lcb", "kABIVersion")
BY DEF AbiProblems

(* A check that passes has seen every enumerator with a value decoded by   *)
(* its constant, and when all have one, all.                               *)
LEMMA SoundRegistry == FilesOfItems => RegistrySound
<1> SUFFICES ASSUME FilesOfItems, DeclaredOnce, AllValued, RegistryExit(files, TRUE) = 0
             PROVE  InStep
  BY DEF RegistrySound
<1>1. ASSUME NEW h \in Declared("header")
      PROVE  \E l \in Declared("lcb") : Decodes(l, h)
  <2> DEFINE n == files[h].name
  <2>1. h \in Matches(files, "header", n) /\ h \in DOMAIN files /\ files[h].file = "header"
    BY DeclarationFound
  <2>2. PICK p \in Registries : n \in Enumerators[p]
    BY <2>1, RegistryItem
  <2>3. n \in HeaderEnum(files, p)
    BY <2>1, <2>2 DEF HeaderEnum
  <2>4. /\ HasConstant(files, LcbName[n])
        /\ ParsedValue(files, "lcb", LcbName[n]) = ParsedValue(files, "header", n)
    BY <2>3, NothingFound, SilentRegistry
  <2>5. PICK l \in Matches(files, "lcb", LcbName[n]) : TRUE
    BY <2>4 DEF HasConstant
  <2>6. /\ l \in Declared("lcb") /\ files[l].name = LcbName[n]
        /\ files[l].value = ParsedValue(files, "lcb", LcbName[n])
    BY OneMatch
  <2>7. ParsedValue(files, "header", n) = files[h].value
    BY <2>1, OneMatch
  <2> QED BY <2>4, <2>6, <2>7 DEF Decodes
<1>2. \E a \in Declared("abi"), l \in Declared("lcb") : files[l].name = "kABIVersion" /\ files[l].value = files[a].value
  <2>1. /\ Matches(files, "abi", "BTX_ABI_VERSION") # {}
        /\ HasConstant(files, "kABIVersion")
        /\ files[FirstMatch(files, "abi", "BTX_ABI_VERSION")].value = ParsedValue(files, "lcb", "kABIVersion")
    BY NothingFound, SilentAbi
  <2>2. PICK a \in Matches(files, "abi", "BTX_ABI_VERSION"), l \in Matches(files, "lcb", "kABIVersion") : TRUE
    BY <2>1 DEF HasConstant
  <2>3. a \in Declared("abi") /\ files[FirstMatch(files, "abi", "BTX_ABI_VERSION")].value = files[a].value
    BY OneMatch
  <2>4. /\ l \in Declared("lcb") /\ files[l].name = "kABIVersion"
        /\ ParsedValue(files, "lcb", "kABIVersion") = files[l].value
    BY OneMatch
  <2> QED BY <2>1, <2>3, <2>4
<1>3. Enumerated = Declared("header")
  BY DEF AllValued, Enumerated, Declared
<1>4. ASSUME NEW p \in Registries
      PROVE  \E h \in Enumerated : files[h].name \in Enumerators[p]
  <2>1. PICK n \in HeaderEnum(files, p) : TRUE
    BY NothingFound, SilentRegistry
  <2>2. PICK h \in Matches(files, "header", n) : TRUE
    BY <2>1 DEF HeaderEnum
  <2>3. h \in Declared("header") /\ files[h].name = n
    BY OneMatch
  <2> QED BY <1>3, <2>1, <2>3 DEF HeaderEnum
<1> QED BY <1>1, <1>2, <1>3, <1>4 DEF InStep

(* Files in step give it nothing to say. *)
LEMMA QuietRegistry == FilesOfItems => RegistryQuiet
<1> SUFFICES ASSUME FilesOfItems, DeclaredOnce, InStep
             PROVE  RegistryExit(files, TRUE) = 0
  BY DEF RegistryQuiet
<1>0. Enumerated = Declared("header")
  <2>1. ASSUME NEW h \in Enumerated
        PROVE  h \in Declared("header")
    <3>1. PICK l \in Declared("lcb") : Decodes(l, h)
      BY DEF InStep
    <3> QED BY <3>1 DEF Decodes, Declared, Enumerated
  <2> QED BY <2>1 DEF Declared, Enumerated
<1>1. ASSUME NEW p \in Registries
      PROVE  RegistryProblems(files, p) = {}
  <2>1. HeaderEnum(files, p) # {}
    <3>1. PICK h \in Declared("header") : files[h].name \in Enumerators[p]
      BY <1>0 DEF InStep
    <3>2. h \in Matches(files, "header", files[h].name)
      BY DeclarationFound
    <3> QED BY <3>1, <3>2 DEF HeaderEnum
  <2>2. ASSUME NEW n \in HeaderEnum(files, p)
        PROVE  /\ HasConstant(files, LcbName[n])
               /\ ParsedValue(files, "lcb", LcbName[n]) = ParsedValue(files, "header", n)
    <3>1. PICK h \in Matches(files, "header", n) : TRUE
      BY DEF HeaderEnum
    <3>2. /\ h \in Declared("header") /\ files[h].name = n
          /\ ParsedValue(files, "header", n) = files[h].value
      BY OneMatch
    <3>3. PICK l \in Declared("lcb") : Decodes(l, h)
      BY <1>0, <3>2 DEF InStep
    <3>4. l \in Matches(files, "lcb", LcbName[n])
      BY <3>2, <3>3, DeclarationFound DEF Decodes
    <3>5. ParsedValue(files, "lcb", LcbName[n]) = files[l].value
      BY <3>4, OneMatch
    <3> QED BY <3>2, <3>3, <3>4, <3>5 DEF HasConstant, Decodes
  <2> QED BY <2>1, <2>2, SilentRegistry
<1>2. AbiProblems(files) = {}
  <2>1. PICK a \in Declared("abi"), l \in Declared("lcb") :
           files[l].name = "kABIVersion" /\ files[l].value = files[a].value
    BY DEF InStep
  <2>2. a \in Matches(files, "abi", "BTX_ABI_VERSION")
    BY DeclarationFound, RegistryItem
  <2>3. l \in Matches(files, "lcb", "kABIVersion")
    BY <2>1, DeclarationFound
  <2>4. files[FirstMatch(files, "abi", "BTX_ABI_VERSION")].value = files[a].value
    BY <2>2, OneMatch
  <2>5. ParsedValue(files, "lcb", "kABIVersion") = files[l].value
    BY <2>3, OneMatch
  <2> QED BY <2>1, <2>2, <2>3, <2>4, <2>5, SilentAbi DEF HasConstant
<1>3. DriftProblems(files) = {}
  BY <1>1, <1>2 DEF DriftProblems
<1> QED BY <1>3 DEF RegistryExit

(* For any enumerators, constants, values and order of the lines in which  *)
(* no name is declared twice: files in step make check-record-registry.py  *)
(* exit 0, and when every enumerator has a value of its own, exit 0 means  *)
(* that header, LCB and ABI versions are in step. An enumerator without a  *)
(* value the check does not see, so there exit 0 says nothing of it.       *)
THEOREM RegistryCorrect == RegistrySpec => []RegistryAgrees
<1>1. FilesOfItems => RegistryAgrees
  BY SoundRegistry, QuietRegistry DEF RegistryAgrees
<1> QED BY <1>1, FilesInvariant, PTL
=============================================================================
