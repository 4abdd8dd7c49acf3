-------------------------- MODULE ScriptVectorGate --------------------------
(***************************************************************************)
(* tools/check-script-vectors.py, the gate that runs the demos' handlers   *)
(* against the goldens, and tools/test-script-vectors.py, which edits one  *)
(* defect at a time into a copy of a demo and requires the gate to fail    *)
(* and to name the defect's row, then requires untouched copies to pass.   *)
(*                                                                         *)
(* A row is one comparison of the script with its mirror. What the script  *)
(* computes is left out: a row is broken on a demo or it is not. The gate  *)
(* itself may be at fault: a row may be missing from its case lists, or    *)
(* raise an error that nothing catches.                                    *)
(***************************************************************************)
EXTENDS Integers, Sequences, FiniteSets

CONSTANTS
  Sections,    \* in main's order, each with its key, demo ("both" for pins) and tier
  Rows,        \* section key -> the rows of its case lists
  FLOORS,      \* section key -> the fewest rows it may run
  Contains,    \* row -> the rows whose label contains this row's label
  Fixtures,    \* each with its demo, tier, the row it must break by name, and all it breaks
  Worlds       \* the surroundings a run of the test may meet

AllRows == UNION {Rows[Sections[k].key] : k \in DOMAIN Sections}
(* slip: one demo is forgotten *)
Demos_one == <<"qs">>

Demos   == <<"ch", "qs">>                  \* the order of the untouched copies
InDemo(section, demo) == section.demo \in {demo, "both"}

ASSUME VectorGateAssumption ==
  /\ Sections \in Seq([key : DOMAIN Rows, demo : {"ch", "qs", "both"}, tier : {1, 2}])
  /\ Fixtures \in Seq([demo : {"ch", "qs"}, tier : {1, 2}, row : AllRows, breaks : SUBSET AllRows])
  /\ \A k \in DOMAIN Sections : /\ IsFiniteSet(Rows[Sections[k].key])
                                /\ FLOORS[Sections[k].key] \in 0..Cardinality(Rows[Sections[k].key])
  /\ \A f \in DOMAIN Fixtures : Fixtures[f].row \in Fixtures[f].breaks
  /\ \A r \in AllRows : r \in Contains[r]
  /\ \A w \in Worlds : /\ w.cases \cup w.raises \cup w.shipped \subseteq AllRows
                       /\ {w.library, w.require, w.runner} \subseteq BOOLEAN
                       /\ w.anchors \in [DOMAIN Fixtures -> 0..2]

VARIABLES
  world,      \* the case lists, what raises, what the shipped demos break, the environment
  at,         \* the fixture, or past them the untouched copy, that is next
  gate,       \* the running gate: its demo, what is broken in the copy, its section, its rows
  caught, skipped, failed
testVars == <<world, at, gate, caught, skipped, failed>>

Idle  == [demo |-> "none", broken |-> {}, section |-> 0, counts |-> {}, failed |-> {}, rc |-> 0]
Last  == Len(Fixtures) + Len(Demos)

Cases(key) == Rows[key] \cap world.cases

(* The demo whose copy is next. *)
DemoAt(n) == IF n \in DOMAIN Fixtures THEN Fixtures[n].demo ELSE Demos[n - Len(Fixtures)]
Broken(n) == world.shipped \cup (IF n \in DOMAIN Fixtures THEN Fixtures[n].breaks ELSE {})

-----------------------------------------------------------------------------
(* The gate, with --only demo and the copy's path.                         *)

Running == gate.section \in DOMAIN Sections

(* Sections of the other demo are never started, those of tier 2 only with *)
(* the library.                                                            *)
Applies(section) == InDemo(section, gate.demo) /\ (section.tier = 1 \/ world.library)

Failing(rows) == rows \cap gate.broken

(* slip: a section without rows is no section *)
Short_some == {c \in gate.counts : c.rows > 0 /\ c.rows < FLOORS[c.key]}

(* A section that ran fewer rows than its floor; counts holds only the     *)
(* sections that were started.                                             *)
Short == {c \in gate.counts : c.rows < FLOORS[c.key]}

TestTypeOK ==
  /\ world \in Worlds /\ at \in 1..(Last + 1)
  /\ gate.section \in 0..(Len(Sections) + 2) /\ gate.rc \in 0..2
  /\ {gate.broken, gate.failed} \subseteq SUBSET AllRows
  /\ {caught, skipped, failed} \subseteq 0..Last
  /\ caught + skipped + failed < at

TestInit ==
  /\ world \in Worlds
  /\ at = 1 /\ gate = Idle /\ caught = 0 /\ skipped = 0 /\ failed = 0

Ended == gate.section = Len(Sections) + 2

(* An absent runner ends the gate when it is loaded. *)
GateStart ==
  gate' = IF world.runner THEN [Idle EXCEPT !.demo = DemoAt(at), !.broken = Broken(at), !.section = 1]
          ELSE [Idle EXCEPT !.demo = DemoAt(at), !.section = Len(Sections) + 2, !.rc = 2]

PassOver ==
  /\ Running /\ ~Applies(Sections[gate.section])
  /\ gate' = [gate EXCEPT !.section = @ + 1]
  /\ UNCHANGED <<world, at, caught, skipped, failed>>

(* A failing row is noted and the section goes on. *)
RunSection ==
  /\ Running /\ Applies(Sections[gate.section])
  /\ LET key == Sections[gate.section].key
     IN  /\ Cases(key) \cap world.raises = {}
         /\ gate' = [gate EXCEPT !.section = @ + 1,
                                 !.counts  = @ \cup {[key |-> key, rows |-> Cardinality(Cases(key))]},
                                 !.failed  = @ \cup Failing(Cases(key))]
  /\ UNCHANGED <<world, at, caught, skipped, failed>>

(* An error nothing catches ends the gate with a traceback: the failures   *)
(* noted so far are never printed.                                         *)
SectionRaises ==
  /\ Running /\ Applies(Sections[gate.section])
  /\ Cases(Sections[gate.section].key) \cap world.raises # {}
  /\ gate' = [gate EXCEPT !.section = Len(Sections) + 2, !.failed = {}, !.rc = 1]
  /\ UNCHANGED <<world, at, caught, skipped, failed>>

(* The verdict, in the order main gives it. *)
GateEnd ==
  /\ gate.section = Len(Sections) + 1
  /\ gate' = [gate EXCEPT !.section = @ + 1,
                !.rc = IF gate.failed # {} \/ (~world.library /\ world.require) \/ Short # {} THEN 1 ELSE 0]
  /\ UNCHANGED <<world, at, caught, skipped, failed>>

-----------------------------------------------------------------------------
(* The test over its fixtures, then over the untouched copies.             *)

(* slip: the first bad anchor ends the test *)
AnchorFails_returns ==
  /\ gate = Idle /\ at \in DOMAIN Fixtures /\ world.anchors[at] # 1
  /\ failed' = 1
  /\ UNCHANGED <<world, at, gate, caught, skipped>>

AnchorFails ==
  /\ gate = Idle /\ at \in DOMAIN Fixtures /\ world.anchors[at] # 1
  /\ failed' = failed + 1 /\ at' = at + 1
  /\ UNCHANGED <<world, gate, caught, skipped>>

NoLibrary == at \in DOMAIN Fixtures /\ Fixtures[at].tier = 2 /\ ~world.library

(* slip: a required skip counts as both *)
SkipFixture_both ==
  /\ gate = Idle /\ NoLibrary /\ world.anchors[at] = 1
  /\ skipped' = skipped + 1 /\ failed' = failed + (IF world.require THEN 1 ELSE 0)
  /\ at' = at + 1
  /\ UNCHANGED <<world, gate, caught>>

(* slip: a skip is not counted *)
SkipFixture_silent ==
  /\ gate = Idle /\ NoLibrary /\ world.anchors[at] = 1
  /\ failed' = failed + (IF world.require THEN 1 ELSE 0)
  /\ at' = at + 1
  /\ UNCHANGED <<world, gate, caught, skipped>>

SkipFixture ==
  /\ gate = Idle /\ NoLibrary /\ world.anchors[at] = 1
  /\ IF world.require THEN failed' = failed + 1 /\ UNCHANGED skipped
                      ELSE skipped' = skipped + 1 /\ UNCHANGED failed
  /\ at' = at + 1
  /\ UNCHANGED <<world, gate, caught>>

RunGate ==
  /\ gate = Idle /\ at <= Last /\ ~NoLibrary
  /\ at \in DOMAIN Fixtures => world.anchors[at] = 1
  /\ GateStart
  /\ UNCHANGED <<world, at, caught, skipped, failed>>

(* slip: any failure will do *)
Named_any(row) == row \in AllRows

(* The name is looked for anywhere in the output. *)
Named(row) == Contains[row] \cap gate.failed # {}

JudgeFixture ==
  /\ Ended /\ at \in DOMAIN Fixtures
  /\ IF gate.rc # 0 /\ Named(Fixtures[at].row)
     THEN caught' = caught + 1 /\ UNCHANGED failed
     ELSE failed' = failed + 1 /\ UNCHANGED caught
  /\ gate' = Idle /\ at' = at + 1
  /\ UNCHANGED <<world, skipped>>

JudgeClean ==
  /\ Ended /\ at \notin DOMAIN Fixtures
  /\ failed' = failed + (IF gate.rc = 0 THEN 0 ELSE 1)
  /\ gate' = Idle /\ at' = at + 1
  /\ UNCHANGED <<world, caught, skipped>>

TestNext ==
  \/ PassOver \/ RunSection \/ SectionRaises \/ GateEnd
  \/ AnchorFails \/ SkipFixture \/ RunGate \/ JudgeFixture \/ JudgeClean

TestSpec == TestInit /\ [][TestNext]_testVars
FairSpec == TestSpec /\ WF_testVars(TestNext)

-----------------------------------------------------------------------------
Passed   == at = Last + 1 /\ failed = 0
InScope(demo) == {k \in DOMAIN Sections : InDemo(Sections[k], demo) /\ (Sections[k].tier = 1 \/ world.library)}

(* A gate that exits 0 has run every section of its demo that it could, at *)
(* or above its floor, and no row it ran disagreed: an error, an emptied   *)
(* case list or a section left out never looks like success.               *)
OkMeansExercised ==
  Ended /\ gate.rc = 0
    => \A k \in InScope(gate.demo) :
         LET rows == Cases(Sections[k].key)
         IN  /\ Cardinality(rows) >= FLOORS[Sections[k].key]
             /\ rows \cap (gate.broken \cup world.raises) = {}

(* When the test passes, the gate can tell every defect that was tried     *)
(* from the shipped demo: some row of its case lists, named like the       *)
(* fixture's, disagrees on the edited copy and agrees on the untouched     *)
(* one. So no row a fixture names has dropped out of the gate unseen.      *)
PassedMeansSighted ==
  Passed => \A n \in DOMAIN Fixtures :
    Fixtures[n].tier = 1 \/ world.library =>
      (Contains[Fixtures[n].row] \cap Fixtures[n].breaks \cap world.cases) \ world.shipped # {}

(* And the shipped demos themselves have no failing row, in both demos.    *)
PassedMeansShippedClean ==
  Passed => \A k \in InScope("qs") \cup InScope("ch") : Cases(Sections[k].key) \cap world.shipped = {}

(* A pass accounts for every fixture, caught or skipped aloud; where the   *)
(* siblings are required nothing is skipped and tier 2 has run.            *)
NothingUnaccounted ==
  Passed => /\ caught + skipped = Len(Fixtures)
            /\ world.require => skipped = 0 /\ world.library
            /\ world.library => skipped = 0

(* The test comes to its end, whatever fails on the way: every fixture is  *)
(* judged once and the clean copies are always tried.                      *)
AlwaysJudged == <>(at = Last + 1)

(* A gate that exits 0 has done its work, on a state of the right shape.   *)
GateHonest == TestTypeOK /\ OkMeansExercised

(* What a pass of the test of the gate says: the gate sees every defect    *)
(* that was tried, the shipped demos have none, and nothing was left out.  *)
PassEarned == PassedMeansSighted /\ PassedMeansShippedClean /\ NothingUnaccounted
=============================================================================
