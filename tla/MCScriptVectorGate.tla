------------------------- MODULE MCScriptVectorGate -------------------------
(***************************************************************************)
(* A section of every kind of demo and tier. Two fixtures break a row that *)
(* is not theirs. Row s2's label contains s1's; the serve section has more *)
(* rows than its floor, the others none to spare. The gate may miss any    *)
(* rows; at most one row raises, at most one is broken in the shipped      *)
(* demos, and at most one anchor is off.                                   *)
(***************************************************************************)
EXTENDS ScriptVectorGate

Section(key, demo, tier) == [key |-> key, demo |-> demo, tier |-> tier]

MCSections ==
  <<Section("serve", "qs", 1), Section("qsRecv", "qs", 1), Section("chRecv", "ch", 1),
    Section("pins", "both", 2), Section("verifier", "qs", 2), Section("M9", "ch", 2)>>

MCRows == [serve |-> {"s1", "s2"}, qsRecv |-> {"q"}, chRecv |-> {"c"},
           pins |-> {"p"}, verifier |-> {"v"}, M9 |-> {"m"}]

MCFloors == [serve |-> 1, qsRecv |-> 1, chRecv |-> 1, pins |-> 1, verifier |-> 1, M9 |-> 1]

MCContains == [r \in AllRows |-> IF r = "s1" THEN {"s1", "s2"} ELSE {r}]

Fixture(demo, tier, row, breaks) == [demo |-> demo, tier |-> tier, row |-> row, breaks |-> breaks]

MCFixtures ==
  <<Fixture("qs", 1, "s1", {"s1", "q"}), Fixture("ch", 1, "c", {"c"}),
    Fixture("qs", 2, "v", {"v", "q"}), Fixture("ch", 2, "m", {"m"})>>

AtMostOne(S) == {{}} \cup {{x} : x \in S}

MCWorlds ==
  [cases : SUBSET AllRows, raises : AtMostOne({"s2", "c", "p"}), shipped : AtMostOne({"s1", "s2", "c", "v"}),
   library : BOOLEAN, require : BOOLEAN, runner : BOOLEAN,
   anchors : {[f \in DOMAIN Fixtures |-> 1], [f \in DOMAIN Fixtures |-> IF f = 3 THEN 2 ELSE 1],
              [f \in DOMAIN Fixtures |-> IF f = 2 THEN 0 ELSE 1]}]
=============================================================================
