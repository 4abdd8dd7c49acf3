---------------------------- MODULE MCComparison ----------------------------
(***************************************************************************)
(* Names of every kind the check tells apart, literals of the three kinds  *)
(* ('14' is number-like, 'ab' is not at its start, 'h-' is not anywhere),  *)
(* and the statements a comparison stands in.                              *)
(***************************************************************************)
EXTENDS Comparison

MCPieces   == {Atom(n) : n \in {"tX", "tHash", "'14'", "'ab'", "'h-'"}}
MCPartners == {Atom(n) : n \in {"tX", "tHash", "empty"}}
MCAtoms    == {Atom(n) : n \in {"tX", "tHash", "tTarget", "kA", "cMade", "empty", "1", "'14'", "'ab'", "'h-'"}}
                \cup {Elem("tA", "'token'"), Elem("sHashes", "tX"), Elem("tA", "tX")}

Around(b, a) == [before |-> b, after |-> a]

MCFrames ==
  {Around(<<"if">>, <<"then", "beep">>),
   Around(<<"nxtcheck">>, <<",", "'h-'">>),
   Around(<<"set", "the", "hilite", "of", "tB", "to">>, <<>>),
   Around(<<"put", "f", "(", "tX", ",">>, <<")", "into", "tY">>),
   Around(<<"return", "not">>, <<"and", "tY", "is", "not", "a", "number">>)}

MCOperators == {<<"is">>, <<"is", "not">>, <<"<">>}
=============================================================================
