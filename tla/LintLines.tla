------------------------------ MODULE LintLines -----------------------------
(***************************************************************************)
(* How tools/check-livecodescript.py turns a text into logical lines: it   *)
(* merges continuations, cuts comments and blanks string contents. A text  *)
(* is a sequence of characters, of which those the scanner tells apart are *)
(* named: "q" the double quote, "bs" the backslash, "nl" the line end; any *)
(* other character stands for itself.                                      *)
(***************************************************************************)
EXTENDS Integers, Sequences
LOCAL INSTANCE SequencesExt

EndsInBackslash(line) == line # <<>> /\ Last(line) = "bs"

SplitLines(text) ==
    FoldLeft(LAMBDA ls, c : IF c = "nl" THEN Append(ls, <<>>)
                            ELSE Append(Front(ls), Append(Last(ls), c)),
             <<<<>>>>, text)

(* slip: a merged line takes the number of its last line *)
MergeContinuations_lastNumber(raw) ==
    LET Step(merged, i) ==
          IF merged # <<>> /\ EndsInBackslash(Last(merged).text)
          THEN Append(Front(merged), [first |-> i, text |-> Front(Last(merged).text) \o raw[i]])
          ELSE Append(merged, [first |-> i, text |-> raw[i]])
    IN  FoldLeft(Step, <<>>, [i \in DOMAIN raw |-> i])

(* A line that ends in a backslash is joined with the next, comment or not. *)
MergeContinuations(raw) ==
    LET Step(merged, i) ==
          IF merged # <<>> /\ EndsInBackslash(Last(merged).text)
          THEN Append(Front(merged), [Last(merged) EXCEPT !.text = Front(@) \o raw[i]])
          ELSE Append(merged, [first |-> i, text |-> raw[i]])
    IN  FoldLeft(Step, <<>>, [i \in DOMAIN raw |-> i])

(* The two characters at j, or one at the end of the line. *)
Two(line, j) == SubSeq(line, j, IF j < Len(line) THEN j + 1 ELSE j)

StartsComment(line, j, script) ==
    \/ Two(line, j) = <<"-", "-">>
    \/ script /\ (line[j] = "#" \/ Two(line, j) = <<"/", "/">>)

(* One character of a line. A two-character mark skips its second half.    *)
CleanStep(st, line, j, script, keep) ==
    LET c == line[j]
    IN  CASE st.mode = "comment" -> st
          [] st.mode # "comment" /\ st.skip -> [st EXCEPT !.skip = FALSE]
          [] st.mode = "block" /\ ~st.skip ->
               IF Two(line, j) = <<"*", "/">> THEN [st EXCEPT !.mode = "code", !.skip = TRUE] ELSE st
          [] st.mode = "string" /\ ~st.skip ->
               [st EXCEPT !.out = Append(@, IF keep \/ c = "q" THEN c ELSE "blank"),
                          !.mode = IF c = "q" THEN "code" ELSE "string"]
          [] st.mode = "code" /\ ~st.skip ->
               IF Two(line, j) = <<"/", "*">> THEN [st EXCEPT !.mode = "block", !.skip = TRUE]
               ELSE IF c = "q" THEN [st EXCEPT !.mode = "string", !.out = Append(@, c)]
               ELSE IF StartsComment(line, j, script) THEN [st EXCEPT !.mode = "comment"]
               ELSE [st EXCEPT !.out = Append(@, c)]

(* slip: a block comment ends with its line *)
CleanLine_oneLine(line, inBlock, script, keep) ==
    FoldLeft(LAMBDA st, j : CleanStep(st, line, j, script, keep),
             [mode |-> "code", skip |-> FALSE, out |-> <<>>], [j \in DOMAIN line |-> j])

(* A block comment runs on into the next line, a string does not. *)
CleanLine(line, inBlock, script, keep) ==
    FoldLeft(LAMBDA st, j : CleanStep(st, line, j, script, keep),
             [mode |-> IF inBlock THEN "block" ELSE "code", skip |-> FALSE, out |-> <<>>],
             [j \in DOMAIN line |-> j])

CleanLogicalLines(text, script, keep) ==
    LET raw == SplitLines(text)
        Step(st, m) ==
          LET end == CleanLine(m.text, st.inBlock, script, keep)
          IN  [cleaned  |-> Append(st.cleaned, [first |-> m.first, text |-> end.out]),
               inBlock  |-> end.mode = "block",
               problems |-> IF end.mode = "string"
                            THEN st.problems \cup {[line |-> m.first, what |-> "unterminated string"]}
                            ELSE st.problems]
        st == FoldLeft(Step, [cleaned |-> <<>>, inBlock |-> FALSE, problems |-> {}], MergeContinuations(raw))
    IN  [cleaned  |-> st.cleaned,
         problems |-> IF st.inBlock
                      THEN st.problems \cup {[line |-> Len(raw), what |-> "unterminated block comment"]}
                      ELSE st.problems]

(* The lines on which a backslash is left over outside strings. *)
StrayBackslash(cleaned) ==
    {cleaned[k].first : k \in {k \in DOMAIN cleaned : \E j \in DOMAIN cleaned[k].text : cleaned[k].text[j] = "bs"}}
=============================================================================
