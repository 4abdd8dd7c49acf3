----------------------------- MODULE LintBlocks -----------------------------
(***************************************************************************)
(* The checks of tools/check-livecodescript.py that follow blocks from     *)
(* line to line. A source is a sequence of logical lines, and a line is a  *)
(* record whose field toks is the sequence of its words in lower case:     *)
(* comments are cut, string contents blanked and continuations merged      *)
(* (LintLines models that), and a blank line has no words. Every check is  *)
(* one pass over the lines, written as a fold.                             *)
(*                                                                         *)
(* A problem is a line number and what is wrong there.                     *)
(***************************************************************************)
EXTENDS LintNames
LOCAL INSTANCE SequencesExt
LOCAL INSTANCE FiniteSetsExt

Problem(i, what) == [line |-> i, what |-> what]
Words(toks)      == {toks[k] : k \in DOMAIN toks}

(* The loop of every check: Step is given the state and the number of each *)
(* line that is not blank, in order.                                       *)
OverLines(Step(_, _), init, src) ==
    FoldLeft(LAMBDA st, i : IF src[i].toks = <<>> THEN st ELSE Step(st, i),
             init, [i \in DOMAIN src |-> i])

-----------------------------------------------------------------------------
(* Block balance: a stack of open blocks and the problems found.           *)

NoBlocks == [stack |-> <<>>, problems |-> {}]

Open(st, i, kind) == [st EXCEPT !.stack = Append(@, [kind |-> kind, line |-> i])]

(* slip: lines counted from zero *)
Report_fromZero(st, i, what) == [st EXCEPT !.problems = @ \cup {Problem(i - 1, what)}]

Report(st, i, what) == [st EXCEPT !.problems = @ \cup {Problem(i, what)}]

(* slip: any closer closes *)
Close_anyKind(st, i, kind) ==
    IF st.stack = <<>> THEN Report(st, i, "no open block") ELSE [st EXCEPT !.stack = Front(@)]

(* The closer pops the innermost block even when the kinds differ. *)
Close(st, i, kind) ==
    IF st.stack = <<>>
    THEN Report(st, i, "no open block")
    ELSE LET popped == [st EXCEPT !.stack = Front(@)]
         IN  IF Last(st.stack).kind = kind THEN popped ELSE Report(popped, i, "mismatch")

(* slip: only the innermost block is reported *)
NeverClosed_innermost(st) ==
    IF st.stack = <<>> THEN st.problems ELSE st.problems \cup {Problem(Last(st.stack).line, "never closed")}

NeverClosed(st) ==
    st.problems \cup {Problem(st.stack[k].line, "never closed") : k \in DOMAIN st.stack}

IsEnd(toks)    == toks[1] = "end" /\ Len(toks) >= 2
(* slip: every if opens a block *)
BlockIf_any(toks) == toks[1] = "if"

BlockIf(toks)  == toks[1] = "if" /\ Last(toks) = "then"

HandlerWords == {"on", "command", "function", "getprop", "setprop", "before", "after"}

IsPrivate(toks) == toks[1] = "private" /\ Len(toks) >= 2 /\ toks[2] \in {"command", "function"}

(* The block a line of LiveCode Script opens, or "none". *)
LcsOpens(toks) ==
    CASE toks[1] \in HandlerWords \/ IsPrivate(toks)   -> "handler"
      [] BlockIf(toks)                                 -> "if"
      [] toks[1] \in {"repeat", "switch", "try"}       -> toks[1]
      [] OTHER                                         -> "none"

(* `end` and a word that names no block must close a handler. *)
LcsCloses(toks) ==
    IF toks[2] \in {"if", "repeat", "switch", "try"} THEN toks[2] ELSE "handler"

LcsStep(st, i, toks) ==
    IF IsEnd(toks) THEN Close(st, i, LcsCloses(toks))
    ELSE IF LcsOpens(toks) = "none" THEN st
    ELSE Open(st, i, LcsOpens(toks))

LcsBlocks(src) ==
    NeverClosed(OverLines(LAMBDA st, i : LcsStep(st, i, src[i].toks), NoBlocks, src))

(* The words of a line of LiveCode Builder after public or private. *)
AfterAccess(toks) == IF toks[1] \in {"public", "private"} THEN Tail(toks) ELSE toks

StartsWith(toks, words) == IsPrefix(words, toks)

(* Foreign handlers and handler types are single lines and open nothing. *)
OpensHandler(toks) ==
    LET head == AfterAccess(toks)
    IN  \/ StartsWith(head, <<"unsafe", "handler">>)
        \/ StartsWith(head, <<"handler">>) /\ ~StartsWith(head, <<"handler", "type">>)

LcbOpens(toks) ==
    CASE OpensHandler(toks)                             -> "handler"
      [] StartsWith(AfterAccess(toks), <<"foreign">>)   -> "none"
      [] StartsWith(AfterAccess(toks), <<"handler">>)   -> "none"
      [] BlockIf(toks)                                  -> "if"
      [] toks[1] \in {"repeat", "unsafe"}               -> toks[1]
      [] OTHER                                          -> "none"

(* An `end` of no LCB block is reported and leaves the stack alone. *)
LcbStep(st, i, toks) ==
    CASE IsEnd(toks) /\ toks[2] \in {"library", "module", "widget"}         -> st
      [] IsEnd(toks) /\ toks[2] \in {"handler", "if", "repeat", "unsafe"}   -> Close(st, i, toks[2])
      [] IsEnd(toks) /\ toks[2] \notin {"library", "module", "widget",
                                        "handler", "if", "repeat", "unsafe"} -> Report(st, i, "unexpected end")
      [] ~IsEnd(toks) /\ LcbOpens(toks) # "none"                            -> Open(st, i, LcbOpens(toks))
      [] OTHER                                                              -> st

LcbBlocks(src) ==
    NeverClosed(OverLines(LAMBDA st, i : LcbStep(st, i, src[i].toks), NoBlocks, src))

-----------------------------------------------------------------------------
(* The library, module or widget of a .lcb must be closed by its own end.  *)

ModuleWords == {"library", "module", "widget"}

LcbModuleStep(st, i, toks) ==
    IF st.opener = 0 /\ toks[1] \in ModuleWords /\ Len(toks) >= 2
    THEN [st EXCEPT !.opener = i, !.kind = toks[1]]
    ELSE IF ~(IsEnd(toks) /\ toks[2] \in ModuleWords) THEN st
    ELSE LET ended == [st EXCEPT !.closed = TRUE]
         IN  IF st.opener # 0 /\ toks[2] # st.kind
             THEN Report(ended, i, "does not match the opening")
             ELSE ended

LcbModule(src) ==
    LET st == OverLines(LAMBDA s, i : LcbModuleStep(s, i, src[i].toks),
                        [opener |-> 0, kind |-> "", closed |-> FALSE, problems |-> {}], src)
    IN  IF st.opener # 0 /\ ~st.closed
        THEN st.problems \cup {Problem(st.opener, "never closed")}
        ELSE st.problems

-----------------------------------------------------------------------------
(* The declarations of an LCB handler stand above its first statement.     *)

Nested == {"if", "repeat", "switch", "try", "unsafe"}

(* slip: any end ends the handler *)
DeclStep_anyEnd(st, i, toks) ==
    CASE ~st.inHandler ->
           IF OpensHandler(toks)
           THEN [st EXCEPT !.inHandler = TRUE, !.started = FALSE, !.depth = 0] ELSE st
      [] st.inHandler /\ toks[1] = "end" -> [st EXCEPT !.inHandler = FALSE]
      [] st.inHandler /\ toks[1] = "variable" ->
           IF st.started THEN Report(st, i, "declared below the first statement") ELSE st
      [] OTHER -> [st EXCEPT !.started = TRUE]

DeclStep(st, i, toks) ==
    CASE ~st.inHandler ->
           IF OpensHandler(toks)
           THEN [st EXCEPT !.inHandler = TRUE, !.started = FALSE, !.depth = 0] ELSE st
      [] st.inHandler /\ IsEnd(toks) /\ toks[2] \in Nested ->
           [st EXCEPT !.depth = IF @ = 0 THEN 0 ELSE @ - 1, !.started = TRUE]
      [] st.inHandler /\ toks[1] = "end" /\ ~(IsEnd(toks) /\ toks[2] \in Nested) ->
           [st EXCEPT !.inHandler = st.depth # 0]
      [] st.inHandler /\ toks[1] = "variable" ->
           IF st.started THEN Report(st, i, "declared below the first statement") ELSE st
      [] OTHER ->
           [st EXCEPT !.started = TRUE,
                      !.depth = IF toks[1] \in Nested /\ (toks[1] = "if" => BlockIf(toks))
                                THEN @ + 1 ELSE @]

DeclarationsAtTop(src) ==
    OverLines(LAMBDA st, i : DeclStep(st, i, src[i].toks),
              [inHandler |-> FALSE, started |-> FALSE, depth |-> 0, problems |-> {}],
              src).problems

-----------------------------------------------------------------------------
(* The dangling else: a bare else whose last line before it that is not    *)
(* blank is an `if ... then <statement>`.                                  *)

SingleLineIf(toks) ==
    /\ toks[1] = "if"
    /\ \E k \in 2..(Len(toks) - 1) : toks[k] = "then"
    /\ Last(toks) # "then"

(* slip: the physical line above, blank or not *)
DanglingStep_above(st, i, src) ==
    IF i > 1 /\ src[i].toks = <<"else">> /\ src[i - 1].toks # <<>> /\ SingleLineIf(src[i - 1].toks)
    THEN Report(st, i, "dangling else") ELSE st

DanglingStep(st, i, src) ==
    LET dangles == st.prev # 0 /\ src[i].toks = <<"else">> /\ SingleLineIf(src[st.prev].toks)
        next    == [st EXCEPT !.prev = i]
    IN  IF dangles THEN Report(next, i, "dangling else") ELSE next

DanglingElse(src) ==
    OverLines(LAMBDA st, i : DanglingStep(st, i, src), [prev |-> 0, problems |-> {}], src).problems

-----------------------------------------------------------------------------
(* Constructs the engine runs wrongly: a repeat with a step, and a throw   *)
(* after a catch. The flag set by a catch is cleared only by the end try   *)
(* that closes the outermost try.                                          *)

(* slip: any end try ends the catch *)
HostileStep_anyEnd(st, i, toks) ==
    CASE toks[1] = "try" -> [st EXCEPT !.depth = @ + 1]
      [] toks[1] = "catch" /\ st.depth > 0 -> [st EXCEPT !.inCatch = TRUE]
      [] StartsWith(toks, <<"end", "try">>) ->
           [st EXCEPT !.depth = IF @ <= 1 THEN 0 ELSE @ - 1, !.inCatch = FALSE]
      [] toks[1] = "throw" /\ st.inCatch -> Report(st, i, "throw-in-catch")
      [] OTHER -> st

HostileStep(st, i, toks) ==
    CASE toks[1] = "try" -> [st EXCEPT !.depth = @ + 1]
      [] toks[1] = "catch" /\ st.depth > 0 -> [st EXCEPT !.inCatch = TRUE]
      [] StartsWith(toks, <<"end", "try">>) ->
           [st EXCEPT !.depth = IF @ <= 1 THEN 0 ELSE @ - 1,
                      !.inCatch = @ /\ st.depth > 1]
      [] toks[1] = "throw" /\ st.inCatch -> Report(st, i, "throw-in-catch")
      [] StartsWith(toks, <<"repeat", "with">>) /\ "step" \in Words(toks) -> Report(st, i, "step")
      [] OTHER -> st

EngineHostile(src) ==
    OverLines(LAMBDA st, i : HostileStep(st, i, src[i].toks),
              [depth |-> 0, inCatch |-> FALSE, problems |-> {}], src).problems

-----------------------------------------------------------------------------
(* A catch variable that its body reads and nothing declares. The first    *)
(* pass collects the names each handler declares, wherever they stand, and *)
(* the names declared outside handlers; the second walks the handlers with *)
(* one frame for every open catch of an undeclared variable.               *)

(* The words of a handler line after its access word, or <<>>: the kind,   *)
(* the name and the parameters.                                            *)
HandlerDecl(toks) ==
    LET head == IF IsPrivate(toks) THEN Tail(toks) ELSE toks
    IN  IF Len(head) >= 2 /\ head[1] \in HandlerWords THEN head ELSE <<>>

IsDecl(toks)  == toks[1] \in {"local", "global"}
EndsSpan(toks) == IsEnd(toks) /\ toks[2] \notin {"if", "repeat", "switch", "try"}

SpanStep(st, i, toks) ==
    CASE st.start = 0 /\ HandlerDecl(toks) # <<>> ->
           [st EXCEPT !.start = i, !.declared = DeclNames(SubSeq(HandlerDecl(toks), 3, Len(HandlerDecl(toks))))]
      [] st.start = 0 /\ HandlerDecl(toks) = <<>> /\ IsDecl(toks) ->
           [st EXCEPT !.script = @ \cup DeclNames(Tail(toks))]
      [] st.start # 0 /\ EndsSpan(toks) ->
           [st EXCEPT !.spans = Append(@, [first |-> st.start, last |-> i, declared |-> st.declared]),
                      !.start = 0, !.declared = {}]
      [] st.start # 0 /\ IsDecl(toks) -> [st EXCEPT !.declared = @ \cup DeclNames(Tail(toks))]
      [] OTHER -> st

HandlerSpans(src) ==
    LET st == OverLines(LAMBDA s, i : SpanStep(s, i, src[i].toks),
                        [start |-> 0, declared |-> {}, script |-> {}, spans |-> <<>>], src)
    IN  [script |-> st.script,
         spans  |-> IF st.start = 0 THEN st.spans
                    ELSE Append(st.spans, [first |-> st.start, last |-> Len(src), declared |-> st.declared])]

(* slip: the frame of a catch outlives its end try *)
CatchStep_keepsFrame(st, i, toks, known) ==
    LET Read == {k \in DOMAIN st.frames : st.frames[k].var \in Words(toks)}
    IN  CASE toks[1] = "try" -> [st EXCEPT !.depth = @ + 1]
          [] StartsWith(toks, <<"end", "try">>) -> [st EXCEPT !.depth = IF @ = 0 THEN 0 ELSE @ - 1]
          [] toks[1] = "catch" ->
               [st EXCEPT !.frames =
                  IF Len(toks) >= 2 /\ st.depth > 0 /\ toks[2] \notin known
                  THEN Append(@, [var |-> toks[2], depth |-> st.depth]) ELSE @]
          [] toks[1] \notin {"try", "catch"} /\ ~StartsWith(toks, <<"end", "try">>) /\ Read # {} ->
               Report([st EXCEPT !.frames = <<>>], i, st.frames[Min(Read)].var)
          [] OTHER -> st

CatchStep(st, i, toks, known) ==
    LET Read == {k \in DOMAIN st.frames : st.frames[k].var \in Words(toks)}
    IN  CASE toks[1] = "try" -> [st EXCEPT !.depth = @ + 1]
          [] StartsWith(toks, <<"end", "try">>) ->
               [st EXCEPT !.frames = SelectSeq(@, LAMBDA f : f.depth < st.depth),
                          !.depth  = IF @ = 0 THEN 0 ELSE @ - 1]
          [] toks[1] = "catch" ->
               LET kept == SelectSeq(st.frames, LAMBDA f : f.depth # st.depth)
               IN  [st EXCEPT !.frames =
                      IF Len(toks) >= 2 /\ st.depth > 0 /\ toks[2] \notin known
                      THEN Append(kept, [var |-> toks[2], depth |-> st.depth]) ELSE kept]
          [] toks[1] \notin {"try", "catch"} /\ ~StartsWith(toks, <<"end", "try">>) /\ Read # {} ->
               LET var == st.frames[Min(Read)].var
               IN  Report([st EXCEPT !.frames = SelectSeq(@, LAMBDA f : f.var # var)], i, var)
          [] OTHER -> st

CatchDeclared(src) ==
    LET hs == HandlerSpans(src)
        Walk(span) == OverLines(LAMBDA st, i : IF i \in (span.first + 1)..span.last
                                               THEN CatchStep(st, i, src[i].toks, span.declared \cup hs.script)
                                               ELSE st,
                                [depth |-> 0, frames |-> <<>>, problems |-> {}], src).problems
    IN  UNION {Walk(hs.spans[k]) : k \in DOMAIN hs.spans}
=============================================================================
