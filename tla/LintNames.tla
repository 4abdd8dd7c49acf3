------------------------------ MODULE LintNames -----------------------------
(***************************************************************************)
(* The checks of tools/check-livecodescript.py about names: constants,     *)
(* declared names, calls and operators. A line is a record whose field     *)
(* toks is the sequence of its tokens, punctuation included; a string is   *)
(* its two quotes, written "q", with what stands between them. Names are   *)
(* the source's, each check reads them with the case it reads there.       *)
(***************************************************************************)
EXTENDS Integers, Sequences
LOCAL INSTANCE SequencesExt
LOCAL INSTANCE FiniteSetsExt

CONSTANTS
  KNames,      \* names of a k and a capital, which check 19 takes for constants
  Vocabulary   \* the engine tokens no declared name may spell

Tokens(src, i) == {src[i].toks[k] : k \in DOMAIN src[i].toks}
NameProblem(i, name) == [line |-> i, name |-> name]

-----------------------------------------------------------------------------
(* Constants are used below their declaration. Only the first name of a    *)
(* declaration line is taken for declared here.                            *)

DeclaredConstant(toks, isScript) ==
    IF Len(toks) >= 3 /\ toks[1] = "constant" /\ toks[3] = (IF isScript THEN "=" ELSE "is")
    THEN toks[2] ELSE "none"

(* slip: the last use is remembered, not the first *)
ConstantsBeforeUse_lastUse(src, isScript) ==
    LET Decls(name) == {i \in DOMAIN src : DeclaredConstant(src[i].toks, isScript) = name}
        names       == {DeclaredConstant(src[i].toks, isScript) : i \in DOMAIN src} \ {"none"}
        Uses(name)  == {i \in DOMAIN src : name \in Tokens(src, i)}
    IN  {NameProblem(Max(Uses(name)), name) : name \in {n \in names : Max(Uses(n)) < Min(Decls(n))}}

ConstantsBeforeUse(src, isScript) ==
    LET Decls(name) == {i \in DOMAIN src : DeclaredConstant(src[i].toks, isScript) = name}
        names       == {DeclaredConstant(src[i].toks, isScript) : i \in DOMAIN src} \ {"none"}
        Early(name) == {i \in 1..(Min(Decls(name)) - 1) : name \in Tokens(src, i)}
    IN  {NameProblem(Min(Early(name)), name) : name \in {n \in names : Early(n) # {}}}

(* slip: only the first name of a line is declared *)
DeclaredKNames_first(src) == {DeclaredConstant(src[i].toks, TRUE) : i \in DOMAIN src} \cap KNames

(* A k-name with no declaration in the file, reported at its first use. A  *)
(* line whose first constant is a k-name declares every `k... =` on it.    *)
DeclaredKNames(src) ==
    LET KDecl(i) == DeclaredConstant(src[i].toks, TRUE) \in KNames
    IN  UNION {{src[i].toks[k] : k \in {k \in 1..(Len(src[i].toks) - 1) :
                   src[i].toks[k] \in KNames /\ src[i].toks[k + 1] = "="}} : i \in {i \in DOMAIN src : KDecl(i)}}

UndeclaredKConstants(src) ==
    LET Uses(name) == {i \in DOMAIN src : name \in Tokens(src, i)}
    IN  {NameProblem(Min(Uses(name)), name) :
           name \in {n \in KNames \ DeclaredKNames(src) : Uses(n) # {}}}

(* `constant NAME is` in script and `constant NAME =` in LCB are refused,  *)
(* because ConstantsBeforeUse cannot see them.                             *)
WrongDialectConstant(src, isScript) ==
    {NameProblem(i, src[i].toks[2]) :
       i \in {i \in DOMAIN src : DeclaredConstant(src[i].toks, ~isScript) # "none"}}

-----------------------------------------------------------------------------
(* The parts of a declaration, split on the commas outside strings.        *)
SplitOutsideQuotes(toks, sep) ==
    LET Step(st, t) ==
          CASE t = "q" -> [st EXCEPT !.inString = ~@, !.part = Append(@, t)]
            [] t = sep /\ ~st.inString -> [st EXCEPT !.parts = Append(@, st.part), !.part = <<>>]
            [] OTHER -> [st EXCEPT !.part = Append(@, t)]
        st == FoldLeft(Step, [parts |-> <<>>, part |-> <<>>, inString |-> FALSE], toks)
    IN  Append(st.parts, st.part)

(* A quoted text without a quote in it, a number, or a literal word. *)
IsLiteral(value, Numbers) ==
    \/ /\ Len(value) >= 2 /\ Head(value) = "q" /\ Last(value) = "q"
       /\ \A k \in 2..(Len(value) - 1) : value[k] # "q"
    \/ Len(value) = 1 /\ Head(value) \in Numbers \cup {"true", "false", "empty"}

(* The parts of a constant line that give a value no literal gives. *)
NonLiteralParts(toks, Numbers) ==
    IF Len(toks) < 2 \/ toks[1] # "constant" THEN {}
    ELSE LET parts    == SplitOutsideQuotes(Tail(toks), ",")
             Equal(k) == {e \in DOMAIN parts[k] : parts[k][e] = "="}
         IN  {k \in DOMAIN parts :
                /\ Equal(k) # {}
                /\ ~IsLiteral(SubSeq(parts[k], Min(Equal(k)) + 1, Len(parts[k])), Numbers)}

ConstantValuesAreLiteral(src, Numbers) ==
    {NameProblem(i, "not a literal") : i \in {i \in DOMAIN src : NonLiteralParts(src[i].toks, Numbers) # {}}}

-----------------------------------------------------------------------------
(* The kind, name and parameters of a handler line, or <<>>. *)
HandlerLine(toks) ==
    LET Private == Len(toks) >= 2 /\ toks[1] = "private" /\ toks[2] \in {"command", "function"}
        head    == IF Private THEN Tail(toks) ELSE toks
    IN  IF Len(head) >= 2 /\ head[1] \in {"on", "command", "function", "getprop", "setprop", "before", "after"}
        THEN head ELSE <<>>

(* The names a list declares: of each part between commas the name, without *)
(* its reference mark, its initializer and its subscript.                   *)
DeclNames(toks) ==
    {toks[k] : k \in {k \in DOMAIN toks :
       /\ toks[k] \notin {",", "@", "=", "[", "]"}
       /\ k = 1 \/ toks[k - 1] \in {",", "@"}
       /\ k = Len(toks) \/ toks[k + 1] \in {",", "=", "["}}}

(* A local or a parameter that is an engine token. *)
DeclaredNameTokens(src) ==
    LET Declared(i) ==
          CASE Len(src[i].toks) >= 1 /\ src[i].toks[1] = "local" -> DeclNames(Tail(src[i].toks))
            [] HandlerLine(src[i].toks) # <<>> -> DeclNames(SubSeq(HandlerLine(src[i].toks), 3, Len(HandlerLine(src[i].toks))))
            [] OTHER -> {}
    IN  UNION {{NameProblem(i, name) : name \in Declared(i) \cap Vocabulary} : i \in DOMAIN src}

(* slip: a name that functions have as well *)
CommandParenCalls_anyCommand(src) ==
    LET suspect == {HandlerLine(src[i].toks)[2] :
                     i \in {i \in DOMAIN src : HandlerLine(src[i].toks) # <<>> /\ HandlerLine(src[i].toks)[1] \in {"command", "on"}}}
        Inside(toks) == {k \in 2..(Len(toks) - 1) :
                           toks[k] \in suspect /\ toks[k + 1] = "(" /\ toks[k - 1] \notin {"then", "else"}}
    IN  UNION {{NameProblem(i, src[i].toks[k]) : k \in Inside(src[i].toks)} :
                 i \in {i \in DOMAIN src : HandlerLine(src[i].toks) = <<>>}}

(* A command called as a function inside an expression: a name that only   *)
(* commands have, before a paren, with a word before it that is neither    *)
(* then nor else. Handler lines are not looked at.                         *)
CommandParenCalls(src) ==
    LET Named(kinds) == {HandlerLine(src[i].toks)[2] :
                          i \in {i \in DOMAIN src : HandlerLine(src[i].toks) # <<>> /\ HandlerLine(src[i].toks)[1] \in kinds}}
        suspect      == Named({"command", "on"}) \ Named({"function"})
        Inside(toks) == {k \in 2..(Len(toks) - 1) :
                           toks[k] \in suspect /\ toks[k + 1] = "(" /\ toks[k - 1] \notin {"then", "else"}}
    IN  UNION {{NameProblem(i, src[i].toks[k]) : k \in Inside(src[i].toks)} :
                 i \in {i \in DOMAIN src : HandlerLine(src[i].toks) = <<>>}}

(* slip: the line before is not looked at *)
ZeroArgStatementCalls_alone(src) ==
    {i \in DOMAIN src : Len(src[i].toks) = 3 /\ SubSeq(src[i].toks, 2, 3) = <<"(", ")">> /\ ~src[i].continued}

(* A call `name()` that is a whole physical line and does not continue the *)
(* line before it.                                                         *)
ZeroArgStatementCalls(src) ==
    {i \in DOMAIN src :
       /\ Len(src[i].toks) = 3 /\ SubSeq(src[i].toks, 2, 3) = <<"(", ")">>
       /\ ~src[i].continued
       /\ (i > 1 => ~src[i - 1].continued)}

-----------------------------------------------------------------------------
(* A bitwise operator written as a call with a comma of its own: the walk  *)
(* from its paren ends at the paren that closes it, or at the comma.       *)
Bitwise == {"bitxor", "bitand", "bitor", "bitnot"}

ArgComma(toks, p) ==
    LET Step(st, t) ==
          CASE st.done -> st
            [] ~st.done /\ t = "(" -> [st EXCEPT !.depth = @ + 1]
            [] ~st.done /\ t = ")" -> [st EXCEPT !.depth = @ - 1, !.done = st.depth = 1]
            [] ~st.done /\ t = "," /\ st.depth = 1 -> [st EXCEPT !.done = TRUE, !.comma = TRUE]
            [] OTHER -> st
    IN  FoldLeft(Step, [depth |-> 0, done |-> FALSE, comma |-> FALSE], SubSeq(toks, p, Len(toks))).comma

BitwiseFunctionCalls(toks) ==
    {k \in 1..(Len(toks) - 1) : toks[k] \in Bitwise /\ toks[k + 1] = "(" /\ ArgComma(toks, k + 1)}
=============================================================================
