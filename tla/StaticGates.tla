----------------------------- MODULE StaticGates ----------------------------
(***************************************************************************)
(* The linter, check_file of tools/check-livecodescript.py, over a source  *)
(* that is written one element at a time, held against what the language   *)
(* says of the source.                                                     *)
(*                                                                         *)
(* A topic is a set of elements that some checks are about: the characters *)
(* of a text or the lines of a source.                                     *)
(* A line is its tokens with what it is in the language: opens and closes  *)
(* name the kind of block it opens or closes, role says what else it is.   *)
(* The checks read the tokens and never these fields; the definitions      *)
(* under "the language" read the fields and never the tokens.              *)
(***************************************************************************)
EXTENDS LintLines, LintBlocks, FiniteSets
LOCAL INSTANCE SequencesExt

CONSTANTS
  Topics,      \* the topics
  Lines,       \* topic -> the elements a source may be given
  Heads,       \* topic -> the sources it starts with
  MaxLines,    \* topic -> the longest source
  Builder,     \* the topics written in LiveCode Builder
  Texts,       \* the topics whose elements are characters
  Numbers      \* the tokens that are numbers

(* What a source of a topic may hold. *)
Elements(t) == Lines[t] \cup UNION {{s[i] : i \in DOMAIN s} : s \in Heads[t]}

ASSUME StaticGatesAssumption ==
  /\ DOMAIN Lines = Topics /\ DOMAIN Heads = Topics
  /\ MaxLines \in [Topics -> Nat]
  /\ Builder \cup Texts \subseteq Topics
  /\ \A t \in Topics : Heads[t] \subseteq Seq(Elements(t))

VARIABLES topic, src
vars == <<topic, src>>

isScript == topic \notin Builder

Tagged(check, problems) == {[check |-> check, problem |-> p] : p \in problems}

BitwiseCalls(s) == UNION {{NameProblem(i, k) : k \in BitwiseFunctionCalls(s[i].toks)} : i \in DOMAIN s}

BareCalls(s) == {NameProblem(i, "()") : i \in ZeroArgStatementCalls(s)}

ScriptProblems(s) ==
  Tagged("hostile",     EngineHostile(s))          \cup Tagged("zero-arg",    BareCalls(s)) \cup
  Tagged("blocks",      LcsBlocks(s))              \cup Tagged("antipattern", WrongDialectConstant(s, TRUE)) \cup
  Tagged("bitwise",     BitwiseCalls(s))           \cup Tagged("token",       DeclaredNameTokens(s)) \cup
  Tagged("catch",       CatchDeclared(s))          \cup Tagged("command",     CommandParenCalls(s)) \cup
  Tagged("undeclared",  UndeclaredKConstants(s))   \cup Tagged("dangling",    DanglingElse(s)) \cup
  Tagged("before-use",  ConstantsBeforeUse(s, TRUE)) \cup Tagged("literal",   ConstantValuesAreLiteral(s, Numbers))

BuilderProblems(s) ==
  Tagged("module",      LcbModule(s))              \cup Tagged("blocks",      LcbBlocks(s)) \cup
  Tagged("antipattern", WrongDialectConstant(s, FALSE)) \cup
  Tagged("before-use",  ConstantsBeforeUse(s, FALSE))   \cup Tagged("declarations", DeclarationsAtTop(s))

CheckFile(s, script) == IF script THEN ScriptProblems(s) ELSE BuilderProblems(s)

(* Only the topics of lines have blocks. *)
OfLines == topic \notin Texts

BlockProblems == IF isScript THEN LcsBlocks(src) ELSE LcbBlocks(src)
LinesOf(problems) == {p.line : p \in problems}

(* A topic, a source, and complaints that are about lines of it. *)
TypeOK ==
  /\ topic \in Topics /\ src \in Seq(Elements(topic)) /\ Len(src) <= MaxLines[topic]
  /\ OfLines => \A x \in CheckFile(src, isScript) : x.problem.line \in DOMAIN src

Init == topic \in Topics /\ src \in Heads[topic]

Write ==
  /\ Len(src) < MaxLines[topic]
  /\ \E l \in Lines[topic] : src' = Append(src, l)
  /\ UNCHANGED topic

Spec == Init /\ [][Write]_vars

-----------------------------------------------------------------------------
(* The language. A stretch of lines is balanced when every opener in it    *)
(* has a closer of its kind after it with a balanced stretch between them. *)

Balanced(s, Opens(_), Closes(_), from, to) ==
  LET bal[i \in from..(to + 1), j \in (from - 1)..to] ==
        \/ i > j
        \/ Opens(i) = "" /\ Closes(i) = "" /\ bal[i + 1, j]
        \/ /\ Opens(i) # ""
           /\ \E k \in (i + 1)..j : /\ Closes(k) = Opens(i)
                                    /\ bal[i + 1, k - 1]
                                    /\ bal[k + 1, j]
  IN  bal[from, to]

Opens(i)  == src[i].opens
Closes(i) == src[i].closes

Stretch(from, to) == Balanced(src, Opens, Closes, from, to)

(* Lines can be added after it that make the source balanced: some openers *)
(* are still open, and what stands between them is balanced.               *)
Viable(n) ==
  LET via[i \in 1..(n + 1)] ==
        \/ i > n
        \/ Opens(i) # "" /\ via[i + 1]
        \/ \E k \in i..n : Stretch(i, k) /\ via[k + 1]
  IN  via[1]

(* Of the blocks of a balanced source, the one from o to e. *)
Block(o, e) == o < e /\ Opens(o) # "" /\ Closes(e) = Opens(o) /\ Stretch(o + 1, e - 1)

(* Line i stands in the part that the catch at line c opens. *)
InCatchOf(i, c) ==
  \E o \in 1..(c - 1), e \in (i + 1)..Len(src) :
     /\ c < i /\ Opens(o) = "try" /\ Block(o, e) /\ Stretch(o + 1, c - 1)
     /\ ~ \E d \in (c + 1)..(i - 1) : src[d].role = "catch" /\ Stretch(c + 1, d - 1)

Handler(o, e) == Opens(o) = "handler" /\ Block(o, e)

(* No handler stands in a handler. *)
Flat == \A o, e \in DOMAIN src : Handler(o, e) => \A k \in (o + 1)..e : Opens(k) # "handler"

(* The catch variable is declared for the handler from o to e: by a        *)
(* parameter, by a declaration anywhere in it, or outside every handler.   *)
DeclaredIn(o, e) ==
  \/ src[o].role = "param"
  \/ \E d \in (o + 1)..(e - 1) : src[d].role = "local"
  \/ \E d \in DOMAIN src : src[d].role = "local" /\ ~ \E p, q \in DOMAIN src : Handler(p, q) /\ d \in p..q

RealCatchReads ==
  {i \in DOMAIN src : src[i].role = "read" /\
     \E c, o, e \in DOMAIN src : /\ src[c].role = "catch" /\ InCatchOf(i, c)
                                 /\ Handler(o, e) /\ o < c /\ i < e /\ ~DeclaredIn(o, e)}

(* How the engine reads an else: one that stands alone under a single-line *)
(* if belongs to it, and opens a block that an end if closes.              *)
EngineOpens(i) ==
  LET above == {k \in 1..(i - 1) : src[k].role # "blank"}
      last  == CHOOSE k \in above : \A j \in above : j <= k
  IN  IF src[i].role = "else" /\ above # {} /\ src[last].role = "if1" THEN "if" ELSE Opens(i)

EngineAccepts == Balanced(src, EngineOpens, Closes, 1, Len(src))

(* A text is a string of tokens: a block comment up to its end mark, over  *)
(* lines; a string up to its quote and a line comment, both at most to the *)
(* end of the line; or one character. Continuations are gone.              *)
Text == LET merged == MergeContinuations(SplitLines([i \in DOMAIN src |-> src[i].ch]))
        IN  FoldLeft(LAMBDA t, k : IF k = 1 THEN merged[k].text ELSE t \o <<"nl">> \o merged[k].text,
                     <<>>, [k \in DOMAIN merged |-> k])

At(t, p, mark) == p + Len(mark) - 1 <= Len(t) /\ SubSeq(t, p, p + Len(mark) - 1) = mark
Least(S, otherwise) == IF S = {} THEN otherwise ELSE CHOOSE x \in S : \A y \in S : x <= y

TokenKind(t, p) ==
  CASE At(t, p, <<"/", "*">>) -> "block"
    [] At(t, p, <<"q">>) -> "string"
    [] At(t, p, <<"-", "-">>) \/ (isScript /\ (At(t, p, <<"#">>) \/ At(t, p, <<"/", "/">>))) -> "comment"
    [] OTHER -> "code"

LineEnd(t, p) == Least({k \in p..Len(t) : t[k] = "nl"}, Len(t) + 1) - 1

TokenEnd(t, p) ==
  CASE TokenKind(t, p) = "block"   -> Least({k \in (p + 3)..Len(t) : SubSeq(t, k - 1, k) = <<"*", "/">>}, Len(t))
    [] TokenKind(t, p) = "string"  -> Least({k \in (p + 1)..LineEnd(t, p) : t[k] = "q"}, LineEnd(t, p))
    [] TokenKind(t, p) = "comment" -> LineEnd(t, p)
    [] OTHER -> p

(* What of a token is left: code as it is, a string with its contents      *)
(* blanked, of a comment the line ends.                                    *)
Left(t, p, e) ==
  LET part == SubSeq(t, p, e)
  IN  CASE TokenKind(t, p) = "code"   -> part
        [] TokenKind(t, p) = "string" -> [k \in DOMAIN part |-> IF part[k] = "q" THEN "q" ELSE "blank"]
        [] OTHER -> SelectSeq(part, LAMBDA c : c = "nl")

CodeOf(t) ==
  LET from[p \in 1..(Len(t) + 1)] ==
        IF p > Len(t) THEN <<>> ELSE Left(t, p, TokenEnd(t, p)) \o from[TokenEnd(t, p) + 1]
  IN  from[1]

Unterminated(t) ==
  LET open[p \in 1..(Len(t) + 1)] ==
        IF p > Len(t) THEN {}
        ELSE LET e    == TokenEnd(t, p)
                 kind == TokenKind(t, p)
             IN  open[e + 1] \cup (IF (kind = "string" /\ (e = p \/ t[e] # "q"))
                                     \/ (kind = "block" /\ ~(e >= p + 3 /\ SubSeq(t, e - 1, e) = <<"*", "/">>))
                                   THEN {kind} ELSE {})
  IN  open[1]

-----------------------------------------------------------------------------
(* A source draws no complaint about blocks exactly when it is balanced:   *)
(* check_livecodescript_blocks and check_lcb_blocks pop on a mismatch and  *)
(* classify openers by their first words.                                  *)
BlocksExact == OfLines => (BlockProblems = {} <=> Stretch(1, Len(src)))

(* The first closer that check complains about is the first line at which  *)
(* the source stops being repairable by lines after it, although the check *)
(* pops the wrong block and goes on.                                       *)
FirstComplaintExact ==
  OfLines =>
  LET wrong == {p.line : p \in {p \in BlockProblems : p.what # "never closed"}}
      dead  == {n \in DOMAIN src : ~Viable(n)}
  IN  /\ wrong = {} <=> dead = {}
      /\ wrong # {} => \E n \in wrong \cap dead : \A k \in wrong \cup dead : n <= k

(* What is never closed is what has no closer: with no other complaint the *)
(* check names exactly the openers no block of the source starts at.       *)
UnclosedExact ==
  OfLines /\ (\A p \in BlockProblems : p.what = "never closed")
     => LinesOf(BlockProblems) = {o \in DOMAIN src : Opens(o) # "" /\ ~ \E e \in DOMAIN src : Block(o, e)}

(* Block balance alone cannot see an else that the engine binds to the     *)
(* single-line if above it; with the dangling-else check, a script without *)
(* complaints is one the engine reads as balanced, blank lines or not.     *)
EngineAgrees == topic = "script" /\ CheckFile(src, TRUE) = {} => EngineAccepts

(* In a .lcb without block complaints, exactly the variables below the     *)
(* first statement of their handler are reported: blocks inside a handler, *)
(* foreign handlers and lines between handlers do not confuse the check.   *)
LateDeclarations ==
  topic = "builder" /\ BlockProblems = {} /\ Flat
    => LinesOf(DeclarationsAtTop(src)) =
         {i \in DOMAIN src : src[i].role = "variable" /\
            \E o, e \in DOMAIN src : Handler(o, e) /\ i \in o..e /\
               \E k \in (o + 1)..(i - 1) : src[k].role # "variable"}

(* A throw that begins its line in a catch part is never missed, however   *)
(* tries nest. What is reported besides stands below a catch of a try      *)
(* around it; a throw behind the `if` on its line is not seen (1026).      *)
ThrowsInCatchFound ==
  topic = "throw" /\ Stretch(1, Len(src))
    => LET reported == LinesOf(EngineHostile(src))
           catches  == {c \in DOMAIN src : src[c].role = "catch"}
           throws   == {i \in DOMAIN src : src[i].role = "throw"}
       IN  /\ {i \in throws : \E c \in catches : InCatchOf(i, c)} \subseteq reported
           /\ reported = {i \in throws : \E o, e \in DOMAIN src :
                                          Block(o, e) /\ i \in o..e /\ \E c \in catches : c \in o..i}

(* In a balanced source every report is a read of an undeclared catch      *)
(* variable in its own catch part, and a source with such a read is        *)
(* reported at the first one, wherever the declarations stand.             *)
CatchReadsExact ==
  topic = "catch" /\ Stretch(1, Len(src)) /\ Flat
    => /\ LinesOf(CatchDeclared(src)) \subseteq RealCatchReads
       /\ \A i \in RealCatchReads :
            (\A j \in RealCatchReads : i <= j) => i \in LinesOf(CatchDeclared(src))

(* The checks on constants together: a script on which they all are silent *)
(* uses no k-constant above or without its declaration. The before-use     *)
(* check takes the first name of a declaration line only (637), so of a    *)
(* line that declares two constants the second may be used too early.      *)
SecondNames ==
  UNION {src[d].names \ {src[d].toks[2]} : d \in {i \in DOMAIN src : src[i].role = "two"}}

ConstantsSound ==
  topic = "constants"
    /\ (\A x \in CheckFile(src, isScript) : x.check \notin {"before-use", "undeclared", "antipattern"})
    => \A i \in DOMAIN src : \A k \in (src[i].names \cap KNames) \ SecondNames :
         src[i].role = "use"
           => \E d \in 1..(i - 1) : src[d].role \in {"decl", "two"} /\ k \in src[d].names

(* And they do not cry wolf: a script that declares no name twice and in   *)
(* which every use stands below a declaration of its name draws no         *)
(* complaint, declaration lines of two constants included.                 *)
ConstantsQuiet ==
  topic = "constants" /\ (\A i \in DOMAIN src : src[i].role # "foreign")
    /\ (\A i, j \in DOMAIN src : i # j /\ src[i].role # "use" /\ src[j].role # "use"
          => src[i].names \cap src[j].names = {})
    /\ (\A i \in DOMAIN src : \A k \in src[i].names :
          src[i].role = "use" => \E d \in 1..(i - 1) : src[d].role \in {"decl", "two"} /\ k \in src[d].names)
    => \A x \in CheckFile(src, TRUE) : x.check \notin {"before-use", "undeclared", "antipattern"}

(* A call is reported exactly when it stands inside an expression and the  *)
(* file has a command of that name and no function of it, above or below.  *)
CommandCallsExact ==
  topic = "calls" =>
    LinesOf(CommandParenCalls(src)) =
      {i \in DOMAIN src : /\ src[i].role = "expression"
                          /\ \E d \in DOMAIN src : src[d].role = "command"
                          /\ ~ \E d \in DOMAIN src : src[d].role = "function"}

(* A continuation hides what the line before it holds, and nothing else: a *)
(* bare f() is reported exactly when it starts a statement.                *)
BareCallsExact ==
  topic = "calls" =>
    ZeroArgStatementCalls(src) = {i \in DOMAIN src : src[i].role = "bare" /\ (i = 1 \/ ~src[i - 1].continued)}

(* The cleaned lines are the text without its comments and with its        *)
(* strings blanked, and a string or a comment is called unterminated       *)
(* exactly when it is: marks inside strings, comments and each other,      *)
(* comments that end in a backslash, and blocks over lines included. So a  *)
(* stray backslash is one in code, never in a string or a comment.         *)
CleanedIsTheCode ==
  topic \in Texts =>
    LET result == CleanLogicalLines([i \in DOMAIN src |-> src[i].ch], isScript, FALSE)
        joined == FoldLeft(LAMBDA t, k : IF k = 1 THEN result.cleaned[k].text
                                         ELSE t \o <<"nl">> \o result.cleaned[k].text,
                           <<>>, [k \in DOMAIN result.cleaned |-> k])
        said   == {p.what : p \in result.problems}
    IN  /\ joined = CodeOf(Text)
        /\ "unterminated string" \in said <=> "string" \in Unterminated(Text)
        /\ "unterminated block comment" \in said <=> "block" \in Unterminated(Text)
        /\ StrayBackslash(result.cleaned) = {} <=> "bs" \notin Words(CodeOf(Text))

(* A cleaned line carries the number of the physical line it starts on:    *)
(* with no line that ends in two backslashes, every line that does not     *)
(* follow a backslash starts one, and no other.                            *)
LineNumbersExact ==
  topic \in Texts =>
    LET raw     == SplitLines([i \in DOMAIN src |-> src[i].ch])
        cleaned == CleanLogicalLines([i \in DOMAIN src |-> src[i].ch], isScript, FALSE).cleaned
        Twice(i) == Len(raw[i]) >= 2 /\ SubSeq(raw[i], Len(raw[i]) - 1, Len(raw[i])) = <<"bs", "bs">>
    IN  (\A i \in DOMAIN raw : ~Twice(i))
          => {cleaned[k].first : k \in DOMAIN cleaned} = {i \in DOMAIN raw : i = 1 \/ ~EndsInBackslash(raw[i - 1])}

-----------------------------------------------------------------------------
(* What the checks read is the code, on the lines it stands on: without    *)
(* that every check after it would look at the wrong text.                 *)
ScannerExact == CleanedIsTheCode /\ LineNumbersExact

(* The checks on blocks together say of a source what the language says.   *)
BlocksAgree == TypeOK /\ BlocksExact /\ FirstComplaintExact /\ UnclosedExact /\ EngineAgrees

(* The checks on where a statement stands in its handler, each with its    *)
(* own frame stack, agree with the blocks the handler really has.          *)
HandlersAgree == LateDeclarations /\ ThrowsInCatchFound /\ CatchReadsExact

(* The checks on names report what is used above, without or against its   *)
(* declaration, and nothing else.                                          *)
NamesAgree == ConstantsSound /\ ConstantsQuiet /\ CommandCallsExact /\ BareCallsExact
=============================================================================
