----------------------------- MODULE LintCompare ----------------------------
(***************************************************************************)
(* Check 23 of tools/check-livecodescript.py: a hex value that meets a     *)
(* bare comparison. A line is a sequence of tokens, a string literal being *)
(* one token. What the code reads off the spelling of a token, the suffix  *)
(* of a name or the characters of a literal, is given here by constants.   *)
(***************************************************************************)
EXTENDS LintNames, FiniteSets
LOCAL INSTANCE SequencesExt
LOCAL INSTANCE FiniteSetsExt

CONSTANTS
  HexNames,    \* names and literal keys that end in a hex suffix
  EqualNames,  \* those that end in one under equality only
  HexArrays,   \* array names that end in one less their array marker or plural
  HexCalls,    \* functions whose name ends in Hex
  Literals,    \* the string literals
  FirstText,   \* literals that start as no number does
  AnyText,     \* literals with a character no number-like text holds
  Digits       \* the number tokens

Punctuation == {"(", ")", "[", "]", ",", "&", "&&", "=", "<>", "<", ">", "<=", ">=", "+", "-", "*", "/", "^"}
IsWord(t)   == t \notin Punctuation \cup Literals \cup Digits

Ordering  == {"<", ">", "<=", ">="}
LeftStop  == {"if", "then", "else", "and", "or", "not", "return", "put", "get", "into", "after", "before",
              "while", "until", "case", "switch", "set", "with", "is", "contains", "among", "exit", "pass",
              "answer", "throw", "do", "send", "dispatch", "wait", "=", "<>", ","} \cup Ordering
RightStop == {"then", "else", "and", "or", "into", "after", "before", "is", "contains", "with", "for", "from",
              "=", "<>", ","} \cup Ordering
Chunk     == {"char", "chars", "byte", "word", "item", "line", "token", "element"}
Ordinal   == {"first", "second", "third", "last", "middle", "any"}
ExprStart == Chunk \cup Ordinal \cup {"the", "not", "there", "number", "length", "value", "it", "me", "empty", "true", "false"}
NumericFns == {"length", "abs", "round", "trunc", "max", "min", "sum", "random", "offset"}
CaseFns    == {"tolower", "toupper"}
SafeTokens == {"empty", "true", "false", "quote", "space", "tab", "return", "cr", "lf", "comma", "null"}
TypeWords  == {"a", "an", "in", "among", "within"}

Openers == {"(", "["}
Closers == {")", "]"}
Count(toks, S, from, to) == Cardinality({k \in from..to : toks[k] \in S})

-----------------------------------------------------------------------------
(* The comparison operators of a line, with the first token of each and    *)
(* the first after it. A type test and a containment are none.             *)
TokenAt(toks, i) == IF i \in DOMAIN toks THEN toks[i] ELSE ""

(* slip: an operand of `is not` starts one token too late *)
FindOperators_late(toks) ==
    LET IsIs(i) == toks[i] = "is" /\ TokenAt(toks, i - 1) # "there"
        Double  == {i \in DOMAIN toks : IsIs(i) /\ TokenAt(toks, i + 1) = "not" /\ TokenAt(toks, i + 2) \notin TypeWords}
    IN  {[start |-> i, after |-> i + 1, op |-> toks[i]] :
           i \in {i \in DOMAIN toks \ Double : toks[i] \in {"=", "<>"} \cup Ordering \/ IsIs(i)}}
          \cup {[start |-> i, after |-> i + 3, op |-> "is not"] : i \in Double}

FindOperators(toks) ==
    LET IsIs(i)    == toks[i] = "is" /\ TokenAt(toks, i - 1) # "there"
        Negated(i) == TokenAt(toks, i + 1) = "not"
        Single     == {i \in DOMAIN toks : toks[i] \in {"=", "<>"} \cup Ordering
                                           \/ (IsIs(i) /\ TokenAt(toks, i + 1) \notin TypeWords \cup {"not"})}
        Double     == {i \in DOMAIN toks : IsIs(i) /\ Negated(i) /\ TokenAt(toks, i + 2) \notin TypeWords}
    IN  {[start |-> i, after |-> i + 1, op |-> toks[i]] : i \in Single}
          \cup {[start |-> i, after |-> i + 2, op |-> "is not"] : i \in Double}

(* Walking left from j, the paren depth at k: a group is one atom. *)
DepthLeft(toks, k, j)  == Count(toks, Closers, k + 1, j - 1) - Count(toks, Openers, k + 1, j - 1)
DepthRight(toks, k, j) == Count(toks, Openers, j, k - 1) - Count(toks, Closers, j, k - 1)

ToIsChunkRange(toks, j) ==
    LET Ends(k) == DepthLeft(toks, k, j) = 0
                   /\ toks[k] \in Openers \cup Chunk \cup LeftStop \cup {"to", "in", "of"}
        ends    == {k \in 1..(j - 1) : Ends(k)}
    IN  ends # {} /\ toks[Max(ends)] \in Chunk

(* slip: every `to` ends the operand *)
EndsLeft_to(toks, j) == toks[j] \in LeftStop \cup {"to"} \/ (toks[j] = "in" /\ TokenAt(toks, j - 1) \notin Chunk)

(* `in` and `to` also live inside a chunk, where they end nothing. *)
EndsLeft(toks, j) ==
    CASE toks[j] = "in" -> TokenAt(toks, j - 1) \notin Chunk
      [] toks[j] = "to" -> ~ToIsChunkRange(toks, j)
      [] OTHER -> toks[j] \in LeftStop

(* A command name before its first argument is no part of the operand. *)
WithoutCommand(out) ==
    IF /\ Len(out) >= 2 /\ IsWord(out[1]) /\ out[1] \notin ExprStart
       /\ out[2] \in Literals \cup Digits \/ IsWord(out[2])
       /\ out[2] \notin {"of", "in", "to", "div", "mod"}
    THEN Tail(out) ELSE out

LeftOperand(toks, start) ==
    LET stops == {j \in 1..(start - 1) : /\ DepthLeft(toks, j, start) = 0
                                         /\ toks[j] \in Openers \/ (toks[j] \notin Closers /\ EndsLeft(toks, j))}
    IN  WithoutCommand(SubSeq(toks, Max(stops \cup {0}) + 1, start - 1))

RightOperand(toks, after) ==
    LET EndsRight(j) == IF toks[j] \in {"to", "in"}
                        THEN j = after \/ toks[after] \notin Chunk \cup Ordinal \cup {"the"}
                        ELSE toks[j] \in RightStop
        stops == {j \in after..Len(toks) : /\ DepthRight(toks, j, after) = 0
                                           /\ toks[j] \in Closers \/ (toks[j] \notin Openers /\ EndsRight(j))}
    IN  SubSeq(toks, after, Min(stops \cup {Len(toks) + 1}) - 1)

-----------------------------------------------------------------------------
(* The parts of an operand between the separators outside parens.          *)
CmpSplit(toks, seps) ==
    LET Step(st, t) ==
          LET depth == st.depth + (IF t \in Openers THEN 1 ELSE IF t \in Closers THEN -1 ELSE 0)
          IN  IF depth = 0 /\ t \in seps
              THEN [st EXCEPT !.parts = Append(@, st.part), !.part = <<>>, !.depth = depth]
              ELSE [st EXCEPT !.part = Append(@, t), !.depth = depth]
        st == FoldLeft(Step, [parts |-> <<>>, part |-> <<>>, depth |-> 0], toks)
    IN  Append(st.parts, st.part)

(* `(a) & (b)` starts and ends with parens that are not a pair. *)
OuterParens(toks) ==
    /\ Len(toks) >= 2 /\ toks[1] = "(" /\ Last(toks) = ")"
    /\ ~ \E i \in 2..(Len(toks) - 1) : toks[i] = ")" /\ Count(toks, {"("}, 1, i) = Count(toks, {")"}, 1, i)

RECURSIVE StripParens(_)
StripParens(toks) == IF OuterParens(toks) THEN StripParens(SubSeq(toks, 2, Len(toks) - 1)) ELSE toks

IsHexName(name, equality) == name \in HexNames \/ (equality /\ name \in EqualNames)

(* The subscripts of an element, `a[i][j]`. *)
Subscripts(toks) ==
    LET Step(st, t) ==
          CASE t = "[" -> [st EXCEPT !.depth = @ + 1, !.cur = IF st.depth = 0 THEN <<>> ELSE Append(@, t)]
            [] t = "]" /\ st.depth = 1 -> [st EXCEPT !.depth = 0, !.subs = Append(@, st.cur)]
            [] OTHER -> [st EXCEPT !.cur = Append(@, t), !.depth = IF t = "]" THEN @ - 1 ELSE @]
    IN  FoldLeft(Step, [depth |-> 0, cur |-> <<>>, subs |-> <<>>], Tail(toks)).subs

ElementKind(toks, equality) ==
    LET subs == Subscripts(toks)
        hex  == CASE subs = <<>> -> IsHexName(toks[1], equality)
                  [] subs # <<>> /\ Len(Last(subs)) = 1 /\ Last(subs)[1] \in Literals -> IsHexName(Last(subs)[1], equality)
                  [] OTHER -> toks[1] \in HexArrays \/ IsHexName(toks[1], equality)
    IN  IF hex THEN "hex" ELSE "opaque"

(* Where the chunk word of `char ..`, `last char ..`, `the last char ..` is. *)
ChunkWord(toks) ==
    CASE toks[1] = "the" /\ Len(toks) > 2 /\ toks[2] \in Ordinal -> 3
      [] toks[1] \in Ordinal /\ Len(toks) > 1 -> 2
      [] OTHER -> 1

TopLevel(toks, i) == Count(toks, Openers, 1, i) = Count(toks, Closers, 1, i)

(* slip: a sum inside parens counts *)
IsArithmetic_anyDepth(toks) ==
    \E i \in DOMAIN toks : toks[i] \in {"+", "*", "/", "^", "div", "mod"} \/ (toks[i] = "-" /\ i > 1)

IsArithmetic(toks) ==
    \E i \in DOMAIN toks : /\ TopLevel(toks, i) /\ toks[i] \notin Openers \cup Closers
                           /\ toks[i] \in {"+", "*", "/", "^", "div", "mod"} \/ (toks[i] = "-" /\ i > 1)

IsCall(toks) == Len(toks) >= 3 /\ IsWord(toks[1]) /\ toks[2] = "(" /\ OuterParens(Tail(toks))

(* slip: only the first piece is looked at *)
TextPrefixed_first(pieces) == Len(pieces[1]) = 1 /\ pieces[1][1] \in FirstText

(* Joined with a literal that keeps the whole off the number path: the     *)
(* first piece starts as no number does, or some piece holds a character   *)
(* no number-like text holds.                                              *)
TextPrefixed(pieces) ==
    \E n \in DOMAIN pieces : /\ Len(pieces[n]) = 1 /\ pieces[n][1] \in Literals
                             /\ pieces[n][1] \in AnyText \/ (n = 1 /\ pieces[n][1] \in FirstText)

(* hex by name, safe (never on the number path as a name), or opaque. *)
RECURSIVE OperandKind(_, _, _)
OperandKind(operand, consts, equality) ==
    LET toks   == StripParens(operand)
        pieces == CmpSplit(toks, {"&", "&&"})
        kinds  == {OperandKind(pieces[n], consts, equality) : n \in DOMAIN pieces}
        Of     == {i \in DOMAIN toks : TopLevel(toks, i) /\ toks[i] \in {"of", "in"}}
        args   == CmpSplit(SubSeq(toks, 3, Len(toks) - 1), {","})
    IN  IF toks = <<>> \/ toks[1] \in {"-", "+"} THEN "safe"
        ELSE IF Len(toks) = 1 /\ toks[1] \in Literals \cup Digits \cup SafeTokens \cup consts \cup KNames THEN "safe"
        ELSE IF Len(pieces) > 1
             THEN IF TextPrefixed(pieces) THEN "safe"
                  ELSE IF "hex" \in kinds THEN "hex"
                  ELSE IF kinds = {"safe"} THEN "safe" ELSE "opaque"
        ELSE IF toks[1] = "number" \/ (toks[1] = "the" /\ TokenAt(toks, 2) \in {"number", "length"}) THEN "safe"
        ELSE IF toks[ChunkWord(toks)] \in Chunk
             THEN IF Of = {} THEN "opaque"
                  ELSE OperandKind(SubSeq(toks, Max(Of) + 1, Len(toks)), consts, equality)
        ELSE IF IsArithmetic(toks) THEN "safe"
        ELSE IF IsCall(toks)
             THEN IF toks[1] \in NumericFns THEN "safe"
                  ELSE IF toks[1] \in CaseFns
                       THEN IF Len(args) = 1 THEN OperandKind(args[1], consts, equality) ELSE "opaque"
                  ELSE IF toks[1] \in HexCalls \/ (equality /\ toks[1] \in EqualNames) THEN "hex" ELSE "opaque"
        ELSE IF IsWord(toks[1]) /\ TokenAt(toks, 2) \in {"", "["} THEN ElementKind(toks, equality)
        ELSE "opaque"

(* The names a file declares with constant. *)
ConstNames(src) ==
    LET parts(i) == SplitOutsideQuotes(Tail(src[i].toks), ",")
        named(i) == {k \in DOMAIN parts(i) : \E e \in DOMAIN parts(i)[k] : parts(i)[k][e] = "="}
    IN  UNION {{parts(i)[k][1] : k \in named(i)} : i \in {i \in DOMAIN src : Len(src[i].toks) > 1 /\ src[i].toks[1] = "constant"}}

(* `=` assigns in these lines, it compares in the others. *)
Assigns(toks) == TokenAt(toks, 1) \in {"constant", "local", "global"}
                 \/ (TokenAt(toks, 1) = "repeat" /\ TokenAt(toks, 2) = "with")

HexBareCompare(toks, consts) ==
    IF Assigns(toks) THEN {}
    ELSE {o \in FindOperators(toks) :
            LET equality == o.op \notin Ordering
                kinds    == {OperandKind(LeftOperand(toks, o.start), consts, equality),
                             OperandKind(RightOperand(toks, o.after), consts, equality)}
            IN  "hex" \in kinds /\ "safe" \notin kinds}

CheckHexBareCompare(src) ==
    UNION {{NameProblem(i, o.op) : o \in HexBareCompare(src[i].toks, ConstNames(src))} : i \in DOMAIN src}
=============================================================================
