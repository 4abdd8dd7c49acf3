----------------------------- MODULE Comparison -----------------------------
(***************************************************************************)
(* A line with one comparison, written operand by operand, and what check  *)
(* 23 of tools/check-livecodescript.py makes of it. An operand is a tree;  *)
(* LintCompare sees only the tokens the tree is written as. What the tree  *)
(* can hold says what the check ought to find.                             *)
(***************************************************************************)
EXTENDS LintCompare

CONSTANTS
  Atoms,       \* the operands a line starts with, as trees
  Partners,    \* the operands that stay on the other side
  Pieces,      \* the operands joined to the growing one
  Frames,      \* what stands around the comparison: [before, after] tokens
  Operators,   \* the comparison operators
  Depth,       \* how often an operand grows
  Consts       \* the names the file declares with constant

ASSUME ComparisonAssumption ==
  Depth \in Nat /\ FirstText \cup AnyText \subseteq Literals /\ Literals \cap Digits = {}

VARIABLES operand, partner, growsLeft, op, frame, depth
vars == <<operand, partner, growsLeft, op, frame, depth>>

-----------------------------------------------------------------------------
(* Trees: an atom, an element, a group, a chunk, a call, a join and a sum. *)
Atom(t)        == [t |-> "atom", atom |-> t]
Elem(n, key)   == [t |-> "elem", name |-> n, key |-> key]
Group(e)       == [t |-> "group", arg |-> e]
Sliced(r, e)   == [t |-> "chunk", range |-> r, arg |-> e]
Called(f, e)   == [t |-> "call", fn |-> f, arg |-> e]
Counted(e)     == [t |-> "count", arg |-> e]
Joined(l, r)   == [t |-> "join", left |-> l, right |-> r]
Added(l, r)    == [t |-> "sum", left |-> l, right |-> r]

Ranges == {<<"char", "1", "to", "8">>, <<"char", "-", "8", "to", "-", "1">>,
           <<"char", "tX", "+", "1", "to", "(", "tX", ")">>, <<"the", "last", "char">>, <<"last", "char">>}

Calls == HexCalls \cup {"tolower", "length", "f"}

(* A join, a sum or a count inside another operand is put in parens: the   *)
(* check would judge `last char of the number of chars in tHash` by tHash. *)
RECURSIVE Written(_)
Written(e) ==
  LET Bare(x) == IF x.t \in {"join", "sum", "count"} THEN <<"(">> \o Written(x) \o <<")">> ELSE Written(x)
  IN  CASE e.t = "atom"  -> <<e.atom>>
        [] e.t = "elem"  -> <<e.name, "[", e.key, "]">>
        [] e.t = "group" -> <<"(">> \o Written(e.arg) \o <<")">>
        [] e.t = "chunk" -> e.range \o <<"of">> \o Bare(e.arg)
        [] e.t = "count" -> <<"the", "number", "of", "chars", "in">> \o Bare(e.arg)
        [] e.t = "call"  -> <<e.fn, "(">> \o Written(e.arg) \o <<")">>
        [] e.t = "join"  -> Written(e.left) \o <<"&">> \o Written(e.right)
        [] e.t = "sum"   -> Bare(e.left) \o <<"+">> \o Bare(e.right)

(* The value can hold the digits of a hex name, whole or in part. *)
RECURSIVE HoldsHex(_, _)
HoldsHex(e, eq) ==
  CASE e.t = "atom"  -> IsHexName(e.atom, eq)
    [] e.t = "elem"  -> IsHexName(e.key, eq) \/ (e.key \notin Literals /\ e.name \in HexArrays)
    [] e.t = "group" -> HoldsHex(e.arg, eq)
    [] e.t = "chunk" -> HoldsHex(e.arg, eq)
    [] e.t = "call"  -> e.fn \in HexCalls \/ (e.fn \in CaseFns /\ HoldsHex(e.arg, eq))
    [] e.t = "join"  -> HoldsHex(e.left, eq) \/ HoldsHex(e.right, eq)
    [] OTHER         -> FALSE

(* The leaves a text is joined from, through groups. *)
RECURSIVE Leaves(_)
Leaves(e) ==
  CASE e.t = "join"  -> Leaves(e.left) \o Leaves(e.right)
    [] e.t = "group" -> Leaves(e.arg)
    [] OTHER         -> <<e>>

LiteralIn(e, S) == e.t = "atom" /\ e.atom \in S

(* No number is spelled like it, whatever the names in it hold. *)
IsText(e) ==
  LET ls == Leaves(e)
  IN  LiteralIn(ls[1], FirstText) \/ \E k \in DOMAIN ls : LiteralIn(ls[k], AnyText)

(* Compared as a number on purpose, or known when it is written. A chunk   *)
(* is judged by its container, a text container included.                  *)
RECURSIVE IsKnown(_)
IsKnown(e) ==
  CASE e.t = "atom" -> e.atom \in Literals \cup Digits \cup SafeTokens \cup Consts \cup KNames
    [] e.t \in {"count", "sum"} -> TRUE
    [] e.t = "call" -> e.fn \in NumericFns \/ (e.fn \in CaseFns /\ (IsKnown(e.arg) \/ IsText(e.arg)))
    [] e.t = "join" -> IsKnown(e.left) /\ IsKnown(e.right)
    [] e.t = "elem" -> FALSE
    [] OTHER -> IsKnown(e.arg) \/ (e.t = "chunk" /\ IsText(e.arg))

(* The exemption the check documents for a join: its own first piece, or   *)
(* any piece of it, is a literal; a group hides the literal in it.         *)
RECURSIVE PiecesOf(_)
PiecesOf(e) == IF e.t = "join" THEN PiecesOf(e.left) \o PiecesOf(e.right) ELSE <<e>>

RECURSIVE IsPrefixed(_)
IsPrefixed(e) ==
  LET ps == PiecesOf(e)
  IN  CASE e.t = "group" -> IsPrefixed(e.arg)
        [] e.t = "join"  -> LiteralIn(ps[1], FirstText) \/ \E k \in DOMAIN ps : LiteralIn(ps[k], AnyText)
        [] OTHER         -> FALSE

-----------------------------------------------------------------------------
left  == IF growsLeft THEN operand ELSE partner
right == IF growsLeft THEN partner ELSE operand
equality == op[1] \notin Ordering

line  == frame.before \o Written(left) \o op \o Written(right) \o frame.after
start == Len(frame.before) + Len(Written(left)) + 1
after == start + Len(op)

Reported == \E o \in HexBareCompare(line, Consts) : o.start = start

(* A command name before a group reads as a call, and is one. *)
Juxtaposed == frame.before # <<>> /\ IsWord(frame.before[Len(frame.before)])
              /\ frame.before[Len(frame.before)] \notin LeftStop \cup {"to"}
ReadsAsCall == Juxtaposed /\ Written(left)[1] = "("

(* `to` and `in` stay inside a right operand only when it starts with a     *)
(* chunk word: in `tX & char 1 to 8 of tHash` the walk ends at `to`.       *)
CutShort ==
  LET ts == Written(right)
  IN  /\ ts[1] \notin Chunk \cup Ordinal \cup {"the"}
      /\ \E k \in DOMAIN ts : ts[k] \in {"to", "in"} /\ TopLevel(ts, k)

TypeOK ==
  /\ depth \in 0..Depth /\ growsLeft \in BOOLEAN
  /\ op \in Operators /\ frame \in Frames /\ partner \in Partners
  /\ \A o \in FindOperators(line) : o.start \in DOMAIN line /\ o.after \in DOMAIN line

Init ==
  /\ operand \in Atoms /\ partner \in Partners /\ growsLeft \in BOOLEAN
  /\ op \in Operators /\ frame \in Frames /\ depth = 0

Grow(es) ==
  /\ depth < Depth
  /\ depth' = depth + 1
  /\ operand' \in es
  /\ UNCHANGED <<partner, growsLeft, op, frame>>

GrowGroup == Grow({Group(operand)})
GrowChunk == Grow({Sliced(r, operand) : r \in Ranges} \cup {Counted(operand)})
GrowCall  == Grow({Called(f, operand) : f \in Calls})
GrowJoin  == Grow({Joined(operand, p) : p \in Pieces} \cup {Joined(p, operand) : p \in Pieces})
GrowSum   == Grow({Added(operand, p) : p \in Pieces})

Next == GrowGroup \/ GrowChunk \/ GrowCall \/ GrowJoin \/ GrowSum
Spec == Init /\ [][Next]_vars

-----------------------------------------------------------------------------
(* The walk out from the operator finds the operands as they were written: *)
(* no word of a chunk ends one (but see CutShort), no word of the          *)
(* statement joins one, and a comparison inside parens or an argument list *)
(* stays there.                                                            *)
OperandsRecovered ==
  ~ReadsAsCall => /\ LeftOperand(line, start) = Written(left)
                  /\ ~CutShort => RightOperand(line, after) = Written(right)
                  /\ [start |-> start, after |-> after, op |-> (IF Len(op) = 2 THEN "is not" ELSE op[1])]
                       \in FindOperators(line)

(* A value that can hold hex, neither joined into a text nor known, never  *)
(* meets a value that is neither without a report.                         *)
HexComparisonsFound ==
  LET Plain(e) == ~IsText(e) /\ ~IsKnown(e)
  IN  /\ ~ReadsAsCall /\ ~CutShort
      /\ Plain(left) /\ Plain(right)
      /\ HoldsHex(left, equality) \/ HoldsHex(right, equality)
      => Reported

(* What is fixed as the check asks draws no report: a comparison with a    *)
(* side that is known or has the literal prefix, or with no hex in it.     *)
FixesAccepted ==
  /\ ~ReadsAsCall /\ ~CutShort
  /\ \/ IsKnown(left) \/ IsKnown(right) \/ IsPrefixed(left) \/ IsPrefixed(right)
     \/ (~HoldsHex(left, equality) /\ ~HoldsHex(right, equality))
  => ~Reported

(* The walk reads every comparison as it was written.                      *)
WalkExact == TypeOK /\ OperandsRecovered

(* The verdict follows from the operands: hex that meets a bare comparison *)
(* is reported, and each fix that the report asks for ends it.             *)
Verdicts == HexComparisonsFound /\ FixesAccepted
=============================================================================
