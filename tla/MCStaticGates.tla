--------------------------- MODULE MCStaticGates ----------------------------
(***************************************************************************)
(* The two gates that read text. Either a source is written for the linter *)
(* or the files of the registry are; the other stays empty.                *)
(*                                                                         *)
(* The elements of each topic, written out with what they are.             *)
(***************************************************************************)
EXTENDS StaticGates, RecordRegistry

Line(toks, opens, closes, role) ==
  [toks |-> toks, opens |-> opens, closes |-> closes, role |-> role,
   names |-> {}, continued |-> FALSE]

Blank == Line(<<>>, "", "", "blank")
If    == Line(<<"if", "x", "then">>, "if", "", "")
If1   == Line(<<"if", "x", "then", "beep">>, "", "", "if1")
Else  == Line(<<"else">>, "", "", "else")
EndIf == Line(<<"end", "if">>, "", "if", "")

ScriptLines ==
  {Blank, If, If1, Else, EndIf,
   Line(<<"else", "beep">>, "", "", "statement"),
   Line(<<"private", "command", "f">>, "handler", "", ""),
   Line(<<"end", "f">>, "", "handler", ""),
   Line(<<"switch", "x">>, "switch", "", ""),
   Line(<<"end", "switch">>, "", "switch", "")}

BuilderLines ==
  {If, EndIf, If1,
   Line(<<"public", "handler", "f">>, "handler", "", ""),
   Line(<<"foreign", "handler", "g">>, "", "", "statement"),
   Line(<<"end", "handler">>, "", "handler", ""),
   Line(<<"unsafe">>, "unsafe", "", ""),
   Line(<<"end", "unsafe">>, "", "unsafe", ""),
   Line(<<"variable", "t">>, "", "", "variable")}

Try    == Line(<<"try">>, "try", "", "")
Catch  == Line(<<"catch", "e">>, "", "", "catch")
EndTry == Line(<<"end", "try">>, "", "try", "")
Local  == Line(<<"local", "e">>, "", "", "local")

ThrowLines ==
  {Try, Catch, EndTry, Line(<<"throw", "e">>, "", "", "throw"),
   Line(<<"if", "c", "then", "throw", "e">>, "", "", "guarded throw")}

On       == Line(<<"on", "f">>, "handler", "", "")
OnWith   == Line(<<"on", "f", "e">>, "handler", "", "param")
EndF     == Line(<<"end", "f">>, "", "handler", "")

CatchLines == {Try, Catch, EndTry, Local, EndF, Line(<<"put", "e">>, "", "", "read")}

Named(toks, role, names) ==
  [toks |-> toks, opens |-> "", closes |-> "", role |-> role, names |-> names, continued |-> FALSE]

ConstantLines ==
  {Named(<<"constant", "kA", "=", "1">>, "decl", {"kA"}),
   Named(<<"constant", "kB", "=", "1">>, "decl", {"kB"}),
   Named(<<"constant", "kA", "=", "1", ",", "kB", "=", "2">>, "two", {"kA", "kB"}),
   Named(<<"constant", "kA", "is", "1">>, "foreign", {"kA"}),
   Named(<<"put", "kA", "&", "kB">>, "use", {"kA", "kB"}),
   Named(<<"put", "kB">>, "use", {"kB"})}

Continued(l) == [l EXCEPT !.continued = TRUE]

CallLines ==
  {Line(<<"command", "f", "p">>, "handler", "", "command"),
   Line(<<"function", "f">>, "handler", "", "function"),
   Line(<<"put", "f", "(", ")">>, "", "", "expression"),
   Line(<<"if", "x", "then", "f", "(", "x", ")">>, "", "", "statement"),
   Continued(Line(<<"put", "x", "&">>, "", "", "statement")),
   Line(<<"f", "(", ")">>, "", "", "bare"),
   Continued(Line(<<"f", "(", ")">>, "", "", "statement"))}

Chars(cs) == {[ch |-> c] : c \in cs}

MCTopics == {"script text", "builder text", "script", "builder", "throw", "catch",
             "constants", "calls"}

MCLines ==
  [t \in MCTopics |->
     CASE t = "script text"  -> Chars({"q", "/", "*", "#", "bs", "nl", "a"})
       [] t = "builder text" -> Chars({"q", "/", "*", "-", "bs", "nl"})
       [] t = "script"       -> ScriptLines
       [] t = "builder"      -> BuilderLines
       [] t = "throw"        -> ThrowLines
       [] t = "catch"        -> CatchLines
       [] t = "constants"    -> ConstantLines
       [] t = "calls"        -> CallLines]

MCHeads ==
  [t \in MCTopics |->
     CASE t = "catch" -> {<<On, Try>>, <<OnWith, Try>>, <<Local, On, Try>>}
       [] OTHER       -> {<<>>}]

MCMaxLines ==
  [t \in MCTopics |->
     CASE t = "script text" -> 6 [] t = "builder text" -> 6
       [] t = "script" -> 5      [] t = "builder" -> 5
       [] t = "throw" -> 6       [] t = "catch" -> 8
       [] t = "constants" -> 4   [] t = "calls" -> 4]

-----------------------------------------------------------------------------
(* One prefix with two enumerators and two with one, in files that start   *)
(* with all that the other two need and grow by declarations of the first. *)
Item(file, name, value) == [file |-> file, name |-> name, value |-> value]

MCDeclarations ==
  {Item("header", "F_A", "1"), Item("header", "F_B", "2"), Item("header", "F_B", Implicit),
   Item("lcb", "kFieldA", "1"), Item("lcb", "kFieldA", "2"),
   Item("lcb", "kFieldB", "1"), Item("lcb", "kFieldB", "2")}

StartWith(abi) ==
  <<Item("abi", "BTX_ABI_VERSION", abi), Item("lcb", "kABIVersion", "7"),
    Item("header", "FT_T", "1"), Item("lcb", "kTypeT", "1"),
    Item("header", "A_T", "1"), Item("lcb", "kAlertT", "1")>>

MCFirstFiles == {StartWith("7"), StartWith("8"), Tail(StartWith("7"))}

MCEnumerators == [FT_ |-> {"FT_T"}, F_ |-> {"F_A", "F_B"}, A_ |-> {"A_T"}]
MCLcbName     == [FT_T |-> "kTypeT", F_A |-> "kFieldA", F_B |-> "kFieldB", A_T |-> "kAlertT"]

-----------------------------------------------------------------------------
GatesInit ==
  \/ Init /\ files = <<>>
  \/ topic = "script" /\ src = <<>> /\ RegistryInit

WriteSource == files = <<>> /\ Write /\ UNCHANGED files
WriteFiles  == files # <<>> /\ Declare /\ UNCHANGED vars

GatesSpec == GatesInit /\ [][WriteSource \/ WriteFiles]_<<vars, files>>
=============================================================================
