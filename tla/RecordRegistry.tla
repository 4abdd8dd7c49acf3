--------------------------- MODULE RecordRegistry ---------------------------
(***************************************************************************)
(* tools/check-record-registry.py: the enumerators of btx_record.h, the    *)
(* constants of torrent.lcb and the two ABI versions, compared. The files  *)
(* are one sequence of items in the order of their lines; an item says     *)
(* which file it is in ("header", "lcb", "abi"), its name and its value.   *)
(* Both files are searched with patterns that do not know comments, and an *)
(* enumerator without `= N` is not seen at all.                            *)
(*                                                                         *)
(* The machine is the files themselves: they start as a set of             *)
(* declarations in step or not, and grow by one declaration at a time, so  *)
(* every short pair of files is a state.                                   *)
(***************************************************************************)
EXTENDS Integers, Sequences

CONSTANTS
  Registries,   \* the three enumerator prefixes
  Enumerators,  \* prefix -> the names that can follow in the header
  LcbName,      \* enumerator -> the LCB constant camel() gives it
  Declarations, \* what a line of the files may declare
  FirstFiles,   \* what the files may start with
  MaxItems      \* the bound on their length

Implicit == "implicit"

(* What the files may hold. The patterns find no enumerator without its    *)
(* prefix, and under the name of the ABI version nothing else.             *)
Items == Declarations \cup UNION {{f[i] : i \in DOMAIN f} : f \in FirstFiles}

ASSUME RegistryAssumption ==
  /\ FirstFiles \subseteq Seq(Items)
  /\ \A x \in Items : /\ x.file = "header" => \E p \in Registries : x.name \in Enumerators[p]
                      /\ x.file = "abi" => x.name = "BTX_ABI_VERSION"

VARIABLE files

(* What a pattern finds under a name: it wants a value. *)
Matches(items, file, name) ==
    {i \in DOMAIN items : items[i].file = file /\ items[i].name = name /\ items[i].value # Implicit}

FirstMatch(items, file, name) ==
    LET found == Matches(items, file, name) IN CHOOSE i \in found : \A j \in found : i <= j
LastMatch(items, file, name) ==
    LET found == Matches(items, file, name) IN CHOOSE i \in found : \A j \in found : j <= i

ParsedValue(items, file, name) == items[LastMatch(items, file, name)].value

HeaderEnum(items, prefix)  == {n \in Enumerators[prefix] : Matches(items, "header", n) # {}}
HasConstant(items, name)   == Matches(items, "lcb", name) # {}

AbiProblems(items) ==
    CASE Matches(items, "abi", "BTX_ABI_VERSION") = {} -> {"no ABI version"}
      [] Matches(items, "abi", "BTX_ABI_VERSION") # {} /\ ~HasConstant(items, "kABIVersion") -> {"no kABIVersion"}
      [] OTHER -> IF items[FirstMatch(items, "abi", "BTX_ABI_VERSION")].value
                       = ParsedValue(items, "lcb", "kABIVersion")
                  THEN {} ELSE {"ABI version skew"}

(* slip: a missing constant is no drift *)
RegistryProblems_drift(items, prefix) ==
    LET names == {n \in HeaderEnum(items, prefix) : HasConstant(items, LcbName[n])}
    IN  {n \in names : ParsedValue(items, "lcb", LcbName[n]) # ParsedValue(items, "header", n)}

(* slip: the values are compared, whatever name they have *)
RegistryProblems_values(items, prefix) ==
    LET names == HeaderEnum(items, prefix)
        Of(n) == {ParsedValue(items, "lcb", LcbName[m]) : m \in {k \in n : HasConstant(items, LcbName[k])}}
    IN  (IF names = {} THEN {prefix} ELSE {}) \cup {n \in names : ParsedValue(items, "header", n) \notin Of(names)}

RegistryProblems(items, prefix) ==
    LET Missing(n) == ~HasConstant(items, LcbName[n])
        Drifts(n)  == ParsedValue(items, "lcb", LcbName[n]) # ParsedValue(items, "header", n)
        names      == HeaderEnum(items, prefix)
    IN  (IF names = {} THEN {prefix} ELSE {}) \cup {n \in names : IF Missing(n) THEN TRUE ELSE Drifts(n)}

DriftProblems(items) == AbiProblems(items) \cup UNION {RegistryProblems(items, p) : p \in Registries}

(* The exit code; without a torrent.lcb the check is skipped. *)
RegistryExit(items, lcbExists) ==
    IF ~lcbExists THEN 0 ELSE IF DriftProblems(items) = {} THEN 0 ELSE 1

(* The files before and after one more line. *)
RegistryInit == files \in FirstFiles

Declare ==
  /\ Len(files) < MaxItems
  /\ \E d \in Declarations : files' = Append(files, d)

RegistrySpec == RegistryInit /\ [][Declare]_files

-----------------------------------------------------------------------------
(* What the files declare: the enumerators, with a value or without, what  *)
(* has a value, and files that declare no name twice.                      *)
Enumerated     == {i \in DOMAIN files : files[i].file = "header"}
Declared(file) == {i \in DOMAIN files : files[i].file = file /\ files[i].value # Implicit}
DeclaredOnce   == \A i, j \in DOMAIN files : i # j => <<files[i].file, files[i].name>> # <<files[j].file, files[j].name>>

(* The constant that decodes what the enumerator at h stands for. *)
Decodes(l, h) == files[l].name = LcbName[files[h].name] /\ files[l].value = files[h].value

(* The files are in step: no registry is empty, each enumerator of the     *)
(* header has its constant, with its value (check-record-registry.py:      *)
(* 13-14), and so has the ABI version.                                     *)
InStep ==
  /\ \A p \in Registries : \E h \in Enumerated : files[h].name \in Enumerators[p]
  /\ \A h \in Enumerated : \E l \in Declared("lcb") : Decodes(l, h)
  /\ \E a \in Declared("abi"), l \in Declared("lcb") :
       files[l].name = "kABIVersion" /\ files[l].value = files[a].value

(* What the check is blind to (53): an enumerator without a value of its   *)
(* own, which C++ numbers after the one before it.                         *)
AllValued == \A h \in Enumerated : files[h].value # Implicit

(* When no file declares a name twice and every enumerator has a value of  *)
(* its own, a check that passes means files in step: a swap of two values  *)
(* is drift. Of an enumerator without a value a pass says nothing.         *)
RegistrySound == DeclaredOnce /\ AllValued /\ RegistryExit(files, TRUE) = 0 => InStep

(* And files in step are never refused, whatever the order of their lines. *)
RegistryQuiet == DeclaredOnce /\ InStep => RegistryExit(files, TRUE) = 0

(* The registry check tells files in step from files with drift, where     *)
(* every enumerator has a value.                                           *)
RegistryAgrees == RegistrySound /\ RegistryQuiet
=============================================================================
