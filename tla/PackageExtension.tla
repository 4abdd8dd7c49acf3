-------------------------- MODULE PackageExtension --------------------------
(***************************************************************************)
(* tools/package-extension.py: find a built library, copy it into the      *)
(* committed tree under its platform-id, strip the copy, and stage the     *)
(* tree under build/package/. The staged libraries lie in the build        *)
(* directory that the next run searches. Builds happen between the runs; a *)
(* run may be killed, or fail on a write, between any two of its steps.    *)
(*                                                                         *)
(* A file's content is which library it is and whether it is whole:        *)
(* "full" as it was linked, "stripped", or "partial" when its copy was cut *)
(* short. Binding, helpers and examples, which --assemble stages as well,  *)
(* are left out.                                                           *)
(***************************************************************************)
EXTENDS Integers

CONSTANTS
  Platforms,   \* the platform-ids of PLATFORM_SUFFIX
  Suffix,      \* platform-id -> suffix of its library
  Dirs,        \* the directories of the build tree a build writes to
  PathLen,     \* directory of the build tree -> length of its path
  Calls,       \* the options a call is given
  Hosts,       \* the machines the script runs on
  MaxBuilds,   \* bound: the libraries built
  NoFile, Search, NoHost   \* no content; no --lib; the host of a run with --platform-id

Names    == {"bare", "lib"}                         \* torrentxt.so, libtorrentxt.so
Suffixes == {Suffix[p] : p \in Platforms}
Product  == [dir : Dirs, name : Names, suffix : Suffixes]
StagedAs(p) == [dir |-> p, name |-> "bare", suffix |-> Suffix[p]]
File     == Product \cup {StagedAs(p) : p \in Platforms}
Lib      == [for : Platforms, version : 1..MaxBuilds, state : {"full", "stripped", "partial"}]
Content  == Lib \cup {NoFile}
Args     == [lib : Product \cup {Search}, assemble : BOOLEAN, dry : BOOLEAN]

(* CMake writes to the top of the build directory or a directory per       *)
(* configuration; package/code/<id>/ is a longer path than those.          *)
ASSUME PackageAssumption ==
  /\ MaxBuilds \in Nat /\ Platforms # {} /\ Dirs \cap Platforms = {}
  /\ Calls \subseteq Args
  /\ NoFile \notin Lib /\ Search \notin File /\ NoHost \notin Hosts
  /\ Suffix \in [Platforms -> Suffixes]
  /\ PathLen \in [Dirs \cup Platforms -> Nat]
  /\ \A d \in Dirs, p \in Platforms : PathLen[d] < PathLen[p]

VARIABLES
  built,     \* the number of builds so far, the version of the last one
  products,  \* what the builds left in the build directory
  staged,    \* what is under build/package/code
  tree,      \* the committed tree, src/code
  pc, args,  \* the running call: its place and its options
  host,      \* the host whose platform-id it detects, or NoHost
  pid,       \* the platform-id it works for
  pick,      \* the library it found
  status,    \* what copy_into_tree returns
  todo,      \* the platforms still to stage
  before,    \* history: the committed tree when the call started
  excused    \* history: platforms whose strip failed or was never reached

runVars == <<args, host, pid>>
vars == <<built, products, staged, tree, pc, args, host, pid, pick, status, todo, before, excused>>

NoPick == CHOOSE f \in File : TRUE
NoArgs == [lib |-> Search, assemble |-> FALSE, dry |-> FALSE]
Places == {"idle", "locate", "compare", "copy", "strip", "plan", "stage", "staging"}
Statuses == {"none", "unchanged", "update", "create", "updated", "created"}

-----------------------------------------------------------------------------
LinuxId   == [x86_64 |-> "x86_64-linux", x86 |-> "x86-linux", arm64 |-> "arm64-linux"]
WindowsId == [x86_64 |-> "x86_64-win32", x86 |-> "x86-win32", arm64 |-> "arm64-win32"]

(* slip: 64-bit ARM forgotten *)
Arch_noArm(h) == IF h.machine \in {"i386", "i686", "x86", ""} THEN "x86" ELSE IF h.wide THEN "x86_64" ELSE "x86"

(* A machine it does not know is taken for x86 or x86_64. *)
Arch(h) ==
  CASE h.machine \in {"aarch64", "arm64"} /\ h.wide -> "arm64"
    [] h.machine \in {"x86_64", "amd64", "x64"} -> "x86_64"
    [] h.machine \in {"i386", "i686", "x86", ""} -> "x86"
    [] OTHER -> IF h.wide THEN "x86_64" ELSE "x86"

detect_platform_id(h) ==
  CASE h.system = "Darwin"  -> "universal-mac"
    [] h.system = "Linux"   -> LinuxId[Arch(h)]
    [] h.system = "Windows" -> WindowsId[Arch(h)]
    [] OTHER                -> "none"

(* os.walk goes through the whole build directory, package/ included. *)
ContentOf(f) == IF f \in Product THEN products[f] ELSE staged[f.dir]

Candidates(suffix) == {f \in File : f.suffix = suffix /\ ContentOf(f) # NoFile}

(* slip: the shorter path, whatever the name *)
Preferred_path(f, g) == PathLen[f.dir] < PathLen[g.dir]

Preferred(f, g) ==
  \/ f.name = "bare" /\ g.name = "lib"
  \/ f.name = g.name /\ PathLen[f.dir] < PathLen[g.dir]

(* The first of the best; files of equal rank come in any order. *)
find_built_lib(suffix) ==
  {f \in Candidates(suffix) : ~ \E g \in Candidates(suffix) : Preferred(g, f)}

(* slip: --lib is not looked for *)
Sources_unchecked ==
  IF pid \notin Platforms THEN {} ELSE IF args.lib = Search THEN find_built_lib(Suffix[pid]) ELSE {args.lib}

(* What the call may take as its source; none when the id is unknown or no *)
(* library is found, or --lib names no file.                               *)
Sources ==
  IF pid \notin Platforms THEN {}
  ELSE IF args.lib = Search THEN find_built_lib(Suffix[pid])
  ELSE {f \in {args.lib} : products[f] # NoFile}

In(content, state) == [content EXCEPT !.state = state]

-----------------------------------------------------------------------------
TypeOK ==
  /\ built \in 0..MaxBuilds
  /\ products \in [Product -> Content] /\ staged \in [Platforms -> Content]
  /\ tree \in [Platforms -> Content] /\ before \in [Platforms -> Content]
  /\ pc \in Places /\ args \in Args /\ host \in Hosts \cup {NoHost}
  /\ pick \in File /\ status \in Statuses
  /\ todo \subseteq Platforms /\ excused \subseteq Platforms
  /\ pc \notin {"idle", "locate"} => pid \in Platforms /\ ContentOf(pick) # NoFile

Init ==
  /\ built = 0
  /\ products = [f \in Product |-> NoFile] /\ staged = [p \in Platforms |-> NoFile]
  /\ tree = [p \in Platforms |-> NoFile] /\ before = [p \in Platforms |-> NoFile]
  /\ pc = "idle" /\ args = NoArgs /\ host = NoHost /\ pid = "none"
  /\ pick = NoPick /\ status = "none" /\ todo = {} /\ excused = {}

Build(p, d, n) ==
  /\ pc = "idle" /\ built < MaxBuilds
  /\ built' = built + 1
  /\ products' = [products EXCEPT ![[dir |-> d, name |-> n, suffix |-> Suffix[p]]] =
                    [for |-> p, version |-> built + 1, state |-> "full"]]
  /\ UNCHANGED <<staged, tree, pc, runVars, pick, status, todo, before, excused>>

(* `make clean` removes what the builds wrote, package/ stays. *)
Clean ==
  /\ pc = "idle"
  /\ products' = [f \in Product |-> NoFile]
  /\ UNCHANGED <<built, staged, tree, pc, runVars, pick, status, todo, before, excused>>

Start(a, h, p) ==
  /\ pc = "idle" /\ pc' = "locate"
  /\ args' = a /\ host' = h /\ pid' = p
  /\ before' = tree
  /\ UNCHANGED <<built, products, staged, tree, pick, status, todo, excused>>

StartExplicit == \E a \in Calls, p \in Platforms : Start(a, NoHost, p)
StartAuto     == \E a \in Calls, h \in Hosts : Start(a, h, detect_platform_id(h))

(* The end of the process, which keeps nothing. *)
Exit ==
  /\ pc' = "idle" /\ args' = NoArgs /\ host' = NoHost /\ pid' = "none"
  /\ pick' = NoPick /\ status' = "none" /\ todo' = {}
  /\ before' = [p \in Platforms |-> NoFile]

Refuse ==
  /\ pc = "locate" /\ Sources = {}
  /\ Exit
  /\ UNCHANGED <<built, products, staged, tree, excused>>

Locate ==
  /\ pc = "locate" /\ pc' = "compare"
  /\ pick' \in Sources /\ host' = NoHost
  /\ UNCHANGED <<built, products, staged, tree, args, pid, status, todo, before, excused>>

(* slip: a file of the same build is taken for the same file *)
Unchanged_version ==
  /\ pc = "compare" /\ tree[pid] # NoFile /\ tree[pid].version = ContentOf(pick).version
  /\ status' = "unchanged" /\ pc' = "plan"
  /\ UNCHANGED <<built, products, staged, tree, runVars, pick, todo, before, excused>>

(* The bytes of two files cut short may be the same or not. *)
Unchanged ==
  /\ pc = "compare" /\ tree[pid] = ContentOf(pick)
  /\ status' = "unchanged" /\ pc' = "plan"
  /\ UNCHANGED <<built, products, staged, tree, runVars, pick, todo, before, excused>>

Differs == tree[pid] # ContentOf(pick) \/ ContentOf(pick).state = "partial"

WouldCopy ==
  /\ pc = "compare" /\ Differs /\ args.dry
  /\ status' = (IF tree[pid] = NoFile THEN "create" ELSE "update") /\ pc' = "plan"
  /\ UNCHANGED <<built, products, staged, tree, runVars, pick, todo, before, excused>>

(* slip: whether the file existed is asked after the copy *)
BeginCopy_late ==
  /\ pc = "compare" /\ Differs /\ ~args.dry
  /\ status' = "updated" /\ pc' = "copy"
  /\ tree' = [tree EXCEPT ![pid] = In(ContentOf(pick), "partial")]
  /\ UNCHANGED <<built, products, staged, runVars, pick, todo, before, excused>>

(* copyfile truncates the destination before it writes. *)
BeginCopy ==
  /\ pc = "compare" /\ Differs /\ ~args.dry
  /\ status' = (IF tree[pid] = NoFile THEN "created" ELSE "updated") /\ pc' = "copy"
  /\ tree' = [tree EXCEPT ![pid] = In(ContentOf(pick), "partial")]
  /\ UNCHANGED <<built, products, staged, runVars, pick, todo, before, excused>>

(* slip: the copy is not stripped *)
EndCopy_noStrip ==
  /\ pc = "copy" /\ pc' = "plan"
  /\ tree' = [tree EXCEPT ![pid] = ContentOf(pick)]
  /\ UNCHANGED <<built, products, staged, runVars, pick, status, todo, before, excused>>

EndCopy ==
  /\ pc = "copy" /\ pc' = "strip"
  /\ tree' = [tree EXCEPT ![pid] = ContentOf(pick)]
  /\ UNCHANGED <<built, products, staged, runVars, pick, status, todo, before, excused>>

(* slip: what was found is stripped, and the copy with it *)
Strip_source ==
  /\ pc = "strip" /\ pc' = "plan"
  /\ tree[pid].state # "partial"
  /\ tree' = [tree EXCEPT ![pid] = In(@, "stripped")]
  /\ products' = IF pick \in Product THEN [products EXCEPT ![pick] = In(@, "stripped")] ELSE products
  /\ excused' = excused \ {pid}
  /\ UNCHANGED <<built, staged, runVars, pick, status, todo, before>>

(* No strip on the host, or one that cannot handle the file, is no error. *)
Strip ==
  /\ pc = "strip" /\ pc' = "plan"
  /\ \/ /\ tree[pid].state # "partial"
        /\ tree' = [tree EXCEPT ![pid] = In(@, "stripped")]
        /\ excused' = excused \ {pid}
     \/ excused' = excused \cup {pid} /\ UNCHANGED tree
  /\ UNCHANGED <<built, products, staged, runVars, pick, status, todo, before>>

(* slip: only the platform at hand is staged *)
PlanStaging_own ==
  /\ pc = "plan" /\ pc' = "stage"
  /\ todo' = IF args.assemble /\ tree[pid] # NoFile THEN {pid} ELSE {}
  /\ UNCHANGED <<built, products, staged, tree, runVars, pick, status, before, excused>>

PlanStaging ==
  /\ pc = "plan" /\ pc' = "stage"
  /\ todo' = IF args.assemble THEN {p \in Platforms : tree[p] # NoFile} ELSE {}
  /\ UNCHANGED <<built, products, staged, tree, runVars, pick, status, before, excused>>

(* The libraries are staged in a fixed order. *)
Current == CHOOSE p \in todo : TRUE

WouldStage ==
  /\ pc = "stage" /\ todo # {} /\ args.dry
  /\ todo' = todo \ {Current}
  /\ UNCHANGED <<built, products, staged, tree, pc, runVars, pick, status, before, excused>>

BeginStage ==
  /\ pc = "stage" /\ todo # {} /\ ~args.dry /\ pc' = "staging"
  /\ staged' = [staged EXCEPT ![Current] = In(tree[Current], "partial")]
  /\ UNCHANGED <<built, products, tree, runVars, pick, status, todo, before, excused>>

EndStage ==
  /\ pc = "staging" /\ pc' = "stage"
  /\ staged' = [staged EXCEPT ![Current] = tree[Current]]
  /\ todo' = todo \ {Current}
  /\ UNCHANGED <<built, products, tree, runVars, pick, status, before, excused>>

Done == pc = "stage" /\ todo = {}

Finish ==
  /\ Done
  /\ Exit
  /\ UNCHANGED <<built, products, staged, tree, excused>>

(* Killed, or ended by an OSError. *)
Die ==
  /\ pc # "idle"
  /\ Exit
  /\ excused' = IF pc = "strip" THEN excused \cup {pid} ELSE excused
  /\ UNCHANGED <<built, products, staged, tree>>

Run == \/ Refuse \/ Locate \/ Unchanged \/ WouldCopy \/ BeginCopy \/ EndCopy \/ Strip
       \/ PlanStaging \/ WouldStage \/ BeginStage \/ EndStage \/ Finish \/ Die

Next ==
  \/ \E p \in Platforms, d \in Dirs, n \in Names : Build(p, d, n)
  \/ Clean \/ StartExplicit \/ StartAuto \/ Run

Spec == Init /\ [][Next]_vars

-----------------------------------------------------------------------------
(* Where the copy ends, whatever earlier runs left half done, the          *)
(* committed file is the file that was found, as it was or stripped: what  *)
(* a killed run left of its copy is never taken for up to date.            *)
Refreshed ==
  pc = "plan" /\ ~args.dry
    => tree[pid] \in {ContentOf(pick), In(ContentOf(pick), "stripped")}

(* And it is whole, unless the search met the staged copy of a run that    *)
(* was killed while it staged: its bare name is preferred to a lib-        *)
(* prefixed build (128), and what was cut short is committed.              *)
WholeIfBuilt ==
  pc = "plan" /\ ~args.dry /\ tree[pid].state = "partial"
    => pick \notin Product /\ staged[pick.dir].state = "partial"

(* A run writes no file but its own platform's and, with --assemble, the   *)
(* staged ones: never what the build wrote, not even to strip it, and with *)
(* --dry-run nothing at all.                                               *)
WritesAllowed ==
  [][pc # "idle" => /\ products' = products
                    /\ \A p \in Platforms : p # pid => tree'[p] = tree[p]
                    /\ ~args.assemble => staged' = staged
                    /\ args.dry => staged' = staged /\ tree' = tree]_vars

(* When a run ends, what it reports is what happened: nothing was written  *)
(* when it says unchanged or only would write, a file was created when it  *)
(* says created, and one was there before when it says updated.            *)
ReportTrue ==
  Done => CASE status = "created" -> before[pid] = NoFile /\ tree[pid] # NoFile
            [] status = "updated" -> before[pid] # NoFile /\ tree[pid] # NoFile
            [] OTHER -> tree = before

(* When a run with --assemble ends, every committed library is staged as   *)
(* it is in the tree, those of other platforms and earlier runs included.  *)
StagedIsCommitted ==
  Done /\ args.assemble /\ ~args.dry
    => \A p \in Platforms : tree[p] # NoFile => staged[p] = tree[p]

(* Between runs an unstripped library is committed only when its strip     *)
(* failed or was never reached.                                            *)
UnstrippedIsExcused ==
  pc = "idle" => \A p \in Platforms : tree[p] # NoFile /\ tree[p].state = "full" => p \in excused

(* A library that a build wrote under its bare name is found before any    *)
(* lib-prefixed one and before the staged copies of earlier runs, which    *)
(* the search meets as well.                                               *)
BareBuildWins ==
  pc = "compare" /\ args.lib = Search
    => LET bare == {f \in Product : f.name = "bare" /\ f.suffix = Suffix[pid] /\ products[f] # NoFile}
       IN  bare # {} => pick \in bare /\ \A f \in bare : PathLen[pick.dir] <= PathLen[f.dir]

(* A run that is not told its platform-id takes the one of its host, and   *)
(* goes on only where the tree has that platform.                          *)
AutoIsHost ==
  [][host # NoHost /\ host.platform # "other"
       => pid = host.platform /\ (pc' = "compare" => host.platform \in Platforms)]_vars

(* What a run leaves in the tree is the file it found, however earlier     *)
(* runs ended: whole when a build wrote it, and unstripped only for a      *)
(* reason.                                                                 *)
Committed == TypeOK /\ Refreshed /\ WholeIfBuilt /\ UnstrippedIsExcused

(* And what a run says it did, it did, in the tree and in the staging area. *)
Reports == ReportTrue /\ StagedIsCommitted

(* A run works on its own platform's files and on nothing else.            *)
OwnBusiness == WritesAllowed /\ AutoIsHost
=============================================================================
