# TorrentXT: TLA+ models and proofs

TorrentXT binds libtorrent to OpenXTalk scripts. This directory holds TLA+
models of the parts of it where order, failure and re-use matter, TLC
configurations that check them, and proofs for every value of the constants
where TLAPS reaches. Paths below are relative to the repository.

## 1. The system

```
 script app  ── messages ──  torrent-helpers.livecodescript   (poll dispatcher)
     │                              │ btPoll, btRp1Poll
     └──────── src/torrent.lcb (binding: buffers, grow and retry, record walk)
                                    │ C ABI: src/btx_abi.h
               src/torrent_shim.cpp (sessions, torrents, alert drain, rp1)
                 src/btx_handle_table.h      src/btx_record.h
                                    │
               libtorrent (external: network and disk threads, alert queue)
```

One thread drives the script, the binding and the shim. libtorrent's threads
reach the shim in two ways: through its alert queue, which only
`btx_pop_alerts` reads, and through the rp1 plugin callbacks, which share one
mutex with the caller.

| Component | State | Operations | What is hard | What makes it correct |
|---|---|---|---|---|
| Handle table (`btx_handle_table.h`) | slots with generation and live flag, free stack, counter | alloc, free, get, enumerate | handles kept after free, slots reused, the generation wraps at 15 bits | a live handle names its own object; a freed one nothing; no slot is shared |
| Sessions and torrents (`torrent_shim.cpp` 593-638, 776-906, 1203-1382) | session table, latch `g_live_session`, per session a torrent table and the reverse map `idOf` | new, free, add, remove, resolve an id | libtorrent removes torrents on its own, handles expire at any time, sessions follow one another | one live session; an id never reaches another torrent; slots are reclaimed |
| Alert drain (`torrent_shim.cpp` 2046-2539, `torrent.lcb` 2975-3021) | libtorrent's alert queue, the stash, the caller's buffer | pop, grow and retry | what does not fit, overflow, an exception in the middle | order kept, once each, losses reported |
| rp1 transport (`torrent_shim.cpp` 160-537, 2931-2977) | peers, inbound queue with two caps, outgoing queue per peer | plugin callbacks, send, poll | callbacks on the network thread between any two steps of the caller | caps hold, nothing is lost silently, ids name one connection, messages go out in order and once |
| Poll dispatcher (`torrent-helpers.livecodescript`) | flag, session, scheduled messages | start, stop, one pass | handlers run inside a pass and call start and stop | one chain; polling goes on; losses are warned of |
| Record codec (`btx_record.h`, `_parseRecord`) | none | write, measure, read | u16 lengths | what is written is what is read |
| Getters and buffers (`torrent.lcb`) | three shared buffers | status, lists, bitfields | the list grows between measure and retry; allocation fails | a snapshot, or empty |
| DHT, BEP44, port mappings, resume data, settings | small caches and maps | forwarded calls | callbacks on libtorrent's threads | see section 7 |
| Quickshare's private transfer (`torrent-quickshare.livecodescript` 2087-2608, 4830-5248) | one share with its gate; per stream the sender's and the receiver's state, file handles, a watchdog each | accept, serve, pump, read, finish, abort | reads cut anywhere, closes that race data, second callers, silent peers, watchdogs between any two steps, disks that fail | what is saved is what was shared; a download fails only for a reason; share and streams come free |
| The rest of the example apps (quickshare's web server, dht-channels, rp1-chat, client) | their own pumps, an embedded OnionXT | | timers, retries, network errors | see section 7 |
| Linter (`tools/check-livecodescript.py`) | per check: a stack, flags, frames, a depth | one pass over the lines of a file | state carried from line to line, nesting, cut comments and joined lines | it reports what the language refuses, at the line where it is, and nothing else |
| Registry gate (`tools/check-record-registry.py`) | none | compare the enumerators with the constants | two files in any order | a pass means that each enumerator with a value is decoded by its own constant |
| Packaging (`tools/package-extension.py`) | the build directory, the committed tree, the staged copies | find, compare, copy, strip, stage | runs killed half way, its own staged copies in the directory it searches | the committed library is the one that was found; reports are true |
| Vector gate and its test (`tools/check-script-vectors.py`, `tools/test-script-vectors.py`) | rows run, rows failed, floors; caught, skipped, failed | run sections, judge fixtures | a gate that is blind prints OK too | success means that it ran, and could have failed |
| Build, tests | none | | | not modelled |

`PROJECT.json` lists each component with its status, and every hazard with the
line where it bites and the properties that watch it.

## 2. The modules

| Module | Models | State and actions |
|---|---|---|
| `HandleTable` | `HandleTable<T>` as a value with operators | `AllocTable`, `FreeTable`, `Get`, `CollectLive`; used by two machines |
| `HandleRegistry` | what the header comment promises | `Issue`, `Retire`: no slots, no generations |
| `HandleUse` | any caller of one table | `Alloc`, `Free` of any handle ever issued |
| `HandleUse_proofs` | | theorems about `HandleUse` |
| `TorrentSession` | sessions, torrents, reverse map, extraction of alerts | one action per entry point, one per thing libtorrent does by itself |
| `TorrentSession_proofs` | | theorems about `TorrentSession` |
| `RecordCodec` | the wire format, byte by byte: `RecordWriter`, `KVRecord`, `_parseRecord` and the list loops | operators over a writer (position, capacity, memory) and a walk |
| `SnapshotGetter` | `btPeerList`, `btTorrentStatus` and their shared buffer | `First`, `Retry`: a look each; `NoMemory`; the engine changes between them |
| `SnapshotGetter_proofs` | | theorems about `RecordCodec` and `SnapshotGetter` |
| `LossyQueue` | what a poller may rely on | `Accept`, `Lose`, `Take`, and `Fail` for a poll that ends in an error |
| `AlertDrain` | `btx_pop_alerts` and `btPoll` | `Post`, `btRemove`; `PopStash`, `PopFresh`, `PopThrows` are the three ways a call goes |
| `AlertDrain_proofs` | | theorems about `AlertDrain` |
| `Rp1Transport` | the rp1 plugin and its entry points | one action per callback and critical section; the drain loop is a step per round |
| `MCRp1Transport`, `MCTorrentSession`, `MCSnapshotGetter` | | constants of the rp1 and getter instances; the symmetry of the session run |
| `Rp1Transport_proofs` | | theorems about `Rp1Transport` |
| `PollDispatcher` | the poll chain | start, stop; a pass in four steps, a handler may do anything between them |
| `PollDispatcher_proofs` | | theorems about `PollDispatcher` |
| `OnionTransfer`, `MCOnionTransfer` | the private transfer of quickshare, both ends and the streams between them | a callback or a timer message is an action; the receiver's state machine is an operator on its record |
| `OnionTransfer_proofs` | | theorems about `OnionTransfer` |
| `LintLines` | `clean_logical_lines`: continuations, comments, strings | a fold over characters inside a fold over lines |
| `LintBlocks` | the checks that follow blocks: balance in both dialects, the module, late declarations, dangling else, throw in catch, catch variables | one step operator for each check, `OverLines` folds it over the lines |
| `LintNames` | the checks on constants, declared names, calls and bitwise operators | set expressions over lines and tokens |
| `RecordRegistry` | `check-record-registry.py`, over files that are written item by item | `Declare`; `DriftProblems`, `RegistryExit` |
| `StaticGates` | `check_file`, over a source that is written element by element | `Write`; the language's own rules, as definitions that never look at tokens |
| `MCStaticGates` | | the run over both gates: a source is written, or the files of the registry are |
| `LintCompare` | check 23, hex in bare comparisons | `FindOperators`, the two walks, `OperandKind` |
| `Comparison`, `MCComparison` | a line with one comparison, as trees and as the tokens it is written in | the operand grows by a group, a chunk, a call, a join or a sum |
| `PackageExtension`, `MCPackageExtension` | `package-extension.py` | `Build`, `Clean`, a run in steps (`Start` to `Finish`), `Die` |
| `ScriptVectorGate`, `MCScriptVectorGate` | `check-script-vectors.py` inside `test-script-vectors.py` | one action for each section and each verdict |
| `Tools_proofs` | | theorems about `PackageExtension`, `ScriptVectorGate` and `RecordRegistry` |

Composition: `TorrentSession` extends `HandleTable` (the same definition that
`HandleUse` is about). `AlertDrain` and `Rp1Transport` both implement
`LossyQueue` (INSTANCE ... WITH, checked as a PROPERTY); `PollDispatcher`
takes the promise of that module for its two queues: losses at any time, each
reported by the drain that follows, unless that throws, when the exception's text
stands where the report would. `HandleUse` implements `HandleRegistry`.
`SnapshotGetter` extends `RecordCodec`: what it returns went through the bytes.
`StaticGates` composes the linter's modules the way `check_file` calls them;
`LintCompare` extends `LintNames`, whose split of a declaration it uses.

What a step is:

* The shim's entry points run on one thread and share nothing with
  libtorrent's threads but the alert queue (`torrent_shim.cpp` 102-110), so one
  call is one action. `TorrentSession` splits `btx_pop_alerts` per alert,
  because libtorrent goes on destroying torrents while alerts are extracted.
* In rp1 a critical section is one action. `on_extension_handshake` takes the
  mutex twice (only once when the handshake carries no rp1 id), `tick` goes on
  after releasing it: `net` remembers where the single network thread is.
  `drain` holds the mutex over its loop; other threads may still do what needs
  no mutex meanwhile.
* In the private transfer one callback or timer message is one action: the
  engine runs a handler to its end. Between two of them the network may deliver
  any part of what was written, and break.
* A script message is one action, except that a pass of the dispatcher stops
  after each drain, because the handlers it dispatches to may call
  `btStartPolling`, `btStopPolling` or a failing `bt` call. Whole batches are
  handed over at once: a handler between two events of a batch does nothing a
  handler before or after them could not do, as the pass reads none of the
  state they change until the batch is done.

* The tools are sequential. The linter has no state between files, so its
  checks are operators, and the machine is the source they read: it grows by one
  element at a time, so every short source of a topic is a state. The registry check is treated alike. The packaging
  tool is cut wherever a kill leaves another state on disk: inside each copy, and
  between copy and strip. The gate's step is a section, as a row that raises ends
  it there.

What is abstracted: an event is its kind, its peer or torrent, its number and
its size; a torrent is a number with the life libtorrent gives it; text,
fields and options are left out. `EntryHead` stands for the fixed bytes of an
entry and `Slab` for the fixed part of `Rp1Event::cost`, so the small fields
(swarm, endpoint) count as fixed. A line of source is its tokens with what it
is in the language; a file of the packaging tool is which library it is and
whether it is whole; a row of the vector gate agrees or does not.

Definitions marked `slip` are wrong variants of the definition they precede.
None is used; each is there to be swapped in, to see that the property it
should break is broken.

## 3. The runs

| Run | Shows |
|---|---|
| `handle_use` | free stack exact, refinement of `HandleRegistry`; 3 slots, 4 generations, 2 frees per slot |
| `session` | one live session, sound reverse map, ids and pending events name their own torrent, gone means stale, the count is exact at rest; 2 sessions, 2 torrents, 3 adds with duplicates, removals by both sides, generations that wrap |
| `alert_drain` | refinement of `LossyQueue`, progress, loss reports, one retry is enough; 4 alerts of size 1 or 3, a queue of 3, a buffer of 4, one torrent that goes |
| `alert_never_drops` | *violation*: a throwing alert takes its batch along |
| `rp1` | caps, accounting, no silent loss, peer lifecycle, order in both directions, refinement of `LossyQueue`; queued events are taken, losses reported, accepted messages sent; 2 peers, 4 events, 2 messages each |
| `getter` | the writer stays in its block, a getter returns what its last look saw, one retry is enough unless the snapshot grew; 5 peer lists and 3 status records over bytes of 4 values, a first buffer one list fits exactly, one record and one value too long for a u16 |
| `poll` | chains bounded, a chain exists while polling is on and goes on, every loss of either queue is warned of, no foreign error taken for a report; with session 0, failing handlers and drains that throw |
| `static_gates` | the text scanner, the checks on blocks, on places in a handler and on names agree with the language (fourteen facts in four properties), over every source of up to 4 to 8 elements of eight topics (516 thousand sources); the registry check refuses no files that are in step and passes no others, headers with an enumerator without a value excepted, over up to 5 declarations in any order after a start in which the ABI versions agree, differ or lack one (25 thousand files) |
| `comparison` | operands recovered, hex comparisons found, fixes accepted; 13 operands grown twice, 3 partners, either side, 3 operators, 5 statements |
| `package` | what is committed is what was found, and when it may be incomplete, reports, staging, strips, detection, and what a run may write; 2 platforms of one suffix, 2 builds, killed anywhere |
| `onion_transfer` | gate, rows, file handles, watchdogs and temporary files agree, the buffer stays below a frame; what is saved is what was promised and shared, under the seal of the key if it was locked, also when the sender fails to read; only what may go to a browser does; failures have a reason; downloads end and the share comes free; 1 caller with 2 faults and 2 callers, 4 shares, 9 browser requests, 10 foreign streams, every cut |
| `vector_gate` | success is earned, the test comes to its end; 6 sections, 4 fixtures, any rows missing, one raising, one broken in the shipped demos, with and without library, requirement and runner |

Several properties are conjunctions of named parts (`Answers`, `Progress`,
`SessionsSound`, `BlocksAgree`, `Committed`, `PassEarned`, ...): the part says one thing
and has its own comment, the conjunction says what a user of the component relies on,
and each part has a slip of its own that breaks it.

Bounds. They are as small as the interesting cases allow, and each case does
occur. Handles: 3 slots give a stack on which order matters; generations wrap in
`session` (`GenMax` 2, three adds). Sessions: two
torrents and two slots let a slot be reused by another torrent, inside a session
and across two; `SYMMETRY` exchanges the info-hashes, of which only equality is
looked at. Alerts: size 3 with a prefix of 2 exceeds a buffer of 4 (grow and
retry), size 1 fits beside it (the overtaking case), and a queue of 3 overflows
with 4 alerts. rp1: events of cost 1 to 3 against caps of 2 events and 3 bytes
reach each cap alone, and a token of size 2 exceeds the first buffer's room.
Getters: a byte has four values, so a u16 ends at 15 and a record of ten bytes
overflows it, and a value of 17 bytes is cut; lists of 2 to 29 bytes meet a first buffer of 11 bytes that one of
them fills exactly; a new block is filled with a byte no count holds. Polling: two stops are enough for a second chain and a third; only the number
of stops is bounded, and `ChainsBounded` is stated relative to it. Linter: three
blocks nested or crossed, an else under an if with blank lines between, a try in a
catch with a throw after each end, a mark inside a string inside a comment are all
shorter than the longest source. Comparisons: two growths put a join in a call and
a chunk on a group. Packaging: two builds and two platforms give a stale staged
copy, one of each name, and a library found for the wrong platform (both have
suffix `.so`). Vector gate: every section kind and tier occurs, and each floor can
be missed. Private transfer: a chunk of two cells gives whole and partial frames,
two of them in the longest file; reads fall on every boundary and inside every
part. A fault is a break, an edit, or one call to a disk that fails: open, free space,
read, write, unlock or move, delete. What a lock does is one cell: a file sealed
with the key begins with `Seal`, and a stranger's may lack it. One caller meets two
faults of any kind at any time; two callers meet the
gate, each other's timers and everything that needs no fault. A stranger's
stream shares nothing with this share, so it is looked at alone.

Some properties hold only up to an event that the history records, and say so:
`tame` (no torrent added twice or gone by itself) for `CountTracksTorrents`;
`throws` (polls ended by an exception) for the progress of the alert stream;
`spoiled` (a handler failed, or a pass found session 0, and no stop came since)
for the dispatcher; `Answered` for the getters (no failed allocation has left a
freed block behind or a copy unread, and the u16 fields can say what was looked at);
`AllValued` for the registry check (every enumerator has a value of its own).
A pass that finds session 0 ends the chain and leaves the flag on, so later starts
arm nothing until a stop. `FailsForAReason` names the reasons a download may have,
`WholeIfBuilt` the one way to a committed library that is cut short. In the linter's
properties the conditions (the first name of a declaration line, a throw that begins
its line, handlers that do not nest, `CutShort`, `ReadsAsCall`) name the sources on
which a check is known to be blind (section 6). The violation runs show some of what happens beyond.

`CHECK_DEADLOCK` is left on where the caller can always poll, free or run
again. It is off in `static_gates` and `comparison`, where a source of the
longest length is the end, in `vector_gate`, where the test ends, and in
`onion_transfer`, where all callers have been served.

## 4. Fairness

* Private transfer: the engine delivers the messages that an app has scheduled
  with `send ... in`: the pump and the two watchdogs. Nothing is assumed of tor
  or of the other side, which may fall silent at any point.
* Alerts: weak fairness of the two ways a poll can end, as `btPoll` runs from a
  repeating timer. Nothing is assumed of libtorrent.
* rp1: the caller's poll begins, goes on and ends; `tick` runs (libtorrent
  calls it every second on each connection) and every callback finishes.
  Strong fairness where the mutex or the single network thread stands in the
  way now and then: a thread that keeps asking for a mutex gets it. No
  fairness for peers.
* Vector gate: the test is one sequential program, so weak fairness of its next
  step. A gate that never returns is outside the model.
* Linter and packaging: no fairness, no liveness.
* Polling: the engine delivers a scheduled message and a pass goes on. No
  fairness for the app or the queues. A handler returns or raises an error; one
  that never returns is outside the model.

## 5. What is proved

`HandleUse_proofs`, for every capacity up to 65536, generation limit up to
32767 and set of objects:

* `TableCorrect` joins the first two of these into the invariant the run checks.
* `TypeCorrect` (`Spec => []TypeOK`): by induction; each call changes one slot
  (`AllocStep`, `FreeStep`), and the wrap keeps the generation in its range.
* `FreeListCorrect` (`Spec => []FreeListExact`): the free stack lists the used
  dead slots, once each. It is inductive with `TypeOK`, after splitting it into
  distinctness, soundness and completeness of the stack.
* `NeverReissued` (`MaxFrees < GenMax` implies `Spec => ImplementsRegistry`):
  the refinement. The two facts it rests on are inductive with the above:
  `GenTracksFrees` (a slot's generation is one more than its frees) and
  `IssuedExact` (the handles issued for a slot are those of its generations up
  to now). So a handle about to be issued cannot have been issued before. The
  assumption is needed: at `GenMax` frees of a slot the generation is 1 again, and
  a handle issued long ago is live, whatever the header says of stale handles
  (`btx_handle_table.h` 7-8).

`Rp1Transport_proofs`, for any number of peers, caps, sizes and messages, and
every interleaving of the two threads:

* `TypeCorrect`, and with it everything below (`QueueCorrect` joins it with the caps). `OfferingPushes` and `StepCases`
  sort the actions by what they do to the queue: offer one event, take one,
  report, or nothing. The step proofs then need four cases, not fourteen.
* `BoundCorrect`, `NoLossIsSilent`: the caps and the account of losses are
  inductive with the types.
* `IdsNeverReused`, `SendStopsAtGone`: from `LifeInv`, which relates the stream
  the script sees to the plugin's table: an id not given out has no events, a
  disconnected event means a closed record, a handshake in progress is of an
  open connection. The stream only grows at its end (`StreamGrows`); draining
  moves events inside it.
* `OneRetryIsEnough`: from `RetryInv`; no drain runs between a refusal and the
  retry, so the head of the queue stays.
* `OrderCorrect`: per peer, wire, batch in flight and queue put together are what
  was accepted; inductive by associativity of concatenation.
* `BytesCorrect`: `queueBytes` is the sum of the costs in the queue. `BytesExact` is
  inductive with the types; the work is in the sum. `FoldSeq` adds over sets of
  places in an order it chooses, so `AddsAny` shows that any place may be taken
  first, `ChargedSums` makes it a sum over the first `k`, and `ChargedAppend` and
  `ChargedTail` say what an offer and a round of the drain do to it. The
  subtraction of `drain` therefore never saturates.
* `RefinesLossyQueue`: each step is a step of `LossyQueue` or leaves it alone.

`AlertDrain_proofs`, for any number of alerts, kinds, sizes, torrents and both
limits (libtorrent's queue and the drain buffer):

* `AnswersCorrect`: the invariant the run checks is inductive as it stands. Each
  way a call goes (`PopStash`, `PopFresh`, `PopThrows`) ends in `Return`, and
  `PollAnswers` is the lemma on what a poll may then rely on: a grown buffer holds the
  first stashed entry.
* `DrainImplementsQueue`: the queue of `LossyQueue` is the stash and, behind it,
  what will be surfaced of libtorrent's queue (`Held`). A post appends to it or is a
  loss; a poll takes some of its first entries, wherever the boundary between
  stash and fresh falls (`Parts`, `JoinThree`). That `Surfaced` goes through a
  prefix and an append is by induction over places (`SurfacedPrefix`,
  `SurfacedAppend`).

`PollDispatcher_proofs`, for any number of stops and any session values:
`TypeCorrect`; `ChainsCorrect`, from `RoomLeft` (with the flag off there is room
for one chain less than `ChainsBounded` says, which is the room a start takes);
`ArmedCorrect` and `ReportCorrect` (a report is the drain's own or an exception's),
inductive with the types; `OneChainCorrect` joins the first three.

`TorrentSession_proofs`, for any capacity, generation limit, number of torrents,
sessions, adds and alerts:

* Three lemmas about the handle table as a map from live handles to objects
  (`AllocMap`, `FreeMap`, `EmptyMap`): alloc adds a handle that was not live,
  free takes one away, neither touches another. The rest uses only these.
* `SessionsCorrect`: the invariant is `Books` with the types: the latch names the one live
  session, stash and map are those of that session, every entry handed out has a handle.
* `IdsCorrect`, under `adds <= GenMax`: from `Tickets`. A slot's
  generation is bounded by the number of adds (`GensBounded`), so it
  has not wrapped, and an id issued in this session is live for its own torrent or for none.
* `StaleCorrect`: from `Stale`, which follows the removed alert
  from libtorrent's queue over the batch to the script (`Announced`, `Reported`):
  after extraction no handle reaches the torrent (`Named`).
* `CountCorrect`, under `MaxTorrents <= Capacity`: from `Counted`; a torrent that
  is in the session and was added has exactly one handle, because there is
  always room for one (`RoomForOne`). With fewer slots an add may fail after
  libtorrent took the torrent, and the count is short; the run has slots enough.

`Tools_proofs`, packaging tool: for any platforms, directories, builds and hosts, any
number of runs and a kill between any two steps. All rest on
`StagingInv` (what is still to be staged is committed, and only a run that may
write gets there). `CommittedCorrect` needs `CopyInv` (until the strip ends, the
tree's file is what was found; a full one stays only with an excuse) and `BuildsWhole`
(what a build wrote is whole, so a file cut short was found in the staging area),
`ReportsCorrect` needs `ReportInv` (nothing is written before the status is set,
and the status compares the tree with `before`), and `BareBuildCorrect` rests on the order of the search (`BestIsBare`).
`OwnBusinessCorrect` is an action property; its hypothesis is that the hosts
are of a machine that `detect_platform_id` knows (`KnownMachine`): on another it
answers for `x86_64`, see section 6.

`Tools_proofs`, vector gate: for any sections, rows, floors, fixtures and surroundings:
`GateCorrect` from `GateInv` (the sections behind the gate were run or had a
reason not to, and every row that disagreed is noted), `PassCorrect` from `Judged`
(each fixture behind the test was caught, or skipped and counted).

`Tools_proofs`, registry check: for any prefixes, enumerators, constants and order of
the lines. `RegistryCorrect` rests on `OneMatch`: when no name is declared twice, the
value the patterns keep of a name, the first or the last they meet, is that of its one
declaration. Then each complaint stands for one way to be out of step
(`SilentRegistry`, `SilentAbi`). That a pass means files in step is proved for headers in which every
enumerator has a value; that files in step pass, for all. `RegistryAssumption` says what the patterns make
true: an item of the header has a name with one of the prefixes (37-47), and
`#define BTX_ABI_VERSION` gives no other name (65).

`OnionTransfer_proofs`, for any share, edits, requests and streams of strangers,
every cut of a stream into reads, any number of callers, breaks and failures:

* `BooksCorrect`: the invariant is `Types`, `GateInv` (the gate is shut
  exactly when a stream holds it) and, for each stream, `StreamInv`, `RecvInv`
  and `SendInv`. Each end of a stream has its lemmas: what an operator does to
  its record (`RecvDataIs`, `CleanupIs`), then that the action keeps the rest.
* A read drains frames until none is whole. That the drained record exists and
  leaves less than a frame is induction over the number of frames. The
  library's theorems for that cannot be used here, but a set of
  naturals has a least element (`Least`, from well-foundedness), and that gives
  `Upto` (a set that starts at 0 and is closed under the next one is everything)
  and `Iteration` (a function defined by steps exists). `Rp1Transport_proofs` and
  `AlertDrain_proofs` do their inductions in the same way.
* `DeliveredCorrect`: `Carries(w, p, b)` says that the cells of `w` up to `p` are a
  header and whole frames with `b` in them; it is the least such relation, so that
  what holds of the header and survives a frame holds of all of it. `Payload`, the
  property's recursive reading of a stream, agrees with it (`PayloadCarries`).
  The invariant `Told` has a half for each end: `Hears` (what the receiver keeps is
  carried by what it was handed, the buffer is the rest) and `Tells` (what the
  sender wrote carries the content up to its offset, with a terminator behind it when
  the offset is the end or a read failed there (`Enough`, `SentUpto`); to a browser,
  the page as far). The two meet in `ToldDelivered`: whatever part a failed read
  leaves out, the receiver's count is short of the promise, and it saves nothing. The
  hypothesis `RequestAssumption` is that no browser begins as the app does: who
  does is served as an app, whatever it is.
* `FailsForAReasonCorrect`: `Steady(w, key)` is what no receiver fails on: a sound
  header, no more cells than it promises, nothing but a terminator where a
  frame should be, after all of them, and under a key a whole that it unlocks
  (what is shared locked begins with the seal, `LockedIs`). A sound stream is steady (`SoundSteady`), and
  so is all an unedited sender ever wrote (`SendingSteady`); every start of a steady
  stream is read without a failure unless the disk fails (`RecvDataFine`). A
  receiver that still waits has not been handed the whole file (`RecvDataCalm`,
  `RestNotWhole`): an end that finds it so is a reason. The invariant `Reasoned` says that of the two ends: `Listens`
  (a row in error is excused) and `Speaks` (a sender that closed on an app had sent
  all, or nobody heard, or its disk, the gate or a watchdog stopped it; a sender that has not
  is still to hear the request of an app, which is never turned away).

`SnapshotGetter_proofs`, for any radix above 1, any records with distinct ids, any
lists of them that the memory has room for, any junk in a new block and any first
capacity:

* `ListRoundTrip` and `RecordRoundTrip` are about the codec alone: in a block that is
  large enough the shim writes exactly `ListBytes` (`RecordBytes`) bytes and answers
  that, and `_parseRecord` with the list loop gives back every entry and every known
  field. The hypotheses `Framable` and `Sayable` are that counts and lengths fit
  a u16; beyond that `field_raw` cuts a value, and a body length wraps.
  Writer and walker are recursive functions over fields and entries;
  `RunExists`, by induction over places with `Upto`, shows that such a function exists,
  so that the one the model chooses obeys its equation (`PutRecordRuns`,
  `PutListRuns`, `ParseRecordIs`, `ParseListIs`). `Extends(w, v)` says that a write
  disturbs nothing before its place or beyond the block; it is kept by each
  `Put`, by a field, an entry and the patch at the head, and lets what was
  written earlier stay (`FieldStays`, `RecordStays`, `ListStays`). `FieldAt` to
  `ListAt` say what bytes stand where: the writer's lemmas end in them, the walker's
  start from them, and the copy of `_bufToData` keeps them.
* `WritesCorrect`, `AnswersCorrect`: from `GetterInv`, which adds `Waiting`: a call that has
  looked once did so over a live block at a good torrent, and asks for exactly
  what it measured, unless that cannot be said. So a second refusal means that
  the snapshot grew. `LookIs` sorts a look into four outcomes (asks again, in vain,
  bad torrent, answering), whatever the bytes; the step proofs need only those.
  `GetterAssumption` gives the memory room for every snapshot: addresses do not end.

Constants are assumed to be what their modules' ASSUMEs say, which TLC checks on
every run.

Only model-checked, and why:

* The linter (`StaticGates`) and `Comparison`: folds over tokens inside folds over lines, through the
  community modules' `FoldLeft`, whose operator argument no prover instantiates; and
  `LintCompare`'s walks are RECURSIVE operators.
* All liveness, `Progress` among it: the prover has no fairness.

## 6. What the models disagree with

A `violation` run checks one sentence of the repository against the code;
`PROJECT.json` quotes it under `findings`.

* `alert_never_drops`: a drain can lose records when an alert's torrent is gone.

Known divergences, met while modelling, that no run of their own shows:

* An id of an earlier session names a torrent of the next when slot and
  generation agree, because each session's table starts over
  (`torrent_shim.cpp` 628).
* The slot of a torrent that libtorrent removed by itself is not reclaimed when
  its handle expires before the removed alert is drained (2180). `GoneIsStale`
  and `CountTracksTorrents` are stated around it.
* rp1 id 0 in a handshake is announced as support, and every send is refused (468).
* Peers that join between the refused look and the retry make the peer list of
  a good torrent empty (`torrent.lcb` 2625); `EmptyForAReason` says when.
* `torrent-helpers.livecodescript` 171 says of `btLastError` after a drain: "not
  empty right after a drain, the queue overflowed". A drain that an exception ended
  leaves the exception's text (`torrent_shim.cpp` 748), and when it would have
  reported an overflow, that report is lost for good: the app is warned, but of
  something else. `LossWarned` asks for the warning, `OwnReport` allows the text.
* After stop and start the pass scheduled before the stop drains, and a second
  chain runs on (`torrent-helpers.livecodescript` 128); `ChainsBounded` counts it.
* The packaging tool searches the whole build directory (`package-extension.py`
  128), where an earlier `--assemble` put a copy under the bare name, and prefers
  that name: beside a newer lib-prefixed build it finds the copy and ends with
  "Committed binary already up to date" (337). `BareBuildWins` says when it is right.
  When a kill in the middle of staging (253) has cut that copy short, it is found
  after a clean and a lib-prefixed build, differs from the tree, and is committed as
  the library (193). `WholeIfBuilt` says that this is the only way.
* The packaging tool compares the build with the stripped copy, so a second run on
  the same build says "updated", not "unchanged", where strip exists, although the
  header calls it idempotent (`package-extension.py` 45). After a kill between copy
  and strip (193-197) the opposite happens: the unstripped library is "unchanged"
  for ever.
* `detect_platform_id` maps every machine it does not know to `x86_64` or `x86`
  (104-108), where its doc says None.
* The linter: a throw behind the `if` on its line is missed in a catch, as the
  pattern asks for a line that begins with it (1026); the second name of a line that
  declares two constants may be used above it, as the before-use check takes the
  first (637); a throw after an inner `end try` in a try whose catch came earlier is
  reported although it is in no catch (1024); the raw-text checks do not know
  block comments (1013); a right operand that holds a chunk but does not start with
  one is cut at its `to` (1594), so check 23 misses the hex in it; a command name
  before a parenthesised operand reads as a call (1573).
* The registry gate reads constants and enumerators inside comments. It sees no
  enumerator without an explicit value (44-55), although its header says that every
  enumerator must have a constant (13-14): such a one may lack it, or have one with
  any value.
* The vector gate that raises in a row prints a traceback and none of the
  failures noted before it (1233-1262).
* The golden receiver's doc says that a stream carrying more than its header
  promised "is refused by the finish" (`onion_frame_golden.py`, class Receiver). It
  is when the surplus comes in the read that completes the count; when a read ends
  at the promised count the file is saved and the rest ignored
  (`torrent-quickshare.livecodescript` 5141). `SavedIsPromised` holds in both cases.
* A caller that leaves before it asked for anything keeps the share busy until
  the watchdog (2397-2400): `Progress` says that it comes free, not when.
* The sender's pump does not look at the result of its read (2449-2461): a read that
  fails is the end of the file. The terminator goes out, the row says done and the
  log "Sent". The receiver's count refuses the part (5154); a browser has only the
  length in the page's head. `SentAsShared` says done with this exception.
* A download that came whole but is not sealed with the key ends in an error, with
  nothing saved (5160-5174). `FailsForAReason` counts it among the reasons.
* A plain download that cannot be moved to its place leaves its temporary file
  (5176-5183), and an older file of that name is deleted first (5240); a temporary
  file that cannot be deleted stays without a word (5162-5167, 5210-5217).
  `ReceiverKept` excuses what stays after a failing disk.

## 7. Not modelled, and the plan

Order of work, most important first:

1. (done) Handle table with its registry; rp1 transport; alert drain;
   sessions and torrents; poll dispatcher.
2. (done) Record codec and the getters over the status buffer.
3. (done) The linter's checks that carry state, the registry gate, the packaging
   tool, the vector gate and its test.
4. The codec in the drains: alert and rp1 entries with their type word, a large
   `rp1_tok` or resume record at the limit of the body length.
5. BEP44 put and its sequence number, the cached DHT counters, port mapping
   ids, resume data at `btx_session_free`.
6. (done) The private transfer of quickshare. Next: publishing its service
   (`qsStartOnionShare`, the publish watchdog and OnionXT's control connection),
   its folder web server, the feed of the channels app, and the composition of
   rp1 with the chat app's hello exchange.
7. (done) Proofs: every invariant of the shim, the binding, the dispatcher, the
   private transfer, the packaging tool, the vector gate and the registry check. Left
   are those of the linter (`static_gates`, `comparison`): first rewrite its folds as
   recursive functions, as `RecordCodec` has them, then prove `NamesAgree`.

Left out for good: settings and control calls (each forwards one call to
libtorrent), torrent creation and hashing, the UI of the example apps, and the
build: they keep no state that two actors share. Of the linter, the checks that
are one pattern on one line (banned characters, the shadow trap, `does not`,
prepositions after put, imports, lower-case names, dynamic properties, prose in the
message box, the other antipatterns): a model of them would repeat the pattern.
Of the vector gate, what the rows compute: an interpreter of the script language,
the goldens and libsodium.
