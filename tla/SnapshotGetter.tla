--------------------------- MODULE SnapshotGetter --------------------------
(***************************************************************************)
(* The getters that return a snapshot of libtorrent's state: btPeerList    *)
(* (btFileList, btTrackers and btWebSeeds have the same body) and          *)
(* btTorrentStatus. Each writes into one status buffer that all getters    *)
(* share, grows the buffer once when the shim answers -needed, calls       *)
(* again, and walks the bytes. libtorrent's threads go on changing what is *)
(* measured, between the two calls as well.                                *)
(*                                                                         *)
(* looks and died are history: what the engine held at each look of the    *)
(* last call, and whether the torrent was bad at one.                      *)
(***************************************************************************)
EXTENDS RecordCodec, FiniteSets

CONSTANTS PeerLists,   \* what the engine may report as peers: sequences of records
          Statuses,    \* and as status: records
          StatusCap,   \* kStatusCap, the first size of the buffer
          Junk,        \* bound: the bytes a new block is filled with
          MemSize      \* bound: the memory modelled, with room for every snapshot

ASSUME GetterAssumption ==
  /\ PeerLists \subseteq Seq(Record) /\ Statuses \subseteq Record
  /\ Junk \subseteq Byte
  /\ MemSize \in Nat /\ StatusCap \in 1..MemSize
  /\ \A entries \in PeerLists : ListBytes(entries) <= MemSize
  /\ \A fields \in Statuses : RecordBytes(fields) <= MemSize

Kinds == {"peers", "status"}

VARIABLES engine,   \* what libtorrent holds: [peers, status]
          good,     \* the torrent handle resolves
          mem, cap, \* the status buffer and what lies after it; sStatusCap
          freed,    \* sStatusPtr names a block that was given back
          call,     \* the last call's kind, and what its first look asked for:
                    \* 0 unless the call still has to look again
          result,   \* what the last call returned or threw
          looks, died

vars == <<engine, good, mem, cap, freed, call, result, looks, died>>

Engine == [peers : PeerLists, status : Statuses]

Idle == call.need = 0

\* What a getter hands to the script: a value, or an error thrown out of it,
\* which is named for its cause.
Returned(v)  == [error |-> "none", val |-> v]
Thrown(what) == [error |-> what,   val |-> <<>>]
Empty        == Returned(<<>>)

Init ==
  /\ engine \in Engine
  /\ good = TRUE
  /\ mem = [i \in 1..MemSize |-> 0]
  /\ cap = 0 /\ freed = FALSE
  /\ call = [kind |-> "none", need |-> 0]
  /\ result = Empty
  /\ looks = <<>> /\ died = FALSE

-----------------------------------------------------------------------------
\* libtorrent: peers come and go, and the torrent may be removed.
EngineChanges ==
  /\ engine' \in Engine
  /\ UNCHANGED <<good, mem, cap, freed, call, result, looks, died>>

TorrentGoes ==
  /\ good /\ good' = FALSE
  /\ UNCHANGED <<engine, mem, cap, freed, call, result, looks, died>>

-----------------------------------------------------------------------------
(***************************************************************************)
(* _ensureStatus: the old block is given back before the new one is asked  *)
(* for, and a new block holds anything. When there is no memory the        *)
(* handler throws; the pointer and the capacity stay.                      *)
(***************************************************************************)
Grows(need) == cap < need

Block(need, junk) ==
  [i \in DOMAIN mem |-> IF Grows(need) /\ i <= need THEN junk ELSE mem[i]]

Capacity_once(need) == IF cap = 0 THEN need ELSE cap                   \* slip

Capacity(need) == IF Grows(need) THEN need ELSE cap

NoMemory(kind, need) ==
  /\ Grows(need)
  /\ freed' = (cap > 0)
  /\ call' = [kind |-> kind, need |-> 0]
  /\ result' = Thrown("memory")
  /\ UNCHANGED <<engine, good, mem, cap, looks, died>>

-----------------------------------------------------------------------------
\* One shim call: the writer over the caller's block, or 0 for a bad handle.
Write(kind, block, capacity) ==
  IF kind = "peers" THEN PutList(Writer(block, capacity), engine.peers)
                    ELSE PutRecord(Writer(block, capacity), engine.status)

\* _bufToData copies what was written and no more of the buffer, and the copy is
\* walked. (With no memory for the copy it is empty: the walk throws at once.)
Parsed(kind, block, n) ==
  LET data == SubSeq(block, 1, n)
      walk == IF kind = "peers" THEN ParseList(data) ELSE ParseRecord(data, 1)
  IN  IF walk.threw THEN Thrown("bounds") ELSE Returned(walk.out)

(***************************************************************************)
(* _ensureStatus(need), the call into the shim, and what the script does   *)
(* with its answer: the first look goes for a second one when the answer   *)
(* is -needed, the second takes any answer that is not positive as nothing.*)
(***************************************************************************)
Look(kind, need, junk) ==
  LET w == Write(kind, Block(need, junk), Capacity(need))
      n == IF good THEN Answer(w) ELSE 0
      second == ~Idle
  IN  /\ cap' = Capacity(need)
      /\ mem' = IF good THEN w.mem ELSE Block(need, junk)
      /\ IF n < 0 /\ ~second
         THEN call' = [kind |-> kind, need |-> -n] /\ UNCHANGED result
         ELSE /\ call' = [kind |-> kind, need |-> 0]
              /\ result' \in IF n <= 0 THEN {Empty} ELSE {Parsed(kind, w.mem, n), Thrown("memory")}
      /\ UNCHANGED <<engine, good, freed>>

First(kind, junk) ==
  /\ Idle /\ ~freed
  /\ Look(kind, StatusCap, junk)
  /\ looks' = <<engine>> /\ died' = ~good

Retry(junk) ==
  /\ ~Idle
  /\ Look(call.kind, call.need, junk)
  /\ looks' = Append(looks, engine) /\ died' = (died \/ ~good)

\* A call over a block that was given back (its capacity is enough, so it is not
\* replaced): nothing is known of the outcome.
FirstIntoFreed(kind) ==
  /\ Idle /\ freed
  /\ call' = [kind |-> kind, need |-> 0]
  /\ result' \in {Empty, Thrown("bounds"), Returned(AsList(engine.peers))}
  /\ looks' = <<engine>> /\ died' = ~good
  /\ UNCHANGED <<engine, good, mem, cap, freed>>

Next ==
  \/ EngineChanges
  \/ TorrentGoes
  \/ \E kind \in Kinds, junk \in Junk : First(kind, junk)
  \/ \E junk \in Junk : Retry(junk)
  \/ \E kind \in Kinds : Idle /\ NoMemory(kind, StatusCap)
  \/ ~Idle /\ NoMemory(call.kind, call.need)
  \/ \E kind \in Kinds : FirstIntoFreed(kind)

Spec == Init /\ [][Next]_vars

-----------------------------------------------------------------------------
\* Every variable has its type; a call that looks again asks for a larger buffer.
TypeOK ==
  /\ engine \in Engine
  /\ looks \in Seq(Engine) /\ Len(looks) <= 2
  /\ good \in BOOLEAN /\ freed \in BOOLEAN /\ died \in BOOLEAN
  /\ mem \in [1..MemSize -> Byte]
  /\ cap \in 0..MemSize
  /\ call.kind \in Kinds \cup {"none"}
  /\ call.need = 0 \/ call.need \in cap+1 .. MemSize

-----------------------------------------------------------------------------
(***************************************************************************)
(* The writer stays inside the caller's block, whatever it measures: the   *)
(* bytes after it keep their value through refused and partial writes,     *)
(* back-patches at the edge of the block included.                         *)
(***************************************************************************)
BeyondUntouched == \A i \in 1..MemSize : i > cap => mem[i] = 0

Meaning(kind, e) == IF kind = "peers" THEN AsList(e.peers) ELSE AsArray(e.status)

Need(kind, e) == IF kind = "peers" THEN ListBytes(e.peers) ELSE RecordBytes(e.status)

\* The u16 fields can say what a getter is asked for.
Expressible(kind, e) == IF kind = "peers" THEN Framable(e.peers) ELSE Sayable(e.status)

\* A call has returned, with memory for its block and its copy, and what it looked
\* at fits the u16 fields.
Answered ==
  /\ Idle /\ looks # <<>> /\ ~freed /\ result.error # "memory"
  /\ \A i \in DOMAIN looks : Expressible(call.kind, looks[i])

(***************************************************************************)
(* A getter returns what the engine held at its last look, or nothing:     *)
(* never a mixture of two looks, of two getters that share the buffer, or  *)
(* of the bytes an earlier, larger snapshot left in it, and it never       *)
(* throws out of the walk.                                                 *)
(***************************************************************************)
ReturnsSnapshot ==
  Answered =>
    \/ result = Empty
    \/ result = Returned(Meaning(call.kind, looks[Len(looks)]))

(***************************************************************************)
(* A getter comes back empty only when there was nothing at its last look, *)
(* the torrent was bad, or the snapshot outgrew the first look. So -needed *)
(* is exact, and one retry is enough when nothing grows.                   *)
(***************************************************************************)
EmptyForAReason ==
  Answered /\ result = Empty =>
    \/ died
    \/ Meaning(call.kind, looks[Len(looks)]) = <<>>
    \/ Need(call.kind, looks[1]) < Need(call.kind, looks[Len(looks)])

\* The shim writes nowhere but in the block it was handed, and that block is no
\* larger than the binding's memory.
WritesInside == TypeOK /\ BeyondUntouched

\* What a getter returns is what the engine held: the whole of its last look, or
\* nothing for a reason.
Answers == ReturnsSnapshot /\ EmptyForAReason
=============================================================================
