---------------------------- MODULE OnionTransfer ----------------------------
(***************************************************************************)
(* The private file transfer of examples/torrent-quickshare.livecodescript *)
(* over OnionXT streams: the sender that serves one stream at a time, the  *)
(* receiver that reads frames into a temporary file, the idle watchdogs of *)
(* both, and the network between them, which cuts, delays and breaks.      *)
(*                                                                         *)
(* A byte is a cell. A header is magic, flags and total, one cell each,    *)
(* where flags other than 0 and 1 stand for a wrong version or a name too  *)
(* long; the length before a frame is two cells. The engine, tor and the   *)
(* files are external: a stream delivers in order what was written before  *)
(* it was closed, in reads of any size, or breaks and loses a rest; a file *)
(* may be edited after it was shared; a disk fails at any call, once in a  *)
(* handler, and a move that fails raises, as qsMoveFile expects. A locked  *)
(* file begins with Seal when it was locked with the key that is dialed.   *)
(* Timers are not measured: a watchdog finds that something came since it  *)
(* was armed, or that nothing did.                                         *)
(*                                                                         *)
(* sent, fed, and all of history say what happened, for the properties;    *)
(* sent and fed also are the network.                                      *)
(***************************************************************************)
EXTENDS Integers, Sequences, FiniteSets

CONSTANTS
  Streams,      \* 1..n: the streams, which OnionXT numbers as they are opened
  Shares,       \* what may be shared: [content, locked, web], and two bounds:
                \* callers, how many streams, and faults, how many breaks, disk failures, edits
  Edits,        \* what the file may be edited to, NoFile included
  Requests,     \* what a browser may send, cell by cell
  ForeignWires, \* what services other than this share send
  Magic,        \* kOnionMagic, in one cell of a header
  Seal,         \* what a locked file says of its key, in one cell
  Radix,        \* values of a cell of a length
  Chunk,        \* kOnionChunk
  MaxTotal,     \* kOnionMaxTotal
  MaxRequest,   \* the longest request a browser may take to finish
  NoFile

ASSUME TransferAssumption ==
  /\ Streams = 1..Cardinality(Streams)
  /\ {Magic, Seal, Radix, MaxTotal, MaxRequest} \subseteq Nat /\ Chunk \in 1..(Radix * Radix - 1)
  /\ Shares \subseteq [content : Seq(Nat), locked : BOOLEAN, web : BOOLEAN, callers : Nat, faults : Nat]
  /\ \A h \in Shares : Len(h.content) <= MaxTotal
  /\ \A h \in Shares : h.locked => h.content # <<>> /\ h.content[1] = Seal
  /\ Edits \subseteq Seq(Nat) \cup {NoFile} /\ NoFile \notin Seq(Nat)
  /\ ForeignWires \subseteq Seq(Nat)
  /\ \A q \in Requests : q # <<>> /\ q \in Seq({q[i] : i \in 1..Len(q)})

VARIABLES
  share,      \* what sActiveShare says of the file: its content when shared
  file,       \* the file at sActiveShare's path now
  busy, cur,  \* sActiveShare's busy and stream; 0: none
  tx,         \* per stream, the sender's sTx... and sOnionXfers entries
  rx,         \* per stream, the receiver's sRx... and sOnionXfers entries
  toTx,       \* per stream, what is on its way to the sender
  sent, fed,  \* per stream, what was written for the receiver, and how much it was handed
  cut,        \* per stream, how much of sent survives; Lasting: all
  faults,
  refused, timedOut, badDisk, edited

gate    == <<busy, cur>>
down    == <<sent, fed, cut>>
history == <<refused, timedOut, badDisk, edited>>
vars    == <<share, file, gate, tx, rx, toTx, down, faults, history>>

-----------------------------------------------------------------------------
(* Framing.                                                                *)
Flag(locked) == IF locked THEN 1 ELSE 0
Total == Len(share.content)

OnionHeader(locked, total) == <<Magic, Flag(locked), total>>
FrameLength(n) == <<n \div Radix, n % Radix>>
Terminator == FrameLength(0)
RequestMagic == <<"B", "TXO">>

\* Who begins as the app does is the app.
ASSUME RequestAssumption == \A q \in Requests : Len(q) >= 2 => <<q[1], q[2]>> # RequestMagic

HttpHead == -1

HeaderCells == 3
PrologueCells == 2
LengthCells == 2

Drop(q, n) == SubSeq(q, n + 1, Len(q))

\* sxDecryptFile: what a file sealed with the key holds, and a refusal of any other.
Unlockable(c) == c # <<>> /\ c[1] = Seal
Unlock(c) == Drop(c, 1)

Lasting == -1
Arriving(s) == IF cut[s] = Lasting THEN Len(sent[s]) ELSE cut[s]
Broken(s) == cut[s] # Lasting

(* A stream is opened by an app or a browser that calls this share, or by  *)
(* this user's app that calls a service of somebody else.                  *)
NoTx == [lib |-> "none", req |-> <<>>, row |-> "", path |-> FALSE,
         off |-> 0, raw |-> FALSE, fresh |-> FALSE, pump |-> FALSE, watch |-> FALSE]
NoRx == [who |-> "none", asks |-> "", lib |-> "none", state |-> "", buf |-> <<>>, key |-> FALSE, enc |-> 0,
         total |-> 0, got |-> 0, named |-> FALSE, tmp |-> NoFile, saved |-> NoFile,
         fresh |-> FALSE, watch |-> FALSE, row |-> ""]

Each(v) == [s \in Streams |-> v]

Init ==
  /\ share \in Shares /\ file = share.content
  /\ busy = FALSE /\ cur = 0
  /\ tx = Each(NoTx) /\ rx = Each(NoRx) /\ toTx = Each(<<>>)
  /\ sent = Each(<<>>) /\ fed = Each(0) /\ cut = Each(Lasting)
  /\ faults = 0
  /\ refused = {} /\ timedOut = {} /\ badDisk = {} /\ edited = FALSE

-----------------------------------------------------------------------------
(* The receiver, as operators on its record of a stream. bad names the     *)
(* call to the disk that fails in the handler, if any. key stays, to say   *)
(* later what was dialed: it is only read in the header.                   *)
DiskCalls == {"space", "open", "write", "land", "delete"}

RecvClear(r) ==
  [r EXCEPT !.state = "", !.buf = <<>>, !.enc = 0, !.total = 0, !.got = 0, !.named = FALSE,
            !.fresh = FALSE]

RecvAbort_keepsTemp(r, bad) ==   \* slip: what has come so far stays on the disk
  [RecvClear(r) EXCEPT !.row = "error", !.lib = "gone"]

\* The temporary file is deleted; that the disk refuses is not looked at.
RecvAbort(r, bad) ==
  [RecvClear(r) EXCEPT !.tmp = IF r.named /\ bad # "delete" THEN NoFile ELSE @,
                       !.row = "error", !.lib = "gone"]

\* The header: magic, version and name length from the prologue alone, then
\* the total, the two refusals, the free-disk check and the temporary file.
ParseHeader(r, bad) ==
  LET magicOk == r.buf[1] = Magic /\ r.buf[2] \in {0, 1}
      agreed  == r.buf[3] <= MaxTotal /\ r.buf[2] = Flag(r.key)
      room    == bad # "open" /\ (bad = "space" => r.buf[3] = 0)
  IN  IF Len(r.buf) < PrologueCells THEN r
      ELSE IF ~magicOk THEN RecvAbort(r, bad)
      ELSE IF Len(r.buf) < HeaderCells THEN r
      ELSE IF ~agreed \/ ~room THEN RecvAbort(r, bad)
      ELSE [r EXCEPT !.enc = r.buf[2], !.total = r.buf[3], !.named = TRUE, !.tmp = <<>>,
                     !.buf = Drop(@, HeaderCells), !.state = "body", !.row = "active"]

FrameStep_dropsPartial(r, bad) ==   \* slip: what is read of a frame is not kept for the next read
  LET n     == r.buf[1] * Radix + r.buf[2]
      stops == r.state # "body" \/ Len(r.buf) < LengthCells
  IN  IF stops THEN r
      ELSE IF n = 0 THEN [r EXCEPT !.buf = Drop(@, LengthCells), !.state = "done"]
      ELSE IF n > Chunk THEN RecvAbort(r, bad)
      ELSE IF Len(r.buf) < LengthCells + n THEN [r EXCEPT !.buf = <<>>]
      ELSE [r EXCEPT !.tmp = @ \o SubSeq(r.buf, LengthCells + 1, LengthCells + n),
                     !.got = @ + n, !.buf = Drop(@, LengthCells + n)]

FrameStep_waitsForAny(r, bad) ==   \* slip: a length is believed before it is looked at
  LET n     == r.buf[1] * Radix + r.buf[2]
      stops == r.state # "body" \/ Len(r.buf) < LengthCells
  IN  IF stops \/ Len(r.buf) < LengthCells + n THEN r
      ELSE IF n = 0 THEN [r EXCEPT !.buf = Drop(@, LengthCells), !.state = "done"]
      ELSE IF bad = "write" THEN RecvAbort(r, bad)
      ELSE [r EXCEPT !.tmp = @ \o SubSeq(r.buf, LengthCells + 1, LengthCells + n),
                     !.got = @ + n, !.buf = Drop(@, LengthCells + n)]

\* One round of the loop: a complete frame goes to the temporary file.
FrameStep(r, bad) ==
  LET n     == r.buf[1] * Radix + r.buf[2]
      stops == r.state # "body" \/ Len(r.buf) < LengthCells
  IN  IF stops THEN r
      ELSE IF n = 0 THEN [r EXCEPT !.buf = Drop(@, LengthCells), !.state = "done"]
      ELSE IF n > Chunk THEN RecvAbort(r, bad)
      ELSE IF Len(r.buf) < LengthCells + n THEN r
      ELSE IF bad = "write" THEN RecvAbort(r, bad)
      ELSE [r EXCEPT !.tmp = @ \o SubSeq(r.buf, LengthCells + 1, LengthCells + n),
                     !.got = @ + n, !.buf = Drop(@, LengthCells + n)]

Drained(r, bad) ==
  LET rounds[k \in 0..Len(r.buf)] == IF k = 0 THEN r ELSE FrameStep(rounds[k - 1], bad)
  IN  rounds[Len(r.buf)]

RecvFinish_noCount(r, bad) ==   \* slip: what has come is the file
  [RecvClear(r) EXCEPT !.lib = "gone", !.row = "done", !.saved = r.tmp, !.tmp = NoFile]

\* The count, then the file in its place: a locked one is unlocked and its
\* temporary file deleted, a plain one is moved, and stays when that fails.
RecvFinish(r, bad) ==
  LET r1    == [RecvClear(r) EXCEPT !.lib = "gone"]
      plain == r.enc = 0
      fails == bad = "land" \/ (~plain /\ ~Unlockable(r.tmp))
      stays == IF plain THEN fails ELSE bad = "delete"
      left  == IF stays THEN r.tmp ELSE NoFile
  IN  IF r.got # r.total THEN RecvAbort(r, bad)
      ELSE IF fails THEN [r1 EXCEPT !.row = "error", !.tmp = left]
      ELSE [r1 EXCEPT !.row = "done", !.tmp = left,
                      !.saved = IF plain THEN r.tmp ELSE Unlock(r.tmp)]

RecvData_needsTerminator(r, data, bad) ==   \* slip: the terminator is waited for
  IF r.state \in {"", "done"} THEN r
  ELSE LET r1 == [r EXCEPT !.buf = @ \o data, !.fresh = TRUE]
           r2 == IF r1.state = "header" THEN ParseHeader(r1, bad) ELSE r1
           r3 == Drained(r2, bad)
       IN  IF r3.state = "done" THEN RecvFinish(r3, bad) ELSE r3

\* A read: header, every complete frame, and done on the terminator or the count.
RecvData(r, data, bad) ==
  IF r.state \in {"", "done"} THEN r
  ELSE LET r1 == [r EXCEPT !.buf = @ \o data, !.fresh = TRUE]
           r2 == IF r1.state = "header" THEN ParseHeader(r1, bad) ELSE r1
           r3 == Drained(r2, bad)
       IN  IF r3.state = "done" \/ (r3.state = "body" /\ r3.got >= r3.total)
           THEN RecvFinish(r3, bad) ELSE r3

-----------------------------------------------------------------------------
(* The receiver's actions.                                                 *)
SetRx(s, r) == rx' = [rx EXCEPT ![s] = r]

\* A handler of stream s in which the call bad to the disk fails, if any.
Disk(s, bad) ==
  /\ bad # "none" => faults < share.faults
  /\ faults' = IF bad = "none" THEN faults ELSE faults + 1
  /\ badDisk' = IF bad = "none" THEN badDisk ELSE badDisk \cup {s}

\* The code or the address is used: a stream is dialed, its state seeded and
\* its watchdog armed. A code is as locked as the share it was made for.
Dial(s, who, key, wire) ==
  /\ rx[s].who = "none" /\ s <= share.callers /\ \A q \in Streams : q < s => rx[q].who # "none"
  /\ SetRx(s, [NoRx EXCEPT !.who = who, !.lib = "dialing", !.key = key,
                           !.state = IF who = "browser" THEN "" ELSE "header",
                           !.watch = who # "browser",
                           !.row = IF who = "browser" THEN "" ELSE "connecting"])
  /\ sent' = [sent EXCEPT ![s] = wire]
  /\ UNCHANGED <<share, file, gate, tx, toTx, fed, cut, faults, history>>

\* Bound: a stranger's service shares nothing with this one, so it is called alone.
Alone == \A q \in Streams : rx[q].who = "none"
NoStranger == \A q \in Streams : rx[q].who # "stranger"

DialApp(s) == NoStranger /\ Dial(s, "app", share.locked, <<>>)
DialBrowser(s) == NoStranger /\ Dial(s, "browser", FALSE, <<>>)
DialStranger(s) == Alone /\ \E key \in BOOLEAN, wire \in ForeignWires : Dial(s, "stranger", key, wire)

\* qsOnionRecvStream on "open": the request goes out. A browser sends its own.
RxOpened(s, request) ==
  /\ rx[s].lib = "dialing"
  /\ SetRx(s, [rx[s] EXCEPT !.lib = "open", !.fresh = rx[s].state # "", !.asks = request[1]])
  /\ toTx' = [toTx EXCEPT ![s] = IF tx[s].lib = "gone" THEN <<>> ELSE request]
  /\ UNCHANGED <<share, file, gate, tx, down, faults, history>>

AppOpened(s) == rx[s].who # "browser" /\ RxOpened(s, RequestMagic)
BrowserOpened(s) == rx[s].who = "browser" /\ \E q \in Requests : RxOpened(s, q)

\* oxStreamFail: the dial comes to nothing.
DialFails(s) ==
  /\ rx[s].lib = "dialing" /\ tx[s].lib = "none"
  /\ SetRx(s, IF rx[s].state = "" THEN [rx[s] EXCEPT !.lib = "gone"] ELSE RecvAbort(rx[s], "none"))
  /\ refused' = refused \cup {s}
  /\ UNCHANGED <<share, file, gate, tx, toTx, down, faults, timedOut, badDisk, edited>>

RecvStream(s, k, bad) ==
  LET data   == SubSeq(sent[s], fed[s] + 1, fed[s] + k)
      usual  == RecvData(rx[s], data, "none")
      actual == RecvData(rx[s], data, bad)
  IN  /\ bad # "none" => actual # usual
      /\ SetRx(s, actual) /\ Disk(s, bad)
      /\ fed' = [fed EXCEPT ![s] = @ + k]
      /\ UNCHANGED <<share, file, gate, tx, toTx, sent, cut, refused, timedOut, edited>>

\* qsOnionRecvStream on "data": a read of any size of what has arrived.
RxData(s) ==
  /\ rx[s].lib = "open" /\ rx[s].who # "browser"
  /\ \E k \in 1..(Arriving(s) - fed[s]), bad \in {"none"} \cup DiskCalls : RecvStream(s, k, bad)

GivesUp(s, r) ==
  \E bad \in {"none", "delete"} :
    (bad = "delete" => r.named) /\ SetRx(s, RecvAbort(r, bad)) /\ Disk(s, bad)

\* qsOnionRecvStream on "closed": the far side is gone and what arrived was read.
RxClosed(s) ==
  /\ rx[s].lib = "open" /\ rx[s].who # "browser" /\ fed[s] = Arriving(s)
  /\ Broken(s) \/ tx[s].lib = "gone" \/ rx[s].who = "stranger"
  /\ IF rx[s].state = "" THEN SetRx(s, [rx[s] EXCEPT !.lib = "gone"]) /\ UNCHANGED <<faults, badDisk>>
     ELSE GivesUp(s, rx[s])
  /\ UNCHANGED <<share, file, gate, tx, toTx, down, refused, timedOut, edited>>

RecvWatchdog_once(s) ==   \* slip: not armed again
  LET idle == rx[s].state # "" /\ ~rx[s].fresh
      r    == [rx[s] EXCEPT !.fresh = FALSE, !.watch = FALSE]
  IN  /\ rx[s].watch
      /\ IF idle THEN GivesUp(s, r) ELSE SetRx(s, r) /\ UNCHANGED <<faults, badDisk>>
      /\ timedOut' = IF idle THEN timedOut \cup {s} ELSE timedOut
      /\ UNCHANGED <<share, file, gate, tx, toTx, down, refused, edited>>

\* The transfer is over, or stalled, or something came and it is armed again.
RecvWatchdog(s) ==
  LET live == rx[s].state # ""
      idle == live /\ ~rx[s].fresh
      r    == [rx[s] EXCEPT !.fresh = FALSE, !.watch = live /\ ~idle]
  IN  /\ rx[s].watch
      /\ IF idle THEN GivesUp(s, r) ELSE SetRx(s, r) /\ UNCHANGED <<faults, badDisk>>
      /\ timedOut' = IF idle THEN timedOut \cup {s} ELSE timedOut
      /\ UNCHANGED <<share, file, gate, tx, toTx, down, refused, edited>>

\* A browser ends the connection when it likes.
BrowserLeaves(s) ==
  /\ rx[s].who = "browser" /\ rx[s].lib = "open"
  /\ SetRx(s, [rx[s] EXCEPT !.lib = "gone"])
  /\ UNCHANGED <<share, file, gate, tx, toTx, down, faults, history>>

-----------------------------------------------------------------------------
(* The sender. A handler of stream s leaves its record and, when it ends   *)
(* the stream, opens the gate.                                             *)
SetTx(s, t) == tx' = [tx EXCEPT ![s] = t]

OpenGate(s) == IF cur = s THEN busy' = FALSE /\ cur' = 0 ELSE UNCHANGED gate

ServeCleanup(t) ==
  [t EXCEPT !.path = FALSE, !.off = 0, !.fresh = FALSE, !.req = <<>>, !.raw = FALSE]

ServeAbort(t) ==
  ServeCleanup([t EXCEPT !.row = IF @ = "" THEN "" ELSE "error", !.lib = "gone"])

\* How a handler ends: the stream goes on as t, or is closed as t.
GoesOn(s, t) == SetTx(s, t) /\ UNCHANGED gate
Ends(s, t) == SetTx(s, t) /\ OpenGate(s)

\* oxWrite: refused once the far side is known to be gone, and perhaps before.
Writes(s, cells) == sent' = [sent EXCEPT ![s] = @ \o cells]
WriteMayFail(s) == Broken(s) \/ rx[s].lib = "gone"

OpenMayFail(s) ==
  /\ file = NoFile \/ faults < share.faults
  /\ faults' = IF file = NoFile THEN faults ELSE faults + 1
  /\ badDisk' = IF file = NoFile THEN badDisk ELSE badDisk \cup {s}

DiskWorks == file # NoFile /\ UNCHANGED <<faults, badDisk>>

Accept_ungated(s) ==   \* slip: a second caller is served too
  /\ tx[s].lib = "none" /\ rx[s].who \in {"app", "browser"} /\ rx[s].lib \in {"dialing", "open"}
  /\ SetTx(s, [tx[s] EXCEPT !.lib = "open", !.watch = TRUE])
  /\ busy' = TRUE /\ cur' = s /\ UNCHANGED <<refused, toTx>>
  /\ UNCHANGED <<share, file, rx, down, faults, timedOut, badDisk, edited>>

\* qsOnionPeer: one receiver at a time; the next one is closed at once.
Accept(s) ==
  /\ tx[s].lib = "none" /\ rx[s].who \in {"app", "browser"} /\ rx[s].lib \in {"dialing", "open"}
  /\ IF busy
     THEN /\ SetTx(s, [tx[s] EXCEPT !.lib = "gone"])
          /\ refused' = refused \cup {s} /\ toTx' = [toTx EXCEPT ![s] = <<>>]
          /\ UNCHANGED gate
     ELSE /\ SetTx(s, [tx[s] EXCEPT !.lib = "open", !.watch = TRUE])
          /\ busy' = TRUE /\ cur' = s /\ UNCHANGED <<refused, toTx>>
  /\ UNCHANGED <<share, file, rx, down, faults, timedOut, badDisk, edited>>

\* Open the file, send the header, arm the pump; each may fail.
BeginSend(s, t) ==
  LET t1 == [t EXCEPT !.row = "active"]
  IN  \/ /\ OpenMayFail(s) /\ Ends(s, ServeAbort(t1)) /\ UNCHANGED sent
      \/ /\ DiskWorks /\ WriteMayFail(s) /\ Ends(s, ServeAbort(t1)) /\ UNCHANGED sent
      \/ /\ DiskWorks /\ Writes(s, OnionHeader(share.locked, Total))
         /\ GoesOn(s, [t1 EXCEPT !.path = TRUE, !.off = 0, !.pump = TRUE])

\* A page and a close: the index, a refusal or a 404. The write is not looked at.
HttpText(s, t) ==
  /\ Ends(s, ServeCleanup([t EXCEPT !.lib = "gone"]))
  /\ Writes(s, <<HttpHead>>) \/ (WriteMayFail(s) /\ UNCHANGED sent)
  /\ UNCHANGED <<faults, badDisk>>

\* The download: the head, then nothing more to a HEAD, the file to a GET.
HttpDownload(s, t) ==
  LET t1 == [t EXCEPT !.row = "active"]
  IN  \/ /\ WriteMayFail(s) /\ Ends(s, ServeAbort(t1)) /\ UNCHANGED <<sent, faults, badDisk>>
      \/ /\ t.req[1] = "H" /\ Writes(s, <<HttpHead>>)
         /\ Ends(s, ServeCleanup([t1 EXCEPT !.row = "done", !.lib = "gone"]))
         /\ UNCHANGED <<faults, badDisk>>
      \/ /\ t.req[1] = "G" /\ Writes(s, <<HttpHead>>)
         /\ \/ OpenMayFail(s) /\ Ends(s, ServeAbort(t1))
            \/ DiskWorks /\ GoesOn(s, [t1 EXCEPT !.path = TRUE, !.raw = TRUE, !.pump = TRUE])

ServeHttp_locked(s, t) ==   \* slip: a locked share is served like any other
  IF share.web /\ t.req[2] = "/download" THEN HttpDownload(s, t) ELSE HttpText(s, t)

ServeHttp(s, t) ==
  IF ~share.locked /\ share.web /\ t.req[2] = "/download" THEN HttpDownload(s, t) ELSE HttpText(s, t)

Drops(s, t) == Ends(s, ServeAbort(t)) /\ UNCHANGED <<sent, faults, badDisk>>
Waits(s, t) == GoesOn(s, t) /\ UNCHANGED <<sent, faults, badDisk>>

Serve(s, t) ==
  LET first == t.req[1]
      http  == first \in {"G", "H"}
      short == Len(t.req) < Len(RequestMagic)
      magic == ~short /\ SubSeq(t.req, 1, Len(RequestMagic)) = RequestMagic
      whole == \E i \in 1..Len(t.req) : t.req[i] = "end"
  IN  IF http THEN IF whole THEN ServeHttp(s, t)
                   ELSE IF Len(t.req) > MaxRequest THEN Drops(s, t) ELSE Waits(s, t)
      ELSE IF first = "B" /\ short THEN Waits(s, t)
      ELSE IF magic THEN BeginSend(s, t) ELSE Drops(s, t)

\* qsOnionServeStream on "data": the first bytes say who calls; a stream that is
\* served already, or is not the share's, is not listened to.
TxData(s) ==
  /\ tx[s].lib = "open"
  /\ \E k \in 1..Len(toTx[s]) :
       /\ toTx' = [toTx EXCEPT ![s] = Drop(@, k)]
       /\ IF cur # s \/ tx[s].row = "active" THEN UNCHANGED <<tx, gate, sent, faults, badDisk>>
          ELSE Serve(s, [tx[s] EXCEPT !.req = @ \o SubSeq(toTx[s], 1, k), !.fresh = TRUE])
  /\ UNCHANGED <<share, file, rx, fed, cut, refused, timedOut, edited>>

\* What was read goes out; an empty read is the end of the file.
Sends(s, t, slice) ==
  LET n     == Len(slice)
      frame == IF t.raw THEN slice ELSE FrameLength(n) \o slice
      last  == IF t.raw THEN <<>> ELSE Terminator
  IN  IF n = 0
      THEN /\ Ends(s, ServeCleanup([t EXCEPT !.row = "done", !.lib = "gone"]))
           /\ Writes(s, last) \/ (WriteMayFail(s) /\ UNCHANGED sent)
      ELSE \/ WriteMayFail(s) /\ Ends(s, ServeAbort(t)) /\ UNCHANGED sent
           \/ Writes(s, frame) /\ GoesOn(s, [t EXCEPT !.off = @ + n, !.fresh = TRUE, !.pump = TRUE])

\* One frame per tick, then the terminator and the close. The result of the read
\* is not looked at: one that fails has read nothing.
Pump(s) ==
  LET t     == [tx[s] EXCEPT !.pump = FALSE]
      slice == SubSeq(file, t.off + 1, IF t.off + Chunk <= Len(file) THEN t.off + Chunk ELSE Len(file))
  IN  /\ t # tx[s]
      /\ \/ ~t.path /\ SetTx(s, t) /\ UNCHANGED <<gate, sent>> /\ Disk(s, "none")
         \/ t.path /\ Sends(s, t, slice) /\ Disk(s, "none")
         \/ t.path /\ slice # <<>> /\ Sends(s, t, <<>>) /\ Disk(s, "read")
  /\ UNCHANGED <<share, file, rx, toTx, fed, cut, refused, timedOut, edited>>

\* qsOnionServeStream on "closed": before a transfer it only stops to listen.
TxClosed(s) ==
  /\ tx[s].lib = "open"
  /\ Broken(s) \/ (rx[s].lib = "gone" /\ toTx[s] = <<>>)
  /\ IF tx[s].row = "active" THEN Ends(s, ServeAbort(tx[s])) ELSE GoesOn(s, [tx[s] EXCEPT !.lib = "gone"])
  /\ toTx' = [toTx EXCEPT ![s] = <<>>]
  /\ UNCHANGED <<share, file, rx, down, faults, history>>

SendWatchdog_once(s) ==   \* slip: not armed again
  LET idle == cur = s /\ ~tx[s].fresh
      t    == [tx[s] EXCEPT !.fresh = FALSE, !.watch = FALSE]
  IN  /\ tx[s].watch
      /\ IF idle THEN Ends(s, ServeAbort(t)) ELSE GoesOn(s, t)
      /\ timedOut' = IF idle THEN timedOut \cup {s} ELSE timedOut
      /\ UNCHANGED <<share, file, rx, toTx, down, faults, refused, badDisk, edited>>

\* Keyed off the share's stream: superseded, stalled, or armed again.
SendWatchdog(s) ==
  LET idle == cur = s /\ ~tx[s].fresh
      t    == [tx[s] EXCEPT !.fresh = FALSE, !.watch = cur = s /\ ~idle]
  IN  /\ tx[s].watch
      /\ IF idle THEN Ends(s, ServeAbort(t)) ELSE GoesOn(s, t)
      /\ timedOut' = IF idle THEN timedOut \cup {s} ELSE timedOut
      /\ UNCHANGED <<share, file, rx, toTx, down, faults, refused, badDisk, edited>>

-----------------------------------------------------------------------------
(* The world: a connection breaks and loses what was still on its way, or  *)
(* a part of it; a file that was not copied for the share is edited.       *)
Break(s) ==
  /\ faults < share.faults /\ ~Broken(s) /\ rx[s].lib \in {"dialing", "open"}
  /\ \E k \in fed[s]..Len(sent[s]) : cut' = [cut EXCEPT ![s] = k]
  /\ faults' = faults + 1
  /\ UNCHANGED <<share, file, gate, tx, rx, toTx, sent, fed, history>>

Edit ==
  /\ faults < share.faults /\ ~share.locked
  /\ file' \in Edits \ {file}
  /\ file' = NoFile => \A s \in Streams : ~tx[s].path
  /\ faults' = faults + 1 /\ edited' = TRUE
  /\ UNCHANGED <<share, gate, tx, rx, toTx, down, refused, timedOut, badDisk>>

Receiver(s) ==
  \/ DialApp(s) \/ DialStranger(s) \/ DialBrowser(s) \/ DialFails(s)
  \/ AppOpened(s) \/ BrowserOpened(s) \/ RxData(s) \/ RxClosed(s) \/ RecvWatchdog(s) \/ BrowserLeaves(s)

Sender(s) == Accept(s) \/ TxData(s) \/ Pump(s) \/ TxClosed(s) \/ SendWatchdog(s)

Next == Edit \/ \E s \in Streams : Receiver(s) \/ Sender(s) \/ Break(s)

\* The engine delivers the messages an app has scheduled. Nothing is assumed of
\* the network or of the other side.
Fairness == \A s \in Streams : WF_vars(Pump(s)) /\ WF_vars(SendWatchdog(s)) /\ WF_vars(RecvWatchdog(s))

Spec == Init /\ [][Next]_vars /\ Fairness

-----------------------------------------------------------------------------
(* What a whole stream says, looked at from outside: the frames after the  *)
(* header, up to a terminator, a frame too long, or one that is not whole. *)
Payload(w) ==
  LET from[i \in 1..Len(w) + 1] ==
        LET n == IF i < Len(w) THEN w[i] * Radix + w[i + 1] ELSE 0
            next == i + LengthCells + n
        IN  IF n = 0 \/ n > Chunk \/ next > Len(w) + 1 THEN <<>>
            ELSE SubSeq(w, i + LengthCells, next - 1) \o from[next]
  IN  IF Len(w) < HeaderCells THEN <<>> ELSE from[HeaderCells + 1]

Promised(w) == w[HeaderCells]

HeaderSound(w, key) ==
  /\ Len(w) >= HeaderCells /\ w[1] = Magic /\ w[2] = Flag(key)
  /\ Promised(w) <= MaxTotal

\* Whole once the promised cells and the header have come, terminator or not.
Whole(w) == Len(w) >= HeaderCells /\ Len(Payload(w)) = Promised(w)

\* A header, frames that carry what it promises, and at most a terminator.
Sound(w, key) ==
  /\ HeaderSound(w, key) /\ Whole(w)
  /\ \A k \in 0..Len(w) - LengthCells - 1 : ~Whole(SubSeq(w, 1, k))
  /\ Whole(SubSeq(w, 1, Len(w) - LengthCells)) => SubSeq(w, Len(w) - 1, Len(w)) = Terminator

\* What a receiver saves of what was sent, and what it should.
Unsealed(key, c) == IF key THEN Unlock(c) ELSE c
Shared == Unsealed(share.locked, share.content)

Ended(s) == rx[s].row \in {"done", "error"}
Handed(s) == SubSeq(sent[s], 1, fed[s])

-----------------------------------------------------------------------------
(* Properties.                                                             *)

\* Every variable has its type.
TypeOK ==
  /\ busy \in BOOLEAN /\ cur \in {0} \cup Streams /\ faults \in 0..share.faults
  /\ \A s \in Streams :
       /\ tx[s].lib \in {"none", "open", "gone"} /\ tx[s].row \in {"", "active", "done", "error"}
       /\ rx[s].lib \in {"none", "dialing", "open", "gone"} /\ rx[s].state \in {"", "header", "body"}
       /\ rx[s].row \in {"", "connecting", "active", "done", "error"}
       /\ fed[s] \in 0..Arriving(s) /\ cut[s] <= Len(sent[s])

\* The share is busy exactly while it has a stream, whose watchdog is armed; only
\* that stream is in transfer, and then its file is open and the pump scheduled.
GateKept ==
  /\ busy <=> cur # 0
  /\ cur # 0 => tx[cur].watch
  /\ \A s \in Streams :
       /\ tx[s].path <=> tx[s].row = "active"
       /\ tx[s].path => cur = s /\ tx[s].pump /\ tx[s].lib = "open"

\* A download in progress has a watchdog, a row that says so and a temporary file
\* with the cells it counts; one that ended has left no file behind, unless a disk
\* failed.
ReceiverKept ==
  \A s \in Streams : LET r == rx[s] IN
    /\ r.state # "" <=> r.row \in {"connecting", "active"}
    /\ r.state # "" => r.watch
    /\ r.state = "body" <=> r.row = "active"
    /\ r.state = "body" => r.named /\ Len(r.tmp) = r.got
    /\ r.tmp # NoFile => r.state = "body" \/ (Ended(s) /\ s \in badDisk)

\* What a read leaves in the buffer is less than a frame, or than a header.
BufferBounded ==
  \A s \in Streams :
    Len(rx[s].buf) < IF rx[s].state = "body" THEN LengthCells + Chunk ELSE HeaderCells

BooksKept == TypeOK /\ GateKept /\ ReceiverKept /\ BufferBounded

\* A saved file is what a header promised, to the cell and from the start of what
\* was sent, and a locked one what was under the seal of the key: no other is saved.
SavedIsPromised ==
  \A s \in Streams : rx[s].row = "done" =>
    LET whole == SubSeq(Payload(sent[s]), 1, Promised(sent[s])) IN
      /\ HeaderSound(Handed(s), rx[s].key)
      /\ Len(Payload(sent[s])) >= Promised(sent[s])
      /\ rx[s].key => Unlockable(whole)
      /\ rx[s].saved = Unsealed(rx[s].key, whole)

\* An app that downloads this share saves what was shared, unless it was edited: a
\* read that failed at the sender is no exception.
SavedAsShared ==
  ~edited => \A s \in Streams :
    rx[s].who = "app" /\ rx[s].row = "done" => rx[s].saved = Shared

\* What went out of a file that was served is a start of it, framed for an app,
\* bare for a browser, and all of it unless a read failed: then the row says done
\* all the same, and the app is told by the count alone.
WentOut(s, n) ==
  IF rx[s].who = "app"
  THEN /\ HeaderSound(sent[s], share.locked) /\ Payload(sent[s]) = SubSeq(share.content, 1, n)
       /\ n = Total => Sound(sent[s], share.locked)
  ELSE sent[s] = <<HttpHead>> \o (IF rx[s].asks = "H" THEN <<>> ELSE SubSeq(share.content, 1, n))

\* A row done at the sender: the file went out as WentOut says; a locked file or
\* one not on the web never goes to a browser.
SentAsShared ==
  \A s \in Streams :
    /\ tx[s].row = "done" /\ ~edited /\ ~Broken(s) /\ rx[s].lib # "gone" =>
         \E n \in 0..Total : (n = Total \/ s \in badDisk) /\ WentOut(s, n)
    /\ rx[s].who = "browser" /\ (share.locked \/ ~share.web) => sent[s] \in {<<>>, <<HttpHead>>}

Delivered == SavedIsPromised /\ SavedAsShared /\ SentAsShared

\* A download fails for a reason: the stream was not what a header promises and the
\* code allows, or not under the seal of the key, the file was edited, a disk
\* failed, or something ended the stream before all of the file was handed over.
\* Where reads are cut is no reason, and nor is a terminator that never comes.
FailsForAReason ==
  \A s \in Streams : rx[s].row = "error" =>
    \/ rx[s].who = "stranger" /\ ~Sound(sent[s], rx[s].key)
    \/ rx[s].who = "stranger" /\ rx[s].key /\ ~Unlockable(Payload(sent[s]))
    \/ rx[s].who = "app" /\ edited
    \/ s \in badDisk
    \/ (Broken(s) \/ s \in refused \cup timedOut) /\ ~Whole(Handed(s))

\* Every download ends, and a share that is busy is free again: whatever the
\* network and the other side do.
DownloadsEnd == \A s \in Streams : (rx[s].row \in {"connecting", "active"}) ~> Ended(s)
Frees == \A s \in Streams : (cur = s) ~> (cur # s)
Progress == DownloadsEnd /\ Frees

=============================================================================
