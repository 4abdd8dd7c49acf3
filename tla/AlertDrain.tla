----------------------------- MODULE AlertDrain -----------------------------
(***************************************************************************)
(* The alert stream: libtorrent's bounded alert queue, filled by its own   *)
(* threads; btx_pop_alerts (src/src/torrent_shim.cpp), which moves it into *)
(* the caller's buffer and stashes what does not fit; and btPoll           *)
(* (src/src/torrent.lcb), which grows the buffer and retries once.         *)
(*                                                                         *)
(* libtorrent is external. What the code relies on: an alert that finds    *)
(* the queue full is lost and its type noted; pop_alerts takes the whole   *)
(* queue, with an alerts_dropped_alert in it when types were noted; and    *)
(* torrent_file() throws on a handle whose torrent is gone.                *)
(*                                                                         *)
(* btx_pop_alerts touches only its own session's stash, so one call is one *)
(* step: other threads matter before and after it, not inside.             *)
(*                                                                         *)
(* posted, got, lost, rc and throws are history.                           *)
(***************************************************************************)
EXTENDS Integers, Sequences, FiniteSetsExt, SequencesExt

CONSTANTS
  MaxAlerts,       \* bound: alerts posted in a behaviour
  AlertQueueSize,  \* libtorrent's alert_queue_size
  EntrySizes,      \* bytes an alert takes in the drain buffer
  DrainCap,        \* the binding's first drain buffer (kDrainCap)
  Torrents         \* torrents the script removes while alerts name them

ASSUME AlertAssumption ==
  /\ MaxAlerts \in Nat /\ AlertQueueSize \in Nat
  /\ EntrySizes \subseteq Nat \ {0} /\ DrainCap \in Nat

None == "none"

\* unmapped: extract_alert returns false (session stats included).
\* named: extract_alert asks the torrent for its name (added, metadata).
Kinds == {"unmapped", "plain", "named"}

Alert == [n : 1..MaxAlerts, kind : Kinds, size : EntrySizes, torrent : Torrents \cup {None}]

VARIABLES
  ltQueue,     \* libtorrent's alert queue
  ltDropped,   \* the types it noted as dropped
  removed,     \* torrents removed: their handles expire at some point
  stash,       \* SessionState::stash
  sDrainCap,   \* the binding's drain buffer
  retry,       \* btPoll was told -needed and is about to retry
  posted, got, lost, rc,
  throws       \* how many polls an exception ended

vars == <<ltQueue, ltDropped, removed, stash, sDrainCap, retry, posted, got, lost, rc, throws>>

Init ==
  /\ ltQueue = << >> /\ ltDropped = {} /\ removed = {}
  /\ stash = << >> /\ sDrainCap = DrainCap /\ retry = FALSE
  /\ posted = 0 /\ got = << >> /\ lost = 0 /\ rc = 0 /\ throws = 0

-----------------------------------------------------------------------------
(* libtorrent and the script's other calls.                                *)

Post(a) ==
  /\ posted < MaxAlerts
  /\ posted' = posted + 1
  /\ IF Len(ltQueue) < AlertQueueSize
     THEN /\ ltQueue' = Append(ltQueue, a)
          /\ UNCHANGED <<ltDropped, lost>>
     ELSE /\ ltDropped' = ltDropped \cup {a.kind}
          /\ lost' = lost + 1
          /\ UNCHANGED ltQueue
  /\ UNCHANGED <<removed, stash, sDrainCap, retry, got, rc, throws>>

btRemove(t) ==
  /\ removed' = removed \cup {t}
  /\ UNCHANGED <<ltQueue, ltDropped, stash, sDrainCap, retry, posted, got, lost, rc, throws>>

-----------------------------------------------------------------------------
(* The pieces of btx_pop_alerts.                                           *)

\* SelectSeq, spelt out: the prover does not know it.
Surfaced(q) ==
  LET kept[i \in 0..Len(q)] == IF i = 0 THEN << >>
                               ELSE IF q[i].kind = "unmapped" THEN kept[i - 1]
                               ELSE Append(kept[i - 1], q[i])
  IN  kept[Len(q)]

Bytes(q) == FoldSeq(LAMBDA a, sum : a.size + sum, 0, q)

Prefix(q, k) == SubSeq(q, 1, k)
Rest(q, k)   == SubSeq(q, k + 1, Len(q))

\* emit_alert until the first entry that does not fit: how many are written.
Emitted(q, pos, cap) == Max({k \in 0..Len(q) : pos + Bytes(Prefix(q, k)) <= cap \/ k = 0})

\* The fresh alerts written and those stashed; a latch keeps them in order:
\* after the first that does not fit every later one is stashed too.
Written_noLatch(q, pos, cap) ==   \* slip: a later, smaller alert jumps the queue
  SelectSeq(q, LAMBDA a : pos + a.size <= cap)
Written(q, pos, cap) == Prefix(q, Emitted(q, pos, cap))

Stashed(q, pos, cap) == Rest(q, Emitted(q, pos, cap))

\* -needed: the count prefix and the first entry, measured.
Needed_two(a) == 2                \* slip: the measuring writer refused to write
Needed(a) == 2 + a.size

\* What the call returns: how many were written, or -needed when none was and
\* the stash is not empty.
Result_zero(n, left) == n         \* slip: a fresh alert too big reports 0
Result(n, left) == IF n = 0 /\ left # << >> THEN -Needed(Head(left)) ELSE n

\* btPoll: grow to -needed and retry once.
Return_signed(r) ==               \* slip: grows to the count itself, not to -count
  /\ rc' = r
  /\ retry' = (r < 0 /\ ~retry)
  /\ sDrainCap' = IF r < 0 /\ ~retry THEN r ELSE sDrainCap
Return(r) ==
  /\ rc' = r
  /\ retry' = (r < 0 /\ ~retry)
  /\ sDrainCap' = IF r < 0 /\ ~retry /\ -r > sDrainCap THEN -r ELSE sDrainCap

\* A dropped-alerts report among the fresh alerts goes to the last error.
Report_unmapped == lost           \* slip: the report is skipped like an unmapped alert
Report == IF ltDropped = {} THEN lost ELSE 0

StashDrains == IF stash = << >> THEN TRUE ELSE 2 + Bytes(stash) <= sDrainCap

\* The stash does not drain: what fits of it, and no fresh alert.
PopStash ==
  /\ ~StashDrains
  /\ LET k == Emitted(stash, 2, sDrainCap) IN
       /\ got' = got \o Prefix(stash, k)
       /\ stash' = Rest(stash, k)
       /\ Return(Result(k, Rest(stash, k)))
  /\ UNCHANGED <<ltQueue, ltDropped, removed, posted, lost, throws>>

\* The stash drains (or is empty), then the fresh alerts.
PopFresh ==
  /\ StashDrains
  /\ LET pos   == 2 + Bytes(stash)
         fresh == Surfaced(ltQueue)
         out   == Written(fresh, pos, sDrainCap)
         left  == Stashed(fresh, pos, sDrainCap)
     IN /\ got' = got \o stash \o out
        /\ stash' = left
        /\ Return(Result(Len(stash) + Len(out), left))
  /\ ltQueue' = << >> /\ ltDropped' = {}
  /\ lost' = Report
  /\ UNCHANGED <<removed, posted, throws>>

\* extract_alert throws on alert i, whose torrent is gone. The guard turns the
\* call into 0 and sets the last error: the entries already written are not looked at, those after i
\* are in a vector that dies, the fresh ones stashed before i stay.
PopThrows(i) ==
  /\ StashDrains
  /\ ltQueue[i].kind = "named" /\ ltQueue[i].torrent \in removed
  /\ stash' = Stashed(Surfaced(Prefix(ltQueue, i - 1)), 2 + Bytes(stash), sDrainCap)
  /\ Return(0)
  /\ ltQueue' = << >> /\ ltDropped' = {}
  /\ throws' = throws + 1
  /\ UNCHANGED <<removed, posted, got, lost>>

-----------------------------------------------------------------------------
Next ==
  \/ \E kind \in Kinds, size \in EntrySizes, t \in Torrents \cup {None} :
       /\ (t # None) = (kind = "named")
       /\ Post([n |-> posted + 1, kind |-> kind, size |-> size, torrent |-> t])
  \/ \E t \in Torrents : btRemove(t)
  \/ PopStash
  \/ PopFresh
  \/ \E i \in DOMAIN ltQueue : PopThrows(i)

\* btPoll runs from a repeating timer.
Fairness == WF_vars(PopStash) /\ WF_vars(PopFresh)

Spec == Init /\ [][Next]_vars
FairSpec == Spec /\ Fairness

-----------------------------------------------------------------------------
\* Every variable has its type (SessionState::stash, the binding's drain buffer,
\* libtorrent's queue, and the history).
TypeOK ==
  /\ ltQueue \in Seq(Alert) /\ ltDropped \subseteq Kinds /\ removed \subseteq Torrents
  /\ stash \in Seq(Alert) /\ sDrainCap \in Nat /\ retry \in BOOLEAN
  /\ posted \in 0..MaxAlerts /\ got \in Seq(Alert) /\ lost \in Nat /\ rc \in Int
  /\ throws \in Nat

\* The stream promises what LossyQueue states, across the stash, the boundary
\* between two buffers, libtorrent's overflow and the exception guard: order
\* kept, nothing twice, nothing lost but what is counted or what a failing poll
\* takes along.
Queue == INSTANCE LossyQueue WITH Event <- Alert, queue <- stash \o Surfaced(ltQueue),
                                  taken <- got, unreported <- lost, failures <- throws
ImplementsQueue == Queue!Spec

\* After the grow the first stashed alert fits: the retry takes at least it.
RetrySucceeds ==
  retry => /\ stash # << >>
           /\ 2 + Head(stash).size <= sDrainCap

\* "0 means no alerts pending" (btx_abi.h:336): a drain that returns 0 leaves
\* nothing behind in the stash, until an exception makes one return 0.
ZeroMeansNone == rc = 0 /\ throws = 0 => stash = << >>

\* "The drain NEVER drops a record" (btx_abi.h:335): an alert libtorrent kept
\* until the drain is taken, stashed or still queued.
Kept == got \o stash \o ltQueue
NeverDropsARecord ==
  [][\A i \in DOMAIN Kept :
       \/ Kept[i].kind = "unmapped"
       \/ \E j \in DOMAIN Kept' : Kept'[j] = Kept[i]]_vars

\* Every alert queued or stashed reaches the script, unless an exception ends
\* a poll.
EventuallyTaken ==
  \A n \in 1..MaxAlerts :
    (\E i \in DOMAIN (stash \o Surfaced(ltQueue)) : (stash \o Surfaced(ltQueue))[i].n = n)
      ~> (throws > 0 \/ \E i \in DOMAIN got : got[i].n = n)

\* Every overflow is reported through the last error, unless an exception ends
\* a poll.
LossReported == (lost > 0) ~> (throws > 0 \/ lost = 0)

\* What btPoll reads from a return value is so, at every poll: a negative one is
\* the size that lets the retry take something, 0 is an empty stash.
Answers == TypeOK /\ RetrySucceeds /\ ZeroMeansNone

\* Under fair polling nothing waits for ever: what was queued or stashed reaches
\* the script and every overflow its last error.
Progress == EventuallyTaken /\ LossReported
=============================================================================
