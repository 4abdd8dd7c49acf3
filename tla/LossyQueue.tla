---------------------------- MODULE LossyQueue ----------------------------
(***************************************************************************)
(* What a poller of this binding may rely on, for the alert stream         *)
(* (btx_pop_alerts) and for the rp1 event stream (btx_rp1_poll) alike:     *)
(* events are taken in the order they were offered, each at most once, and *)
(* an event that is lost is counted until the loss has been reported       *)
(* (src/examples/torrent-helpers.livecodescript:12-26). No event is lost   *)
(* silently; a poll that fails may take what was queued with it.           *)
(***************************************************************************)
EXTENDS Naturals, Sequences

CONSTANTS Event   \* the events that may be offered

VARIABLES queue,      \* events accepted and not taken yet, oldest first
          taken,      \* every event taken so far, in order
          unreported, \* losses not reported yet
          failures    \* polls that failed

vars == <<queue, taken, unreported, failures>>

Init ==
  /\ queue = << >>
  /\ taken = << >>
  /\ unreported = 0
  /\ failures = 0

\* An event arrives and is kept.
Accept(e) ==
  /\ queue' = Append(queue, e)
  /\ UNCHANGED <<taken, unreported, failures>>

\* An event arrives and is lost: it is counted.
Lose ==
  /\ unreported' = unreported + 1
  /\ UNCHANGED <<queue, taken, failures>>

\* The poller takes any number of events off the front; the losses counted so
\* far may be reported in the same call.
Take ==
  /\ \E k \in 0..Len(queue) :
       /\ taken' = taken \o SubSeq(queue, 1, k)
       /\ queue' = SubSeq(queue, k + 1, Len(queue))
  /\ unreported' \in {unreported, 0}
  /\ UNCHANGED failures

\* A poll fails, and says so: it takes nothing, and of the queue only a stretch
\* may be left.
Fail ==
  /\ failures' = failures + 1
  /\ \E j, k \in 0..Len(queue) : queue' = SubSeq(queue, j + 1, k)
  /\ UNCHANGED <<taken, unreported>>

Next ==
  \/ \E e \in Event : Accept(e)
  \/ Lose
  \/ Take
  \/ Fail

Spec == Init /\ [][Next]_vars

=============================================================================
