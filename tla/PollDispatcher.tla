--------------------------- MODULE PollDispatcher ---------------------------
(***************************************************************************)
(* The poll dispatcher of src/examples/torrent-helpers.livecodescript: a   *)
(* chain of timer messages, each of which drains the two event queues,     *)
(* dispatches what it got to the app's handlers, and schedules the next.   *)
(*                                                                         *)
(* Script runs on one thread and a message is delivered when none is being *)
(* handled. But the app's handlers run inside the pass (dispatch is        *)
(* synchronous) and may start or stop polling, or make failing bt calls,   *)
(* there as well as between passes. An error a handler does not catch ends *)
(* the pass where it is. (Handlers that yield are not modelled.)           *)
(*                                                                         *)
(* The queues and the script engine are external: a queue may lose events  *)
(* at any time, and the drain that follows says so through the last error, *)
(* or throws in the shim: then the text of the exception is all there is.  *)
(*                                                                         *)
(* stops, warned and spoiled are history.                                  *)
(***************************************************************************)
EXTENDS Naturals, Sequences, SequencesExt

CONSTANTS
  Live,          \* the live session's handle
  Others,        \* other values a caller may pass: 0, stale handles
  MaxStops,      \* bound: calls of btStopPolling
  HandlersFail   \* whether a handler may raise an error

ASSUME PollAssumption ==
  /\ Live \in Nat \ {0} /\ Others \subseteq Nat /\ Live \notin Others
  /\ MaxStops \in Nat /\ HandlersFail \in BOOLEAN

Sources == {"btPoll", "btRp1Poll"}

VARIABLES
  sPolling, sPollSession,
  pending,     \* scheduled btTorrentPollOnce messages; each the value stops had then
  pc,          \* "idle", or the queue whose events are being dispatched
  tLoss,       \* what the pass read from the last error after its drain
  lastError,   \* the shim's sticky last error: "", a queue's loss, "threw" or "other"
  losses,      \* queues that lost events since they were last drained
  stops,
  warned,      \* queues whose last drain left a report, and it was dispatched
  spoiled      \* a handler has failed, or a pass has found session 0

vars == <<sPolling, sPollSession, pending, pc, tLoss, lastError, losses, stops, warned, spoiled>>

Init ==
  /\ sPolling = "" /\ sPollSession = 0 /\ pending = << >>
  /\ pc = "idle" /\ tLoss = "" /\ lastError = "" /\ losses = {}
  /\ stops = 0 /\ warned = {} /\ spoiled = FALSE

-----------------------------------------------------------------------------
(* The app, between passes or in a handler of one.                         *)

ShouldArm_always == TRUE        \* slip: every call arms a chain
ShouldArm == sPolling # "true"

btStartPolling(s) ==
  /\ sPollSession' = s
  /\ IF ShouldArm
     THEN /\ Len(pending) < MaxStops + 3      \* bound, for ShouldArm_always
          /\ sPolling' = "true"
          /\ pending' = Append(pending, stops)
     ELSE UNCHANGED <<sPolling, pending>>
  /\ UNCHANGED <<pc, tLoss, lastError, losses, stops, warned, spoiled>>

btStopPolling ==
  /\ stops < MaxStops /\ stops' = stops + 1
  /\ sPolling' = "false" /\ spoiled' = FALSE
  /\ UNCHANGED <<sPollSession, pending, pc, tLoss, lastError, losses, warned>>

\* A bt call of the app fails; nothing clears the error it leaves but btClearError.
AppError ==
  /\ lastError' = "other"
  /\ UNCHANGED <<sPolling, sPollSession, pending, pc, tLoss, losses, stops, warned, spoiled>>

\* A queue of the live session fills and loses events.
Lose(q) ==
  /\ losses' = losses \cup {q}
  /\ UNCHANGED <<sPolling, sPollSession, pending, pc, tLoss, lastError, stops, warned, spoiled>>

-----------------------------------------------------------------------------
(* btTorrentPollOnce.                                                      *)

Drains(q) == sPollSession = Live /\ q \in losses

ErrorBefore_sticky == lastError    \* slip: no btClearError before the drain
ErrorBefore == ""

\* An alert about a torrent that is gone makes the alert drain throw (see
\* AlertDrain): it returns no events, and its error takes the loss's place.
Report(q) == IF Drains(q) THEN q ELSE ErrorBefore
Throws(q) == sPollSession = Live /\ q = "btPoll"
Thrown_silent == ErrorBefore       \* slip: the guard returns 0 and sets no error
Thrown == "threw"

\* btClearError, the drain, btLastError: nothing of the app runs in between.
Drain(q) ==
  /\ \E e \in {Report(q)} \cup (IF Throws(q) THEN {Thrown} ELSE {}) :
       lastError' = e /\ tLoss' = e
  /\ losses' = IF sPollSession = Live THEN losses \ {q} ELSE losses
  /\ pc' = q

\* A scheduled message is delivered. Two early returns leave the chain here.
PassSkips(i) ==
  /\ pc = "idle"
  /\ sPolling # "true" \/ sPollSession = 0
  /\ pending' = RemoveAt(pending, i)
  /\ spoiled' = (spoiled \/ sPolling = "true")
  /\ UNCHANGED <<sPolling, sPollSession, pc, tLoss, lastError, losses, stops, warned>>

PassBegins(i) ==
  /\ pc = "idle"
  /\ sPolling = "true" /\ sPollSession # 0
  /\ pending' = RemoveAt(pending, i)
  /\ Drain("btPoll")
  /\ warned' = warned \ {"btPoll"}
  /\ UNCHANGED <<sPolling, sPollSession, stops, spoiled>>

\* btPollDispatchLoss, when the drain left a report, after that drain's events.
Warn_never == warned                 \* slip: the report is not dispatched
Warn == IF tLoss = "" THEN warned ELSE warned \cup {pc}

\* The alert events are dispatched; the rp1 queue is next, of whatever session
\* a handler has set by now.
PassDrainsRp1 ==
  /\ pc = "btPoll"
  /\ warned' = Warn \ {"btRp1Poll"}
  /\ Drain("btRp1Poll")
  /\ UNCHANGED <<sPolling, sPollSession, pending, stops, spoiled>>

\* The rp1 events are dispatched; schedule the next pass, stopped or not.
Reschedule_ifSilent ==               \* slip: no next pass after a warning
  IF tLoss = "" THEN Append(pending, stops) ELSE pending
Reschedule == Append(pending, stops)

PassEnds ==
  /\ pc = "btRp1Poll"
  /\ warned' = Warn
  /\ pending' = Reschedule
  /\ pc' = "idle" /\ tLoss' = ""
  /\ UNCHANGED <<sPolling, sPollSession, lastError, losses, stops, spoiled>>

\* A handler raises an error: the pass ends, and schedules nothing.
PassFails ==
  /\ HandlersFail
  /\ pc # "idle"
  /\ pc' = "idle" /\ tLoss' = ""
  /\ spoiled' = TRUE
  /\ UNCHANGED <<sPolling, sPollSession, pending, lastError, losses, stops, warned>>

-----------------------------------------------------------------------------
Next ==
  \/ \E s \in {Live} \cup Others : btStartPolling(s)
  \/ btStopPolling
  \/ AppError
  \/ \E q \in Sources : Lose(q)
  \/ \E i \in DOMAIN pending : PassSkips(i) \/ PassBegins(i)
  \/ PassDrainsRp1
  \/ PassEnds
  \/ PassFails

\* The engine delivers a scheduled message once its time has come, and a pass
\* that no handler holds up runs to its end.
Fairness ==
  /\ WF_vars(\E i \in DOMAIN pending : PassSkips(i) \/ PassBegins(i))
  /\ WF_vars(PassDrainsRp1) /\ WF_vars(PassEnds)

Spec == Init /\ [][Next]_vars
FairSpec == Spec /\ Fairness

-----------------------------------------------------------------------------
\* Every variable has its type.
TypeOK ==
  /\ sPolling \in {"", "true", "false"} /\ sPollSession \in {Live} \cup Others \cup {0}
  /\ pending \in Seq(0..MaxStops)
  /\ pc \in {"idle"} \cup Sources
  /\ tLoss \in Sources \cup {"", "threw", "other"}
  /\ lastError \in Sources \cup {"", "threw", "other"}
  /\ losses \subseteq Sources /\ stops \in 0..MaxStops
  /\ warned \subseteq Sources /\ spoiled \in BOOLEAN

Chains == Len(pending) + (IF pc = "idle" THEN 0 ELSE 1)

\* Starting again while polling arms no second chain, in a handler as little as
\* between passes: only a stop makes room for one more.
ChainsBounded == Chains <= 1 + stops

\* While polling is on there is a chain to do it, unless a handler's error or
\* session 0 ended it. btStartPolling relies on this: it arms none when the flag
\* is already set. A stop makes even a spoiled dispatcher whole again.
ArmedHasChain == sPolling = "true" /\ ~spoiled => Chains >= 1

\* Polling is one chain of passes: at least one while it is on, at most one and
\* one more for each stop, over a state that keeps its types.
OneChain == TypeOK /\ ChainsBounded /\ ArmedHasChain

\* What a pass reads as a drain's report is that drain's own, never an error
\* the app or the other queue left (torrent-helpers.livecodescript:143-146). It
\* is a loss of that queue or, of the alert queue, what an exception said.
OwnReport ==
  pc # "idle" => tLoss \in {"", pc} \cup (IF pc = "btPoll" THEN {"threw"} ELSE {})

Watching == sPolling = "true" /\ sPollSession = Live

\* No loss is forgotten, the second as little as the first: as long as polling
\* goes on for the live session, the next drain of its queue leaves an error,
\* and that error is dispatched as a warning that names the queue. (When the
\* drain throws, its text is the exception's and does not speak of the loss.)
LossWarned ==
  \A q \in Sources :
    /\ (q \in losses /\ pc # q) ~> ((pc = q /\ tLoss # "") \/ ~Watching \/ spoiled)
    /\ (pc = q /\ tLoss # "") ~> (q \in warned \/ spoiled)

\* Polling goes on: from every state with polling on, a pass begins.
PollingGoesOn == Watching ~> (pc # "idle" \/ ~Watching \/ spoiled)

\* While nothing stops it the dispatcher keeps going and keeps warning.
Progress == LossWarned /\ PollingGoesOn
=============================================================================
