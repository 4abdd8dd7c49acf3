---------------------------- MODULE Rp1Transport ----------------------------
(***************************************************************************)
(* The rp1 peer-wire extension of src/src/torrent_shim.cpp: the shared     *)
(* state of Rp1SessionPlugin between libtorrent's network thread, which    *)
(* runs every plugin callback, and the caller's thread, which runs         *)
(* btx_rp1_send and btx_rp1_poll.                                          *)
(*                                                                         *)
(* The mutex mx guards the maps and queues. A callback that takes it once  *)
(* is one action. on_extension_handshake takes it twice and tick works on  *)
(* after releasing it, so the caller can run in between: net says which    *)
(* callback the (single) network thread is inside. drain holds mx across   *)
(* its loop, which is one action per round, with the lock in the variable  *)
(* drain.                                                                  *)
(*                                                                         *)
(* offered, reported, got, accepted and wire are history.                  *)
(***************************************************************************)
EXTENDS Integers, Sequences, FiniteSetsExt, SequencesExt

CONSTANTS
  MaxPeers,        \* bound: connections made in a behaviour
  MaxOffered,      \* bound: events offered to the queue in a behaviour
  MaxSends,        \* bound: messages accepted per peer
  RemoteIds,       \* the rp1 ids a remote handshake may carry; -1: none
  TokenSizes,      \* the sizes of the rp1_tok it may carry
  kRp1MaxPayload,
  kRp1MaxQueueEvents,
  kRp1MaxQueueBytes,
  Slab,            \* the fixed part of Rp1Event::cost (64)
  EntryHead,       \* the fixed part of an entry in the drain buffer
  DrainCap         \* the binding's first drain buffer (kDrainCap)

ASSUME Rp1Assumption ==
  /\ MaxPeers \in Nat /\ MaxOffered \in Nat /\ MaxSends \in Nat
  /\ RemoteIds \subseteq Int /\ TokenSizes \subseteq Nat
  /\ kRp1MaxPayload \in Nat /\ kRp1MaxQueueEvents \in Nat /\ kRp1MaxQueueBytes \in Nat
  /\ Slab \in Nat /\ EntryHead \in Nat /\ DrainCap \in Nat

Peer == 1..MaxPeers

Sizes == (0..kRp1MaxPayload) \cup TokenSizes \cup {0}

Event == [type     : {"connected", "handshake", "message", "disconnected"},
          peer     : Peer,
          n        : 1..MaxOffered,         \* its place among all offers
          size     : Sizes,                 \* bytes of payload or token
          supports : BOOLEAN]

VARIABLES
  nextPeerId,
  conn,        \* per peer: "none", "open" (in the peers map, alive) or "closed"
  localRp1Id,  \* per peer: whether add_handshake chose our inbound id
  supportsRp1, \* per peer
  peerRp1Id,   \* per peer: the id its handshake gave, 0 before
  outgoing,    \* per peer: messages awaiting tick
  events, queueBytes, dropped,
  net,         \* where the network thread is
  drain,       \* the caller's drain loop: holding mx, and the write position
  sDrainCap,   \* the binding's drain buffer
  retry,       \* btRp1Poll was told -needed and is about to retry
  offered, reported, got, accepted, wire

queueVars == <<events, queueBytes, dropped, offered>>
peerVars  == <<nextPeerId, conn, localRp1Id, supportsRp1, peerRp1Id, outgoing>>
pollVars  == <<drain, sDrainCap, retry, reported, got>>
vars == <<peerVars, queueVars, net, pollVars, accepted, wire>>

Idle == [at |-> "idle"]

Init ==
  /\ nextPeerId = 1
  /\ conn        = [p \in Peer |-> "none"]
  /\ localRp1Id  = [p \in Peer |-> FALSE]
  /\ supportsRp1 = [p \in Peer |-> FALSE]
  /\ peerRp1Id   = [p \in Peer |-> 0]
  /\ outgoing    = [p \in Peer |-> << >>]
  /\ events = << >> /\ queueBytes = 0 /\ dropped = 0
  /\ net = Idle
  /\ drain = [held |-> FALSE, pos |-> 0]
  /\ sDrainCap = DrainCap /\ retry = FALSE
  /\ offered = 0 /\ reported = 0 /\ got = << >>
  /\ accepted = [p \in Peer |-> << >>]
  /\ wire     = [p \in Peer |-> << >>]

-----------------------------------------------------------------------------
(* Rp1Event::cost, and the bytes write_rp1_entry produces for an event.    *)
cost(e) == Slab + e.size
Need(e) == EntryHead + e.size

(***************************************************************************)
(* enqueue_locked: tail-drop when either cap is hit, and count the loss.   *)
(***************************************************************************)
Sheds_bytesOnly(e) == queueBytes + cost(e) > kRp1MaxQueueBytes   \* slip: no cap on the count
Sheds(e) ==
  \/ Len(events) >= kRp1MaxQueueEvents
  \/ queueBytes + cost(e) > kRp1MaxQueueBytes

enqueue_shedOldest(e) ==   \* slip: the oldest event makes room
  IF Sheds(e) /\ events # << >>
  THEN /\ events' = Append(Tail(events), e)
       /\ queueBytes' = queueBytes - cost(Head(events)) + cost(e)
       /\ dropped' = dropped + 1
  ELSE /\ events' = Append(events, e)
       /\ queueBytes' = queueBytes + cost(e)
       /\ UNCHANGED dropped
enqueue_silent(e) ==    \* slip: the shed event is not counted
  IF Sheds(e) THEN UNCHANGED <<events, queueBytes, dropped>>
  ELSE /\ events' = Append(events, e)
       /\ queueBytes' = queueBytes + cost(e)
       /\ UNCHANGED dropped
enqueue_locked(e) ==
  IF Sheds(e)
  THEN /\ dropped' = dropped + 1
       /\ UNCHANGED <<events, queueBytes>>
  ELSE /\ events' = Append(events, e)
       /\ queueBytes' = queueBytes + cost(e)
       /\ UNCHANGED dropped

\* Offer the next event; mx must be free, and MaxOffered bounds the behaviour.
Push(type, p, size, sup) ==
  /\ ~drain.held
  /\ offered < MaxOffered
  /\ offered' = offered + 1
  /\ enqueue_locked([type |-> type, peer |-> p, n |-> offered + 1,
                     size |-> size, supports |-> sup])

-----------------------------------------------------------------------------
(* The network thread. Its callbacks run one at a time.                    *)

TakePeerId_reuse ==     \* slip: the id of a closed connection is handed out again
  IF \E p \in Peer : conn[p] = "closed"
  THEN CHOOSE p \in Peer : conn[p] = "closed" ELSE nextPeerId
TakePeerId == nextPeerId

\* new_connection / add_peer
NewConnection ==
  /\ net = Idle
  /\ TakePeerId \in Peer
  /\ Push("connected", TakePeerId, 0, FALSE)
  /\ conn' = [conn EXCEPT ![TakePeerId] = "open"]
  /\ nextPeerId' = nextPeerId + 1
  /\ UNCHANGED <<localRp1Id, supportsRp1, peerRp1Id, outgoing, net, pollVars, accepted, wire>>

\* add_handshake: choose the id under which this peer's rp1 messages reach us.
AddHandshake(p) ==
  /\ net = Idle
  /\ conn[p] = "open" /\ ~localRp1Id[p]
  /\ localRp1Id' = [localRp1Id EXCEPT ![p] = TRUE]
  /\ UNCHANGED <<nextPeerId, conn, supportsRp1, peerRp1Id, outgoing, queueVars, net,
                 pollVars, accepted, wire>>

\* on_extension_handshake, first critical section: learn the peer's rp1 id.
\* A handshake without one does not take mx here.
HandshakeLearn(p, rid, token) ==
  /\ net = Idle
  /\ conn[p] = "open"
  /\ rid >= 0 => ~drain.held
  /\ offered < MaxOffered          \* keeps room for HandshakePush
  /\ IF rid >= 0
     THEN /\ peerRp1Id' = [peerRp1Id EXCEPT ![p] = rid]
          /\ supportsRp1' = [supportsRp1 EXCEPT ![p] = TRUE]
     ELSE UNCHANGED <<peerRp1Id, supportsRp1>>
  /\ net' = [at |-> "handshake", peer |-> p, supports |-> rid >= 0, token |-> token]
  /\ UNCHANGED <<nextPeerId, conn, localRp1Id, outgoing, queueVars, pollVars, accepted, wire>>

\* Second critical section: push the handshake event, which completes it.
HandshakePush ==
  /\ net.at = "handshake"
  /\ Push("handshake", net.peer, net.token, net.supports)
  /\ net' = Idle
  /\ UNCHANGED <<peerVars, pollVars, accepted, wire>>

\* on_extended: a whole message within the cap is surfaced; a fragment
\* (called again with more) and an oversized message are not.
Surfaced(body, length) == body = length /\ length <= kRp1MaxPayload

Extended(p, body, length) ==
  /\ net = Idle
  /\ conn[p] = "open" /\ localRp1Id[p]
  /\ IF Surfaced(body, length)
     THEN Push("message", p, body, FALSE)
     ELSE UNCHANGED queueVars
  /\ UNCHANGED <<peerVars, net, pollVars, accepted, wire>>

TickSwap_copy(p) ==     \* slip: the messages are copied out, not swapped out
  /\ net = Idle
  /\ conn[p] = "open" /\ outgoing[p] # << >>
  /\ ~drain.held
  /\ net' = [at |-> "tick", peer |-> p, batch |-> outgoing[p]]
  /\ UNCHANGED <<peerVars, queueVars, pollVars, accepted, wire>>

TickSwap_none(p) ==     \* slip: nothing flushes the outgoing queue
  FALSE /\ UNCHANGED <<vars, p>>

\* tick: swap the outgoing queue out under mx ...
TickSwap(p) ==
  /\ net = Idle
  /\ conn[p] = "open" /\ outgoing[p] # << >>
  /\ ~drain.held
  /\ net' = [at |-> "tick", peer |-> p, batch |-> outgoing[p]]
  /\ outgoing' = [outgoing EXCEPT ![p] = << >>]
  /\ UNCHANGED <<nextPeerId, conn, localRp1Id, supportsRp1, peerRp1Id, queueVars,
                 pollVars, accepted, wire>>

\* ... and write the batch out with mx released.
TickSend ==
  /\ net.at = "tick"
  /\ wire' = [wire EXCEPT ![net.peer] = @ \o net.batch]
  /\ net' = Idle
  /\ UNCHANGED <<peerVars, queueVars, pollVars, accepted>>

Disconnect_stays(p) ==  \* slip: the record stays in the peers map, alive
  /\ net = Idle
  /\ conn[p] = "open"
  /\ Push("disconnected", p, 0, FALSE)
  /\ UNCHANGED <<peerVars, net, pollVars, accepted, wire>>

\* on_disconnect / drop_peer
Disconnect(p) ==
  /\ net = Idle
  /\ conn[p] = "open"
  /\ Push("disconnected", p, 0, FALSE)
  /\ conn' = [conn EXCEPT ![p] = "closed"]
  /\ UNCHANGED <<nextPeerId, localRp1Id, supportsRp1, peerRp1Id, outgoing, net,
                 pollVars, accepted, wire>>

-----------------------------------------------------------------------------
(* The caller's thread.                                                    *)

CanSend(p) == conn[p] = "open" /\ supportsRp1[p] /\ peerRp1Id[p] # 0

\* btx_rp1_send / queue_send; every other peer id is refused and changes nothing.
Send(p) ==
  /\ ~drain.held
  /\ CanSend(p)
  /\ Len(accepted[p]) < MaxSends
  /\ accepted' = [accepted EXCEPT ![p] = Append(@, Len(@) + 1)]
  /\ outgoing' = [outgoing EXCEPT ![p] = Append(@, Len(accepted[p]) + 1)]
  /\ UNCHANGED <<nextPeerId, conn, localRp1Id, supportsRp1, peerRp1Id, queueVars, net,
                 pollVars, wire>>

\* -needed when not even the first event fits: the count prefix and the entry.
Needed_noPrefix(e) == Need(e)       \* slip: the count prefix is forgotten
Needed(e) == 2 + Need(e)

Refused == events # << >> /\ 2 + Need(Head(events)) > sDrainCap

\* btx_rp1_poll: drain refuses a buffer too small for the first event, and
\* btRp1Poll grows it and asks again, once; a second refusal ends the poll.
DrainRefuse ==
  /\ ~drain.held
  /\ Refused
  /\ sDrainCap' = IF retry THEN sDrainCap ELSE Max({sDrainCap, Needed(Head(events))})
  /\ retry' = ~retry
  /\ UNCHANGED <<peerVars, queueVars, net, drain, reported, got, accepted, wire>>

DrainBegin ==
  /\ ~drain.held
  /\ ~Refused
  /\ drain' = [held |-> TRUE, pos |-> 2]
  /\ retry' = FALSE
  /\ UNCHANGED <<peerVars, queueVars, net, sDrainCap, reported, got, accepted, wire>>

FitsNext == events # << >> /\ drain.pos + Need(Head(events)) <= sDrainCap

\* Releasing the byte budget of a drained event.
Release_payload(e) ==   \* slip: gives back the payload, keeps the slab charged
  IF queueBytes > e.size THEN queueBytes - e.size ELSE 0
Release(e) == IF queueBytes > cost(e) THEN queueBytes - cost(e) ELSE 0

DrainOne ==
  /\ drain.held /\ FitsNext
  /\ got' = Append(got, Head(events))
  /\ drain' = [drain EXCEPT !.pos = @ + Need(Head(events))]
  /\ queueBytes' = Release(Head(events))
  /\ events' = Tail(events)
  /\ UNCHANGED <<peerVars, dropped, offered, net, sDrainCap, retry, reported, accepted, wire>>

DrainEnd_silent ==      \* slip: the count is kept and never reported
  /\ drain.held /\ ~FitsNext
  /\ drain' = [held |-> FALSE, pos |-> 0]
  /\ UNCHANGED <<peerVars, queueVars, net, sDrainCap, retry, reported, got, accepted, wire>>

\* The loss is reported through the last-error text, once the loop ends.
DrainEnd ==
  /\ drain.held /\ ~FitsNext
  /\ reported' = reported + dropped
  /\ dropped' = 0
  /\ drain' = [held |-> FALSE, pos |-> 0]
  /\ UNCHANGED <<peerVars, events, queueBytes, offered, net, sDrainCap, retry, got, accepted, wire>>

-----------------------------------------------------------------------------
Network ==
  \/ NewConnection
  \/ \E p \in Peer :
       \/ AddHandshake(p)
       \/ \E rid \in RemoteIds, token \in TokenSizes : HandshakeLearn(p, rid, token)
       \/ \E length \in 0..(kRp1MaxPayload + 1) : \E body \in 0..length : Extended(p, body, length)
       \/ TickSwap(p)
       \/ Disconnect(p)
  \/ HandshakePush
  \/ TickSend

Caller ==
  \/ \E p \in Peer : Send(p)
  \/ DrainRefuse \/ DrainBegin \/ DrainOne \/ DrainEnd

Next == Network \/ Caller

(***************************************************************************)
(* Fairness. The caller polls from a repeating timer, so a poll, once      *)
(* begun, runs to its end and another one follows. libtorrent calls tick   *)
(* on every connection once a second and finishes each callback. Nothing   *)
(* makes a peer connect, speak or leave.                                   *)
(***************************************************************************)
Fairness ==
  /\ WF_vars(DrainRefuse) /\ SF_vars(DrainBegin) /\ WF_vars(DrainOne) /\ WF_vars(DrainEnd)
  /\ SF_vars(HandshakePush) /\ WF_vars(TickSend)
  /\ \A p \in Peer : SF_vars(TickSwap(p))

Spec == Init /\ [][Next]_vars
FairSpec == Spec /\ Fairness

-----------------------------------------------------------------------------
NetStates ==
  {Idle} \cup [at : {"handshake"}, peer : Peer, supports : BOOLEAN, token : TokenSizes]
         \cup [at : {"tick"}, peer : Peer, batch : Seq(Nat)]

\* Every variable has its type (Rp1SessionPlugin and Rp1Peer, the binding's
\* drain buffer, and the history).
TypeOK ==
  /\ nextPeerId \in 1..(MaxPeers + 1)
  /\ conn \in [Peer -> {"none", "open", "closed"}]
  /\ localRp1Id \in [Peer -> BOOLEAN] /\ supportsRp1 \in [Peer -> BOOLEAN]
  /\ peerRp1Id \in [Peer -> Int]
  /\ outgoing \in [Peer -> Seq(Nat)]
  /\ events \in Seq(Event) /\ queueBytes \in Nat /\ dropped \in Nat
  /\ net \in NetStates
  /\ drain \in [held : BOOLEAN, pos : Nat]
  /\ sDrainCap \in Nat /\ retry \in BOOLEAN
  /\ offered \in 0..MaxOffered /\ reported \in Nat
  /\ got \in Seq(Event)
  /\ accepted \in [Peer -> Seq(Nat)] /\ wire \in [Peer -> Seq(Nat)]

\* The caps hold whatever the peers send and however rarely the script polls
\* (torrent_shim.cpp:169-207, "THE BOUNDED INBOUND QUEUE").
QueueBounded ==
  /\ Len(events) <= kRp1MaxQueueEvents
  /\ queueBytes <= kRp1MaxQueueBytes

\* The plugin's state is well formed and its inbound queue within both caps.
Bounded == TypeOK /\ QueueBounded

Charged(q) == FoldSeq(LAMBDA e, sum : cost(e) + sum, 0, q)

\* queueBytes is the sum of cost() over the queue: a drain gives back what the
\* enqueue charged, and its saturating subtraction never hides a difference.
BytesExact == queueBytes = Charged(events)

\* No event is lost silently: each one offered was taken, is queued, or is
\* counted in a loss that has been, or will be, reported.
NoSilentLoss == offered = Len(got) + Len(events) + dropped + reported

stream == got \o events

\* A peer id names one connection for good: in the order the script sees,
\* nothing comes before a peer's "connected" or after its "disconnected", even
\* when events in between were shed.
PeerLifecycle ==
  \A i, j \in DOMAIN stream :
    i < j /\ stream[i].peer = stream[j].peer =>
      stream[i].type # "disconnected" /\ stream[j].type # "connected"

\* Once the script has seen a peer's "disconnected", no send to it is accepted.
GoneIsGone ==
  \A i \in DOMAIN got : got[i].type = "disconnected" => ~CanSend(got[i].peer)

\* btRp1Poll retries once: after the grow, the event that did not fit fits, so
\* the second drain takes at least one event.
RetrySucceeds ==
  retry => /\ events # << >>
           /\ 2 + Need(Head(events)) <= sDrainCap

Batch(p) == IF net.at = "tick" /\ net.peer = p THEN net.batch ELSE << >>

\* What send accepted for a peer is on the wire, in the batch tick holds, or
\* still queued: in order, each message once. (A peer that leaves takes its
\* queue with it.)
SentInOrder == \A p \in Peer : wire[p] \o Batch(p) \o outgoing[p] = accepted[p]

\* The event stream promises what LossyQueue states, and its polls never fail.
Queue == INSTANCE LossyQueue WITH queue <- events, taken <- got, unreported <- dropped,
                                  failures <- 0
ImplementsQueue == Queue!Spec

\* Every event that entered the queue reaches the script.
EventuallyTaken ==
  \A n \in 1..MaxOffered :
    (\E i \in DOMAIN events : events[i].n = n) ~> (\E i \in DOMAIN got : got[i].n = n)

\* Every loss is reported.
LossReported == (dropped > 0) ~> (dropped = 0)

\* An accepted message goes out on a tick, unless the peer leaves first.
AcceptedIsSent ==
  \A p \in Peer, n \in 1..MaxSends :
    (Len(accepted[p]) >= n) ~> (Len(wire[p]) >= n \/ conn[p] = "closed")

\* Under fair polling and ticking nothing waits for ever, in either direction:
\* what is queued is taken, what is lost is reported, what is accepted is sent.
Progress == EventuallyTaken /\ LossReported /\ AcceptedIsSent
=============================================================================
