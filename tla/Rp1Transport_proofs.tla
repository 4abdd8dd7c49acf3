------------------------ MODULE Rp1Transport_proofs ------------------------
(***************************************************************************)
(* Theorems about the rp1 transport, for any number of peers, caps, sizes  *)
(* and messages:                                                           *)
(*   TypeCorrect       the state keeps its type                            *)
(*   BoundCorrect      the inbound queue stays within both caps            *)
(*   NoLossIsSilent    every event offered is taken, queued or counted     *)
(*   IdsNeverReused    a peer's events begin with its connected event and  *)
(*                     end with its disconnected event                     *)
(*   SendStopsAtGone   nothing is sent to a peer seen to leave             *)
(*   OneRetryIsEnough  a poll told to grow its buffer then takes an event  *)
(*   OrderCorrect      accepted messages go out in order, once each        *)
(*   BytesCorrect      queueBytes is exactly what the queue is charged     *)
(*   RefinesLossyQueue every step of the queue is one LossyQueue allows    *)
(***************************************************************************)
EXTENDS Rp1Transport, SequenceTheorems, FiniteSetTheorems, WellFoundedInduction, TLAPS

-----------------------------------------------------------------------------
(* Sequences: taking the first element off one and appending it to another *)
(* leaves their concatenation as it was.                                   *)
LEMMA ConcatAppend ==
  ASSUME NEW S, NEW s \in Seq(S), NEW t \in Seq(S), NEW e \in S
  PROVE  s \o Append(t, e) = Append(s \o t, e)
<1>1. Append(t, e) = t \o <<e>> /\ Append(s \o t, e) = (s \o t) \o <<e>>
  BY ConcatProperties, AppendIsConcat
<1>2. <<e>> \in Seq(S)
  OBVIOUS
<1> QED
  BY <1>1, <1>2, ConcatAssociative

LEMMA MoveHead ==
  ASSUME NEW S, NEW s \in Seq(S), NEW t \in Seq(S), t # << >>
  PROVE  Append(s, Head(t)) \o Tail(t) = s \o t
<1>1. Head(t) \in S /\ Tail(t) \in Seq(S) /\ <<Head(t)>> \in Seq(S)
  BY HeadTailProperties
<1>2. Append(s, Head(t)) = s \o <<Head(t)>>
  BY <1>1, AppendIsConcat
<1>3. <<Head(t)>> \o Tail(t) = t
  <2>1. Len(t) \in Nat \ {0}
    BY EmptySeq
  <2>2. <<t[1]>> \o SubSeq(t, 2, Len(t)) = SubSeq(t, 1, Len(t))
    BY <2>1, SubSeqRecursiveFirst
  <2> QED BY <2>1, <2>2, SubSeqFull, TailIsSubSeq
<1> QED
  BY <1>1, <1>2, <1>3, ConcatAssociative

(* The larger of two numbers is a number.                                  *)
LEMMA MaxOfTwo ==
  ASSUME NEW a \in Nat, NEW b \in Nat
  PROVE  Max({a, b}) \in Nat
<1>1. \E x \in {a, b} : \A y \in {a, b} : x >= y
  OBVIOUS
<1>2. Max({a, b}) \in {a, b}
  BY <1>1 DEF Max
<1> QED
  BY <1>2

-----------------------------------------------------------------------------
(* What offering an event does: the queue and its accounts keep their      *)
(* types and caps, the event is in or counted, and is well-formed.         *)
Offers(e) ==
  \/ /\ events' = Append(events, e) /\ queueBytes' = queueBytes + cost(e)
     /\ dropped' = dropped /\ ~Sheds(e)
  \/ /\ events' = events /\ queueBytes' = queueBytes
     /\ dropped' = dropped + 1

LEMMA PushOffers ==
  ASSUME TypeOK,
         NEW type \in {"connected", "handshake", "message", "disconnected"},
         NEW p \in Peer, NEW size \in Sizes, NEW sup \in BOOLEAN,
         Push(type, p, size, sup)
  PROVE  /\ ~drain.held
         /\ offered' = offered + 1 /\ offered' \in 0..MaxOffered
         /\ \E e \in Event : e.type = type /\ e.peer = p /\ Offers(e)
<1> DEFINE e == [type |-> type, peer |-> p, n |-> offered + 1, size |-> size,
                 supports |-> sup]
<1>1. offered + 1 \in 1..MaxOffered
  BY Rp1Assumption DEF TypeOK, Push
<1>2. e \in Event /\ e.type = type /\ e.peer = p
  BY <1>1 DEF Event
<1>3. Offers(e)
  BY DEF Push, enqueue_locked, Offers
<1> QED
  BY <1>1, <1>2, <1>3 DEF Push

(* An event has a size, and so a cost and a length, and names a peer.      *)
LEMMA EventFields ==
  ASSUME NEW e \in Event
  PROVE  /\ e.size \in Nat /\ cost(e) \in Nat /\ Need(e) \in Nat
         /\ e.peer \in Peer
<1>1. e.size \in Sizes /\ e.peer \in Peer
  BY DEF Event
<1>2. Sizes \subseteq Nat
  BY Rp1Assumption DEF Sizes
<1>3. e.size \in Nat
  BY <1>1, <1>2
<1> QED
  BY <1>1, <1>3, Rp1Assumption DEF cost, Need

LEMMA OffersType ==
  ASSUME TypeOK, NEW e \in Event, Offers(e)
  PROVE  /\ events' \in Seq(Event) /\ queueBytes' \in Nat /\ dropped' \in Nat
         /\ Len(events') + dropped' = Len(events) + dropped + 1
         /\ QueueBounded => QueueBounded'
<1>1. e.size \in Nat /\ cost(e) \in Nat
  BY EventFields
<1>2. Len(events) \in Nat /\ events \in Seq(Event)
  BY LenProperties DEF TypeOK
<1>3. Append(events, e) \in Seq(Event) /\ Len(Append(events, e)) = Len(events) + 1
  BY <1>2, AppendProperties
<1>4. CASE events' = Append(events, e) /\ queueBytes' = queueBytes + cost(e)
           /\ dropped' = dropped /\ ~Sheds(e)
  BY <1>1, <1>2, <1>3, <1>4, Rp1Assumption DEF TypeOK, Sheds, QueueBounded
<1>5. CASE events' = events /\ queueBytes' = queueBytes /\ dropped' = dropped + 1
  BY <1>2, <1>5 DEF TypeOK, QueueBounded
<1> QED
  BY <1>4, <1>5 DEF Offers

(* What taking one event off the queue does.                               *)
LEMMA DrainTakes ==
  ASSUME TypeOK, DrainOne
  PROVE  /\ events # << >> /\ Head(events) \in Event
         /\ events' = Tail(events) /\ events' \in Seq(Event)
         /\ Len(events') = Len(events) - 1 /\ Len(events) \in Nat
         /\ got' = Append(got, Head(events)) /\ got' \in Seq(Event)
         /\ Len(got') = Len(got) + 1 /\ Len(got) \in Nat
         /\ queueBytes' \in Nat /\ queueBytes' <= queueBytes
         /\ drain' \in [held : BOOLEAN, pos : Nat]
         /\ stream' = stream
<1>1. events # << >> /\ events \in Seq(Event) /\ got \in Seq(Event)
  BY DEF DrainOne, FitsNext, TypeOK
<1>2. Head(events) \in Event /\ Tail(events) \in Seq(Event)
      /\ Len(Tail(events)) = Len(events) - 1
  BY <1>1, HeadTailProperties
<1>3. Head(events).size \in Nat /\ cost(Head(events)) \in Nat /\ Need(Head(events)) \in Nat
  BY <1>2, EventFields
<1>4. Append(got, Head(events)) \in Seq(Event)
      /\ Len(Append(got, Head(events))) = Len(got) + 1
  BY <1>1, <1>2, AppendProperties
<1>5. queueBytes' \in Nat /\ queueBytes' <= queueBytes
  BY <1>3 DEF DrainOne, Release, TypeOK
<1>6. drain' \in [held : BOOLEAN, pos : Nat]
  <2>1. drain \in [held : BOOLEAN, pos : Nat] /\ drain.pos + Need(Head(events)) \in Nat
    BY <1>3 DEF TypeOK
  <2>2. drain' = [drain EXCEPT !.pos = @ + Need(Head(events))]
    BY DEF DrainOne
  <2> QED BY <2>1, <2>2
<1>7. Append(got, Head(events)) \o Tail(events) = got \o events
  BY <1>1, MoveHead
<1> QED
  BY <1>1, <1>2, <1>4, <1>5, <1>6, <1>7, LenProperties DEF DrainOne, stream

LEMMA PushType ==
  ASSUME TypeOK,
         NEW type \in {"connected", "handshake", "message", "disconnected"},
         NEW p \in Peer, NEW size \in Sizes, NEW sup \in BOOLEAN,
         Push(type, p, size, sup)
  PROVE  /\ events' \in Seq(Event) /\ queueBytes' \in Nat /\ dropped' \in Nat
         /\ offered' = offered + 1 /\ offered' \in 0..MaxOffered
         /\ Len(events') + dropped' = Len(events) + dropped + 1
         /\ QueueBounded => QueueBounded'
<1>1. PICK e \in Event : Offers(e)
  BY PushOffers
<1> QED
  BY <1>1, PushOffers, OffersType

-----------------------------------------------------------------------------
(* What each action does with the queue and its accounts: a callback that  *)
(* has news offers one event, the drain loop takes one, the end of a drain *)
(* reports, and nothing else touches them.                                 *)
Offering ==
  \/ NewConnection
  \/ \E p \in Peer : Disconnect(p)
  \/ \E p \in Peer : \E length \in 0..(kRp1MaxPayload + 1) : \E body \in 0..length :
       Surfaced(body, length) /\ Extended(p, body, length)
  \/ HandshakePush

QueueUnchanged == UNCHANGED <<queueVars, reported, got, drain>>

LEMMA SizesHere ==
  /\ 0 \in Sizes /\ TokenSizes \subseteq Sizes /\ FALSE \in BOOLEAN
  /\ \A length \in 0..(kRp1MaxPayload + 1) : \A body \in 0..length :
       Surfaced(body, length) => body \in Sizes
  BY Rp1Assumption DEF Sizes, Surfaced

(* Where the network thread is inside a handshake, its peer and its token  *)
(* are those of one.                                                       *)
LEMMA InHandshake ==
  ASSUME TypeOK, net.at = "handshake"
  PROVE  net.peer \in Peer /\ net.token \in Sizes /\ net.supports \in BOOLEAN
<1>1. net \in [at : {"handshake"}, peer : Peer, supports : BOOLEAN, token : TokenSizes]
  BY DEF TypeOK, NetStates, Idle
<1> QED
  BY <1>1, SizesHere

LEMMA InTick ==
  ASSUME TypeOK, net.at = "tick"
  PROVE  net.peer \in Peer /\ net.batch \in Seq(Nat)
<1>1. net \in [at : {"tick"}, peer : Peer, batch : Seq(Nat)]
  BY DEF TypeOK, NetStates, Idle
<1> QED
  BY <1>1

LEMMA OfferingPushes ==
  ASSUME TypeOK, Offering
  PROVE  /\ \E type \in {"connected", "handshake", "message", "disconnected"},
               p \in Peer, size \in Sizes, sup \in BOOLEAN : Push(type, p, size, sup)
         /\ UNCHANGED pollVars
<1>1. CASE NewConnection
  BY <1>1, SizesHere DEF NewConnection
<1>2. ASSUME NEW p \in Peer, Disconnect(p)
      PROVE  Push("disconnected", p, 0, FALSE) /\ UNCHANGED pollVars
  BY <1>2 DEF Disconnect
<1>3. ASSUME NEW p \in Peer, NEW length \in 0..(kRp1MaxPayload + 1), NEW body \in 0..length,
             Surfaced(body, length), Extended(p, body, length)
      PROVE  Push("message", p, body, FALSE) /\ UNCHANGED pollVars /\ body \in Sizes
  BY <1>3, SizesHere DEF Extended
<1>4. CASE HandshakePush
  BY <1>4, InHandshake DEF HandshakePush
<1> QED
  BY <1>1, <1>2, <1>3, <1>4, SizesHere DEF Offering

(* Every step is one of these.                                             *)
LEMMA StepCases ==
  ASSUME TypeOK, [Next]_vars
  PROVE  Offering \/ QueueUnchanged \/ DrainBegin \/ DrainOne \/ DrainEnd
<1>1. CASE NewConnection \/ HandshakePush
  BY <1>1 DEF Offering
<1>2. ASSUME NEW p \in Peer,
             \/ AddHandshake(p)
             \/ \E rid \in RemoteIds, token \in TokenSizes : HandshakeLearn(p, rid, token)
             \/ TickSwap(p)
             \/ Send(p)
      PROVE  QueueUnchanged
  BY <1>2 DEF AddHandshake, HandshakeLearn, TickSwap, Send, QueueUnchanged, pollVars
<1>3. ASSUME NEW p \in Peer, NEW length \in 0..(kRp1MaxPayload + 1), NEW body \in 0..length,
             Extended(p, body, length), ~Surfaced(body, length)
      PROVE  QueueUnchanged
  BY <1>3 DEF Extended, QueueUnchanged, pollVars
<1>4. CASE TickSend \/ DrainRefuse \/ UNCHANGED vars
  BY <1>4 DEF TickSend, DrainRefuse, vars, QueueUnchanged, pollVars
<1> QED
  BY <1>1, <1>2, <1>3, <1>4 DEF Next, Network, Caller, Offering

-----------------------------------------------------------------------------
(* The rest of the state, as one conjunct, so that an action's proof names *)
(* only what the action changes.                                           *)
PeersTyped ==
  /\ nextPeerId \in 1..(MaxPeers + 1)
  /\ conn \in [Peer -> {"none", "open", "closed"}]
  /\ localRp1Id \in [Peer -> BOOLEAN] /\ supportsRp1 \in [Peer -> BOOLEAN]
  /\ peerRp1Id \in [Peer -> Int]
  /\ outgoing \in [Peer -> Seq(Nat)]
  /\ net \in NetStates
  /\ accepted \in [Peer -> Seq(Nat)] /\ wire \in [Peer -> Seq(Nat)]

LEMMA PeersTypeStep == TypeOK /\ [Next]_vars => PeersTyped'
<1> SUFFICES ASSUME TypeOK, [Next]_vars PROVE PeersTyped'
  OBVIOUS
<1> USE DEF PeersTyped
<1>1. CASE NewConnection
  BY <1>1, Rp1Assumption DEF NewConnection, TakePeerId, Peer, TypeOK
<1>2. ASSUME NEW p \in Peer, AddHandshake(p) \/ Disconnect(p) PROVE PeersTyped'
  BY <1>2 DEF AddHandshake, Disconnect, TypeOK
<1>3. ASSUME NEW p \in Peer, NEW rid \in RemoteIds, NEW token \in TokenSizes,
             HandshakeLearn(p, rid, token)
      PROVE  PeersTyped'
  <2>1. net' \in [at : {"handshake"}, peer : Peer, supports : BOOLEAN, token : TokenSizes]
    BY <1>3, Rp1Assumption DEF HandshakeLearn
  <2>2. net' \in NetStates
    BY <2>1 DEF NetStates
  <2>3. peerRp1Id' \in [Peer -> Int] /\ supportsRp1' \in [Peer -> BOOLEAN]
    BY <1>3, Rp1Assumption DEF HandshakeLearn, TypeOK
  <2> QED BY <1>3, <2>2, <2>3 DEF HandshakeLearn, TypeOK
<1>4. ASSUME NEW p \in Peer, NEW length \in 0..(kRp1MaxPayload + 1), NEW body \in 0..length,
             Extended(p, body, length)
      PROVE  PeersTyped'
  BY <1>4 DEF Extended, peerVars, TypeOK
<1>5. ASSUME NEW p \in Peer, TickSwap(p) PROVE PeersTyped'
  <2>1. net' \in [at : {"tick"}, peer : Peer, batch : Seq(Nat)]
    BY <1>5 DEF TickSwap, TypeOK
  <2>2. net' \in NetStates
    BY <2>1 DEF NetStates
  <2>3. outgoing' \in [Peer -> Seq(Nat)]
    BY <1>5 DEF TickSwap, TypeOK
  <2> QED BY <1>5, <2>2, <2>3 DEF TickSwap, TypeOK
<1>6. ASSUME NEW p \in Peer, Send(p) PROVE PeersTyped'
  <2>1. Len(accepted[p]) + 1 \in Nat
    BY LenProperties DEF TypeOK
  <2>2. /\ Append(accepted[p], Len(accepted[p]) + 1) \in Seq(Nat)
        /\ Append(outgoing[p], Len(accepted[p]) + 1) \in Seq(Nat)
    BY <2>1, AppendProperties DEF TypeOK
  <2> QED BY <1>6, <2>2 DEF Send, TypeOK
<1>7. CASE HandshakePush
  BY <1>7 DEF HandshakePush, peerVars, NetStates, TypeOK
<1>8. CASE TickSend
  <2>1. wire[net.peer] \o net.batch \in Seq(Nat)
    BY <1>8, InTick, ConcatProperties DEF TickSend, TypeOK
  <2>2. wire' \in [Peer -> Seq(Nat)] /\ net' \in NetStates
    BY <1>8, <2>1, InTick DEF TickSend, NetStates, TypeOK
  <2> QED BY <1>8, <2>2 DEF TickSend, peerVars, TypeOK
<1>9. CASE DrainRefuse \/ DrainBegin \/ DrainOne \/ DrainEnd \/ UNCHANGED vars
  BY <1>9 DEF DrainRefuse, DrainBegin, DrainOne, DrainEnd, vars, peerVars, TypeOK
<1> QED
  BY <1>1, <1>2, <1>3, <1>4, <1>5, <1>6, <1>7, <1>8, <1>9 DEF Next, Network, Caller

QueueTyped ==
  /\ events \in Seq(Event) /\ queueBytes \in Nat /\ dropped \in Nat
  /\ drain \in [held : BOOLEAN, pos : Nat]
  /\ offered \in 0..MaxOffered /\ reported \in Nat
  /\ got \in Seq(Event)

LEMMA QueueTypeStep == TypeOK /\ [Next]_vars => QueueTyped'
<1> SUFFICES ASSUME TypeOK, [Next]_vars PROVE QueueTyped'
  OBVIOUS
<1>1. CASE Offering
  BY <1>1, OfferingPushes, PushType DEF QueueTyped, pollVars, TypeOK
<1>2. CASE QueueUnchanged
  BY <1>2 DEF QueueUnchanged, queueVars, QueueTyped, TypeOK
<1>3. CASE DrainBegin
  BY <1>3 DEF DrainBegin, queueVars, QueueTyped, TypeOK
<1>4. CASE DrainOne
  BY <1>4, DrainTakes DEF DrainOne, QueueTyped, TypeOK
<1>5. CASE DrainEnd
  BY <1>5 DEF DrainEnd, QueueTyped, TypeOK
<1> QED
  BY <1>1, <1>2, <1>3, <1>4, <1>5, StepCases

(* The binding's buffer grows to a number of bytes, or stays.              *)
LEMMA BufferTypeStep == TypeOK /\ [Next]_vars => sDrainCap' \in Nat /\ retry' \in BOOLEAN
<1> SUFFICES ASSUME TypeOK, [Next]_vars PROVE sDrainCap' \in Nat /\ retry' \in BOOLEAN
  OBVIOUS
<1>1. CASE DrainRefuse
  <2>1. events # << >> /\ Head(events) \in Event
    BY <1>1, HeadTailProperties DEF DrainRefuse, Refused, TypeOK
  <2>2. Needed(Head(events)) \in Nat
    BY <2>1, EventFields DEF Needed
  <2>3. sDrainCap \in Nat /\ retry \in BOOLEAN
    BY DEF TypeOK
  <2>4. Max({sDrainCap, Needed(Head(events))}) \in Nat
    BY <2>2, <2>3, MaxOfTwo
  <2> QED BY <1>1, <2>3, <2>4 DEF DrainRefuse
<1>2. CASE DrainBegin \/ DrainOne \/ DrainEnd
  BY <1>2 DEF DrainBegin, DrainOne, DrainEnd, TypeOK
<1>3. CASE Network
  <2>1. UNCHANGED pollVars
    BY <1>3 DEF Network, NewConnection, AddHandshake, HandshakeLearn, Extended, TickSwap,
                Disconnect, HandshakePush, TickSend
  <2> QED BY <2>1 DEF pollVars, TypeOK
<1>4. ASSUME NEW p \in Peer, Send(p) PROVE sDrainCap' \in Nat /\ retry' \in BOOLEAN
  BY <1>4 DEF Send, pollVars, TypeOK
<1>5. CASE UNCHANGED vars
  BY <1>5 DEF vars, pollVars, TypeOK
<1> QED
  BY <1>1, <1>2, <1>3, <1>4, <1>5 DEF Next, Caller

LEMMA TypeInductive == TypeOK /\ [Next]_vars => TypeOK'
  BY PeersTypeStep, QueueTypeStep, BufferTypeStep DEF PeersTyped, QueueTyped, TypeOK

LEMMA TypeInit == Init => TypeOK
<1> SUFFICES ASSUME Init PROVE TypeOK
  OBVIOUS
<1>1. << >> \in Seq(Event) /\ << >> \in Seq(Nat)
  BY EmptySeq
<1>2. net \in NetStates
  BY DEF Init, NetStates
<1>3. nextPeerId \in 1..(MaxPeers + 1) /\ offered \in 0..MaxOffered
  BY Rp1Assumption DEF Init
<1>4. outgoing \in [Peer -> Seq(Nat)] /\ accepted \in [Peer -> Seq(Nat)]
      /\ wire \in [Peer -> Seq(Nat)]
  BY <1>1 DEF Init
<1>5. /\ conn \in [Peer -> {"none", "open", "closed"}]
      /\ localRp1Id \in [Peer -> BOOLEAN] /\ supportsRp1 \in [Peer -> BOOLEAN]
      /\ peerRp1Id \in [Peer -> Int]
  BY DEF Init
<1>6. /\ events \in Seq(Event) /\ queueBytes \in Nat /\ dropped \in Nat
      /\ drain \in [held : BOOLEAN, pos : Nat]
      /\ sDrainCap \in Nat /\ retry \in BOOLEAN
      /\ reported \in Nat /\ got \in Seq(Event)
  BY <1>1, Rp1Assumption DEF Init
<1> QED
  BY <1>2, <1>3, <1>4, <1>5, <1>6 DEF TypeOK

(* Every variable of the plugin, the binding's drain buffer and the        *)
(* history keeps its type, whatever peers and the caller do.               *)
THEOREM TypeCorrect == Spec => []TypeOK
  BY TypeInit, TypeInductive, PTL DEF Spec

-----------------------------------------------------------------------------
(* The caps and the account of losses.                                     *)
LEMMA BoundStep == TypeOK /\ QueueBounded /\ [Next]_vars => QueueBounded'
<1> SUFFICES ASSUME TypeOK, QueueBounded, [Next]_vars PROVE QueueBounded'
  OBVIOUS
<1>1. CASE Offering
  BY <1>1, OfferingPushes, PushType
<1>2. CASE QueueUnchanged \/ DrainBegin \/ DrainEnd
  BY <1>2 DEF QueueUnchanged, DrainBegin, DrainEnd, queueVars, QueueBounded
<1>3. CASE DrainOne
  BY <1>3, DrainTakes, Rp1Assumption DEF QueueBounded, TypeOK
<1> QED
  BY <1>1, <1>2, <1>3, StepCases

(* However many peers send however much, and however rarely the script     *)
(* polls, the inbound queue stays within its caps on events and on bytes.  *)
THEOREM BoundCorrect == Spec => []QueueBounded
<1>1. Init => QueueBounded
  BY Rp1Assumption, EmptySeq DEF Init, QueueBounded
<1> QED
  BY <1>1, TypeCorrect, BoundStep, PTL DEF Spec

(* The queue is well formed and bounded, in every state.                   *)
THEOREM QueueCorrect == Spec => []Bounded
  BY TypeCorrect, BoundCorrect, PTL DEF Bounded

LEMMA AccountStep == TypeOK /\ NoSilentLoss /\ [Next]_vars => NoSilentLoss'
<1> SUFFICES ASSUME TypeOK, NoSilentLoss, [Next]_vars PROVE NoSilentLoss'
  OBVIOUS
<1> USE DEF NoSilentLoss
<1>1. Len(got) \in Nat /\ Len(events) \in Nat /\ dropped \in Nat /\ reported \in Nat
      /\ offered \in Nat
  BY LenProperties DEF TypeOK
<1>2. CASE Offering
  <2>1. /\ Len(events') + dropped' = Len(events) + dropped + 1
        /\ offered' = offered + 1
        /\ dropped' \in Nat /\ events' \in Seq(Event)
    BY <1>2, OfferingPushes, PushType
  <2>2. Len(events') \in Nat
    BY <2>1, LenProperties
  <2>3. got' = got /\ reported' = reported
    BY <1>2, OfferingPushes DEF pollVars
  <2> QED BY <1>1, <2>1, <2>2, <2>3
<1>3. CASE QueueUnchanged
  BY <1>3 DEF QueueUnchanged, queueVars
<1>4. CASE DrainBegin
  BY <1>4 DEF DrainBegin, queueVars
<1>5. CASE DrainOne
  <2>1. /\ Len(events') = Len(events) - 1 /\ Len(got') = Len(got) + 1
        /\ dropped' = dropped /\ reported' = reported /\ offered' = offered
    BY <1>5, DrainTakes DEF DrainOne
  <2> QED BY <1>1, <2>1
<1>6. CASE DrainEnd
  <2>1. /\ events' = events /\ got' = got /\ offered' = offered
        /\ dropped' = 0 /\ reported' = reported + dropped
    BY <1>6 DEF DrainEnd
  <2> QED BY <1>1, <2>1
<1> QED
  BY <1>2, <1>3, <1>4, <1>5, <1>6, StepCases

(* Each event libtorrent's callbacks offered was taken by the script, is   *)
(* in the queue, or is counted in a loss reported or yet to be reported.   *)
THEOREM NoLossIsSilent == Spec => []NoSilentLoss
<1>1. Init => NoSilentLoss
  BY EmptySeq DEF Init, NoSilentLoss
<1> QED
  BY <1>1, TypeCorrect, AccountStep, PTL DEF Spec

-----------------------------------------------------------------------------
(* The life of a peer id. The stream the script sees grows by whole events *)
(* and by nothing else: draining moves events inside it.                   *)
LEMMA StreamType ==
  ASSUME TypeOK
  PROVE  stream \in Seq(Event) /\ Len(stream) \in Nat
  BY ConcatProperties, LenProperties DEF TypeOK, stream

LEMMA StreamGrows ==
  ASSUME TypeOK, NEW e \in Event, Offers(e), UNCHANGED pollVars
  PROVE  stream' = Append(stream, e) \/ stream' = stream
<1>1. CASE events' = Append(events, e)
  BY <1>1, ConcatAppend DEF TypeOK, stream, pollVars
<1>2. CASE events' = events
  BY <1>2 DEF stream, pollVars
<1> QED
  BY <1>1, <1>2 DEF Offers

(* What the stream says of a peer and what the plugin holds of it agree:   *)
(* an id not given out yet has no events, and a disconnected event means   *)
(* that the peer's record is closed. A handshake in progress is of an open *)
(* connection.                                                             *)
LifeInv ==
  /\ \A p \in Peer : p >= nextPeerId => conn[p] = "none"
  /\ \A i \in 1..Len(stream) :
       /\ conn[stream[i].peer] # "none"
       /\ stream[i].type = "disconnected" => conn[stream[i].peer] = "closed"
  /\ \A i, j \in 1..Len(stream) :
       i < j /\ stream[i].peer = stream[j].peer =>
         stream[i].type # "disconnected" /\ stream[j].type # "connected"
  /\ net.at = "handshake" => conn[net.peer] = "open"

(* The lifecycle survives the arrival of an event: of a new connection, or *)
(* of one that is open.                                                    *)
LEMMA LifeExtends ==
  ASSUME TypeOK, LifeInv, TypeOK',
         NEW e \in Event, stream' = Append(stream, e) \/ stream' = stream,
         \A p \in Peer : conn[p] # "none" => conn'[p] # "none",
         \A p \in Peer : conn[p] = "closed" => conn'[p] = "closed",
         \A p \in Peer : p >= nextPeerId' => conn'[p] = "none",
         conn'[e.peer] # "none",
         e.type = "disconnected" => conn'[e.peer] = "closed",
         IF e.type = "connected" THEN conn[e.peer] = "none" ELSE conn[e.peer] = "open",
         net'.at # "handshake"
  PROVE  LifeInv'
<1>1. stream \in Seq(Event) /\ Len(stream) \in Nat
  BY StreamType
<1>2. \A i \in 1..Len(stream) : stream[i] \in Event /\ stream[i].peer \in Peer
  BY <1>1, ElementOfSeq, EventFields
<1>3. CASE stream' = stream
  BY <1>2, <1>3 DEF LifeInv
<1>4. CASE stream' = Append(stream, e)
  <2>1. /\ Len(stream') = Len(stream) + 1
        /\ \A i \in 1..Len(stream) : stream'[i] = stream[i]
        /\ stream'[Len(stream) + 1] = e
    BY <1>1, <1>4, AppendProperties
  <2>2. \A i \in 1..Len(stream') : i \in 1..Len(stream) \/ i = Len(stream) + 1
    BY <1>1, <2>1
  <2>3. ASSUME NEW i \in 1..Len(stream')
        PROVE  /\ conn'[stream'[i].peer] # "none"
               /\ stream'[i].type = "disconnected" => conn'[stream'[i].peer] = "closed"
    BY <1>2, <2>1, <2>2 DEF LifeInv
  <2>4. ASSUME NEW i \in 1..Len(stream'), NEW j \in 1..Len(stream'), i < j,
               stream'[i].peer = stream'[j].peer
        PROVE  stream'[i].type # "disconnected" /\ stream'[j].type # "connected"
    <3>1. i \in 1..Len(stream)
      BY <1>1, <2>1, <2>4
    <3>2. CASE j \in 1..Len(stream)
      BY <2>1, <2>4, <3>1, <3>2 DEF LifeInv
    <3>3. CASE j = Len(stream) + 1
      <4>1. stream[i].peer = e.peer /\ stream'[i] = stream[i] /\ stream'[j] = e
        BY <2>1, <2>4, <3>1, <3>3
      <4>2. conn[e.peer] # "none" /\ (stream[i].type = "disconnected" => conn[e.peer] = "closed")
        BY <3>1, <4>1 DEF LifeInv
      <4> QED BY <4>1, <4>2
    <3> QED BY <2>2, <3>2, <3>3
  <2> QED BY <2>3, <2>4 DEF LifeInv
<1> QED
  BY <1>3, <1>4

LEMMA LifeStep == TypeOK /\ LifeInv /\ TypeOK' /\ [Next]_vars => LifeInv'
<1> SUFFICES ASSUME TypeOK, LifeInv, TypeOK', [Next]_vars PROVE LifeInv'
  OBVIOUS
<1>1. CASE NewConnection
  <2>1. /\ nextPeerId \in Peer /\ Push("connected", nextPeerId, 0, FALSE)
        /\ conn' = [conn EXCEPT ![nextPeerId] = "open"] /\ nextPeerId' = nextPeerId + 1
        /\ net' = Idle /\ UNCHANGED pollVars
    BY <1>1 DEF NewConnection, TakePeerId
  <2>2. nextPeerId >= nextPeerId /\ nextPeerId \in Int
    BY <2>1 DEF Peer
  <2>3. conn[nextPeerId] = "none"
    BY <2>1, <2>2 DEF LifeInv
  <2>4. PICK e \in Event : e.type = "connected" /\ e.peer = nextPeerId /\ Offers(e)
    BY <2>1, PushOffers, SizesHere
  <2>5. stream' = Append(stream, e) \/ stream' = stream
    BY <2>1, <2>4, StreamGrows
  <2>6. \A p \in Peer : p >= nextPeerId' => conn'[p] = "none"
    <3> SUFFICES ASSUME NEW p \in Peer, p >= nextPeerId + 1 PROVE conn'[p] = "none"
      BY <2>1
    <3>1. p >= nextPeerId /\ p # nextPeerId
      BY <2>2 DEF Peer
    <3> QED BY <2>1, <3>1 DEF LifeInv, TypeOK
  <2>7. conn'[e.peer] # "none" /\ \A p \in Peer : conn[p] # "none" => conn'[p] = conn[p]
    BY <2>1, <2>3, <2>4 DEF TypeOK
  <2>8. net'.at # "handshake"
    BY <2>1 DEF Idle
  <2> QED BY <2>1, <2>3, <2>4, <2>5, <2>6, <2>7, <2>8, LifeExtends
<1>2. ASSUME NEW p \in Peer, Disconnect(p) PROVE LifeInv'
  <2>1. /\ conn[p] = "open" /\ Push("disconnected", p, 0, FALSE)
        /\ conn' = [conn EXCEPT ![p] = "closed"] /\ nextPeerId' = nextPeerId
        /\ net' = Idle /\ UNCHANGED pollVars
    BY <1>2 DEF Disconnect
  <2>2. PICK e \in Event : e.type = "disconnected" /\ e.peer = p /\ Offers(e)
    BY <2>1, PushOffers, SizesHere
  <2>3. stream' = Append(stream, e) \/ stream' = stream
    BY <2>1, <2>2, StreamGrows
  <2>4. /\ conn'[p] = "closed"
        /\ \A q \in Peer : q # p => conn'[q] = conn[q]
    BY <2>1 DEF TypeOK
  <2>5. \A q \in Peer : q >= nextPeerId' => conn'[q] = "none"
    BY <2>1, <2>4 DEF LifeInv
  <2>6. net'.at # "handshake"
    BY <2>1 DEF Idle
  <2> QED BY <2>1, <2>2, <2>3, <2>4, <2>5, <2>6, LifeExtends
<1>3. ASSUME NEW p \in Peer, NEW length \in 0..(kRp1MaxPayload + 1), NEW body \in 0..length,
             Surfaced(body, length), Extended(p, body, length)
      PROVE  LifeInv'
  <2>1. /\ conn[p] = "open" /\ Push("message", p, body, FALSE) /\ body \in Sizes
        /\ UNCHANGED <<conn, nextPeerId>> /\ net' = Idle /\ UNCHANGED pollVars
    BY <1>3, SizesHere DEF Extended, peerVars
  <2>2. PICK e \in Event : e.type = "message" /\ e.peer = p /\ Offers(e)
    BY <2>1, PushOffers, SizesHere
  <2>3. stream' = Append(stream, e) \/ stream' = stream
    BY <2>1, <2>2, StreamGrows
  <2>4. \A q \in Peer : q >= nextPeerId' => conn'[q] = "none"
    BY <2>1 DEF LifeInv
  <2>5. net'.at # "handshake"
    BY <2>1 DEF Idle
  <2> QED BY <2>1, <2>2, <2>3, <2>4, <2>5, LifeExtends
<1>4. CASE HandshakePush
  <2>1. /\ conn[net.peer] = "open" /\ Push("handshake", net.peer, net.token, net.supports)
        /\ UNCHANGED <<conn, nextPeerId>> /\ net' = Idle /\ UNCHANGED pollVars
        /\ net.peer \in Peer /\ net.token \in Sizes /\ net.supports \in BOOLEAN
    BY <1>4, InHandshake DEF HandshakePush, peerVars, LifeInv
  <2>2. PICK e \in Event : e.type = "handshake" /\ e.peer = net.peer /\ Offers(e)
    BY <2>1, PushOffers
  <2>3. stream' = Append(stream, e) \/ stream' = stream
    BY <2>1, <2>2, StreamGrows
  <2>4. \A q \in Peer : q >= nextPeerId' => conn'[q] = "none"
    BY <2>1 DEF LifeInv
  <2>5. net'.at # "handshake"
    BY <2>1 DEF Idle
  <2> QED BY <2>1, <2>2, <2>3, <2>4, <2>5, LifeExtends
<1>5. CASE /\ UNCHANGED <<conn, nextPeerId>> /\ stream' = stream
           /\ net'.at = "handshake" => conn[net'.peer] = "open"
  BY <1>5 DEF LifeInv
<1>6. ASSUME NEW p \in Peer, NEW rid \in RemoteIds, NEW token \in TokenSizes,
             HandshakeLearn(p, rid, token)
      PROVE  LifeInv'
  <2>1. net'.peer = p /\ conn[p] = "open"
    BY <1>6 DEF HandshakeLearn
  <2>2. UNCHANGED <<conn, nextPeerId>> /\ stream' = stream
    BY <1>6 DEF HandshakeLearn, queueVars, pollVars, stream
  <2> QED BY <1>5, <2>1, <2>2
<1>7. ASSUME NEW p \in Peer, AddHandshake(p) \/ TickSwap(p) \/ Send(p) PROVE LifeInv'
  <2>1. UNCHANGED <<conn, nextPeerId>> /\ stream' = stream
    BY <1>7 DEF AddHandshake, TickSwap, Send, queueVars, pollVars, stream
  <2>2. net'.at = "handshake" => net' = net
    BY <1>7 DEF AddHandshake, TickSwap, Send
  <2> QED BY <1>5, <2>1, <2>2 DEF LifeInv
<1>8. ASSUME NEW p \in Peer, NEW length \in 0..(kRp1MaxPayload + 1), NEW body \in 0..length,
             ~Surfaced(body, length), Extended(p, body, length)
      PROVE  LifeInv'
  <2>1. UNCHANGED <<conn, nextPeerId, net>> /\ stream' = stream
    BY <1>8 DEF Extended, peerVars, queueVars, pollVars, stream
  <2> QED BY <1>5, <2>1 DEF LifeInv
<1>9. CASE TickSend \/ DrainRefuse \/ DrainBegin \/ DrainEnd \/ UNCHANGED vars
  <2>1. UNCHANGED <<conn, nextPeerId>> /\ stream' = stream
    BY <1>9 DEF TickSend, DrainRefuse, DrainBegin, DrainEnd, peerVars, queueVars, pollVars,
                stream, vars
  <2>2. net'.at = "handshake" => net' = net
    <3>1. CASE TickSend
      BY <3>1 DEF TickSend, Idle
    <3>2. CASE DrainRefuse \/ DrainBegin \/ DrainEnd \/ UNCHANGED vars
      BY <3>2 DEF DrainRefuse, DrainBegin, DrainEnd, vars
    <3> QED BY <1>9, <3>1, <3>2
  <2> QED BY <1>5, <2>1, <2>2 DEF LifeInv
<1>10. CASE DrainOne
  <2>1. UNCHANGED <<conn, nextPeerId, net>>
    BY <1>10 DEF DrainOne, peerVars
  <2> QED BY <1>5, <1>10, <2>1, DrainTakes DEF LifeInv
<1> QED
  BY <1>1, <1>2, <1>3, <1>4, <1>6, <1>7, <1>8, <1>9, <1>10 DEF Next, Network, Caller

LEMMA LifeInit == Init => LifeInv
<1> SUFFICES ASSUME Init PROVE LifeInv
  OBVIOUS
<1>1. stream = << >> \o << >> /\ << >> \in Seq(Event)
  BY DEF Init, stream
<1>2. Len(stream) = 0
  BY <1>1, ConcatEmptySeq, EmptySeq
<1> QED
  BY <1>2 DEF Init, Idle, LifeInv

LEMMA LifeCorrect == Spec => [](TypeOK /\ LifeInv)
<1>1. Init => TypeOK /\ LifeInv
  BY TypeInit, LifeInit
<1>2. TypeOK /\ LifeInv /\ [Next]_vars => (TypeOK /\ LifeInv)'
  BY TypeInductive, LifeStep
<1> QED
  BY <1>1, <1>2, PTL DEF Spec

(* A peer id names one connection for good: in what the script sees of it, *)
(* nothing precedes "connected" and nothing follows "disconnected".        *)
THEOREM IdsNeverReused == Spec => []PeerLifecycle
<1>1. TypeOK /\ LifeInv => PeerLifecycle
  BY StreamType, LenProperties DEF LifeInv, PeerLifecycle
<1> QED
  BY <1>1, LifeCorrect, PTL

(* Once the script has seen a peer leave, no send to it is accepted.       *)
THEOREM SendStopsAtGone == Spec => []GoneIsGone
<1>1. TypeOK /\ LifeInv => GoneIsGone
  <2> SUFFICES ASSUME TypeOK, LifeInv, NEW i \in DOMAIN got, got[i].type = "disconnected"
               PROVE  conn[got[i].peer] = "closed"
    BY DEF GoneIsGone, CanSend
  <2>1. got \in Seq(Event) /\ events \in Seq(Event) /\ Len(got) \in Nat /\ Len(events) \in Nat
    BY LenProperties DEF TypeOK
  <2>2. i \in 1..Len(got)
    BY <2>1, LenProperties
  <2>3. i \in 1..(Len(got) + Len(events))
    BY <2>1, <2>2
  <2>4. i \in 1..Len(stream) /\ stream[i] = got[i]
    BY <2>1, <2>2, <2>3, ConcatProperties DEF stream
  <2> QED BY <2>4 DEF LifeInv
<1> QED
  BY <1>1, LifeCorrect, PTL

-----------------------------------------------------------------------------
(* The retry of a poll.                                                    *)
LEMMA MaxIsNoLess ==
  ASSUME NEW a \in Nat, NEW b \in Nat
  PROVE  b <= Max({a, b})
<1>1. \E x \in {a, b} : \A y \in {a, b} : x >= y
  OBVIOUS
<1>2. Max({a, b}) \in {a, b} /\ \A y \in {a, b} : Max({a, b}) >= y
  BY <1>1 DEF Max
<1> QED
  BY <1>2

(* Between the refusal and the retry no drain runs, so that only arrivals, *)
(* at the far end, change the queue.                                       *)
RetryInv == RetrySucceeds /\ (retry => ~drain.held)

LEMMA RetryStep == TypeOK /\ RetryInv /\ [Next]_vars => RetryInv'
<1> SUFFICES ASSUME TypeOK, RetryInv, [Next]_vars PROVE RetryInv'
  OBVIOUS
<1> USE DEF RetryInv, RetrySucceeds
<1>1. CASE DrainRefuse
  <2>1. /\ events # << >> /\ events' = events /\ ~drain'.held
        /\ 2 + Need(Head(events)) > sDrainCap
    BY <1>1 DEF DrainRefuse, Refused, queueVars
  <2>2. Head(events) \in Event
    BY <2>1, HeadTailProperties DEF TypeOK
  <2>3. Needed(Head(events)) \in Nat /\ Needed(Head(events)) = 2 + Need(Head(events))
    BY <2>2, EventFields DEF Needed
  <2>4. ~retry
    BY <2>1, <2>2, EventFields DEF TypeOK
  <2>5. sDrainCap' = Max({sDrainCap, Needed(Head(events))})
    BY <1>1, <2>4 DEF DrainRefuse
  <2>6. sDrainCap \in Nat
    BY DEF TypeOK
  <2>7. Needed(Head(events)) <= Max({sDrainCap, Needed(Head(events))})
    BY <2>3, <2>6, MaxIsNoLess
  <2>8. 2 + Need(Head(events')) <= sDrainCap'
    BY <2>1, <2>3, <2>5, <2>7
  <2> QED BY <2>1, <2>8
<1>2. CASE Offering
  <2>1. UNCHANGED pollVars
    BY <1>2, OfferingPushes
  <2>2. PICK e \in Event : Offers(e)
    BY <1>2, OfferingPushes, PushOffers
  <2>3. events' = events \/ events' = Append(events, e)
    BY <2>2 DEF Offers
  <2>4. events # << >> => events' # << >> /\ Head(events') = Head(events)
    <3>1. events \in Seq(Event)
      BY DEF TypeOK
    <3>2. Append(events, e) # << >>
      BY <3>1, AppendProperties
    <3>3. events # << >> => Head(Append(events, e)) = Head(events)
      BY <3>1, HeadTailAppend
    <3> QED BY <2>3, <3>2, <3>3
  <2> QED BY <2>1, <2>4 DEF pollVars
<1>3. CASE QueueUnchanged /\ UNCHANGED <<sDrainCap, retry>>
  BY <1>3 DEF QueueUnchanged, queueVars
<1>4. CASE DrainBegin
  BY <1>4 DEF DrainBegin
<1>5. CASE DrainOne \/ DrainEnd
  BY <1>5 DEF DrainOne, DrainEnd
<1>6. ASSUME NEW p \in Peer,
             \/ AddHandshake(p)
             \/ \E rid \in RemoteIds, token \in TokenSizes : HandshakeLearn(p, rid, token)
             \/ TickSwap(p)
             \/ Send(p)
      PROVE  RetryInv'
  <2>1. QueueUnchanged /\ UNCHANGED <<sDrainCap, retry>>
    BY <1>6 DEF AddHandshake, HandshakeLearn, TickSwap, Send, QueueUnchanged, pollVars
  <2> QED BY <2>1, <1>3
<1>7. ASSUME NEW p \in Peer, NEW length \in 0..(kRp1MaxPayload + 1), NEW body \in 0..length,
             Extended(p, body, length), ~Surfaced(body, length)
      PROVE  RetryInv'
  <2>1. QueueUnchanged /\ UNCHANGED <<sDrainCap, retry>>
    BY <1>7 DEF Extended, QueueUnchanged, pollVars
  <2> QED BY <2>1, <1>3
<1>8. CASE TickSend \/ UNCHANGED vars
  <2>1. QueueUnchanged /\ UNCHANGED <<sDrainCap, retry>>
    BY <1>8 DEF TickSend, vars, QueueUnchanged, pollVars
  <2> QED BY <2>1, <1>3
<1> QED
  BY <1>1, <1>2, <1>4, <1>5, <1>6, <1>7, <1>8 DEF Next, Network, Caller, Offering

(* btRp1Poll retries once, and once is enough: the buffer it grew to holds *)
(* the event that did not fit, whatever arrived in between.                *)
THEOREM OneRetryIsEnough == Spec => []RetrySucceeds
<1>1. Init => RetryInv
  BY DEF Init, RetryInv, RetrySucceeds
<1>2. RetryInv => RetrySucceeds
  BY DEF RetryInv
<1> QED
  BY <1>1, <1>2, TypeCorrect, RetryStep, PTL DEF Spec

-----------------------------------------------------------------------------
(* The order of outgoing messages. Per peer, what is on the wire, in the   *)
(* batch tick holds and in the queue, put together, is what was accepted.  *)
LEMMA BatchType == ASSUME TypeOK, NEW p \in Peer PROVE Batch(p) \in Seq(Nat)
  BY InTick, EmptySeq DEF Batch

LEMMA OrderStep == TypeOK /\ SentInOrder /\ [Next]_vars => SentInOrder'
<1> SUFFICES ASSUME TypeOK, SentInOrder, [Next]_vars, NEW q \in Peer
             PROVE  (wire[q] \o Batch(q) \o outgoing[q] = accepted[q])'
  BY DEF SentInOrder
<1> DEFINE Same == UNCHANGED <<wire, outgoing, accepted>> /\ Batch(q)' = Batch(q)
<1>1. CASE Same
  BY <1>1 DEF SentInOrder
<1>2. wire[q] \in Seq(Nat) /\ outgoing[q] \in Seq(Nat) /\ accepted[q] \in Seq(Nat)
      /\ Batch(q) \in Seq(Nat) /\ wire[q] \o Batch(q) \in Seq(Nat)
  BY BatchType, ConcatProperties DEF TypeOK
<1>3. ASSUME NEW p \in Peer, TickSwap(p)
      PROVE  (wire[q] \o Batch(q) \o outgoing[q] = accepted[q])'
  <2>1. /\ net = Idle /\ net' = [at |-> "tick", peer |-> p, batch |-> outgoing[p]]
        /\ outgoing' = [outgoing EXCEPT ![p] = << >>]
        /\ UNCHANGED <<wire, accepted>>
    BY <1>3 DEF TickSwap
  <2>2. CASE q = p
    <3>1. Batch(q) = << >> /\ Batch(q)' = outgoing[q] /\ outgoing'[q] = << >>
      BY <2>1, <2>2 DEF Batch, Idle, TypeOK
    <3>2. wire[q] \o << >> \o outgoing[q] = accepted[q]
      BY <3>1 DEF SentInOrder
    <3>3. wire[q] \o outgoing[q] \o << >> = wire[q] \o outgoing[q]
      BY <1>2, ConcatProperties, ConcatEmptySeq
    <3>4. wire[q] \o << >> = wire[q]
      BY <1>2, ConcatEmptySeq
    <3> QED BY <2>1, <3>1, <3>2, <3>3, <3>4
  <2>3. CASE q # p
    BY <1>1, <2>1, <2>3 DEF Batch, Idle, SentInOrder, TypeOK
  <2> QED BY <2>2, <2>3
<1>4. CASE TickSend
  <2>1. /\ net.at = "tick" /\ net' = Idle /\ net.peer \in Peer
        /\ wire' = [wire EXCEPT ![net.peer] = @ \o net.batch]
        /\ UNCHANGED <<outgoing, accepted>>
    BY <1>4, InTick DEF TickSend, peerVars
  <2>2. Batch(q)' = << >>
    BY <2>1 DEF Batch, Idle
  <2>3. wire'[q] = wire[q] \o Batch(q)
    BY <1>2, <2>1, ConcatEmptySeq DEF Batch, TypeOK
  <2>4. (wire[q] \o Batch(q)) \o << >> = wire[q] \o Batch(q)
    BY <1>2, ConcatEmptySeq
  <2> QED BY <2>1, <2>2, <2>3, <2>4 DEF SentInOrder
<1>5. ASSUME NEW p \in Peer, Send(p)
      PROVE  (wire[q] \o Batch(q) \o outgoing[q] = accepted[q])'
  <2>1. /\ accepted' = [accepted EXCEPT ![p] = Append(@, Len(@) + 1)]
        /\ outgoing' = [outgoing EXCEPT ![p] = Append(@, Len(accepted[p]) + 1)]
        /\ UNCHANGED <<wire, net>>
    BY <1>5 DEF Send
  <2>2. CASE q = p
    <3>1. accepted'[q] = Append(accepted[q], Len(accepted[q]) + 1)
          /\ outgoing'[q] = Append(outgoing[q], Len(accepted[q]) + 1)
          /\ wire' = wire /\ Batch(q)' = Batch(q)
      BY <2>1, <2>2 DEF Batch, TypeOK
    <3> DEFINE m == Len(accepted[q]) + 1
               s == wire[q] \o Batch(q)
    <3>2. m \in Nat /\ s \in Seq(Nat)
      BY <1>2, LenProperties
    <3>3. accepted'[q] = Append(accepted[q], m) /\ outgoing'[q] = Append(outgoing[q], m)
          /\ wire'[q] \o Batch(q)' = s /\ s \o outgoing[q] = accepted[q]
      BY <3>1 DEF SentInOrder
    <3> HIDE DEF m, s
    <3>4. s \o Append(outgoing[q], m) = Append(s \o outgoing[q], m)
      BY <1>2, <3>2, ConcatAppend
    <3> QED BY <3>3, <3>4
  <2>3. CASE q # p
    BY <1>1, <2>1, <2>3 DEF Batch, SentInOrder, TypeOK
  <2> QED BY <2>2, <2>3
<1>6. ASSUME net' = net \/ (net.at # "tick" /\ net'.at # "tick"),
             UNCHANGED <<wire, outgoing, accepted>>
      PROVE  (wire[q] \o Batch(q) \o outgoing[q] = accepted[q])'
  BY <1>1, <1>6 DEF Batch
<1>7. ASSUME NEW p \in Peer, AddHandshake(p) \/ Disconnect(p)
      PROVE  (wire[q] \o Batch(q) \o outgoing[q] = accepted[q])'
  BY <1>6, <1>7 DEF AddHandshake, Disconnect
<1>8. ASSUME NEW p \in Peer, NEW rid \in RemoteIds, NEW token \in TokenSizes,
             HandshakeLearn(p, rid, token)
      PROVE  (wire[q] \o Batch(q) \o outgoing[q] = accepted[q])'
  <2>1. net = Idle /\ net'.at = "handshake" /\ UNCHANGED <<wire, outgoing, accepted>>
    BY <1>8 DEF HandshakeLearn
  <2> QED BY <1>6, <2>1 DEF Idle
<1>9. ASSUME NEW p \in Peer, NEW length \in 0..(kRp1MaxPayload + 1), NEW body \in 0..length,
             Extended(p, body, length)
      PROVE  (wire[q] \o Batch(q) \o outgoing[q] = accepted[q])'
  BY <1>6, <1>9 DEF Extended, peerVars
<1>10. CASE HandshakePush
  <2>1. net.at = "handshake" /\ net' = Idle /\ UNCHANGED <<wire, outgoing, accepted>>
    BY <1>10 DEF HandshakePush, peerVars
  <2> QED BY <1>6, <2>1 DEF Idle
<1>11. CASE NewConnection \/ DrainRefuse \/ DrainBegin \/ DrainOne \/ DrainEnd \/ UNCHANGED vars
  <2>1. UNCHANGED <<net, wire, outgoing, accepted>>
    BY <1>11 DEF NewConnection, DrainRefuse, DrainBegin, DrainOne, DrainEnd, vars, peerVars
  <2> QED BY <1>6, <2>1
<1> QED
  BY <1>3, <1>4, <1>5, <1>7, <1>8, <1>9, <1>10, <1>11 DEF Next, Network, Caller

(* Messages accepted for a peer reach the wire in order and once each: none *)
(* is lost between the caller's queue, tick's batch and the wire.           *)
THEOREM OrderCorrect == Spec => []SentInOrder
<1>1. Init => SentInOrder
  <2> SUFFICES ASSUME Init, NEW p \in Peer
               PROVE  wire[p] \o Batch(p) \o outgoing[p] = accepted[p]
    BY DEF SentInOrder
  <2>1. wire[p] = << >> /\ Batch(p) = << >> /\ outgoing[p] = << >> /\ accepted[p] = << >>
    BY DEF Init, Batch, Idle
  <2>2. << >> \in Seq(Nat) /\ << >> \o << >> = << >>
    BY EmptySeq, ConcatEmptySeq
  <2> QED BY <2>1, <2>2
<1> QED
  BY <1>1, TypeCorrect, OrderStep, PTL DEF Spec

-----------------------------------------------------------------------------
(* What the queue is charged. FoldSeq adds up the costs in an order of its *)
(* own, over sets of places; whichever place is taken first, the sum is    *)
(* the same. The inductions are over sets of numbers: a set that has 0 and *)
(* the successor of each of its members but the last is all of 0..N.       *)
LEMMA Least ==
  ASSUME NEW T, T \subseteq Nat, T # {}
  PROVE  \E x \in T : \A y \in T : x <= y
<1> DEFINE R == {p \in Nat \X Nat : p[1] < p[2]}
<1>1. IsWellFoundedOn(R, Nat)
  BY NatLessThanWellFounded DEF OpToRel
<1>2. PICK x \in T : \A y \in T : ~(<<y, x>> \in R)
  <2> HIDE DEF R
  <2> QED BY <1>1, WFMin
<1>3. \A y \in T : <<y, x>> \in R <=> y < x
  OBVIOUS
<1>4. x \in Nat /\ \A y \in T : y \in Nat /\ ~(y < x)
  BY <1>2, <1>3
<1> QED BY <1>4

LEMMA Upto ==
  ASSUME NEW N \in Nat, NEW G \in SUBSET (0..N), 0 \in G, \A k \in 1..N : k - 1 \in G => k \in G
  PROVE  G = 0..N
<1> DEFINE B == (0..N) \ G
<1> SUFFICES ASSUME B # {} PROVE FALSE
  OBVIOUS
<1>0. B \subseteq Nat
  OBVIOUS
<1>1. PICK n \in B : \A m \in B : n <= m
  <2> HIDE DEF B
  <2> QED BY <1>0, Least
<1>2. n \in 1..N /\ n - 1 \in 0..N /\ ~(n <= n - 1)
  BY <1>1
<1> QED BY <1>1, <1>2

Places(q) == SUBSET (1..Len(q))
OneOf(s)  == CHOOSE x \in s : TRUE
Sum1(it, q, s) == IF s = {} THEN 0 ELSE cost(q[OneOf(s)]) + it[s \ {OneOf(s)}]
Adds(it, q) == it = [s \in Places(q) |-> Sum1(it, q, s)]

LEMMA OneOfIs == ASSUME NEW s, s # {} PROVE OneOf(s) \in s
BY DEF OneOf

LEMMA Fewer ==
  ASSUME NEW q \in Seq(Event), NEW s \in Places(q)
  PROVE  /\ Cardinality(s) \in 0..Len(q) /\ (Cardinality(s) = 0 => s = {})
         /\ \A x \in s : s \ {x} \in Places(q) /\ Cardinality(s \ {x}) = Cardinality(s) - 1
                         /\ cost(q[x]) \in Nat
<1>1. Len(q) \in Nat /\ IsFiniteSet(1..Len(q)) /\ Cardinality(1..Len(q)) = Len(q)
  <2>1. Len(q) \in Nat /\ 1 \in Int /\ Len(q) \in Int
    OBVIOUS
  <2>2. IsFiniteSet(1..Len(q)) /\ Cardinality(1..Len(q)) = IF 1 > Len(q) THEN 0 ELSE Len(q) - 1 + 1
    BY <2>1, FS_Interval
  <2> QED BY <2>1, <2>2
<1>2. s \in SUBSET (1..Len(q))
  BY DEF Places
<1>3. IsFiniteSet(s) /\ Cardinality(s) <= Len(q)
  BY <1>1, <1>2, FS_Subset
<1>4. Cardinality(s) \in Nat /\ (Cardinality(s) = 0 => s = {})
  BY <1>3, FS_CardinalityType, FS_EmptySet
<1>5. ASSUME NEW x \in s
      PROVE  s \ {x} \in Places(q) /\ Cardinality(s \ {x}) = Cardinality(s) - 1 /\ cost(q[x]) \in Nat
  <2>1. Cardinality(s \ {x}) = Cardinality(s) - 1
    BY <1>3, FS_RemoveElement
  <2>2. x \in 1..Len(q)
    BY <1>2
  <2>3. q[x] \in Event
    BY <2>2, ElementOfSeq
  <2>4. s \ {x} \in Places(q)
    BY <1>2 DEF Places
  <2> QED BY <2>1, <2>3, <2>4, EventFields
<1> QED BY <1>1, <1>3, <1>4, <1>5

LEMMA AddsExists ==
  ASSUME NEW q \in Seq(Event)
  PROVE  \E it \in [Places(q) -> Nat] : Adds(it, q)
<1> DEFINE P == Places(q)
           N == Len(q)
           Good(k) == \E h \in [P -> Nat] : \A s \in P : Cardinality(s) <= k => h[s] = Sum1(h, q, s)
           G == {k \in 0..N : Good(k)}
<1>0. N \in Nat
  OBVIOUS
<1>1. Good(0)
  <2> DEFINE z == [s \in P |-> 0]
  <2>1. z \in [P -> Nat]
    OBVIOUS
  <2>2. ASSUME NEW s \in P, Cardinality(s) <= 0 PROVE z[s] = Sum1(z, q, s)
    <3>1. Cardinality(s) \in 0..N /\ (Cardinality(s) = 0 => s = {})
      BY Fewer
    <3>2. s = {}
      BY <2>2, <3>1, <1>0
    <3> QED BY <3>2 DEF Sum1
  <2> HIDE DEF z
  <2> QED BY <2>1, <2>2
<1>2. ASSUME NEW k \in 1..N, Good(k - 1) PROVE Good(k)
  <2>1. PICK h \in [P -> Nat] : \A s \in P : Cardinality(s) <= k - 1 => h[s] = Sum1(h, q, s)
    BY <1>2
  <2> DEFINE g == [s \in P |-> Sum1(h, q, s)]
  <2>2. ASSUME NEW s \in P PROVE Sum1(h, q, s) \in Nat
    <3>1. CASE s = {}
      BY <3>1 DEF Sum1
    <3>2. CASE s # {}
      <4>1. OneOf(s) \in s
        BY <3>2, OneOfIs
      <4>2. cost(q[OneOf(s)]) \in Nat /\ s \ {OneOf(s)} \in P
        BY <4>1, Fewer
      <4>3. h[s \ {OneOf(s)}] \in Nat
        BY <4>2
      <4> QED BY <3>2, <4>2, <4>3 DEF Sum1
    <3> QED BY <3>1, <3>2
  <2>3. g \in [P -> Nat]
    BY <2>2
  <2>4. ASSUME NEW s \in P, Cardinality(s) <= k PROVE g[s] = Sum1(g, q, s)
    <3>1. CASE s = {}
      BY <3>1 DEF Sum1
    <3>2. CASE s # {}
      <4> DEFINE x == OneOf(s)
      <4>1. x \in s
        BY <3>2, OneOfIs
      <4>2. s \ {x} \in P /\ Cardinality(s \ {x}) = Cardinality(s) - 1 /\ Cardinality(s) \in 0..N
        BY <4>1, Fewer
      <4>3. Cardinality(s \ {x}) <= k - 1
        BY <2>4, <4>2
      <4> HIDE DEF x
      <4>4. h[s \ {x}] = Sum1(h, q, s \ {x}) /\ g[s \ {x}] = Sum1(h, q, s \ {x})
        BY <2>1, <4>2, <4>3
      <4>5. g[s] = cost(q[x]) + h[s \ {x}]
        BY <3>2 DEF Sum1, x
      <4> HIDE DEF g
      <4>6. g[s] = cost(q[x]) + g[s \ {x}]
        BY <4>4, <4>5
      <4> QED BY <3>2, <4>6 DEF Sum1, x
    <3> QED BY <3>1, <3>2
  <2> HIDE DEF g
  <2> QED BY <2>3, <2>4
<1> HIDE DEF Good
<1>3. G = 0..N
  <2>1. 0 \in G /\ \A k \in 1..N : k - 1 \in G => k \in G
    BY <1>0, <1>1, <1>2
  <2> HIDE DEF G
  <2>2. G \in SUBSET (0..N)
    BY DEF G
  <2> QED BY <1>0, <2>1, <2>2, Upto
<1>4. Good(N)
  BY <1>0, <1>3
<1>5. PICK h \in [P -> Nat] : \A s \in P : Cardinality(s) <= N => h[s] = Sum1(h, q, s)
  BY <1>4 DEF Good
<1>6. \A s \in P : Cardinality(s) \in 0..N
  BY Fewer
<1>7. \A s \in P : h[s] = Sum1(h, q, s)
  BY <1>0, <1>5, <1>6
<1>8. h = [s \in P |-> h[s]]
  BY <1>5
<1>9. h = [s \in P |-> Sum1(h, q, s)]
  BY <1>7, <1>8
<1> QED BY <1>5, <1>9 DEF Adds

(* Any place may be taken first.                                            *)
LEMMA AddsAny ==
  ASSUME NEW q \in Seq(Event), NEW it \in [Places(q) -> Nat], Adds(it, q), NEW s \in Places(q), NEW x \in s
  PROVE  it[s] = cost(q[x]) + it[s \ {x}]
<1> DEFINE P == Places(q)
           N == Len(q)
           Good(k) == \A t \in P : Cardinality(t) <= k => \A z \in t : it[t] = cost(q[z]) + it[t \ {z}]
           G == {k \in 0..N : Good(k)}
<1>0. N \in Nat
  OBVIOUS
<1>1. Good(0)
  <2>1. \A t \in P : Cardinality(t) \in 0..N /\ (Cardinality(t) = 0 => t = {})
    BY Fewer
  <2>2. \A t \in P : Cardinality(t) <= 0 => t = {}
    BY <1>0, <2>1
  <2> QED BY <2>2
<1>2. ASSUME NEW k \in 1..N, Good(k - 1) PROVE Good(k)
  <2> SUFFICES ASSUME NEW t \in P, Cardinality(t) <= k, NEW z \in t PROVE it[t] = cost(q[z]) + it[t \ {z}]
    OBVIOUS
  <2> DEFINE y == OneOf(t)
  <2>1. y \in t
    BY OneOfIs
  <2>2. it[t] = cost(q[y]) + it[t \ {y}]
    <3>1. it[t] = Sum1(it, q, t)
      BY DEF Adds
    <3> QED BY <3>1 DEF Sum1
  <2> HIDE DEF y
  <2>3. CASE z = y
    BY <2>2, <2>3
  <2>4. CASE z # y
    <3>1. /\ t \ {y} \in P /\ Cardinality(t \ {y}) = Cardinality(t) - 1 /\ cost(q[y]) \in Nat
          /\ t \ {z} \in P /\ Cardinality(t \ {z}) = Cardinality(t) - 1 /\ cost(q[z]) \in Nat
          /\ Cardinality(t) \in 0..N
      BY <2>1, Fewer
    <3>2. Cardinality(t \ {y}) <= k - 1 /\ Cardinality(t \ {z}) <= k - 1
      BY <3>1
    <3>3. it[t \ {y}] = cost(q[z]) + it[(t \ {y}) \ {z}] /\ it[t \ {z}] = cost(q[y]) + it[(t \ {z}) \ {y}]
      <4>1. z \in t \ {y} /\ y \in t \ {z}
        BY <2>1, <2>4
      <4> QED BY <1>2, <3>1, <3>2, <4>1
    <3> DEFINE u == (t \ {y}) \ {z}
    <3>4. (t \ {z}) \ {y} = u
      OBVIOUS
    <3>5. it[u] \in Nat
      <4>1. u \in P
        BY <3>1 DEF Places
      <4> QED BY <4>1
    <3> HIDE DEF u
    <3>6. it[t \ {y}] = cost(q[z]) + it[u] /\ it[t \ {z}] = cost(q[y]) + it[u]
      BY <3>3, <3>4 DEF u
    <3> QED BY <2>2, <3>1, <3>5, <3>6
  <2> QED BY <2>3, <2>4
<1> HIDE DEF Good
<1>3. G = 0..N
  <2>1. 0 \in G /\ \A k \in 1..N : k - 1 \in G => k \in G
    BY <1>0, <1>1, <1>2
  <2> HIDE DEF G
  <2>2. G \in SUBSET (0..N)
    BY DEF G
  <2> QED BY <1>0, <2>1, <2>2, Upto
<1>4. Good(N)
  BY <1>0, <1>3
<1>5. Cardinality(s) <= N
  BY <1>0, Fewer
<1> QED BY <1>4, <1>5 DEF Good

LEMMA AddsType ==
  ASSUME NEW q \in Seq(Event), NEW it, Adds(it, q)
  PROVE  it \in [Places(q) -> Nat]
<1> DEFINE P == Places(q)
           N == Len(q)
           Good(k) == \A t \in P : Cardinality(t) <= k => it[t] \in Nat
           G == {k \in 0..N : Good(k)}
<1>0. N \in Nat
  OBVIOUS
<1>a. \A t \in P : it[t] = Sum1(it, q, t)
  BY DEF Adds
<1>b. \A t \in P : t = {} => it[t] = 0
  BY <1>a DEF Sum1
<1>1. Good(0)
  <2>1. \A t \in P : Cardinality(t) \in 0..N /\ (Cardinality(t) = 0 => t = {})
    BY Fewer
  <2>2. \A t \in P : Cardinality(t) <= 0 => t = {}
    BY <1>0, <2>1
  <2> HIDE DEF P
  <2> QED BY <2>2, <1>b
<1>2. ASSUME NEW k \in 1..N, Good(k - 1) PROVE Good(k)
  <2> SUFFICES ASSUME NEW t \in P, Cardinality(t) <= k PROVE it[t] \in Nat
    OBVIOUS
  <2>1. CASE t = {}
    BY <1>b, <2>1
  <2>2. CASE t # {}
    <3> DEFINE y == OneOf(t)
    <3>1. y \in t
      BY <2>2, OneOfIs
    <3>2. it[t] = cost(q[y]) + it[t \ {y}]
      BY <1>a, <2>2 DEF Sum1
    <3> HIDE DEF y
    <3>3. t \ {y} \in P /\ Cardinality(t \ {y}) = Cardinality(t) - 1 /\ cost(q[y]) \in Nat
          /\ Cardinality(t) \in 0..N
      BY <3>1, Fewer
    <3>4. it[t \ {y}] \in Nat
      <4>1. Cardinality(t \ {y}) <= k - 1
        BY <3>3
      <4> QED BY <1>2, <3>3, <4>1
    <3> QED BY <3>2, <3>3, <3>4
  <2> QED BY <2>1, <2>2
<1> HIDE DEF Good
<1>3. G = 0..N
  <2>1. 0 \in G /\ \A k \in 1..N : k - 1 \in G => k \in G
    BY <1>0, <1>1, <1>2
  <2> HIDE DEF G
  <2>2. G \in SUBSET (0..N)
    BY DEF G
  <2> QED BY <1>0, <2>1, <2>2, Upto
<1>4. Good(N)
  BY <1>0, <1>3
<1>5. \A t \in P : Cardinality(t) <= N
  BY <1>0, Fewer
<1>6. \A t \in P : it[t] \in Nat
  BY <1>4, <1>5 DEF Good
<1>7. it = [t \in P |-> it[t]]
  <2>1. it = [t \in P |-> Sum1(it, q, t)]
    BY DEF Adds
  <2> HIDE DEF P
  <2> QED BY <1>a, <2>1
<1> QED BY <1>6, <1>7

LEMMA ChargedIs ==
  ASSUME NEW q \in Seq(Event)
  PROVE  \E it \in [Places(q) -> Nat] : Adds(it, q) /\ Charged(q) = it[1..Len(q)]
<1> DEFINE C == CHOOSE it : Adds(it, q)
<1>1. \E it : Adds(it, q)
  BY AddsExists
<1>2. Adds(C, q)
  BY <1>1
<1>3. DOMAIN q = 1..Len(q)
  OBVIOUS
<1>4. Charged(q) = C[1..Len(q)]
  BY <1>3 DEF Charged, FoldSeq, FoldFunction, FoldFunctionOnSet, MapThenFoldSet,
              Adds, Sum1, OneOf, Places
<1> HIDE DEF C
<1>5. C \in [Places(q) -> Nat]
  BY <1>2, AddsType
<1> QED BY <1>2, <1>4, <1>5

(* The sums of the first costs, and the charge as the last of them.        *)
Sums(p, q) ==
  /\ p \in [0..Len(q) -> Nat] /\ p[0] = 0
  /\ \A k \in 1..Len(q) : p[k] = p[k - 1] + cost(q[k])

LEMMA ChargedSums ==
  ASSUME NEW q \in Seq(Event)
  PROVE  \E p : Sums(p, q) /\ Charged(q) = p[Len(q)]
<1> DEFINE N == Len(q)
<1>0. N \in Nat
  OBVIOUS
<1>1. PICK it \in [Places(q) -> Nat] : Adds(it, q) /\ Charged(q) = it[1..N]
  BY ChargedIs
<1> DEFINE p == [k \in 0..N |-> it[1..k]]
<1>2. \A k \in 0..N : 1..k \in Places(q)
  BY <1>0 DEF Places
<1>3. p \in [0..N -> Nat]
  BY <1>2
<1>4. p[0] = 0
  <2>1. p[0] = it[{}] /\ {} \in Places(q)
    BY <1>0 DEF Places
  <2>2. it[{}] = Sum1(it, q, {})
    BY <1>1, <2>1 DEF Adds
  <2> QED BY <2>1, <2>2 DEF Sum1
<1>5. ASSUME NEW k \in 1..N PROVE p[k] = p[k - 1] + cost(q[k])
  <2>1. 1..k \in Places(q) /\ k \in 1..k /\ (1..k) \ {k} = 1..(k - 1) /\ k \in 0..N /\ k - 1 \in 0..N
    BY <1>0, <1>2
  <2>2. it[1..k] = cost(q[k]) + it[1..(k - 1)]
    <3>1. it[1..k] = cost(q[k]) + it[(1..k) \ {k}]
      <4>1. \A u \in Places(q) : \A x \in u : it[u] = cost(q[x]) + it[u \ {x}]
        <5>1. Adds(it, q)
          BY <1>1
        <5> HIDE DEF p, N
        <5> QED BY <5>1, AddsAny
      <4> QED BY <2>1, <4>1
    <3>2. (1..k) \ {k} = 1..(k - 1)
      BY <2>1
    <3> QED BY <3>1, <3>2
  <2>3. it[1..(k - 1)] \in Nat /\ cost(q[k]) \in Nat
    BY <1>2, <2>1, Fewer
  <2>4. p[k] = it[1..k] /\ p[k - 1] = it[1..(k - 1)]
    BY <2>1
  <2> QED BY <2>2, <2>3, <2>4
<1>6. p[N] = it[1..N]
  BY <1>0
<1> HIDE DEF p
<1>7. Sums(p, q)
  BY <1>3, <1>4, <1>5 DEF Sums
<1> QED BY <1>1, <1>6, <1>7

LEMMA CostAt ==
  ASSUME NEW q \in Seq(Event), NEW k \in 1..Len(q)
  PROVE  cost(q[k]) \in Nat
<1>1. q[k] \in Event
  BY ElementOfSeq
<1> QED BY <1>1, EventFields

LEMMA ChargedEmpty == Charged(<< >>) = 0
<1>1. << >> \in Seq(Event) /\ Len(<< >>) = 0
  OBVIOUS
<1>2. PICK p : Sums(p, << >>) /\ Charged(<< >>) = p[Len(<< >>)]
  BY <1>1, ChargedSums
<1> QED BY <1>1, <1>2 DEF Sums

LEMMA ChargedAppend ==
  ASSUME NEW q \in Seq(Event), NEW e \in Event
  PROVE  Charged(Append(q, e)) = Charged(q) + cost(e)
<1> DEFINE N == Len(q)
           r == Append(q, e)
<1>0. N \in Nat /\ r \in Seq(Event) /\ Len(r) = N + 1 /\ r[N + 1] = e /\ \A k \in 1..N : r[k] = q[k]
  BY AppendProperties
<1> HIDE DEF r
<1>1. PICK p : Sums(p, q) /\ Charged(q) = p[N]
  BY ChargedSums
<1>2. PICK s : Sums(s, r) /\ Charged(r) = s[Len(r)]
  BY <1>0, ChargedSums
<1> DEFINE G == {k \in 0..N : p[k] = s[k]}
<1>3. G = 0..N
  <2>1. 0 \in G
    BY <1>0, <1>1, <1>2 DEF Sums
  <2>2. ASSUME NEW k \in 1..N, k - 1 \in G PROVE k \in G
    <3>1. p[k] = p[k - 1] + cost(q[k])
      BY <1>1 DEF Sums
    <3>2. k \in 1..Len(r) /\ r[k] = q[k]
      BY <1>0
    <3>3. s[k] = s[k - 1] + cost(r[k])
      BY <1>2, <3>2 DEF Sums
    <3> QED BY <1>0, <2>2, <3>1, <3>2, <3>3
  <2>3. G \in SUBSET (0..N)
    OBVIOUS
  <2> HIDE DEF G
  <2> QED BY <1>0, <2>1, <2>2, <2>3, Upto
<1>4. p[N] = s[N]
  BY <1>0, <1>3
<1>5. s[N + 1] = s[N + 1 - 1] + cost(r[N + 1])
  <2>1. N + 1 \in 1..Len(r)
    BY <1>0
  <2> QED BY <1>2, <2>1 DEF Sums
<1>6. N + 1 - 1 = N
  BY <1>0
<1> QED BY <1>0, <1>1, <1>2, <1>4, <1>5, <1>6 DEF r

LEMMA ChargedTail ==
  ASSUME NEW q \in Seq(Event), q # << >>
  PROVE  Charged(q) = cost(Head(q)) + Charged(Tail(q)) /\ Charged(Tail(q)) \in Nat
<1> DEFINE N == Len(q) - 1
           t == Tail(q)
<1>0. /\ N \in Nat /\ Len(q) = N + 1 /\ t \in Seq(Event) /\ Len(t) = N
      /\ Head(q) = q[1] /\ \A k \in 1..N : t[k] = q[k + 1]
  <2>1. Len(q) \in Nat \ {0}
    BY EmptySeq
  <2> QED BY <2>1, HeadTailProperties
<1>b. cost(q[1]) \in Nat
  BY <1>0, CostAt
<1> HIDE DEF t, N
<1>1. PICK p : Sums(p, q) /\ Charged(q) = p[Len(q)]
  BY ChargedSums
<1>2. PICK s : Sums(s, t) /\ Charged(t) = s[Len(t)]
  BY <1>0, ChargedSums
<1> DEFINE G == {k \in 0..N : p[k + 1] = cost(q[1]) + s[k]}
<1>3. G = 0..N
  <2>1. 0 \in G
    <3>1. 1 \in 1..Len(q) /\ 0 \in 0..N
      BY <1>0
    <3>2. p[1] = p[1 - 1] + cost(q[1]) /\ p[0] = 0 /\ s[0] = 0
      BY <1>1, <1>2, <3>1 DEF Sums
    <3> QED BY <1>b, <3>1, <3>2
  <2>2. ASSUME NEW k \in 1..N, k - 1 \in G PROVE k \in G
    <3>1. k + 1 \in 1..Len(q) /\ k \in 1..Len(t) /\ k - 1 \in 0..Len(t) /\ k \in 0..N
      BY <1>0
    <3>2. p[k + 1] = p[k + 1 - 1] + cost(q[k + 1]) /\ s[k] = s[k - 1] + cost(t[k]) /\ s[k - 1] \in Nat
      <4>1. p[k + 1] = p[k + 1 - 1] + cost(q[k + 1])
        BY <1>1, <3>1 DEF Sums
      <4>2. s[k] = s[k - 1] + cost(t[k])
        BY <1>2, <3>1 DEF Sums
      <4>3. s \in [0..Len(t) -> Nat]
        BY <1>2 DEF Sums
      <4> QED BY <3>1, <4>1, <4>2, <4>3
    <3>3. t[k] = q[k + 1] /\ p[k - 1 + 1] = cost(q[1]) + s[k - 1]
      BY <1>0, <2>2
    <3>4. k + 1 - 1 = k /\ k - 1 + 1 = k
      OBVIOUS
    <3>5. cost(t[k]) \in Nat
      BY <1>0, <3>1, CostAt
    <3>6. p[k + 1] = cost(q[1]) + s[k - 1] + cost(t[k])
      BY <3>2, <3>3, <3>4
    <3>7. p[k + 1] = cost(q[1]) + s[k]
      BY <1>b, <3>2, <3>5, <3>6
    <3> QED BY <3>1, <3>7
  <2>3. G \in SUBSET (0..N)
    OBVIOUS
  <2> HIDE DEF G
  <2> QED BY <1>0, <2>1, <2>2, <2>3, Upto
<1>4. p[N + 1] = cost(q[1]) + s[N] /\ s[N] \in Nat
  <2>1. N \in 0..N /\ s \in [0..N -> Nat]
    BY <1>0, <1>2 DEF Sums
  <2>2. N \in G
    BY <1>3, <2>1
  <2> QED BY <2>1, <2>2
<1> QED BY <1>0, <1>1, <1>2, <1>4 DEF t

(* An offer charges what it appends; the drain loop gives back what the     *)
(* head was charged, which the queue's charge contains, so that the         *)
(* saturating subtraction never saturates.                                  *)
LEMMA BytesStep == TypeOK /\ BytesExact /\ [Next]_vars => BytesExact'
<1> SUFFICES ASSUME TypeOK, BytesExact, [Next]_vars PROVE queueBytes' = Charged(events')
  BY DEF BytesExact
<1>1. queueBytes = Charged(events)
  BY DEF BytesExact
<1>2. events \in Seq(Event) /\ queueBytes \in Nat
  BY DEF TypeOK
<1>3. CASE Offering
  <2>1. PICK e \in Event : Offers(e)
    BY <1>3, OfferingPushes, PushOffers
  <2>2. CASE events' = Append(events, e) /\ queueBytes' = queueBytes + cost(e)
    BY <1>1, <1>2, <2>2, ChargedAppend
  <2>3. CASE events' = events /\ queueBytes' = queueBytes
    BY <1>1, <2>3
  <2> QED BY <2>1, <2>2, <2>3 DEF Offers
<1>4. CASE QueueUnchanged \/ DrainBegin \/ DrainEnd
  <2>1. events' = events /\ queueBytes' = queueBytes
    BY <1>4 DEF QueueUnchanged, DrainBegin, DrainEnd, queueVars
  <2> QED BY <1>1, <2>1
<1>5. CASE DrainOne
  <2>1. events # << >> /\ events' = Tail(events) /\ Head(events) \in Event
    BY <1>5, DrainTakes
  <2>2. queueBytes' = Release(Head(events))
    BY <1>5 DEF DrainOne
  <2>3. queueBytes = cost(Head(events)) + Charged(Tail(events)) /\ Charged(Tail(events)) \in Nat
    BY <1>1, <1>2, <2>1, ChargedTail
  <2>4. cost(Head(events)) \in Nat
    BY <2>1, EventFields
  <2>5. Release(Head(events)) = Charged(Tail(events))
    BY <2>3, <2>4 DEF Release
  <2> QED BY <2>1, <2>2, <2>5
<1> QED
  BY <1>3, <1>4, <1>5, StepCases

(* The byte account is exact (enqueue_locked charges, drain releases):      *)
(* queueBytes is what the queued events were charged, to the byte, so that  *)
(* the cap it enforces is the one meant, however long the session runs.     *)
THEOREM BytesCorrect == Spec => []BytesExact
<1>1. Init => BytesExact
  BY ChargedEmpty DEF Init, BytesExact
<1> QED
  BY <1>1, TypeCorrect, BytesStep, PTL DEF Spec

-----------------------------------------------------------------------------
(* The refinement. An event offered is accepted or lost; a round of the    *)
(* drain loop takes one event; the end of a drain takes none and reports.  *)
LEMMA TakeOne ==
  ASSUME NEW S, NEW s \in Seq(S), NEW t \in Seq(S), t # << >>
  PROVE  /\ 1 \in 0..Len(t)
         /\ Append(s, Head(t)) = s \o SubSeq(t, 1, 1)
         /\ Tail(t) = SubSeq(t, 1 + 1, Len(t))
<1>1. Len(t) \in Nat \ {0} /\ Head(t) \in S
  BY EmptySeq, HeadTailProperties
<1>2. SubSeq(t, 1, 1) = <<Head(t)>>
  <2>1. SubSeq(t, 1, 1) = <<t[1]>> \o SubSeq(t, 2, 1)
    BY <1>1, SubSeqRecursiveFirst
  <2>2. SubSeq(t, 2, 1) = << >>
    BY SubSeqEmpty
  <2>3. Head(t) = t[1]
    BY <1>1
  <2>4. <<t[1]>> \o << >> = <<t[1]>>
    BY <1>1, <2>3, ConcatEmptySeq
  <2> QED BY <2>1, <2>2, <2>3, <2>4
<1> QED
  BY <1>1, <1>2, AppendIsConcat, TailIsSubSeq

LEMMA TakeNone ==
  ASSUME NEW S, NEW s \in Seq(S), NEW t \in Seq(S)
  PROVE  /\ 0 \in 0..Len(t)
         /\ s = s \o SubSeq(t, 1, 0)
         /\ t = SubSeq(t, 0 + 1, Len(t))
<1>1. Len(t) \in Nat /\ SubSeq(t, 1, 0) = << >>
  BY LenProperties, SubSeqEmpty
<1> QED
  BY <1>1, ConcatEmptySeq, SubSeqFull

LEMMA RefinementStep == TypeOK /\ [Next]_vars => [Queue!Next]_(Queue!vars)
<1> SUFFICES ASSUME TypeOK, [Next]_vars PROVE Queue!Next \/ UNCHANGED Queue!vars
  OBVIOUS
<1>1. events \in Seq(Event) /\ got \in Seq(Event)
  BY DEF TypeOK
<1>2. CASE Offering
  <2>1. PICK e \in Event : Offers(e)
    BY <1>2, OfferingPushes, PushOffers
  <2>2. got' = got
    BY <1>2, OfferingPushes DEF pollVars
  <2>3. Queue!Accept(e) \/ Queue!Lose
    BY <2>1, <2>2 DEF Offers, Queue!Accept, Queue!Lose
  <2> QED BY <2>3 DEF Queue!Next
<1>3. CASE QueueUnchanged
  BY <1>3 DEF QueueUnchanged, queueVars, Queue!vars
<1>4. CASE DrainBegin
  BY <1>4 DEF DrainBegin, queueVars, Queue!vars
<1>5. CASE DrainOne
  <2>1. /\ events # << >> /\ events' = Tail(events) /\ got' = Append(got, Head(events))
        /\ dropped' = dropped
    BY <1>5, DrainTakes DEF DrainOne
  <2>2. Queue!Take
    BY <1>1, <2>1, TakeOne DEF Queue!Take
  <2> QED BY <2>2 DEF Queue!Next
<1>6. CASE DrainEnd
  <2>1. events' = events /\ got' = got /\ dropped' = 0
    BY <1>6 DEF DrainEnd
  <2>2. Queue!Take
    BY <1>1, <2>1, TakeNone DEF Queue!Take
  <2> QED BY <2>2 DEF Queue!Next
<1> QED
  BY <1>2, <1>3, <1>4, <1>5, <1>6, StepCases

(* The rp1 event stream is the queue a poller may rely on: events come in  *)
(* order, each at most once, and every loss is counted until reported.     *)
THEOREM RefinesLossyQueue == Spec => ImplementsQueue
<1>1. Init => Queue!Init
  BY DEF Init, Queue!Init
<1> QED
  BY <1>1, TypeCorrect, RefinementStep, PTL DEF Spec, ImplementsQueue, Queue!Spec
=============================================================================
