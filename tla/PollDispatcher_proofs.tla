----------------------- MODULE PollDispatcher_proofs -----------------------
(***************************************************************************)
(* Theorems about the poll dispatcher, for any number of stops and any     *)
(* session values a caller may pass:                                       *)
(*   TypeCorrect    the state keeps its type                               *)
(*   ChainsCorrect  only a stop makes room for one more chain              *)
(*   ArmedCorrect   while polling is on, and no handler's error or session *)
(*                  0 ended it, there is a chain                           *)
(*   ReportCorrect  a pass reads what its own drain left                   *)
(***************************************************************************)
EXTENDS PollDispatcher, SequenceTheorems, TLAPS

-----------------------------------------------------------------------------
(* Delivering a scheduled message takes one off the list.                  *)
LEMMA RemoveOne ==
  ASSUME NEW S, NEW s \in Seq(S), NEW i \in DOMAIN s
  PROVE  /\ RemoveAt(s, i) \in Seq(S)
         /\ Len(RemoveAt(s, i)) = Len(s) - 1
         /\ Len(s) \in Nat
<1>1. Len(s) \in Nat /\ i \in 1..Len(s) /\ \A k \in 1..Len(s) : s[k] \in S
  BY LenProperties, ElementOfSeq
<1>2. /\ SubSeq(s, 1, i - 1) \in Seq(S)
      /\ Len(SubSeq(s, 1, i - 1)) = IF 1 <= i - 1 THEN i - 1 - 1 + 1 ELSE 0
  <2>1. i - 1 \in Int /\ \A k \in 1..(i - 1) : s[k] \in S
    BY <1>1
  <2> QED BY <2>1, SubSeqProperties
<1>3. /\ SubSeq(s, i + 1, Len(s)) \in Seq(S)
      /\ Len(SubSeq(s, i + 1, Len(s))) = IF i + 1 <= Len(s) THEN Len(s) - (i + 1) + 1 ELSE 0
  <2>1. i + 1 \in Int /\ Len(s) \in Int /\ \A k \in (i + 1)..Len(s) : s[k] \in S
    BY <1>1
  <2> QED BY <2>1, SubSeqProperties
<1>4. Len(SubSeq(s, 1, i - 1)) + Len(SubSeq(s, i + 1, Len(s))) = Len(s) - 1
  BY <1>1, <1>2, <1>3
<1> QED
  BY <1>1, <1>2, <1>3, <1>4, ConcatProperties DEF RemoveAt

LEMMA AppendOne ==
  ASSUME TypeOK
  PROVE  /\ Append(pending, stops) \in Seq(0..MaxStops)
         /\ Len(Append(pending, stops)) = Len(pending) + 1
         /\ Len(pending) \in Nat
  BY AppendProperties, LenProperties DEF TypeOK

LEMMA StopsType ==
  ASSUME TypeOK
  PROVE  MaxStops \in Nat /\ stops \in Nat /\ stops <= MaxStops
<1>1. MaxStops \in Nat
  BY PollAssumption
<1>2. stops \in 0..MaxStops
  BY DEF TypeOK
<1> QED
  BY <1>1, <1>2

-----------------------------------------------------------------------------
(* A drain leaves its own report or none, or what the alert drain threw.   *)
LEMMA DrainReads ==
  ASSUME NEW q \in Sources, Drain(q), TypeOK
  PROVE  /\ pc' = q /\ losses' \subseteq Sources
         /\ tLoss' \in {"", q} \cup (IF q = "btPoll" THEN {"threw"} ELSE {})
         /\ lastError' \in {"", q, "threw"}
<1>1. PICK e \in {Report(q)} \cup (IF Throws(q) THEN {Thrown} ELSE {}) :
        lastError' = e /\ tLoss' = e
  BY DEF Drain
<1>2. Report(q) \in {"", q}
  BY DEF Report, ErrorBefore
<1>3. e \in {"", q} \cup (IF q = "btPoll" THEN {"threw"} ELSE {})
  BY <1>1, <1>2 DEF Throws, Thrown
<1> QED
  BY <1>1, <1>3 DEF Drain, TypeOK

LEMMA TypeStep == TypeOK /\ [Next]_vars => TypeOK'
<1> SUFFICES ASSUME TypeOK, [Next]_vars PROVE TypeOK'
  OBVIOUS
<1>1. ASSUME NEW s \in {Live} \cup Others, btStartPolling(s) PROVE TypeOK'
  BY <1>1, AppendOne DEF btStartPolling, TypeOK
<1>2. CASE btStopPolling
  <2>1. stops' \in 0..MaxStops
    BY <1>2, StopsType DEF btStopPolling
  <2> QED BY <1>2, <2>1 DEF btStopPolling, TypeOK
<1>3. CASE AppError
  BY <1>3 DEF AppError, TypeOK
<1>4. ASSUME NEW q \in Sources, Lose(q) PROVE TypeOK'
  BY <1>4 DEF Lose, TypeOK
<1>5. ASSUME NEW i \in DOMAIN pending, PassSkips(i) PROVE TypeOK'
  BY <1>5, RemoveOne DEF PassSkips, TypeOK
<1>6. ASSUME NEW i \in DOMAIN pending, PassBegins(i) PROVE TypeOK'
  <2>1. "btPoll" \in Sources
    BY DEF Sources
  <2>2. pending' \in Seq(0..MaxStops)
    BY <1>6, RemoveOne DEF PassBegins, TypeOK
  <2> QED BY <1>6, <2>1, <2>2, DrainReads DEF PassBegins, TypeOK
<1>7. CASE PassDrainsRp1
  <2>1. "btRp1Poll" \in Sources
    BY DEF Sources
  <2>2. warned' \subseteq Sources
    BY <1>7, <2>1 DEF PassDrainsRp1, Warn, TypeOK, Sources
  <2> QED BY <1>7, <2>1, <2>2, DrainReads DEF PassDrainsRp1, TypeOK
<1>8. CASE PassEnds
  <2>1. warned' \subseteq Sources
    BY <1>8 DEF PassEnds, Warn, TypeOK, Sources
  <2> QED BY <1>8, <2>1, AppendOne DEF PassEnds, Reschedule, TypeOK
<1>9. CASE PassFails
  BY <1>9 DEF PassFails, TypeOK
<1>10. CASE UNCHANGED vars
  BY <1>10 DEF vars, TypeOK
<1> QED
  BY <1>1, <1>2, <1>3, <1>4, <1>5, <1>6, <1>7, <1>8, <1>9, <1>10 DEF Next

(* Every variable of the dispatcher keeps its type, whatever the app and   *)
(* its handlers do.                                                        *)
THEOREM TypeCorrect == Spec => []TypeOK
<1>1. Init => TypeOK
  <2>1. 0 \in 0..MaxStops
    BY PollAssumption
  <2>2. << >> \in Seq(0..MaxStops)
    BY EmptySeq
  <2> QED BY <2>1, <2>2 DEF Init, TypeOK
<1> QED
  BY <1>1, TypeStep, PTL DEF Spec

-----------------------------------------------------------------------------
(* The chains: messages scheduled, and the pass that will schedule one.    *)
(* With polling off there is room for one less than ChainsBounded says,    *)
(* which is what starting takes up.                                        *)
RoomLeft == Chains + (IF sPolling = "true" THEN 0 ELSE 1) <= 1 + stops

(* What each step does to the number of chains.                            *)
LEMMA ChainsStep ==
  ASSUME TypeOK, [Next]_vars
  PROVE  /\ Chains \in Nat /\ Chains' \in Nat
         /\ \/ UNCHANGED <<sPolling, stops, spoiled>> /\ Chains' = Chains
            \/ /\ sPolling # "true" /\ sPolling' = "true"
               /\ Chains' = Chains + 1 /\ UNCHANGED <<stops, spoiled>>
            \/ sPolling' = "false" /\ stops' = stops + 1 /\ Chains' = Chains
            \/ /\ UNCHANGED <<sPolling, stops>> /\ Chains' = Chains - 1
               /\ sPolling # "true" \/ spoiled'
<1>1. Len(pending) \in Nat
  BY AppendOne
<1>2. Chains \in Nat
  BY <1>1 DEF Chains
<1>3. Len(pending') \in Nat
  BY TypeStep, LenProperties DEF TypeOK
<1>4. Chains' \in Nat
  BY <1>3 DEF Chains
<1> DEFINE Goal ==
            \/ UNCHANGED <<sPolling, stops, spoiled>> /\ Chains' = Chains
            \/ /\ sPolling # "true" /\ sPolling' = "true"
               /\ Chains' = Chains + 1 /\ UNCHANGED <<stops, spoiled>>
            \/ sPolling' = "false" /\ stops' = stops + 1 /\ Chains' = Chains
            \/ /\ UNCHANGED <<sPolling, stops>> /\ Chains' = Chains - 1
               /\ sPolling # "true" \/ spoiled'
<1>5. ASSUME NEW s \in {Live} \cup Others, btStartPolling(s) PROVE Goal
  <2>1. CASE ShouldArm
    BY <1>1, <1>5, <2>1, AppendOne DEF btStartPolling, ShouldArm, Chains
  <2>2. CASE ~ShouldArm
    BY <1>5, <2>2 DEF btStartPolling, Chains
  <2> QED BY <2>1, <2>2
<1>6. ASSUME btStopPolling PROVE Goal
  BY <1>6 DEF btStopPolling, Chains
<1>7. ASSUME AppError \/ (\E q \in Sources : Lose(q)) PROVE Goal
  BY <1>7 DEF AppError, Lose, Chains
<1>8. ASSUME NEW i \in DOMAIN pending, PassSkips(i) PROVE Goal
  <2>1. Len(pending') = Len(pending) - 1
    BY <1>8, RemoveOne DEF PassSkips, TypeOK
  <2>2. Chains' = Chains - 1 /\ UNCHANGED <<sPolling, stops>>
    BY <1>1, <1>8, <2>1 DEF PassSkips, Chains
  <2>3. sPolling # "true" \/ spoiled'
    BY <1>8 DEF PassSkips
  <2> QED BY <2>2, <2>3
<1>9. ASSUME NEW i \in DOMAIN pending, PassBegins(i) PROVE Goal
  <2>1. Len(pending') = Len(pending) - 1
    BY <1>9, RemoveOne DEF PassBegins, TypeOK
  <2> QED BY <1>1, <1>9, <2>1 DEF PassBegins, Drain, Chains
<1>10. ASSUME PassDrainsRp1 PROVE Goal
  BY <1>10 DEF PassDrainsRp1, Drain, Chains
<1>11. ASSUME PassEnds PROVE Goal
  <2>1. Len(pending') = Len(pending) + 1
    BY <1>11, AppendOne DEF PassEnds, Reschedule
  <2>2. pc # "idle" /\ pc' = "idle" /\ UNCHANGED <<sPolling, stops, spoiled>>
    BY <1>11 DEF PassEnds
  <2>3. Chains' = Chains
    BY <1>1, <2>1, <2>2 DEF Chains
  <2> QED BY <2>2, <2>3
<1>12. ASSUME PassFails PROVE Goal
  <2>1. /\ pc # "idle" /\ pc' = "idle" /\ UNCHANGED <<pending, sPolling, stops>>
        /\ spoiled'
    BY <1>12 DEF PassFails
  <2>2. Chains' = Chains - 1
    BY <1>1, <2>1 DEF Chains
  <2> QED BY <2>1, <2>2
<1>13. ASSUME UNCHANGED vars PROVE Goal
  BY <1>13 DEF vars, Chains
<1>14. Goal
  BY <1>5, <1>6, <1>7, <1>8, <1>9, <1>10, <1>11, <1>12, <1>13 DEF Next
<1> QED
  BY <1>2, <1>4, <1>14

LEMMA RoomStep == TypeOK /\ RoomLeft /\ [Next]_vars => RoomLeft'
<1> SUFFICES ASSUME TypeOK, RoomLeft, [Next]_vars PROVE RoomLeft'
  OBVIOUS
<1> QED
  BY StopsType, ChainsStep DEF RoomLeft

(* However often handlers and the app start polling again, there is one    *)
(* chain, and one more at most for each stop.                              *)
THEOREM ChainsCorrect == Spec => []ChainsBounded
<1>1. Init => RoomLeft
  <2>1. Init => Len(pending) = 0 /\ pc = "idle" /\ sPolling # "true" /\ stops = 0
    BY EmptySeq DEF Init
  <2> QED BY <2>1 DEF RoomLeft, Chains
<1>2. TypeOK /\ RoomLeft => ChainsBounded
  <2> SUFFICES ASSUME TypeOK, RoomLeft PROVE ChainsBounded
    OBVIOUS
  <2>1. stops \in Int /\ Chains \in Int
    BY StopsType, AppendOne DEF Chains
  <2> QED BY <2>1 DEF RoomLeft, ChainsBounded
<1> QED
  BY <1>1, <1>2, TypeCorrect, RoomStep, PTL DEF Spec

LEMMA ArmedStep == TypeOK /\ ArmedHasChain /\ [Next]_vars => ArmedHasChain'
<1> SUFFICES ASSUME TypeOK, ArmedHasChain, [Next]_vars PROVE ArmedHasChain'
  OBVIOUS
<1> QED
  BY ChainsStep DEF ArmedHasChain

(* While the flag says that polling is on there is a chain to do it, which *)
(* is what lets btStartPolling arm none; only a handler's error, or a pass *)
(* that finds session 0, ends it, until polling is stopped.                *)
THEOREM ArmedCorrect == Spec => []ArmedHasChain
<1>1. Init => ArmedHasChain
  BY DEF Init, ArmedHasChain
<1> QED
  BY <1>1, TypeCorrect, ArmedStep, PTL DEF Spec

(* Types, bound and existence of the chain in one invariant.               *)
THEOREM OneChainCorrect == Spec => []OneChain
  BY TypeCorrect, ChainsCorrect, ArmedCorrect, PTL DEF OneChain

-----------------------------------------------------------------------------
LEMMA ReportStep == TypeOK /\ OwnReport /\ [Next]_vars => OwnReport'
<1> SUFFICES ASSUME TypeOK, OwnReport, [Next]_vars PROVE OwnReport'
  OBVIOUS
<1>1. ASSUME NEW i \in DOMAIN pending, PassBegins(i) PROVE OwnReport'
  <2>1. "btPoll" \in Sources
    BY DEF Sources
  <2> QED BY <1>1, <2>1, DrainReads DEF PassBegins, OwnReport
<1>2. CASE PassDrainsRp1
  <2>1. "btRp1Poll" \in Sources
    BY DEF Sources
  <2> QED BY <1>2, <2>1, DrainReads DEF PassDrainsRp1, OwnReport
<1>3. CASE PassEnds \/ PassFails
  BY <1>3 DEF PassEnds, PassFails, OwnReport
<1>4. CASE UNCHANGED <<pc, tLoss>>
  BY <1>4 DEF OwnReport
<1>5. ASSUME NEW s \in {Live} \cup Others, btStartPolling(s) PROVE UNCHANGED <<pc, tLoss>>
  BY <1>5 DEF btStartPolling
<1>6. ASSUME NEW i \in DOMAIN pending, PassSkips(i) PROVE UNCHANGED <<pc, tLoss>>
  BY <1>6 DEF PassSkips
<1>7. CASE btStopPolling \/ AppError \/ (\E q \in Sources : Lose(q)) \/ UNCHANGED vars
  BY <1>4, <1>7 DEF btStopPolling, AppError, Lose, vars
<1> QED
  BY <1>1, <1>2, <1>3, <1>4, <1>5, <1>6, <1>7 DEF Next

(* What a pass takes for the loss report of a drain is that drain's own    *)
(* report, or what that drain threw: never an error the app or the other   *)
(* queue left behind.                                                      *)
THEOREM ReportCorrect == Spec => []OwnReport
<1>1. Init => OwnReport
  BY DEF Init, OwnReport
<1> QED
  BY <1>1, TypeCorrect, ReportStep, PTL DEF Spec
=============================================================================
