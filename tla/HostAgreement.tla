--------------------------- MODULE HostAgreement ----------------------------
(***************************************************************************)
(* The types of the replication protocol's state are kept and the invariant*)
(* IInv is inductive; agreement of the peers follows from it, for any      *)
(* number of peers, of transactions and of faults.                         *)
(***************************************************************************)
EXTENDS HostInv, FiniteSetTheorems, TLAPS

\* There is at least one other peer, and there are finitely many.
LEMMA NumOthersType ==
  /\ NumOthers \in Nat \ {0}
  /\ \A h \in Peers : IsFiniteSet(Others(h)) /\ Cardinality(Others(h)) = NumOthers
<1>1. Cardinality(Peers) \in Nat
  BY Zenon, PeersAssumption, FS_CardinalityType
<1>2. ASSUME NEW h \in Peers
      PROVE  IsFiniteSet(Peers \ {h}) /\ Cardinality(Peers \ {h}) = Cardinality(Peers) - 1
  BY Zenon, PeersAssumption, FS_RemoveElement
<1> QED
  BY <1>1, <1>2, PeersAssumption DEF NumOthers, Others

\* A set of other peers is finite, and no larger than their number.
LEMMA SubsetOfOthers ==
  ASSUME NEW h \in Peers, NEW S \in SUBSET Others(h)
  PROVE  /\ IsFiniteSet(S) /\ Cardinality(S) \in 0 .. NumOthers
         /\ Cardinality(S) = NumOthers => S = Others(h)
<1>1. IsFiniteSet(Others(h)) /\ Cardinality(Others(h)) = NumOthers /\ NumOthers \in Nat
  BY Zenon, NumOthersType
<1>2. /\ IsFiniteSet(S) /\ Cardinality(S) <= NumOthers
      /\ Cardinality(S) = NumOthers => S = Others(h)
  BY Zenon, <1>1, FS_Subset
<1> QED
  BY <1>1, <1>2, FS_CardinalityType

\* The messages of a broadcast are messages.
LEMMA BroadcastType ==
  ASSUME NEW h \in Peers, NEW t \in Tids, NEW body \in {"request"} \cup Votes,
         NEW errs \in SUBSET Others(h), NEW arrive \in SUBSET Others(h),
         net \in SUBSET Message, faults \in 0 .. MaxFaults,
         Broadcast(h, t, body, errs, arrive)
  PROVE  net' \in SUBSET Message /\ faults' \in 0 .. MaxFaults
<1>1. Cardinality(errs) \in Nat
  BY SubsetOfOthers, NumOthersType
<1>2. faults' \in 0 .. MaxFaults
  BY <1>1, BoundsAssumption DEF Broadcast
<1>3. ASSUME NEW p \in arrive
      PROVE  [tid |-> t, from |-> h, to |-> p, body |-> body] \in Message
  BY Zenon DEF Message, Others
<1> QED
  BY Zenon, <1>2, <1>3 DEF Broadcast

-----------------------------------------------------------------------------
\* The votes there are.
LEMMA VotesType == "ACK" \in Votes /\ "CONFLICT" \in Votes /\ "OTHER" \in Votes
BY Zenon DEF Votes, Nacks

\* A reader that only moves keeps the types of the readers.
LEMMA GoToType ==
  ASSUME NEW h \in Peers, NEW t \in Tids, ReaderTypes, UNCHANGED <<got, ours, heard>>,
         NEW l \in ReplicatePC \cup HandlerPC, GoTo(h, t, l)
  PROVE  ReaderTypes'
BY Zenon DEF ReaderTypes, GoTo

\* The end of a transaction keeps the types of the verdicts.
LEMMA EndType ==
  ASSUME NEW h \in Peers, NEW t \in Tids, EndTypes,
         NEW v \in {"applied", "rejected", "failed"}, End(h, t, v)
  PROVE  verdict' \in [Peers -> [Tids -> {"none", "applied", "rejected", "failed"}]]
BY Zenon DEF EndTypes, End

\* An operation appended to a log keeps the type of the logs.
LEMMA LogType ==
  ASSUME NEW h \in Peers, NEW t \in Tids, EndTypes, log' = [log EXCEPT ![h] = Append(@, t)]
  PROVE  log' \in [Peers -> Seq(Tids)]
<1>1. Append(log[h], t) \in Seq(Tids)
  BY DEF EndTypes
<1> QED
  BY Zenon, <1>1 DEF EndTypes

\* A vote and a tick of the clock keep the types.
LEMMA VoteType ==
  ASSUME NEW h \in Peers, NEW t \in Tids, HostTypes,
         NEW v \in Votes, vote' = [vote EXCEPT ![h][t] = v]
  PROVE  vote' \in [Peers -> [Tids -> {"none"} \cup Votes]]
BY Zenon DEF HostTypes

\* IncrementClock keeps the type of the clocks.
LEMMA ClockType ==
  ASSUME NEW h \in Peers, HostTypes, IncrementClock(h) \/ UNCHANGED clock
  PROVE  clock' \in [Peers -> Nat]
<1>1. CASE IncrementClock(h)
  BY <1>1 DEF HostTypes, IncrementClock
<1>2. CASE UNCHANGED clock
  BY Zenon, <1>2 DEF HostTypes
<1> QED
  BY Zenon, <1>1, <1>2

\* Every step keeps the types.
LEMMA TypeStep == TypeOK /\ [Next]_vars => TypeOK'
<1> SUFFICES ASSUME TypeOK, [Next]_vars PROVE TypeOK'
  OBVIOUS
<1> USE DEF TypeOK
<1>1. ASSUME NEW t \in Tids, Replicate(t) PROVE TypeOK'
  <2>1. TableTypes'
    BY ZenonT(30), <1>1, TidsAssumption DEF Replicate, TableTypes
  <2>2. ReaderTypes'
    BY Zenon, <1>1, TidsAssumption DEF Replicate, ReaderTypes, GoTo, ReplicatePC
  <2>3. CallTypes' /\ EndTypes'
    BY Zenon, <1>1, TidsAssumption DEF Replicate, CallTypes, EndTypes, HostTypes, endVars
  <2>4. HostTypes' /\ NetTypes'
    BY Zenon, <1>1 DEF Replicate, HostTypes, NetTypes
  <2> QED
    BY Zenon, <2>1, <2>2, <2>3, <2>4
<1>2. ASSUME NEW t \in Tids, Detect(t) PROVE TypeOK'
  <2>1. TableTypes' /\ EndTypes' /\ NetTypes'
    BY Zenon, <1>2 DEF Detect, TableTypes, EndTypes, NetTypes, tableVars, endVars
  <2>2. ReaderTypes'
    BY Zenon, <1>2, TidsAssumption, GoToType DEF Detect, ReplicatePC
  <2>3. CallTypes'
    BY Zenon, <1>2, TidsAssumption DEF Detect, CallTypes, Results
  <2>4. HostTypes'
    <3>1. vote' \in [Peers -> [Tids -> {"none"} \cup Votes]]
      BY Zenon, <1>2, TidsAssumption, VotesType, VoteType DEF Detect
    <3>2. clock' \in [Peers -> Nat]
      BY Zenon, <1>2, TidsAssumption, ClockType DEF Detect
    <3> QED
      BY Zenon, <1>2, <3>1, <3>2 DEF Detect, HostTypes
  <2> QED
    BY Zenon, <2>1, <2>2, <2>3, <2>4
<1>3. ASSUME NEW t \in Tids, SendRequest(t) PROVE TypeOK'
  <2> DEFINE h == Initiator[t]
  <2>1. h \in Peers
    BY Zenon, TidsAssumption
  <2>2. PICK errs \in SUBSET Others(h), arrive \in SUBSET Others(h) :
          /\ Broadcast(h, t, "request", errs, arrive)
          /\ failed' = [failed EXCEPT ![t] = Cardinality(errs)]
          /\ call' = [call EXCEPT ![t] = "senderr"] \/ UNCHANGED call
          /\ GoTo(h, t, "return") \/ GoTo(h, t, "await")
    BY Zenon, <1>3 DEF SendRequest
  <2>3. NetTypes'
    BY Zenon, <1>3, <2>1, <2>2, BroadcastType DEF SendRequest, NetTypes
  <2>4. CallTypes'
    BY Zenon, <1>3, <2>1, <2>2, SubsetOfOthers DEF SendRequest, CallTypes, Results
  <2>5. ReaderTypes'
    BY Zenon, <1>3, <2>1, <2>2, GoToType DEF SendRequest, ReplicatePC
  <2>6. TableTypes' /\ EndTypes' /\ HostTypes'
    BY Zenon, <1>3 DEF SendRequest, TableTypes, EndTypes, HostTypes, tableVars, endVars
  <2> QED
    BY Zenon, <2>3, <2>4, <2>5, <2>6
<1>4. ASSUME NEW t \in Tids, SendRequestPeerIsDown(t) PROVE TypeOK'
  <2>1. TableTypes' /\ EndTypes' /\ HostTypes'
    BY Zenon, <1>4 DEF SendRequestPeerIsDown, TableTypes, EndTypes, HostTypes, tableVars,
       endVars
  <2>2. ReaderTypes'
    BY Zenon, <1>4, TidsAssumption DEF SendRequestPeerIsDown, ReaderTypes, GoTo,
       ReplicatePC
  <2>3. CallTypes'
    BY Zenon, <1>4, TidsAssumption DEF SendRequestPeerIsDown, CallTypes, Results
  <2>4. NetTypes'
    BY <1>4, BoundsAssumption DEF SendRequestPeerIsDown, NetTypes, PeerIsDown,
       MayFail
  <2> QED
    BY Zenon, <2>1, <2>2, <2>3, <2>4
<1>5. ASSUME NEW t \in Tids, AwaitTimeout(t) PROVE TypeOK'
  <2>1. TableTypes' /\ EndTypes' /\ HostTypes' /\ NetTypes'
    BY Zenon, <1>5 DEF AwaitTimeout, TableTypes, EndTypes, HostTypes, NetTypes, tableVars,
       endVars
  <2>2. ReaderTypes'
    BY Zenon, <1>5, TidsAssumption DEF AwaitTimeout, ReaderTypes, GoTo, ReplicatePC
  <2>3. CallTypes'
    BY Zenon, <1>5, TidsAssumption DEF AwaitTimeout, CallTypes, Results
  <2> QED
    BY Zenon, <2>1, <2>2, <2>3
<1>6. ASSUME NEW t \in Tids, ProcessResponses(t) PROVE TypeOK'
  <2>1. TableTypes' /\ EndTypes' /\ NetTypes'
    BY Zenon, <1>6 DEF ProcessResponses, TableTypes, EndTypes, NetTypes, tableVars, endVars
  <2>2. ReaderTypes'
    BY Zenon, <1>6, TidsAssumption DEF ProcessResponses, ReaderTypes, GoTo, ReplicatePC
  <2>3. CallTypes'
    BY Zenon, <1>6, TidsAssumption DEF ProcessResponses, CallTypes, Results
  <2>4. HostTypes'
    <3>1. clock' \in [Peers -> Nat]
      BY Zenon, <1>6, TidsAssumption, ClockType DEF ProcessResponses
    <3> QED
      BY Zenon, <1>6, <3>1 DEF ProcessResponses, HostTypes
  <2> QED
    BY Zenon, <2>1, <2>2, <2>3, <2>4
<1>7. ASSUME NEW t \in Tids, Return(t) PROVE TypeOK'
  <2>1. TableTypes'
    BY Zenon, <1>7, TidsAssumption DEF Return, TableTypes, Delete
  <2>2. ReaderTypes'
    BY Zenon, <1>7, TidsAssumption, VotesType DEF Return, ReaderTypes, Delete
  <2>3. CallTypes'
    BY Zenon, <1>7 DEF Return, CallTypes, callVars
  <2>4. EndTypes'
    <3>1. verdict' \in [Peers -> [Tids -> {"none", "applied", "rejected", "failed"}]]
      BY Zenon, <1>7, TidsAssumption, EndType DEF Return, EndTypes
    <3> QED
      BY Zenon, <1>7, <3>1 DEF Return, EndTypes
  <2>5. HostTypes' /\ NetTypes'
    BY Zenon, <1>7 DEF Return, HostTypes, NetTypes
  <2> QED
    BY Zenon, <2>1, <2>2, <2>3, <2>4, <2>5
<1>8. ASSUME NEW t \in Tids, LocalApply(t) PROVE TypeOK'
  <2>1. TableTypes' /\ ReaderTypes' /\ CallTypes' /\ HostTypes'
    BY Zenon, <1>8 DEF LocalApply, TableTypes, ReaderTypes, CallTypes, HostTypes,
       tableVars, readerVars, callVars
  <2>2. EndTypes'
    <3>1. verdict' \in [Peers -> [Tids -> {"none", "applied", "rejected", "failed"}]]
      BY Zenon, <1>8, TidsAssumption, EndType DEF LocalApply
    <3>2. log' \in [Peers -> Seq(Tids)]
      BY Zenon, <1>8, TidsAssumption, LogType DEF LocalApply, EndTypes
    <3> QED
      BY Zenon, <3>1, <3>2 DEF EndTypes
  <2>3. NetTypes'
    BY <1>8, BoundsAssumption DEF LocalApply, NetTypes, MayFail
  <2> QED
    BY Zenon, <2>1, <2>2, <2>3
<1>9. ASSUME NEW h \in Peers, NEW m \in net, Listen(h, m) PROVE TypeOK'
  <2>1. m.tid \in Tids /\ m.from \in Peers
    BY Zenon, <1>9 DEF Listen, NetTypes, Message
  <2>2. TableTypes'
    <3>1. ts' \in [Peers -> SUBSET Tids]
      BY ZenonT(30), <1>9, <2>1 DEF Listen, TableTypes
    <3>2. reqs' \in [Peers -> SUBSET Tids]
      BY <1>9, <2>1 DEF Listen, TableTypes
    <3>3. m.body \in Votes => [from |-> m.from, vote |-> m.body] \in Response
      BY Zenon, <2>1 DEF Response
    <3>4. responses' \in [Peers -> [Tids -> SUBSET Response]]
      <4>1. CASE UNCHANGED responses
        BY Zenon, <4>1 DEF TableTypes
      <4>2. CASE /\ m.body \in Votes
                 /\ responses' = [responses EXCEPT ![h][m.tid] =
                                    @ \cup {[from |-> m.from, vote |-> m.body]}]
        BY Zenon, <2>1, <3>3, <4>2 DEF TableTypes
      <4> QED
        BY Zenon, <1>9, <4>1, <4>2 DEF Listen
    <3> QED
      BY Zenon, <3>1, <3>2, <3>4 DEF TableTypes
  <2>3. ReaderTypes'
    <3>1. CASE UNCHANGED pc
      BY Zenon, <1>9, <3>1 DEF Listen, ReaderTypes
    <3>2. CASE GoTo(h, m.tid, "gather")
      BY Zenon, <1>9, <2>1, <3>2, GoToType DEF Listen, HandlerPC
    <3> QED
      BY Zenon, <1>9, <3>1, <3>2 DEF Listen
  <2>4. CallTypes' /\ EndTypes' /\ HostTypes'
    BY Zenon, <1>9 DEF Listen, CallTypes, EndTypes, HostTypes, callVars, endVars
  <2>5. NetTypes'
    BY Zenon, <1>9 DEF Listen, NetTypes
  <2> QED
    BY Zenon, <2>1, <2>2, <2>3, <2>4, <2>5
<1>10. ASSUME NEW h \in Peers, NEW m \in notifying[h], Notify(h, m) PROVE TypeOK'
  <2>1. TableTypes' /\ CallTypes' /\ EndTypes' /\ HostTypes'
    BY Zenon, <1>10 DEF Notify, TableTypes, CallTypes, EndTypes, HostTypes, tableVars,
       callVars, endVars
  <2>2. m.tid \in Tids /\ m.from \in Peers
    BY <1>10 DEF Notify, NetTypes, Message
  <2>3. ReaderTypes'
    <3>1. /\ got' \in [Peers -> [Tids -> Nat]]
          /\ heard' \in [Peers -> [Tids -> SUBSET Peers]]
          /\ ours' \in [Peers -> [Tids -> Votes]]
      BY <1>10, <2>2 DEF Notify, ReaderTypes
    <3>2. pc' \in [Peers -> [Tids -> {"idle"} \cup ReplicatePC \cup HandlerPC]]
      <4>1. CASE UNCHANGED pc
        BY Zenon, <4>1 DEF ReaderTypes
      <4>2. CASE GoTo(h, m.tid, "consult")
        BY Zenon, <2>2, <4>2 DEF ReaderTypes, GoTo, HandlerPC
      <4> QED
        BY Zenon, <1>10, <4>1, <4>2 DEF Notify
    <3> QED
      BY Zenon, <3>1, <3>2 DEF ReaderTypes
  <2>4. NetTypes'
    BY Zenon, <1>10 DEF Notify, NetTypes
  <2> QED
    BY Zenon, <2>1, <2>2, <2>3, <2>4
<1>11. ASSUME NEW m \in net, Lose(m) PROVE TypeOK'
  <2>1. TableTypes' /\ ReaderTypes' /\ CallTypes' /\ EndTypes' /\ HostTypes'
    BY Zenon, <1>11 DEF Lose, TableTypes, ReaderTypes, CallTypes, EndTypes, HostTypes,
       tableVars, readerVars, callVars, endVars
  <2>2. NetTypes'
    BY <1>11, BoundsAssumption DEF Lose, NetTypes, MayFail
  <2> QED
    BY Zenon, <2>1, <2>2
<1>12. ASSUME NEW h \in Peers, NEW t \in Tids, Consult(h, t) PROVE TypeOK'
  <2>1. TableTypes' /\ CallTypes' /\ EndTypes' /\ NetTypes'
    BY Zenon, <1>12 DEF Consult, TableTypes, CallTypes, EndTypes, NetTypes, tableVars,
       callVars, endVars
  <2>2. PICK v \in Votes : /\ vote' = [vote EXCEPT ![h][t] = v]
                            /\ ours' = [ours EXCEPT ![h][t] = v]
    BY Zenon, <1>12, AnswersAssumption DEF Consult, Votes, Nacks
  <2>3. ReaderTypes'
    BY Zenon, <1>12, <2>2 DEF Consult, ReaderTypes, GoTo, HandlerPC
  <2>4. HostTypes'
    BY Zenon, <1>12, <2>2, VoteType DEF Consult, HostTypes
  <2> QED
    BY Zenon, <2>1, <2>3, <2>4
<1>13. ASSUME NEW h \in Peers, NEW t \in Tids, Respond(h, t) PROVE TypeOK'
  <2>1. ours[h][t] \in Votes
    BY Zenon DEF ReaderTypes
  <2>2. net' \in SUBSET Message /\ faults' \in 0 .. MaxFaults
    <3>1. CASE \E errs, arrive \in SUBSET Others(h) :
                 Broadcast(h, t, ours[h][t], errs, arrive)
      BY Zenon, <2>1, <3>1, BroadcastType DEF NetTypes
    <3>2. CASE PeerIsDown(h) /\ UNCHANGED net
      BY <3>2, BoundsAssumption DEF PeerIsDown, MayFail, NetTypes
    <3> QED
      BY Zenon, <1>13, <3>1, <3>2 DEF Respond
  <2>3. ReaderTypes'
    BY Zenon, <1>13 DEF Respond, ReaderTypes, GoTo, HandlerPC
  <2>4. TableTypes' /\ CallTypes' /\ EndTypes' /\ HostTypes'
    BY Zenon, <1>13 DEF Respond, TableTypes, CallTypes, EndTypes, HostTypes,
       tableVars, callVars, endVars
  <2> QED
    BY Zenon, <1>13, <2>2, <2>3, <2>4 DEF Respond, NetTypes
<1>14. ASSUME NEW h \in Peers, NEW t \in Tids, GatherTimeout(h, t) PROVE TypeOK'
  <2>1. TableTypes' /\ CallTypes' /\ HostTypes' /\ NetTypes'
    BY Zenon, <1>14 DEF GatherTimeout, TableTypes, CallTypes, HostTypes, NetTypes,
       tableVars, callVars
  <2>2. ReaderTypes'
    BY Zenon, <1>14 DEF GatherTimeout, ReaderTypes, GoTo, HandlerPC
  <2>3. EndTypes'
    BY Zenon, <1>14 DEF GatherTimeout, EndTypes, End
  <2> QED
    BY Zenon, <2>1, <2>2, <2>3
<1>15. ASSUME NEW h \in Peers, NEW t \in Tids, Decide(h, t) PROVE TypeOK'
  <2>1. TableTypes' /\ CallTypes' /\ HostTypes' /\ NetTypes'
    BY Zenon, <1>15 DEF Decide, TableTypes, CallTypes, HostTypes, NetTypes, tableVars,
       callVars
  <2>2. ReaderTypes'
    BY Zenon, <1>15, GoToType DEF Decide, HandlerPC
  <2>3. EndTypes'
    <3>1. verdict' \in [Peers -> [Tids -> {"none", "applied", "rejected", "failed"}]]
      BY Zenon, <1>15, EndType DEF Decide, EndTypes
    <3> QED
      BY Zenon, <1>15, <3>1 DEF Decide, EndTypes
  <2> QED
    BY Zenon, <2>1, <2>2, <2>3
<1>16. ASSUME NEW h \in Peers, NEW t \in Tids, Mirror(h, t) PROVE TypeOK'
  <2>1. TableTypes' /\ CallTypes'
    BY Zenon, <1>16 DEF Mirror, TableTypes, CallTypes, tableVars, callVars
  <2>2. ReaderTypes'
    <3>1. CASE UNCHANGED pc
      BY Zenon, <1>16, <3>1 DEF Mirror, ReaderTypes
    <3>2. CASE GoTo(h, t, "exit") \/ GoTo(h, t, "exiterr")
      BY Zenon, <1>16, <3>2, GoToType DEF Mirror, HandlerPC
    <3> QED
      BY Zenon, <1>16, <3>1, <3>2 DEF Mirror
  <2>3. EndTypes'
    <3>1. verdict' \in [Peers -> [Tids -> {"none", "applied", "rejected", "failed"}]]
      BY Zenon, <1>16, EndType DEF Mirror, EndTypes
    <3>2. log' \in [Peers -> Seq(Tids)]
      BY Zenon, <1>16, LogType DEF Mirror, EndTypes
    <3> QED
      BY Zenon, <3>1, <3>2 DEF EndTypes
  <2>4. HostTypes'
    BY Zenon, <1>16 DEF Mirror, HostTypes
  <2>5. NetTypes'
    BY <1>16, BoundsAssumption DEF Mirror, NetTypes, MayFail
  <2> QED
    BY Zenon, <2>1, <2>2, <2>3, <2>4, <2>5
<1>17. ASSUME NEW h \in Peers, NEW t \in Tids, Exit(h, t) PROVE TypeOK'
  <2>1. TableTypes'
    BY Zenon, <1>17 DEF Exit, TableTypes, Delete
  <2>2. ReaderTypes'
    BY Zenon, <1>17, VotesType DEF Exit, ReaderTypes, Delete
  <2>3. CallTypes' /\ EndTypes' /\ HostTypes'
    BY Zenon, <1>17 DEF Exit, CallTypes, EndTypes, HostTypes, callVars, endVars
  <2>4. NetTypes'
    BY <1>17, BoundsAssumption DEF Exit, NetTypes, MayFail
  <2> QED
    BY Zenon, <2>1, <2>2, <2>3, <2>4
<1>18. ASSUME NEW h \in Peers, Crash(h) PROVE TypeOK'
  <2>1. TableTypes' /\ ReaderTypes' /\ CallTypes' /\ EndTypes'
    BY Zenon, <1>18 DEF Crash, TableTypes, ReaderTypes, CallTypes, EndTypes, tableVars,
       readerVars, callVars, endVars
  <2>2. HostTypes'
    BY Zenon, <1>18 DEF Crash, HostTypes
  <2>3. NetTypes'
    BY <1>18, BoundsAssumption DEF Crash, NetTypes, MayFail
  <2> QED
    BY Zenon, <2>1, <2>2, <2>3
<1>19. CASE UNCHANGED vars
  BY Zenon, <1>19 DEF vars, TableTypes, ReaderTypes, CallTypes, EndTypes, HostTypes, NetTypes,
     tableVars, readerVars, callVars, endVars
<1> QED
  BY Zenon, <1>1, <1>2, <1>3, <1>4, <1>5, <1>6, <1>7, <1>8, <1>9, <1>10, <1>11, <1>12,
     <1>13, <1>14, <1>15, <1>16, <1>17, <1>18, <1>19 DEF Next, ReplicateStep,
     ListenerStep, HandlerStep

\* The types hold at first.
LEMMA InitType == Init => TypeOK
<1> SUFFICES ASSUME Init PROVE TypeOK
  OBVIOUS
<1>1. TableTypes /\ ReaderTypes
  BY Zenon, VotesType DEF Init, TableTypes, ReaderTypes
<1>2. CallTypes /\ EndTypes
  BY NumOthersType DEF Init, CallTypes, EndTypes
<1>3. HostTypes /\ NetTypes
  BY BoundsAssumption DEF Init, HostTypes, NetTypes
<1> QED
  BY Zenon, <1>1, <1>2, <1>3 DEF TypeOK

\* The variables of the protocol keep their types.
THEOREM TypeCorrect == Spec => []TypeOK
<1> QED
  BY InitType, TypeStep, PTL DEF Spec

------------------------------------------------------------------------------

\* The fields of a message determine it.
LEMMA MessageFields ==
  /\ \A m \in Message : /\ m.tid \in Tids /\ m.from \in Peers /\ m.to \in Peers
                        /\ m.body \in {"request"} \cup Votes
  /\ \A m, n \in Message : (/\ m.tid = n.tid /\ m.from = n.from
                            /\ m.to = n.to /\ m.body = n.body) => m = n
BY DEF Message

\* The messages that the listeners hold are messages.
LEMMA HeldMessages ==
  ASSUME TypeOK
  PROVE  \A h \in Peers : \A m \in notifying[h] :
           /\ m \in Message /\ m.tid \in Tids /\ m.from \in Peers /\ m.to \in Peers
           /\ m.body \in {"request"} \cup Votes
BY Zenon, MessageFields DEF TypeOK, NetTypes

\* The labels and the votes are different strings.
LEMMA VoteNames ==
  /\ "request" \notin Votes /\ "none" \notin Votes
  /\ \A v \in Votes : v = "ACK" \/ v \in Nacks
  /\ "ACK" \notin Nacks /\ "none" \notin Nacks /\ "CONFLICT" \in Nacks
  /\ Nacks \subseteq Votes
BY Zenon DEF Votes, Nacks

\* What GoTo, End and Delete do to each reader and to each verdict.
LEMMA GoToAt ==
  ASSUME TypeOK, NEW h \in Peers, NEW t \in Tids, NEW l, GoTo(h, t, l)
  PROVE  \A g \in Peers, u \in Tids :
           pc'[g][u] = IF g = h /\ u = t THEN l ELSE pc[g][u]
BY Zenon DEF TypeOK, ReaderTypes, GoTo

\* The end of t at h changes at most that verdict, and only from "none".
LEMMA EndAt ==
  ASSUME TypeOK, NEW h \in Peers, NEW t \in Tids, NEW v, End(h, t, v)
  PROVE  \A g \in Peers, u \in Tids :
           verdict'[g][u] = IF g = h /\ u = t /\ verdict[g][u] = "none"
                              THEN v ELSE verdict[g][u]
BY Zenon DEF TypeOK, EndTypes, End

\* Delete resets the reader and the table entry of t at h and no other.
LEMMA DeleteAt ==
  ASSUME TypeOK, NEW h \in Peers, NEW t \in Tids, Delete(h, t)
  PROVE  \A g \in Peers, u \in Tids :
           IF g = h /\ u = t
             THEN /\ pc'[g][u] = "idle" /\ got'[g][u] = 0 /\ ours'[g][u] = "ACK"
                  /\ heard'[g][u] = {} /\ responses'[g][u] = {} /\ u \notin ts'[g]
             ELSE /\ pc'[g][u] = pc[g][u] /\ got'[g][u] = got[g][u]
                  /\ ours'[g][u] = ours[g][u] /\ heard'[g][u] = heard[g][u]
                  /\ responses'[g][u] = responses[g][u]
                  /\ (u \in ts'[g]) = (u \in ts[g])
<1> SUFFICES ASSUME NEW g \in Peers, NEW u \in Tids
             PROVE  IF g = h /\ u = t
                      THEN /\ pc'[g][u] = "idle" /\ got'[g][u] = 0
                           /\ ours'[g][u] = "ACK" /\ heard'[g][u] = {}
                           /\ responses'[g][u] = {} /\ u \notin ts'[g]
                      ELSE /\ pc'[g][u] = pc[g][u] /\ got'[g][u] = got[g][u]
                           /\ ours'[g][u] = ours[g][u] /\ heard'[g][u] = heard[g][u]
                           /\ responses'[g][u] = responses[g][u]
                           /\ (u \in ts'[g]) = (u \in ts[g])
  OBVIOUS
<1>1. ts'[g] = IF g = h THEN ts[g] \ {t} ELSE ts[g]
  BY Zenon DEF TypeOK, TableTypes, Delete
<1>2. /\ pc'[g][u] = IF g = h /\ u = t THEN "idle" ELSE pc[g][u]
      /\ got'[g][u] = IF g = h /\ u = t THEN 0 ELSE got[g][u]
  BY Zenon DEF TypeOK, ReaderTypes, Delete
<1>3. /\ ours'[g][u] = IF g = h /\ u = t THEN "ACK" ELSE ours[g][u]
      /\ heard'[g][u] = IF g = h /\ u = t THEN {} ELSE heard[g][u]
  BY Zenon DEF TypeOK, ReaderTypes, Delete
<1>4. responses'[g][u] = IF g = h /\ u = t THEN {} ELSE responses[g][u]
  BY Zenon DEF TypeOK, TableTypes, Delete
<1> QED
  BY <1>1, <1>2, <1>3, <1>4

-----------------------------------------------------------------------------
(* The invariant without the decisions *)

ProtocolInv ==
  ReadersOK /\ SecretsOK /\ ListenersOK /\ MessagesOK /\ GatheredOK

\* The calls that were made stay made.
SameCalls == \A t \in Tids : call'[t] = "none" <=> call[t] = "none"

\* A step that leaves readers, tables and votes alone, and may drop messages.
LEMMA FrameInv ==
  ASSUME TypeOK, TypeOK', ProtocolInv, SameCalls, net' \subseteq net,
         UNCHANGED <<ts, responses, readerVars, notifying, vote>>
  PROVE  ProtocolInv'
<1> USE DEF readerVars
<1>1. ReadersOK'
  BY DEF ProtocolInv, ReadersOK, ReaderAt, SameCalls
<1>2. SecretsOK'
  BY TidsAssumption DEF ProtocolInv, SecretsOK, SecretAt, SameCalls, NotSent, Others
<1>3. ListenersOK'
  BY Zenon DEF ProtocolInv, ListenersOK, ListenerAt
<1>4. MessagesOK'
  BY Zenon DEF ProtocolInv, MessagesOK, MessageAt, Pending, NotSent
<1>5. GatheredOK'
  BY DEF ProtocolInv, GatheredOK, GatheredAt, NotSent
<1> QED
  BY Zenon, <1>1, <1>2, <1>3, <1>4, <1>5 DEF ProtocolInv

\* The moves of a reader after its message was sent.
LateMove(h, t, l) ==
  \/ pc[h][t] = "await" /\ l = "return"
  \/ pc[h][t] = "gather" /\ l \in {"mirror", "exiterr"}
  \/ pc[h][t] = "mirror" /\ l \in {"exit", "exiterr"}

\* A reader that moves between labels with the same obligations keeps them.
LEMMA MoveInv ==
  ASSUME TypeOK, TypeOK', ProtocolInv, SameCalls,
         NEW h \in Peers, NEW t \in Tids, NEW l, LateMove(h, t, l), GoTo(h, t, l),
         UNCHANGED <<ts, responses, got, ours, heard, net, notifying, vote>>
  PROVE  ProtocolInv'
<1>1. \A g \in Peers, u \in Tids :
        pc'[g][u] = IF g = h /\ u = t THEN l ELSE pc[g][u]
  BY GoToAt
<1>2. /\ l \notin {"idle", "detect", "send", "await", "consult", "respond"}
      /\ l \in ReplicatePC => pc[h][t] \in ReplicatePC
      /\ pc[h][t] \notin {"idle", "detect", "send", "consult", "respond"}
  BY Zenon DEF LateMove, ReplicatePC
<1>3. ReadersOK'
  BY <1>1, <1>2 DEF ProtocolInv, ReadersOK, ReaderAt, SameCalls
<1>a. \A g \in Peers, u \in Tids : NotSent(g, u)' <=> NotSent(g, u)
  BY Zenon, <1>1, <1>2 DEF NotSent
<1>4. SecretsOK'
  <2> SUFFICES ASSUME NEW u \in Tids PROVE SecretAt(u)'
    BY Zenon DEF SecretsOK
  <2>1. SecretAt(u) /\ Initiator[u] \in Peers /\ (call'[u] = "none" => call[u] = "none")
    BY Zenon, TidsAssumption DEF ProtocolInv, SecretsOK, SameCalls
  <2>2. \A g \in Peers : pc[g][u] = "idle" => pc'[g][u] = "idle"
    BY Zenon, <1>1, <1>2
  <2> QED
    BY Zenon, <1>a, <2>1, <2>2 DEF SecretAt, Others
<1>5. ListenersOK'
  <2> SUFFICES ASSUME NEW g \in Peers, NEW m \in notifying[g] PROVE ListenerAt(g, m)'
    BY Zenon DEF ListenersOK
  <2>1. m \in Message /\ m.tid \in Tids /\ m.from \in Peers
    BY Zenon, HeldMessages
  <2>2. ListenerAt(g, m)
    BY Zenon DEF ProtocolInv, ListenersOK
  <2> QED
    BY Zenon, <1>1, <1>2, <2>1, <2>2 DEF ListenerAt
<1>6. MessagesOK'
  <2> SUFFICES ASSUME NEW m \in Message, Pending(m)' PROVE MessageAt(m)'
    BY Zenon DEF MessagesOK
  <2>1. m.tid \in Tids /\ m.from \in Peers /\ m.to \in Peers
    BY Zenon, MessageFields
  <2>2. MessageAt(m)
    BY Zenon DEF ProtocolInv, MessagesOK, Pending
  <2>3. pc'[m.to][m.tid] = "consult" => pc[m.to][m.tid] = "consult"
    BY Zenon, <1>1, <1>2, <2>1
  <2> QED
    BY Zenon, <1>a, <2>1, <2>2, <2>3 DEF MessageAt
<1>7. GatheredOK'
  BY <1>1, <1>2 DEF ProtocolInv, GatheredOK, GatheredAt, NotSent, TypeOK, ReaderTypes
<1> QED
  BY Zenon, <1>3, <1>4, <1>5, <1>6, <1>7 DEF ProtocolInv

\* The end of a reader; the race in listen may drop a message.
LEMMA DeleteInv ==
  ASSUME TypeOK, TypeOK', ProtocolInv, NEW h \in Peers, NEW t \in Tids,
         pc[h][t] \in {"return", "exit", "exiterr"}, Delete(h, t),
         net' \subseteq net, UNCHANGED <<call, notifying, vote>>
  PROVE  ProtocolInv'
<1>1. \A g \in Peers, u \in Tids :
        IF g = h /\ u = t
          THEN /\ pc'[g][u] = "idle" /\ got'[g][u] = 0 /\ ours'[g][u] = "ACK"
               /\ heard'[g][u] = {} /\ responses'[g][u] = {} /\ u \notin ts'[g]
          ELSE /\ pc'[g][u] = pc[g][u] /\ got'[g][u] = got[g][u]
               /\ ours'[g][u] = ours[g][u] /\ heard'[g][u] = heard[g][u]
               /\ responses'[g][u] = responses[g][u]
               /\ (u \in ts'[g]) = (u \in ts[g])
  BY DeleteAt
<1>2. ReadersOK'
  BY <1>1 DEF ProtocolInv, ReadersOK, ReaderAt, ReplicatePC
<1>b. \A g \in Peers, u \in Tids : pc'[g][u] = IF g = h /\ u = t THEN "idle" ELSE pc[g][u]
  BY Zenon, <1>1
<1>c. \A g \in Peers, u \in Tids : heard'[g][u] = IF g = h /\ u = t THEN {} ELSE heard[g][u]
  BY Zenon, <1>1
<1>a. \A g \in Peers, u \in Tids : NotSent(g, u)' <=> NotSent(g, u)
  BY Zenon, <1>b DEF NotSent
<1>3. SecretsOK'
  <2> SUFFICES ASSUME NEW u \in Tids PROVE SecretAt(u)'
    BY Zenon DEF SecretsOK
  <2>1. SecretAt(u) /\ Initiator[u] \in Peers /\ (call'[u] = "none" => call[u] = "none")
    BY Zenon, TidsAssumption DEF ProtocolInv, SecretsOK
  <2>2. \A g \in Peers : pc[g][u] = "idle" => pc'[g][u] = "idle"
    BY Zenon, <1>b
  <2> QED
    BY Zenon, <1>a, <2>1, <2>2 DEF SecretAt, Others
<1>4. ListenersOK'
  <2> SUFFICES ASSUME NEW g \in Peers, NEW m \in notifying[g] PROVE ListenerAt(g, m)'
    BY Zenon DEF ListenersOK
  <2>1. m \in Message /\ m.tid \in Tids /\ m.from \in Peers
    BY Zenon, HeldMessages
  <2>2. ListenerAt(g, m)
    BY Zenon DEF ProtocolInv, ListenersOK
  <2> QED
    BY <1>1, <2>1, <2>2 DEF ListenerAt
<1>5. MessagesOK'
  <2> SUFFICES ASSUME NEW m \in Message, Pending(m)' PROVE MessageAt(m)'
    BY Zenon DEF MessagesOK
  <2>1. m.tid \in Tids /\ m.from \in Peers /\ m.to \in Peers
    BY Zenon, MessageFields
  <2>2. MessageAt(m)
    BY Zenon DEF ProtocolInv, MessagesOK, Pending
  <2>3. /\ pc'[m.to][m.tid] = "consult" => pc[m.to][m.tid] = "consult"
        /\ m.from \in heard'[m.to][m.tid] => m.from \in heard[m.to][m.tid]
    BY ZenonT(30), <1>b, <1>c, <2>1
  <2> QED
    BY Zenon, <1>a, <2>1, <2>2, <2>3 DEF MessageAt
<1>6. GatheredOK'
  <2>1. Cardinality({}) = 0
    BY Zenon, FS_EmptySet
  <2> SUFFICES ASSUME NEW g \in Peers, NEW u \in Tids
               PROVE  GatheredAt(g, u)'
    BY Zenon DEF GatheredOK
  <2>2. \A p \in Peers : ~NotSent(p, u) => ~NotSent(p, u)'
    BY Zenon, <1>a
  <2>3. GatheredAt(g, u)
    BY Zenon DEF ProtocolInv, GatheredOK
  <2>4. CASE g = h /\ u = t
    BY Zenon, <1>1, <2>1, <2>4 DEF GatheredAt
  <2>5. CASE ~(g = h /\ u = t)
    <3>1. heard[g][u] \subseteq Peers
      BY DEF TypeOK, ReaderTypes
    <3>2. /\ pc'[g][u] = pc[g][u] /\ got'[g][u] = got[g][u] /\ ours'[g][u] = ours[g][u]
          /\ heard'[g][u] = heard[g][u] /\ responses'[g][u] = responses[g][u]
      BY Zenon, <1>1, <2>5
    <3> QED
      BY Zenon, <2>2, <2>3, <3>1, <3>2 DEF GatheredAt
  <2> QED
    BY Zenon, <2>4, <2>5
<1> QED
  BY Zenon, <1>2, <1>3, <1>4, <1>5, <1>6 DEF ProtocolInv

\* The moves of a reader past its broadcast.
SendMove(h, t, body, l) ==
  \/ pc[h][t] = "send" /\ body = "request" /\ l \in {"return", "await"}
  \/ pc[h][t] = "respond" /\ body = ours[h][t] /\ l = "gather"

\* The broadcast of a request or of a response keeps the invariant.
LEMMA SendInv ==
  ASSUME TypeOK, TypeOK', ProtocolInv, SameCalls, NEW h \in Peers, NEW t \in Tids,
         NEW body, NEW l, SendMove(h, t, body, l), GoTo(h, t, l),
         \A m \in net' : m \in net \/ /\ m.tid = t /\ m.from = h /\ m.to # h
                                      /\ m.body = body,
         UNCHANGED <<ts, responses, got, ours, heard, notifying, vote>>
  PROVE  ProtocolInv'
<1>1. \A g \in Peers, u \in Tids :
        pc'[g][u] = IF g = h /\ u = t THEN l ELSE pc[g][u]
  BY GoToAt
<1>2. /\ l \notin {"idle", "detect", "send", "consult", "respond"}
      /\ l \in ReplicatePC => pc[h][t] \in ReplicatePC
      /\ pc[h][t] \in {"send", "respond"}
      /\ l = "await" => pc[h][t] = "send"
  BY Zenon DEF SendMove, ReplicatePC
<1>3. ReadersOK'
  BY <1>1, <1>2 DEF ProtocolInv, ReadersOK, ReaderAt, SameCalls
<1>a. \A g \in Peers, u \in Tids : NotSent(g, u)' => NotSent(g, u)
  BY Zenon, <1>1, <1>2 DEF NotSent
<1>4. SecretsOK'
  <2> SUFFICES ASSUME NEW u \in Tids PROVE SecretAt(u)'
    BY Zenon DEF SecretsOK
  <2>1. SecretAt(u) /\ Initiator[u] \in Peers /\ (call'[u] = "none" => call[u] = "none")
    BY Zenon, TidsAssumption DEF ProtocolInv, SecretsOK, SameCalls
  <2>2. \A g \in Peers : pc[g][u] = "idle" => pc'[g][u] = "idle"
    BY ZenonT(30), <1>1, <1>2
  <2> QED
    BY Zenon, <1>a, <2>1, <2>2 DEF SecretAt, Others
<1>5. /\ vote[h][t] \in Votes
      /\ body = "request" => h = Initiator[t] /\ vote[h][t] = "ACK"
      /\ body # "request" => h # Initiator[t] /\ vote[h][t] = body
  BY SMTT(30), VotesType, VoteNames
     DEF SendMove, ProtocolInv, ReadersOK, ReaderAt, GatheredOK, GatheredAt, ReplicatePC, TypeOK, ReaderTypes
<1>6. \A m \in Message : Pending(m) => ~(m.from = h /\ m.tid = t)
  BY Zenon, <1>2 DEF ProtocolInv, MessagesOK, MessageAt, NotSent
<1>7. \A g \in Peers : h \notin heard[g][t]
  BY Zenon, <1>2 DEF ProtocolInv, GatheredOK, GatheredAt, NotSent
<1>8. ListenersOK'
  <2> SUFFICES ASSUME NEW g \in Peers, NEW m \in notifying[g] PROVE ListenerAt(g, m)'
    BY Zenon DEF ListenersOK
  <2>1. m \in Message /\ m.tid \in Tids /\ m.from \in Peers
    BY Zenon, HeldMessages
  <2>2. ListenerAt(g, m)
    BY Zenon DEF ProtocolInv, ListenersOK
  <2>3. m \notin net'
    BY Zenon, <1>6, <2>1, <2>2 DEF Pending, ListenerAt
  <2> QED
    BY ZenonT(30), <1>1, <1>2, <2>3, <2>1, <2>2 DEF ListenerAt
<1>9. MessagesOK'
  <2> SUFFICES ASSUME NEW m \in Message, Pending(m)' PROVE MessageAt(m)'
    BY Zenon DEF MessagesOK
  <2>1. CASE Pending(m)
    BY ZenonT(30), <1>1, <1>2, <2>1, MessageFields DEF ProtocolInv, MessagesOK, MessageAt, NotSent
  <2>2. CASE ~Pending(m)
    <3>1. m.tid = t /\ m.from = h /\ m.to # h /\ m.body = body
      BY Zenon, <2>2 DEF Pending
    <3>2. ~NotSent(h, t)'
      BY Zenon, <1>1, <1>2, <1>5, VoteNames DEF NotSent
    <3>3. body = "request" => vote[m.to][t] = "none" /\ pc'[m.to][t] # "consult"
      <4> SUFFICES ASSUME body = "request" PROVE vote[m.to][t] = "none" /\ pc'[m.to][t] # "consult"
        BY Zenon
      <4>1. m.to \in Others(h) /\ m.to \in Peers /\ h = Initiator[t]
        BY Zenon, <1>5, <3>1, MessageFields DEF Others
      <4>2. SecretAt(t) /\ NotSent(h, t)
        BY Zenon, <1>2 DEF ProtocolInv, SecretsOK, NotSent
      <4>3. vote[m.to][t] = "none" /\ pc[m.to][t] = "idle"
        BY Zenon, <4>1, <4>2 DEF SecretAt
      <4> QED
        BY Zenon, <1>1, <3>1, <4>1, <4>3
    <3> QED
      BY Zenon, <1>5, <1>7, <3>1, <3>2, <3>3, MessageFields DEF MessageAt
  <2> QED
    BY Zenon, <2>1, <2>2
<1>10. GatheredOK'
  BY <1>1, <1>2 DEF ProtocolInv, GatheredOK, GatheredAt, NotSent, TypeOK, ReaderTypes
<1> QED
  BY Zenon, <1>3, <1>4, <1>8, <1>9, <1>10 DEF ProtocolInv

-----------------------------------------------------------------------------
(* The steps that start, vote or receive *)

\* Nothing is known of a transaction on which nobody voted.
LEMMA Silence ==
  ASSUME TypeOK, ProtocolInv, NEW t \in Tids, \A g \in Peers : vote[g][t] = "none"
  PROVE  /\ \A m \in Message : Pending(m) => m.tid # t
         /\ \A g \in Peers : /\ heard[g][t] = {} /\ responses[g][t] = {}
                              /\ ours[g][t] = "ACK"
<1>1. \A m \in Message : Pending(m) => m.tid # t
  BY Zenon, MessageFields DEF ProtocolInv, MessagesOK, MessageAt, NotSent
<1>2. ASSUME NEW g \in Peers
      PROVE  heard[g][t] = {} /\ responses[g][t] = {} /\ ours[g][t] = "ACK"
  <2>1. GatheredAt(g, t)
    BY Zenon DEF ProtocolInv, GatheredOK
  <2>2. /\ heard[g][t] \subseteq Peers /\ responses[g][t] \subseteq Response
        /\ ours[g][t] \in Votes
    BY DEF TypeOK, ReaderTypes, TableTypes
  <2>3. heard[g][t] = {}
    BY Zenon, <2>1, <2>2 DEF GatheredAt, NotSent
  <2>4. \A r \in Response : r.from \in Peers /\ r.vote \in Votes
    BY Zenon DEF Response
  <2>5. responses[g][t] = {}
    BY <2>1, <2>2, <2>4, VoteNames DEF GatheredAt
  <2> QED
    BY Zenon, <2>1, <2>2, <2>3, <2>5, VoteNames DEF GatheredAt
<1> QED
  BY Zenon, <1>1, <1>2

\* Replicate, up to transactions.Put, keeps the invariant.
LEMMA ReplicateInv ==
  ASSUME TypeOK, TypeOK', ProtocolInv, NEW t \in Tids, Replicate(t),
         NEW h \in Peers, h = Initiator[t]
  PROVE  ProtocolInv'
<1>1. \A g \in Peers, u \in Tids :
        pc'[g][u] = IF g = h /\ u = t THEN "detect" ELSE pc[g][u]
  BY GoToAt DEF Replicate
<1>2. /\ \A u \in Tids : call'[u] = IF u = t THEN "pending" ELSE call[u]
      /\ \A g \in Peers : ts'[g] = IF g = h THEN ts[g] \cup {t} ELSE ts[g]
  BY Zenon DEF Replicate, TypeOK, CallTypes, TableTypes
<1>3. \A g \in Peers : vote[g][t] = "none" /\ pc[g][t] = "idle"
  BY Zenon DEF Replicate, ProtocolInv, SecretsOK, SecretAt
<1>4. /\ \A m \in Message : Pending(m) => m.tid # t
      /\ \A g \in Peers : heard[g][t] = {} /\ responses[g][t] = {} /\ ours[g][t] = "ACK"
  BY Zenon, <1>3, Silence
<1>5. UNCHANGED <<responses, got, ours, heard, notifying, net, vote>>
  BY Zenon DEF Replicate
<1>6. ReadersOK'
  <2> SUFFICES ASSUME NEW g \in Peers, NEW u \in Tids PROVE ReaderAt(g, u)'
    BY Zenon DEF ReadersOK
  <2>1. ReaderAt(g, u)
    BY Zenon DEF ProtocolInv, ReadersOK
  <2>2. CASE g = h /\ u = t
    BY Zenon, <1>1, <1>2, <1>3, <1>5, <2>2 DEF ReaderAt
  <2>3. CASE ~(g = h /\ u = t)
    <3>1. pc'[g][u] = pc[g][u] /\ (call[u] # "none" => call'[u] # "none")
      BY Zenon, <1>1, <1>2, <2>3
    <3>2. u \in ts'[g] <=> u \in ts[g]
      BY Zenon, <1>2, <2>3
    <3> QED
      BY Zenon, <1>5, <2>1, <3>1, <3>2 DEF ReaderAt
  <2> QED
    BY Zenon, <2>2, <2>3
<1>a. \A g \in Peers, u \in Tids : NotSent(g, u)' <=> NotSent(g, u)
  <2> SUFFICES ASSUME NEW g \in Peers, NEW u \in Tids PROVE NotSent(g, u)' <=> NotSent(g, u)
    BY Zenon
  <2>1. vote'[g][u] = vote[g][u]
    BY Zenon, <1>5
  <2>2. pc'[g][u] = pc[g][u] \/ (pc'[g][u] = "detect" /\ pc[g][u] = "idle")
    <3>1. CASE g = h /\ u = t
      BY Zenon, <1>1, <1>3, <3>1
    <3>2. CASE ~(g = h /\ u = t)
      BY Zenon, <1>1, <3>2
    <3> QED
      BY Zenon, <3>1, <3>2
  <2> QED
    BY Zenon, <2>1, <2>2 DEF NotSent
<1>7. SecretsOK'
  <2> SUFFICES ASSUME NEW u \in Tids PROVE SecretAt(u)'
    BY Zenon DEF SecretsOK
  <2>1. SecretAt(u) /\ Initiator[u] \in Peers
    BY Zenon, TidsAssumption DEF ProtocolInv, SecretsOK
  <2>2. /\ call'[u] = "none" => u # t /\ call[u] = "none"
        /\ \A g \in Peers : u # t \/ g # h => pc'[g][u] = pc[g][u]
    BY Zenon, <1>1, <1>2
  <2> QED
    BY Zenon, <1>5, <1>a, <2>1, <2>2 DEF SecretAt, Others
<1>8. ListenersOK'
  <2> SUFFICES ASSUME NEW g \in Peers, NEW m \in notifying[g] PROVE ListenerAt(g, m)'
    BY Zenon, <1>5 DEF ListenersOK
  <2>1. m \in Message /\ m.tid \in Tids /\ ListenerAt(g, m)
    BY Zenon, HeldMessages DEF ProtocolInv, ListenersOK
  <2>2. m.tid # t
    BY Zenon, <1>4, <2>1 DEF Pending, ListenerAt
  <2> QED
    BY Zenon, <1>1, <1>5, <2>1, <2>2 DEF ListenerAt
<1>9. MessagesOK'
  <2> SUFFICES ASSUME NEW m \in Message, Pending(m)' PROVE MessageAt(m)'
    BY Zenon DEF MessagesOK
  <2>1. m.tid \in Tids /\ m.from \in Peers /\ m.to \in Peers
    BY Zenon, MessageFields
  <2>2. MessageAt(m)
    BY Zenon, <1>5 DEF ProtocolInv, MessagesOK, Pending
  <2>3. pc'[m.to][m.tid] = "consult" => pc[m.to][m.tid] = "consult"
    BY Zenon, <1>1, <2>1
  <2> QED
    BY Zenon, <1>5, <1>a, <2>1, <2>2, <2>3 DEF MessageAt
<1>10. GatheredOK'
  <2> SUFFICES ASSUME NEW g \in Peers, NEW u \in Tids PROVE GatheredAt(g, u)'
    BY Zenon DEF GatheredOK
  <2>1. GatheredAt(g, u) /\ heard[g][u] \subseteq Peers
    BY DEF ProtocolInv, GatheredOK, TypeOK, ReaderTypes
  <2>2. \A p \in Peers : NotSent(p, u)' <=> NotSent(p, u)
    BY Zenon, <1>a
  <2> QED
    BY <1>1, <1>4, <1>5, <2>1, <2>2 DEF GatheredAt
<1> QED
  BY Zenon, <1>6, <1>7, <1>8, <1>9, <1>10 DEF ProtocolInv

\* The initiator's search for conflicts, which fixes its vote, keeps it.
LEMMA DetectInv ==
  ASSUME TypeOK, TypeOK', ProtocolInv, NEW t \in Tids, Detect(t),
         NEW h \in Peers, h = Initiator[t]
  PROVE  ProtocolInv'
<1>1. PICK l \in {"return", "send"}, v \in {"ACK", "CONFLICT"} :
        /\ l = "send" => v = "ACK"
        /\ GoTo(h, t, l)
        /\ vote' = [vote EXCEPT ![h][t] = v]
  BY Zenon DEF Detect
<1>2. \A g \in Peers, u \in Tids :
        pc'[g][u] = IF g = h /\ u = t THEN l ELSE pc[g][u]
  BY <1>1, GoToAt
<1>3. \A g \in Peers, u \in Tids :
        vote'[g][u] = IF g = h /\ u = t THEN v ELSE vote[g][u]
  BY Zenon, <1>1 DEF TypeOK, HostTypes
<1>4. pc[h][t] = "detect" /\ vote[h][t] = "none" /\ call[t] # "none"
  BY Zenon DEF Detect, ProtocolInv, ReadersOK, ReaderAt, ReplicatePC
<1>5. \A g \in Others(h) : vote[g][t] = "none" /\ pc[g][t] = "idle"
  BY Zenon, <1>4 DEF ProtocolInv, SecretsOK, SecretAt, NotSent
<1>6. /\ \A m \in Message : Pending(m) => m.tid # t
      /\ \A g \in Peers : heard[g][t] = {} /\ responses[g][t] = {} /\ ours[g][t] = "ACK"
  BY <1>4, <1>5, Silence DEF Others
<1>7. UNCHANGED <<ts, responses, got, ours, heard, notifying, net>> /\ SameCalls
  BY Zenon, <1>4 DEF Detect, tableVars, SameCalls, TypeOK, CallTypes
<1>8. ReadersOK'
  <2> SUFFICES ASSUME NEW g \in Peers, NEW u \in Tids PROVE ReaderAt(g, u)'
    BY Zenon DEF ReadersOK
  <2>1. ReaderAt(g, u)
    BY Zenon DEF ProtocolInv, ReadersOK
  <2>2. CASE g = h /\ u = t
    BY <1>1, <1>2, <1>3, <1>4, <1>7, <2>1, <2>2 DEF ReaderAt, SameCalls
  <2>3. CASE ~(g = h /\ u = t)
    BY Zenon, <1>2, <1>3, <1>7, <2>1, <2>3 DEF ReaderAt, SameCalls
  <2> QED
    BY Zenon, <2>2, <2>3
<1>9. SecretsOK'
  <2> SUFFICES ASSUME NEW u \in Tids PROVE SecretAt(u)'
    BY Zenon DEF SecretsOK
  <2>1. SecretAt(u) /\ Initiator[u] \in Peers
    BY Zenon, TidsAssumption DEF ProtocolInv, SecretsOK
  <2>2. CASE u = t
    <3>1. \A g \in Others(h) : vote'[g][t] = "none" /\ pc'[g][t] = "idle"
      BY ZenonT(30), <1>2, <1>3, <1>5 DEF Others
    <3> QED
      BY Zenon, <1>4, <1>7, <2>2, <3>1 DEF SecretAt, SameCalls
  <2>3. CASE u # t
    BY <1>2, <1>3, <1>7, <2>1, <2>3 DEF SecretAt, NotSent, SameCalls, Others
  <2> QED
    BY Zenon, <2>2, <2>3
<1>10. ListenersOK'
  <2> SUFFICES ASSUME NEW g \in Peers, NEW m \in notifying[g] PROVE ListenerAt(g, m)'
    BY Zenon, <1>7 DEF ListenersOK
  <2>1. m \in Message /\ m.tid \in Tids /\ ListenerAt(g, m)
    BY Zenon, HeldMessages DEF ProtocolInv, ListenersOK
  <2>2. m.tid # t
    BY Zenon, <1>6, <2>1 DEF Pending, ListenerAt
  <2> QED
    BY Zenon, <1>2, <1>7, <2>1, <2>2 DEF ListenerAt
<1>11. MessagesOK'
  <2> SUFFICES ASSUME NEW m \in Message, Pending(m)' PROVE MessageAt(m)'
    BY Zenon DEF MessagesOK
  <2>1. Pending(m) /\ m.tid # t /\ m.tid \in Tids /\ m.from \in Peers /\ m.to \in Peers
    BY Zenon, <1>6, <1>7, MessageFields DEF Pending
  <2>2. MessageAt(m)
    BY Zenon, <2>1 DEF ProtocolInv, MessagesOK
  <2>3. /\ vote'[m.from][m.tid] = vote[m.from][m.tid] /\ pc'[m.from][m.tid] = pc[m.from][m.tid]
        /\ vote'[m.to][m.tid] = vote[m.to][m.tid] /\ pc'[m.to][m.tid] = pc[m.to][m.tid]
    BY ZenonT(30), <1>2, <1>3, <2>1
  <2> QED
    BY Zenon, <1>7, <2>2, <2>3 DEF MessageAt, NotSent
<1>12. GatheredOK'
  <2> SUFFICES ASSUME NEW g \in Peers, NEW u \in Tids PROVE GatheredAt(g, u)'
    BY Zenon DEF GatheredOK
  <2>1. GatheredAt(g, u) /\ heard[g][u] \subseteq Peers
    BY DEF ProtocolInv, GatheredOK, TypeOK, ReaderTypes
  <2>2. CASE u = t
    <3>1. pc'[g][t] # "respond"
      BY Zenon, <1>1, <1>2, <1>5 DEF Others
    <3> QED
      BY Zenon, <1>6, <1>7, <2>1, <2>2, <3>1 DEF GatheredAt
  <2>3. CASE u # t
    <3>1. \A r \in responses[g][u] : r.from \in Peers
      BY DEF TypeOK, TableTypes, Response
    <3> QED
      BY SMTT(30), <1>2, <1>3, <1>7, <2>1, <2>3, <3>1 DEF GatheredAt, NotSent
  <2> QED
    BY Zenon, <2>2, <2>3
<1> QED
  BY Zenon, <1>8, <1>9, <1>10, <1>11, <1>12 DEF ProtocolInv

\* Mirror.Consult and the search for conflicts of a handler keep it.
LEMMA ConsultInv ==
  ASSUME TypeOK, TypeOK', ProtocolInv, NEW h \in Peers, NEW t \in Tids, Consult(h, t)
  PROVE  ProtocolInv'
<1>1. PICK v \in Votes : /\ vote' = [vote EXCEPT ![h][t] = v]
                          /\ ours' = [ours EXCEPT ![h][t] = v]
  BY Zenon, AnswersAssumption DEF Consult, Votes, Nacks
<1>2. \A g \in Peers, u \in Tids :
        pc'[g][u] = IF g = h /\ u = t THEN "respond" ELSE pc[g][u]
  BY GoToAt DEF Consult
<1>3. \A g \in Peers, u \in Tids :
        vote'[g][u] = IF g = h /\ u = t THEN v ELSE vote[g][u]
  BY Zenon, <1>1 DEF TypeOK, HostTypes
<1>4. \A g \in Peers, u \in Tids :
        ours'[g][u] = IF g = h /\ u = t THEN v ELSE ours[g][u]
  BY Zenon, <1>1 DEF TypeOK, ReaderTypes
<1>5. /\ pc[h][t] = "consult" /\ vote[h][t] = "none" /\ h # Initiator[t]
      /\ Initiator[t] \in heard[h][t] /\ Initiator[t] \in Peers
  BY Zenon, TidsAssumption DEF Consult, ProtocolInv, ReadersOK, ReaderAt
<1>6. vote[Initiator[t]][t] = "ACK" /\ ~NotSent(Initiator[t], t)
  BY Zenon, <1>5 DEF ProtocolInv, GatheredOK, GatheredAt
<1>7. UNCHANGED <<ts, responses, got, heard, notifying, net, call>>
  BY Zenon DEF Consult, tableVars, callVars
<1>8. ReadersOK'
  <2> SUFFICES ASSUME NEW g \in Peers, NEW u \in Tids PROVE ReaderAt(g, u)'
    BY Zenon DEF ReadersOK
  <2>1. ReaderAt(g, u)
    BY Zenon DEF ProtocolInv, ReadersOK
  <2>2. CASE g = h /\ u = t
    BY Zenon, <1>2, <1>5, <1>7, <2>1, <2>2 DEF ReaderAt, ReplicatePC
  <2>3. CASE ~(g = h /\ u = t)
    BY Zenon, <1>2, <1>3, <1>4, <1>7, <2>1, <2>3 DEF ReaderAt
  <2> QED
    BY Zenon, <2>2, <2>3
<1>9. SecretsOK'
  <2> SUFFICES ASSUME NEW u \in Tids PROVE SecretAt(u)'
    BY Zenon DEF SecretsOK
  <2>1. SecretAt(u) /\ Initiator[u] \in Peers
    BY Zenon, TidsAssumption DEF ProtocolInv, SecretsOK
  <2>2. CASE u = t
    BY ZenonT(30), <1>2, <1>3, <1>5, <1>6, <1>7, <2>1, <2>2 DEF SecretAt, NotSent, Others
  <2>3. CASE u # t
    BY <1>2, <1>3, <1>7, <2>1, <2>3 DEF SecretAt, NotSent, Others
  <2> QED
    BY Zenon, <2>2, <2>3
<1>10. ListenersOK'
  <2> SUFFICES ASSUME NEW g \in Peers, NEW m \in notifying[g] PROVE ListenerAt(g, m)'
    BY Zenon, <1>7 DEF ListenersOK
  <2>1. m \in Message /\ m.tid \in Tids /\ ListenerAt(g, m)
    BY Zenon, HeldMessages DEF ProtocolInv, ListenersOK
  <2> QED
    BY Zenon, <1>2, <1>5, <1>7, <2>1 DEF ListenerAt
<1>11. MessagesOK'
  <2> SUFFICES ASSUME NEW m \in Message, Pending(m)' PROVE MessageAt(m)'
    BY Zenon DEF MessagesOK
  <2>1. m.tid \in Tids /\ m.from \in Peers /\ m.to \in Peers
    BY Zenon, MessageFields
  <2>2. MessageAt(m)
    BY Zenon, <1>7 DEF ProtocolInv, MessagesOK, Pending
  <2>3. ~(m.from = h /\ m.tid = t)
    BY Zenon, <1>5, <2>2 DEF MessageAt, NotSent
  <2>4. ~(m.to = h /\ m.tid = t /\ m.body = "request")
    BY Zenon, <1>5, <2>2 DEF MessageAt
  <2> QED
    BY Zenon, <1>2, <1>3, <1>7, <2>1, <2>2, <2>3, <2>4 DEF MessageAt, NotSent
<1>12. GatheredOK'
  <2> SUFFICES ASSUME NEW g \in Peers, NEW u \in Tids PROVE GatheredAt(g, u)'
    BY Zenon DEF GatheredOK
  <2>1. GatheredAt(g, u) /\ heard[g][u] \subseteq Peers
    BY DEF ProtocolInv, GatheredOK, TypeOK, ReaderTypes
  <2>2. \A r \in responses[g][u] : r.from \in Peers /\ r.vote \in Votes
    BY SMTT(30) DEF TypeOK, TableTypes, Response
  <2>3. \A r \in responses[g][u] : vote'[r.from][u] = r.vote
    BY <1>3, <1>5, <2>1, <2>2, VoteNames DEF GatheredAt
  <2>4. \A p \in heard[g][u] : /\ ~NotSent(p, u)' /\ vote'[p][u] = vote[p][u]
                               /\ p # h \/ u # t
    <3> SUFFICES ASSUME NEW p \in heard[g][u]
                 PROVE  /\ ~NotSent(p, u)' /\ vote'[p][u] = vote[p][u]
                        /\ p # h \/ u # t
      OBVIOUS
    <3>1. p \in Peers /\ ~NotSent(p, u)
      BY Zenon, <2>1 DEF GatheredAt
    <3>2. p # h \/ u # t
      BY Zenon, <1>5, <3>1 DEF NotSent
    <3> QED
      BY Zenon, <1>2, <1>3, <3>1, <3>2 DEF NotSent
  <2>5. CASE g = h /\ u = t
    <3>1. pc'[g][u] = "respond" /\ ours'[g][u] = v /\ vote'[g][u] = v
      BY Zenon, <1>2, <1>3, <1>4, <2>5
    <3> QED
      BY Zenon, <1>7, <2>1, <2>3, <2>4, <3>1 DEF GatheredAt
  <2>6. CASE ~(g = h /\ u = t)
    BY ZenonT(30), <1>2, <1>3, <1>4, <1>7, <2>1, <2>3, <2>4, <2>6 DEF GatheredAt
  <2> QED
    BY Zenon, <2>5, <2>6
<1> QED
  BY Zenon, <1>8, <1>9, <1>10, <1>11, <1>12 DEF ProtocolInv

\* listen putting a message into its transaction keeps it.
LEMMA ListenInv ==
  ASSUME TypeOK, TypeOK', ProtocolInv, NEW h \in Peers, NEW m \in net, Listen(h, m),
         NEW t \in Tids, t = m.tid
  PROVE  ProtocolInv'
<1>1. /\ m \in Message /\ m.from \in Peers /\ m.to = h
      /\ notifying[h] = {} /\ Pending(m) /\ MessageAt(m)
  BY Zenon, MessageFields
     DEF Listen, TypeOK, NetTypes, ProtocolInv, MessagesOK, Pending
<1>2. \A g \in Peers, u \in Tids :
        pc'[g][u] = IF g = h /\ u = t /\ u \notin ts[g] THEN "gather" ELSE pc[g][u]
  <2>1. CASE t \in ts[h]
    BY Zenon, <1>1, <2>1 DEF Listen
  <2>2. CASE t \notin ts[h] /\ GoTo(h, t, "gather")
    <3>1. \A g \in Peers, u \in Tids : pc'[g][u] = IF g = h /\ u = t THEN "gather" ELSE pc[g][u]
      BY SMTT(30), <2>2, GoToAt
    <3> QED
      BY Zenon, <2>2, <3>1
  <2> QED
    BY Zenon, <1>1, <2>1, <2>2 DEF Listen
<1>3. \A g \in Peers, u \in Tids : (u \in ts[g] <=> pc[g][u] # "idle") /\ ReaderAt(g, u)
  BY SMTT(30) DEF ProtocolInv, ReadersOK, ReaderAt
<1>4. /\ \A g \in Peers, u \in Tids : u \in ts'[g] <=> (g = h /\ u = t) \/ u \in ts[g]
      /\ \A g \in Peers : notifying'[g] = IF g = h THEN {m} ELSE notifying[g]
      /\ net' = net \ {m}
      /\ UNCHANGED <<got, ours, heard, call, vote>>
  BY Zenon, <1>1 DEF Listen, callVars, TypeOK, TableTypes, NetTypes
<1>5. /\ m.body \in Votes =>
           responses'[h][t] = responses[h][t] \cup {[from |-> m.from, vote |-> m.body]}
      /\ \A g \in Peers, u \in Tids :
           ~(g = h /\ u = t /\ m.body \in Votes) => responses'[g][u] = responses[g][u]
  <2>1. CASE m.body = "request" /\ UNCHANGED responses
    BY Zenon, <2>1, VoteNames
  <2>2. CASE /\ m.body \in Votes
             /\ responses' = [responses EXCEPT ![h][t] =
                                @ \cup {[from |-> m.from, vote |-> m.body]}]
    BY <1>1, <2>2 DEF TypeOK, TableTypes
  <2> QED
    BY Zenon, <2>1, <2>2 DEF Listen
<1>6. \A g \in Peers, u \in Tids : NotSent(g, u)' <=> NotSent(g, u)
  BY ZenonT(30), <1>2, <1>3, <1>4 DEF NotSent
<1>7. \A n \in Message : Pending(n)' => Pending(n)
  BY <1>1, <1>4, MessageFields DEF Pending
<1>8. ReadersOK'
  <2> SUFFICES ASSUME NEW g \in Peers, NEW u \in Tids PROVE ReaderAt(g, u)'
    BY Zenon DEF ReadersOK
  <2>1. u \in ts'[g] <=> pc'[g][u] # "idle"
    BY ZenonT(30), <1>2, <1>3, <1>4
  <2>2. CASE pc'[g][u] = pc[g][u]
    <3>1. pc'[g][u] = "idle" => responses'[g][u] = responses[g][u]
      BY SMTT(30), <1>2, <1>3, <1>5, <2>2
    <3>2. ReaderAt(g, u)
      BY Zenon DEF ProtocolInv, ReadersOK
    <3> QED
      BY Zenon, <1>3, <1>4, <2>1, <2>2, <3>1, <3>2 DEF ReaderAt
  <2>3. CASE pc'[g][u] # pc[g][u]
    <3>1. pc'[g][u] = "gather"
      BY Zenon, <1>2, <2>3
    <3> QED
      BY Zenon, <2>1, <3>1 DEF ReaderAt, ReplicatePC
  <2> QED
    BY Zenon, <2>2, <2>3
<1>9. SecretsOK'
  <2> SUFFICES ASSUME NEW u \in Tids PROVE SecretAt(u)'
    BY Zenon DEF SecretsOK
  <2>1. SecretAt(u) /\ Initiator[u] \in Peers
    BY Zenon, TidsAssumption DEF ProtocolInv, SecretsOK
  <2>2. CASE u # t
    BY ZenonT(30), <1>2, <1>4, <1>6, <2>1, <2>2 DEF SecretAt, Others
  <2>3. CASE u = t
    <3>1. vote[m.from][t] # "none" /\ ~NotSent(m.from, t)
      BY Zenon, <1>1 DEF MessageAt, NotSent
    <3>2. call[t] # "none" /\ ~NotSent(Initiator[t], t)
      BY Zenon, <1>1, <2>1, <2>3, <3>1 DEF SecretAt, Others
    <3> QED
      BY ZenonT(30), <1>4, <1>6, <2>1, <2>3, <3>2 DEF SecretAt, Others
  <2> QED
    BY Zenon, <2>2, <2>3
<1>10. ListenersOK'
  <2> SUFFICES ASSUME NEW g \in Peers, NEW n \in notifying'[g] PROVE ListenerAt(g, n)'
    BY Zenon DEF ListenersOK
  <2>1. CASE g = h
    <3>1. n = m /\ m \notin net' /\ notifying'[h] = {m}
      BY Zenon, <1>4, <2>1
    <3>2. m.body \in Votes => [from |-> m.from, vote |-> m.body] \in responses'[h][t]
      BY Zenon, <1>5
    <3> QED
      BY Zenon, <1>1, <2>1, <3>1, <3>2 DEF ListenerAt
  <2>2. CASE g # h
    <3>1. n \in Message /\ n.tid \in Tids /\ ListenerAt(g, n)
      BY Zenon, <1>4, <2>2, HeldMessages DEF ProtocolInv, ListenersOK
    <3> QED
      BY <1>2, <1>4, <1>5, <2>2, <3>1 DEF ListenerAt
  <2> QED
    BY Zenon, <2>1, <2>2
<1>11. MessagesOK'
  <2> SUFFICES ASSUME NEW n \in Message, Pending(n)' PROVE MessageAt(n)'
    BY Zenon DEF MessagesOK
  <2>1. MessageAt(n) /\ n.from \in Peers /\ n.to \in Peers /\ n.tid \in Tids
    BY Zenon, <1>7, MessageFields DEF ProtocolInv, MessagesOK
  <2> QED
    BY Zenon, <1>2, <1>4, <1>6, <2>1 DEF MessageAt
<1>12. GatheredOK'
  <2> SUFFICES ASSUME NEW g \in Peers, NEW u \in Tids PROVE GatheredAt(g, u)'
    BY Zenon DEF GatheredOK
  <2>1. GatheredAt(g, u) /\ heard[g][u] \subseteq Peers
    BY DEF ProtocolInv, GatheredOK, TypeOK, ReaderTypes
  <2>2. responses[g][u] \subseteq responses'[g][u]
    BY Zenon, <1>5
  <2>3. \A r \in responses'[g][u] : vote[r.from][u] = r.vote
    <3>1. m.body \in Votes => vote[m.from][t] = m.body
      BY Zenon, <1>1, VoteNames DEF MessageAt
    <3>2. \A r \in responses[g][u] : vote[r.from][u] = r.vote
      BY Zenon, <2>1 DEF GatheredAt
    <3>3. CASE g = h /\ u = t /\ m.body \in Votes
      BY <1>5, <3>1, <3>2, <3>3
    <3>4. CASE ~(g = h /\ u = t /\ m.body \in Votes)
      BY Zenon, <1>5, <3>2, <3>4
    <3> QED
      BY Zenon, <3>3, <3>4
  <2>4. /\ pc'[g][u] = "respond" => pc[g][u] = "respond"
        /\ heard[g][u] # {} => pc'[g][u] = pc[g][u]
    BY Zenon, <1>2, <1>3 DEF ReaderAt
  <2> QED
    BY Zenon, <1>4, <1>6, <2>1, <2>2, <2>3, <2>4 DEF GatheredAt
<1> QED
  BY Zenon, <1>8, <1>9, <1>10, <1>11, <1>12 DEF ProtocolInv

\* The hand-over of a message on NotifyChan keeps it.
LEMMA NotifyInv ==
  ASSUME TypeOK, TypeOK', ProtocolInv, NEW h \in Peers, NEW m \in notifying[h],
         Notify(h, m), NEW t \in Tids, t = m.tid
  PROVE  ProtocolInv'
<1>1. /\ m \in Message /\ m.from \in Peers /\ m.to = h /\ m \notin net
      /\ Pending(m) /\ MessageAt(m) /\ ListenerAt(h, m)
  BY Zenon, HeldMessages DEF ProtocolInv, ListenersOK, ListenerAt, MessagesOK, Pending
<1>2. pc[h][t] \in {"await", "gather"} /\ ReaderAt(h, t)
  BY Zenon DEF Notify, Receiving, ProtocolInv, ReadersOK
<1>3. m.body = "request" =>
        /\ h # Initiator[t] /\ m.from = Initiator[t] /\ vote[h][t] = "none"
        /\ pc[h][t] = "gather"
  BY Zenon, <1>1, <1>2 DEF MessageAt, ReaderAt, ReplicatePC
<1>4. \A g \in Peers, u \in Tids :
        pc'[g][u] = IF g = h /\ u = t /\ m.body = "request" THEN "consult" ELSE pc[g][u]
  <2>1. CASE m.body = "request" /\ GoTo(h, t, "consult")
    BY <2>1, GoToAt
  <2>2. CASE m.body # "request" /\ UNCHANGED pc
    BY Zenon, <2>2
  <2> QED
    BY Zenon, <1>2, <1>3, <2>1, <2>2 DEF Notify
<1>5. \A g \in Peers, u \in Tids :
        IF g = h /\ u = t
          THEN /\ got'[g][u] = got[g][u] + 1
               /\ heard'[g][u] = heard[g][u] \cup {m.from}
          ELSE got'[g][u] = got[g][u] /\ heard'[g][u] = heard[g][u]
  BY Zenon DEF Notify, TypeOK, ReaderTypes
<1>6. /\ \A g \in Peers : notifying'[g] = IF g = h THEN {} ELSE notifying[g]
      /\ UNCHANGED <<ts, responses, ours, call, net, vote>>
  BY Zenon DEF Notify, tableVars, callVars, TypeOK, NetTypes
<1>7. \A g \in Peers, u \in Tids : NotSent(g, u)' <=> NotSent(g, u)
  BY ZenonT(30), <1>2, <1>4, <1>6 DEF NotSent
<1>8. \A n \in Message : Pending(n)' =>
        MessageAt(n) /\ (n.tid = t /\ n.to = h => n.from # m.from)
  <2> SUFFICES ASSUME NEW n \in Message, Pending(n)'
               PROVE  MessageAt(n) /\ (n.tid = t /\ n.to = h => n.from # m.from)
    OBVIOUS
  <2>1. Pending(n) /\ n # m /\ n.to \in Peers
    BY Zenon, <1>1, <1>6, MessageFields DEF Pending
  <2>2. MessageAt(n)
    BY Zenon, <2>1 DEF ProtocolInv, MessagesOK
  <2>3. ASSUME n.tid = t, n.to = h, n.from = m.from PROVE n.body = m.body
    BY Zenon, <1>1, <2>2, <2>3 DEF MessageAt
  <2> QED
    BY Zenon, <1>1, <2>1, <2>2, <2>3, MessageFields
<1>9. ReadersOK'
  <2> SUFFICES ASSUME NEW g \in Peers, NEW u \in Tids PROVE ReaderAt(g, u)'
    BY Zenon DEF ReadersOK
  <2>1. ReaderAt(g, u)
    BY Zenon DEF ProtocolInv, ReadersOK
  <2>2. CASE g = h /\ u = t
    BY Zenon, <1>2, <1>3, <1>4, <1>5, <1>6, <2>1, <2>2 DEF ReaderAt, ReplicatePC
  <2>3. CASE ~(g = h /\ u = t)
    <3>1. pc'[g][u] = pc[g][u] /\ got'[g][u] = got[g][u] /\ heard'[g][u] = heard[g][u]
      BY Zenon, <1>4, <1>5, <2>3
    <3> QED
      BY Zenon, <1>6, <2>1, <3>1 DEF ReaderAt
  <2> QED
    BY Zenon, <2>2, <2>3
<1>10. SecretsOK'
  <2> SUFFICES ASSUME NEW u \in Tids PROVE SecretAt(u)'
    BY Zenon DEF SecretsOK
  <2>1. SecretAt(u) /\ Initiator[u] \in Peers
    BY Zenon, TidsAssumption DEF ProtocolInv, SecretsOK
  <2>2. \A g \in Peers : pc[g][u] = "idle" => pc'[g][u] = "idle"
    BY Zenon, <1>2, <1>4
  <2> QED
    BY Zenon, <1>6, <1>7, <2>1, <2>2 DEF SecretAt, Others
<1>11. ListenersOK'
  <2> SUFFICES ASSUME NEW g \in Peers, NEW n \in notifying'[g] PROVE ListenerAt(g, n)'
    BY Zenon DEF ListenersOK
  <2>1. g # h /\ n \in notifying[g]
    BY Zenon, <1>6
  <2>2. n.tid \in Tids /\ ListenerAt(g, n)
    BY Zenon, <2>1, HeldMessages DEF ProtocolInv, ListenersOK
  <2> QED
    BY Zenon, <1>4, <1>6, <2>1, <2>2 DEF ListenerAt
<1>12. MessagesOK'
  <2> SUFFICES ASSUME NEW n \in Message, Pending(n)' PROVE MessageAt(n)'
    BY Zenon DEF MessagesOK
  <2>1. n.from \in Peers /\ n.to \in Peers /\ n.tid \in Tids
    BY Zenon, MessageFields
  <2>2. MessageAt(n) /\ (n.tid = t /\ n.to = h => n.from # m.from)
    BY Zenon, <1>8
  <2>3. n.from \notin heard'[n.to][n.tid]
    <3>1. n.from \notin heard[n.to][n.tid]
      BY Zenon, <2>2 DEF MessageAt
    <3>2. CASE n.to = h /\ n.tid = t
      BY <1>5, <2>2, <3>1, <3>2
    <3>3. CASE ~(n.to = h /\ n.tid = t)
      BY Zenon, <1>5, <2>1, <3>1, <3>3
    <3> QED
      BY Zenon, <3>2, <3>3
  <2>4. n.body = "request" => pc'[n.to][n.tid] # "consult"
    BY Zenon, <1>3, <1>4, <2>1, <2>2 DEF MessageAt
  <2> QED
    BY Zenon, <1>6, <1>7, <2>1, <2>2, <2>3, <2>4 DEF MessageAt
<1>13. GatheredOK'
  <2> SUFFICES ASSUME NEW g \in Peers, NEW u \in Tids PROVE GatheredAt(g, u)'
    BY Zenon DEF GatheredOK
  <2>1. GatheredAt(g, u) /\ heard[g][u] \subseteq Peers
    BY DEF ProtocolInv, GatheredOK, TypeOK, ReaderTypes
  <2>2. CASE ~(g = h /\ u = t)
    <3>1. pc'[g][u] = pc[g][u] /\ got'[g][u] = got[g][u] /\ heard'[g][u] = heard[g][u]
      BY Zenon, <1>4, <1>5, <2>2
    <3> QED
      BY Zenon, <1>6, <1>7, <2>1, <3>1 DEF GatheredAt
  <2>3. CASE g = h /\ u = t
    <3>1. IsFiniteSet(heard[h][t])
      BY Zenon, <2>1, <2>3, PeersAssumption, FS_Subset
    <3>2. got'[h][t] = Cardinality(heard'[h][t])
      <4>1. m.from \notin heard[h][t]
        BY Zenon, <1>1 DEF MessageAt
      <4>2. Cardinality(heard[h][t] \cup {m.from}) = Cardinality(heard[h][t]) + 1
        BY Zenon, <3>1, <4>1, FS_AddElement
      <4>3. /\ got'[h][t] = got[h][t] + 1
            /\ heard'[h][t] = heard[h][t] \cup {m.from}
        BY Zenon, <1>5
      <4>4. got[h][t] = Cardinality(heard[h][t])
        BY Zenon, <2>1, <2>3 DEF GatheredAt
      <4> QED
        BY Zenon, <4>2, <4>3, <4>4
    <3>3. /\ m.from # h /\ ~NotSent(m.from, t)
          /\ m.from = Initiator[t] => /\ vote[m.from][t] = "ACK"
                                      /\ pc'[h][t] = "consult"
          /\ m.from # Initiator[t] =>
               [from |-> m.from, vote |-> vote[m.from][t]] \in responses[h][t]
      <4>1. m.from = Initiator[t] <=> m.body = "request"
        BY Zenon, <1>1 DEF MessageAt
      <4>2. m.body # "request" => m.body \in Votes /\ m.body = vote[m.from][t]
        BY Zenon, <1>1, MessageFields DEF MessageAt
      <4> QED
        BY Zenon, <1>1, <1>2, <1>4, <4>1, <4>2 DEF MessageAt, ListenerAt
    <3>4. pc'[h][t] = pc[h][t] \/ pc'[h][t] = "consult"
      BY Zenon, <1>4
    <3>5. pc[h][t] # "consult" /\ pc'[h][t] # "respond"
      BY Zenon, <1>2, <1>4
    <3>6. \A p \in heard'[h][t] : p \in heard[h][t] \/ p = m.from
      BY <1>5
    <3>7. GatheredAt(h, t)
      BY Zenon, <2>1, <2>3
    <3>8. ASSUME NEW p \in heard'[h][t]
          PROVE  /\ p # h /\ ~NotSent(p, t)'
                 /\ p = Initiator[t] => /\ vote[p][t] = "ACK"
                                        /\ pc'[h][t] # "consult" => ours[h][t] = vote[h][t]
                 /\ p # Initiator[t] =>
                      [from |-> p, vote |-> vote[p][t]] \in responses[h][t]
      <4>1. CASE p \in heard[h][t]
        BY Zenon, <1>7, <2>1, <2>3, <3>4, <3>7, <4>1 DEF GatheredAt
      <4>2. CASE p = m.from
        BY Zenon, <1>1, <1>7, <3>3, <4>2
      <4> QED
        BY Zenon, <3>6, <4>1, <4>2
    <3> QED
      BY Zenon, <1>6, <2>3, <3>2, <3>5, <3>7, <3>8 DEF GatheredAt
  <2> QED
    BY Zenon, <2>2, <2>3
<1> QED
  BY Zenon, <1>9, <1>10, <1>11, <1>12, <1>13 DEF ProtocolInv

-----------------------------------------------------------------------------
(* The decisions *)

\* A reader that has taken a message from each of the others knows all votes.
LEMMA AllHeard ==
  ASSUME TypeOK, ProtocolInv, NEW h \in Peers, NEW t \in Tids, got[h][t] = NumOthers
  PROVE  /\ \A p \in Peers : p # h => p \in heard[h][t]
         /\ \A p \in Peers : p # h /\ p # Initiator[t] =>
              /\ vote[p][t] \in Votes
              /\ [from |-> p, vote |-> vote[p][t]] \in responses[h][t]
         /\ h # Initiator[t] => vote[Initiator[t]][t] = "ACK"
<1>1. GatheredAt(h, t) /\ heard[h][t] \subseteq Peers
  BY DEF ProtocolInv, GatheredOK, TypeOK, ReaderTypes
<1>2. heard[h][t] \in SUBSET Others(h) /\ Cardinality(heard[h][t]) = NumOthers
  BY Zenon, <1>1 DEF GatheredAt, Others
<1>3. heard[h][t] = Others(h)
  BY Zenon, <1>2, SubsetOfOthers
<1>4. \A p \in Peers : p # h => vote[p][t] \in Votes
  <2>1. \A p \in Peers : p # h => vote[p][t] # "none"
    BY Zenon, <1>1, <1>3 DEF GatheredAt, NotSent, Others
  <2>2. \A p \in Peers : vote[p][t] \in {"none"} \cup Votes
    BY Zenon DEF TypeOK, HostTypes
  <2> QED
    BY Zenon, <2>1, <2>2
<1>5. \A p \in Peers : p # h /\ p # Initiator[t] =>
        [from |-> p, vote |-> vote[p][t]] \in responses[h][t]
  BY Zenon, <1>1, <1>3 DEF GatheredAt, Others
<1>6. h # Initiator[t] => vote[Initiator[t]][t] = "ACK"
  BY Zenon, <1>1, <1>3, TidsAssumption DEF GatheredAt, Others
<1> QED
  BY Zenon, <1>3, <1>4, <1>5, <1>6 DEF Others

\* The responses are votes.
LEMMA ResponsesAreVotes ==
  ASSUME TypeOK, ProtocolInv, NEW h \in Peers, NEW t \in Tids, NEW r \in responses[h][t]
  PROVE  r.from \in Peers /\ r.vote \in Votes /\ vote[r.from][t] = r.vote
<1>1. r \in Response
  BY Zenon DEF TypeOK, TableTypes
<1> QED
  BY <1>1 DEF Response, ProtocolInv, GatheredOK, GatheredAt

\* Replicate succeeds only on a unanimous vote and reports a refusal only for a
\* NACK.
LEMMA ProcessResponsesDecides ==
  ASSUME TypeOK, ProtocolInv, NEW t \in Tids, ProcessResponses(t),
         NEW h \in Peers, h = Initiator[t]
  PROVE  /\ call'[t] = "ok" => Unanimous(t)
         /\ call'[t] # "conflict"
         /\ call'[t] = "notpermitted" => Opposed(t)
<1> DEFINE errors == Errors(h, t)
<1>1. /\ pc[h][t] = "await" /\ got[h][t] = NumOthers - failed[t]
      /\ call'[t] = IF failed[t] > 0 THEN "senderr"
                     ELSE IF errors # {} THEN "notpermitted" ELSE "ok"
  BY Zenon DEF ProcessResponses, Expected, TypeOK, CallTypes
<1>2. vote[h][t] = "ACK"
  BY Zenon, <1>1 DEF ProtocolInv, ReadersOK, ReaderAt
<1>3. errors # {} => Opposed(t)
  BY ResponsesAreVotes DEF Opposed, Errors
<1>4. ASSUME errors = {}, ~(failed[t] > 0) PROVE Unanimous(t)
  <2>1. got[h][t] = NumOthers
    BY <1>1, <1>4, NumOthersType DEF TypeOK, CallTypes
  <2>2. ASSUME NEW p \in Peers, p # h PROVE vote[p][t] = "ACK"
    <3>1. /\ vote[p][t] \in Votes
          /\ [from |-> p, vote |-> vote[p][t]] \in responses[h][t]
      BY Zenon, <2>1, <2>2, AllHeard
    <3>2. vote[p][t] \in {r.vote : r \in responses[h][t]}
      BY <3>1
    <3> QED
      BY Zenon, <1>4, <3>1, <3>2, VoteNames DEF Errors
  <2> QED
    BY Zenon, <1>2, <2>2 DEF Unanimous
<1> QED
  BY Zenon, <1>1, <1>3, <1>4

\* So does a handler.
LEMMA DecideDecides ==
  ASSUME TypeOK, ProtocolInv, NEW h \in Peers, NEW t \in Tids,
         pc[h][t] = "gather", Gathered(h, t)
  PROVE  /\ Permitted(h, t) => Unanimous(t)
         /\ ~Permitted(h, t) => Opposed(t)
<1>0. got[h][t] = NumOthers
  BY Zenon DEF Gathered
<1>1. GatheredAt(h, t) /\ ours[h][t] \in Votes /\ Initiator[t] \in Peers
  BY TidsAssumption DEF ProtocolInv, GatheredOK, TypeOK, ReaderTypes
<1>2. ASSUME ours[h][t] = "ACK", \A r \in responses[h][t] : r.vote = "ACK"
      PROVE  Unanimous(t)
  <2>1. ASSUME NEW p \in Peers, p # h, p # Initiator[t] PROVE vote[p][t] = "ACK"
    <3>1. [from |-> p, vote |-> vote[p][t]] \in responses[h][t]
      BY Zenon, <1>0, <2>1, AllHeard
    <3> QED
      BY Zenon, <1>2, <3>1
  <2>2. CASE h # Initiator[t]
    <3>1. vote[Initiator[t]][t] = "ACK" /\ Initiator[t] \in heard[h][t]
      BY Zenon, <1>0, <1>1, <2>2, AllHeard
    <3>2. vote[h][t] = "ACK"
      BY Zenon, <1>1, <1>2, <3>1 DEF GatheredAt
    <3> QED
      BY Zenon, <2>1, <3>1, <3>2 DEF Unanimous
  <2>3. CASE h = Initiator[t]
    <3>1. PICK p \in Peers : p # h
      BY NumOthersType, FS_EmptySet DEF Others
    <3>2. vote[p][t] # "none"
      BY Zenon, <2>1, <2>3, <3>1
    <3>3. vote[h][t] = "ACK"
      BY Zenon, <2>3, <3>1, <3>2 DEF ProtocolInv, SecretsOK, SecretAt, Others
    <3> QED
      BY Zenon, <2>1, <2>3, <3>3 DEF Unanimous
  <2> QED
    BY Zenon, <2>2, <2>3
<1>3. ASSUME ours[h][t] # "ACK" PROVE Opposed(t)
  BY Zenon, <1>1, <1>3, VoteNames DEF GatheredAt, Opposed
<1>4. ASSUME NEW r \in responses[h][t], r.vote # "ACK" PROVE Opposed(t)
  BY Zenon, <1>4, ResponsesAreVotes, VoteNames DEF Opposed
<1> QED
  BY Zenon, <1>2, <1>3, <1>4 DEF Permitted

\* What a step may do to votes, calls, readers and verdicts.
VotesKept ==
  \A t \in Tids : (Unanimous(t) => Unanimous(t)') /\ (Opposed(t) => Opposed(t)')

CallsJustified ==
  \A t \in Tids :
    /\ call'[t] = "ok" => call[t] = "ok" \/ Unanimous(t)'
    /\ call'[t] \in {"conflict", "notpermitted"} =>
         call[t] \in {"conflict", "notpermitted"} \/ Opposed(t)'

MirrorsJustified ==
  \A h \in Peers, t \in Tids :
    pc'[h][t] = "mirror" => pc[h][t] = "mirror" \/ Unanimous(t)'

EndsJustified ==
  \A h \in Peers, t \in Tids :
    /\ verdict'[h][t] = "applied" => verdict[h][t] = "applied" \/ Unanimous(t)'
    /\ verdict'[h][t] = "rejected" => verdict[h][t] = "rejected" \/ Opposed(t)'

\* A verdict that the votes justify keeps DecisionsOK.
LEMMA Justified ==
  ASSUME DecisionsOK, VotesKept, CallsJustified, MirrorsJustified, EndsJustified
  PROVE  DecisionsOK'
BY Zenon DEF DecisionsOK, VotesKept, CallsJustified, MirrorsJustified, EndsJustified

\* A first vote leaves a unanimous or an opposed transaction what it is.
LEMMA FirstVote ==
  ASSUME TypeOK, NEW h \in Peers, NEW t \in Tids, NEW v, vote[h][t] = "none",
         vote' = [vote EXCEPT ![h][t] = v]
  PROVE  VotesKept
<1>1. \A g \in Peers, u \in Tids :
        vote'[g][u] = IF g = h /\ u = t THEN v ELSE vote[g][u]
  BY Zenon DEF TypeOK, HostTypes
<1>2. ASSUME NEW u \in Tids, Unanimous(u) PROVE Unanimous(u)'
  BY <1>1, <1>2 DEF Unanimous
<1>3. ASSUME NEW u \in Tids, Opposed(u) PROVE Opposed(u)'
  BY <1>1, <1>3, VoteNames DEF Opposed
<1> QED
  BY Zenon, <1>2, <1>3 DEF VotesKept

\* With the same votes a transaction stays unanimous or opposed.
LEMMA SameVotes ==
  ASSUME UNCHANGED vote
  PROVE  VotesKept /\ \A t \in Tids : (Unanimous(t)' <=> Unanimous(t))
                                      /\ (Opposed(t)' <=> Opposed(t))
BY Zenon DEF VotesKept, Unanimous, Opposed
=============================================================================
