---------------------------- MODULE HostTheorems ----------------------------
(***************************************************************************)
(* The theorems about the replication protocol: the invariant IInv, the    *)
(* agreement of the peers, that the protocol is an open ballot, and what   *)
(* becomes of conflicting requests: who gives way to whom, and what the    *)
(* conflicts clock counts. For any number of peers, calls and faults.      *)
(***************************************************************************)
EXTENDS HostAgreement

\* Every step of a caller of Replicate keeps the invariant.
LEMMA ReplicateSteps ==
  ASSUME IInv, TypeOK', NEW t \in Tids, Replicate(t) \/ ReplicateStep(t)
  PROVE  IInv'
<1> DEFINE h == Initiator[t]
<1>0. h \in Peers /\ TypeOK /\ ProtocolInv /\ DecisionsOK
  BY Zenon, TidsAssumption DEF IInv, ProtocolInv
<1> SUFFICES ProtocolInv' /\ DecisionsOK'
  BY Zenon DEF IInv, ProtocolInv
<1> HIDE DEF h
<1>1. CASE Replicate(t)
  <2>1. ProtocolInv'
    BY Zenon, <1>0, <1>1, ReplicateInv DEF h
  <2>2. VotesKept
    BY Zenon, <1>1, SameVotes DEF Replicate
  <2>3. CallsJustified
    <3>1. \A u \in Tids : call'[u] = IF u = t THEN "pending" ELSE call[u]
      BY Zenon, <1>0, <1>1 DEF Replicate, TypeOK, CallTypes
    <3> QED
      BY Zenon, <3>1 DEF CallsJustified
  <2>4. MirrorsJustified
    <3>1. \A g \in Peers, u \in Tids :
            pc'[g][u] = IF g = h /\ u = t THEN "detect" ELSE pc[g][u]
      BY <1>0, <1>1, GoToAt DEF Replicate, h
    <3> QED
      BY ZenonT(30), <3>1 DEF MirrorsJustified
  <2>5. EndsJustified
    BY Zenon, <1>1 DEF Replicate, endVars, EndsJustified
  <2> QED
    BY Zenon, <1>0, <2>1, <2>2, <2>3, <2>4, <2>5, Justified
<1>2. CASE Detect(t)
  <2>1. ProtocolInv'
    BY Zenon, <1>0, <1>2, DetectInv DEF h
  <2>2. VotesKept
    <3>1. vote[h][t] = "none"
      BY Zenon, <1>0, <1>2 DEF Detect, h, ProtocolInv, ReadersOK, ReaderAt
    <3>2. PICK v : vote' = [vote EXCEPT ![h][t] = v]
      BY Zenon, <1>2 DEF Detect, h
    <3> QED
      BY Zenon, <1>0, <3>1, <3>2, FirstVote
  <2>3. CallsJustified
    <3>1. CASE /\ call' = [call EXCEPT ![t] = "conflict"]
               /\ vote' = [vote EXCEPT ![h][t] = "CONFLICT"]
      <4>1. Opposed(t)'
        <5>1. vote'[h][t] = "CONFLICT"
          BY Zenon, <1>0, <3>1 DEF TypeOK, HostTypes
        <5> QED
          BY Zenon, <1>0, <5>1, VoteNames DEF Opposed
      <4>2. \A u \in Tids : call'[u] = IF u = t THEN "conflict" ELSE call[u]
        BY Zenon, <1>0, <3>1 DEF TypeOK, CallTypes
      <4> QED
        BY Zenon, <4>1, <4>2 DEF CallsJustified
    <3>2. CASE UNCHANGED call
      BY Zenon, <3>2 DEF CallsJustified
    <3> QED
      BY Zenon, <1>2, <3>1, <3>2 DEF Detect, h
  <2>4. MirrorsJustified
    <3>1. PICK l \in {"return", "send"} : GoTo(h, t, l)
      BY Zenon, <1>2 DEF Detect, h
    <3>2. \A g \in Peers, u \in Tids :
            pc'[g][u] = IF g = h /\ u = t THEN l ELSE pc[g][u]
      BY <1>0, <3>1, GoToAt
    <3> QED
      BY Zenon, <3>2 DEF MirrorsJustified
  <2>5. EndsJustified
    BY Zenon, <1>2 DEF Detect, endVars, EndsJustified
  <2> QED
    BY Zenon, <1>0, <2>1, <2>2, <2>3, <2>4, <2>5, Justified
<1>3. CASE SendRequest(t)
  <2>1. ProtocolInv'
    <3>1. PICK errs \in SUBSET Others(h), arrive \in SUBSET Others(h) :
            /\ Broadcast(h, t, "request", errs, arrive)
            /\ call' = [call EXCEPT ![t] = "senderr"] \/ UNCHANGED call
            /\ GoTo(h, t, "return") \/ GoTo(h, t, "await")
      BY Zenon, <1>3 DEF SendRequest, h
    <3>2. \A m \in net' : m \in net \/ /\ m.tid = t /\ m.from = h /\ m.to # h
                                         /\ m.body = "request"
      BY <3>1 DEF Broadcast, Others
    <3>3. pc[h][t] = "send" /\ call[t] # "none"
      BY Zenon, <1>0, <1>3 DEF SendRequest, h, ProtocolInv, ReadersOK, ReaderAt, ReplicatePC
    <3>4. SameCalls
      BY Zenon, <1>0, <3>1, <3>3 DEF SameCalls, TypeOK, CallTypes
    <3>5. UNCHANGED <<ts, responses, got, ours, heard, notifying, vote>>
      BY Zenon, <1>3 DEF SendRequest, tableVars
    <3>6. CASE GoTo(h, t, "return")
      <4>1. SendMove(h, t, "request", "return")
        BY Zenon, <3>3 DEF SendMove
      <4> QED
        BY <1>0, <3>2, <3>4, <3>5, <3>6, <4>1, SendInv
    <3>7. CASE GoTo(h, t, "await")
      <4>1. SendMove(h, t, "request", "await")
        BY Zenon, <3>3 DEF SendMove
      <4> QED
        BY <1>0, <3>2, <3>4, <3>5, <3>7, <4>1, SendInv
    <3> QED
      BY Zenon, <3>1, <3>6, <3>7
  <2>2. VotesKept
    BY Zenon, <1>3, SameVotes DEF SendRequest
  <2>3. CallsJustified
    <3>1. \A u \in Tids : call'[u] = call[u] \/ call'[u] = "senderr"
      BY Zenon, <1>0, <1>3 DEF SendRequest, TypeOK, CallTypes
    <3> QED
      BY Zenon, <3>1 DEF CallsJustified
  <2>4. MirrorsJustified
    <3>1. PICK l \in {"return", "await"} : GoTo(h, t, l)
      BY Zenon, <1>3 DEF SendRequest, h
    <3>2. \A g \in Peers, u \in Tids :
            pc'[g][u] = IF g = h /\ u = t THEN l ELSE pc[g][u]
      BY <1>0, <3>1, GoToAt
    <3> QED
      BY Zenon, <3>2 DEF MirrorsJustified
  <2>5. EndsJustified
    BY Zenon, <1>3 DEF SendRequest, endVars, EndsJustified
  <2> QED
    BY Zenon, <1>0, <2>1, <2>2, <2>3, <2>4, <2>5, Justified
<1>4. CASE SendRequestPeerIsDown(t)
  <2>1. ProtocolInv'
    <3>1. pc[h][t] = "send" /\ call[t] # "none"
      BY Zenon, <1>0, <1>4
         DEF SendRequestPeerIsDown, h, ProtocolInv, ReadersOK, ReaderAt, ReplicatePC
    <3>2. SameCalls
      BY Zenon, <1>0, <1>4, <3>1 DEF SendRequestPeerIsDown, SameCalls, TypeOK, CallTypes
    <3>3. UNCHANGED <<ts, responses, got, ours, heard, net, notifying, vote>>
      BY Zenon, <1>4 DEF SendRequestPeerIsDown, tableVars
    <3>4. GoTo(h, t, "return") /\ SendMove(h, t, "request", "return")
      BY Zenon, <1>4, <3>1 DEF SendRequestPeerIsDown, h, SendMove
    <3> QED
      BY Zenon, <1>0, <3>2, <3>3, <3>4, SendInv
  <2>2. VotesKept
    BY Zenon, <1>4, SameVotes DEF SendRequestPeerIsDown
  <2>3. CallsJustified
    <3>1. \A u \in Tids : call'[u] = IF u = t THEN "peerdown" ELSE call[u]
      BY Zenon, <1>0, <1>4 DEF SendRequestPeerIsDown, TypeOK, CallTypes
    <3> QED
      BY Zenon, <3>1 DEF CallsJustified
  <2>4. MirrorsJustified
    <3>1. \A g \in Peers, u \in Tids :
            pc'[g][u] = IF g = h /\ u = t THEN "return" ELSE pc[g][u]
      BY <1>0, <1>4, GoToAt DEF SendRequestPeerIsDown, h
    <3> QED
      BY Zenon, <3>1 DEF MirrorsJustified
  <2>5. EndsJustified
    BY Zenon, <1>4 DEF SendRequestPeerIsDown, endVars, EndsJustified
  <2> QED
    BY Zenon, <1>0, <2>1, <2>2, <2>3, <2>4, <2>5, Justified
<1>5. CASE AwaitTimeout(t)
  <2>1. ProtocolInv'
    <3>1. pc[h][t] = "await" /\ call[t] # "none"
      BY Zenon, <1>0, <1>5 DEF AwaitTimeout, h, ProtocolInv, ReadersOK, ReaderAt, ReplicatePC
    <3>2. SameCalls
      BY Zenon, <1>0, <1>5, <3>1 DEF AwaitTimeout, SameCalls, TypeOK, CallTypes
    <3>3. UNCHANGED <<ts, responses, got, ours, heard, net, notifying, vote>>
      BY Zenon, <1>5 DEF AwaitTimeout, tableVars
    <3>4. GoTo(h, t, "return") /\ LateMove(h, t, "return")
      BY Zenon, <1>5, <3>1 DEF AwaitTimeout, h, LateMove
    <3> QED
      BY Zenon, <1>0, <3>2, <3>3, <3>4, MoveInv
  <2>2. VotesKept
    BY Zenon, <1>5, SameVotes DEF AwaitTimeout
  <2>3. CallsJustified
    <3>1. \A u \in Tids : call'[u] = IF u = t THEN "timeout" ELSE call[u]
      BY Zenon, <1>0, <1>5 DEF AwaitTimeout, TypeOK, CallTypes
    <3> QED
      BY Zenon, <3>1 DEF CallsJustified
  <2>4. MirrorsJustified
    <3>1. \A g \in Peers, u \in Tids :
            pc'[g][u] = IF g = h /\ u = t THEN "return" ELSE pc[g][u]
      BY <1>0, <1>5, GoToAt DEF AwaitTimeout, h
    <3> QED
      BY Zenon, <3>1 DEF MirrorsJustified
  <2>5. EndsJustified
    BY Zenon, <1>5 DEF AwaitTimeout, endVars, EndsJustified
  <2> QED
    BY Zenon, <1>0, <2>1, <2>2, <2>3, <2>4, <2>5, Justified
<1>6. CASE ProcessResponses(t)
  <2>1. ProtocolInv'
    <3>1. pc[h][t] = "await" /\ call[t] # "none"
      BY Zenon, <1>0, <1>6 DEF ProcessResponses, h, ProtocolInv, ReadersOK, ReaderAt, ReplicatePC
    <3>2. SameCalls
      BY Zenon, <1>0, <1>6, <3>1 DEF ProcessResponses, SameCalls, TypeOK, CallTypes
    <3>3. UNCHANGED <<ts, responses, got, ours, heard, net, notifying, vote>>
      BY Zenon, <1>6 DEF ProcessResponses, tableVars
    <3>4. GoTo(h, t, "return") /\ LateMove(h, t, "return")
      BY Zenon, <1>6, <3>1 DEF ProcessResponses, h, LateMove
    <3> QED
      BY Zenon, <1>0, <3>2, <3>3, <3>4, MoveInv
  <2>2. VotesKept
    BY Zenon, <1>6, SameVotes DEF ProcessResponses
  <2>3. CallsJustified
    <3>1. /\ call'[t] = "ok" => Unanimous(t)
          /\ call'[t] # "conflict"
          /\ call'[t] = "notpermitted" => Opposed(t)
      BY Zenon, <1>0, <1>6, ProcessResponsesDecides DEF h
    <3>2. \A u \in Tids : u # t => call'[u] = call[u]
      BY Zenon, <1>0, <1>6 DEF ProcessResponses, TypeOK, CallTypes
    <3> QED
      BY Zenon, <2>2, <3>1, <3>2 DEF CallsJustified, VotesKept
  <2>4. MirrorsJustified
    <3>1. \A g \in Peers, u \in Tids :
            pc'[g][u] = IF g = h /\ u = t THEN "return" ELSE pc[g][u]
      BY <1>0, <1>6, GoToAt DEF ProcessResponses, h
    <3> QED
      BY Zenon, <3>1 DEF MirrorsJustified
  <2>5. EndsJustified
    BY Zenon, <1>6 DEF ProcessResponses, endVars, EndsJustified
  <2> QED
    BY Zenon, <1>0, <2>1, <2>2, <2>3, <2>4, <2>5, Justified
<1>7. CASE Return(t)
  <2>1. ProtocolInv'
    <3>1. pc[h][t] = "return" /\ Delete(h, t) /\ UNCHANGED <<call, net, notifying, vote>>
      BY Zenon, <1>7 DEF Return, h, callVars
    <3> QED
      BY Zenon, <1>0, <3>1, DeleteInv
  <2>2. VotesKept
    BY Zenon, <1>7, SameVotes DEF Return
  <2>3. CallsJustified
    BY Zenon, <1>7 DEF Return, callVars, CallsJustified
  <2>4. MirrorsJustified
    <3>1. \A g \in Peers, u \in Tids : pc'[g][u] \in {"idle", pc[g][u]}
      BY <1>0, <1>7, DeleteAt DEF Return, h
    <3> QED
      BY Zenon, <3>1 DEF MirrorsJustified
  <2>5. EndsJustified
    <3>1. CASE call[t] = "ok" /\ UNCHANGED verdict
      BY Zenon, <3>1 DEF EndsJustified
    <3>2. CASE call[t] \in {"conflict", "notpermitted"} /\ End(h, t, "rejected")
      <4>1. Opposed(t)'
        BY Zenon, <1>0, <2>2, <3>2 DEF DecisionsOK, VotesKept
      <4>2. \A g \in Peers, u \in Tids :
              verdict'[g][u] = verdict[g][u] \/ (u = t /\ verdict'[g][u] = "rejected")
        BY <1>0, <3>2, EndAt
      <4> QED
        BY Zenon, <4>1, <4>2 DEF EndsJustified
    <3>3. CASE End(h, t, "failed")
      <4>1. \A g \in Peers, u \in Tids :
              verdict'[g][u] = verdict[g][u] \/ verdict'[g][u] = "failed"
        BY <1>0, <3>3, EndAt
      <4> QED
        BY Zenon, <4>1 DEF EndsJustified
    <3> QED
      BY Zenon, <1>7, <3>1, <3>2, <3>3 DEF Return, h
  <2> QED
    BY Zenon, <1>0, <2>1, <2>2, <2>3, <2>4, <2>5, Justified
<1>8. CASE LocalApply(t)
  <2>1. ProtocolInv'
    <3>1. UNCHANGED <<ts, responses, readerVars, net, notifying, vote, call>>
      BY Zenon, <1>8 DEF LocalApply, tableVars, callVars
    <3> QED
      BY Zenon, <1>0, <3>1, FrameInv DEF SameCalls
  <2>2. VotesKept
    BY Zenon, <1>8, SameVotes DEF LocalApply
  <2>3. CallsJustified
    BY Zenon, <1>8 DEF LocalApply, callVars, CallsJustified
  <2>4. MirrorsJustified
    BY Zenon, <1>8 DEF LocalApply, readerVars, MirrorsJustified
  <2>5. EndsJustified
    <3>1. Unanimous(t)'
      BY Zenon, <1>0, <1>8, <2>2 DEF LocalApply, DecisionsOK, VotesKept
    <3>2. \A g \in Peers, u \in Tids :
            \/ verdict'[g][u] = verdict[g][u] \/ verdict'[g][u] = "failed"
            \/ u = t /\ verdict'[g][u] = "applied"
      BY <1>0, <1>8, EndAt DEF LocalApply, h
    <3> QED
      BY Zenon, <3>1, <3>2 DEF EndsJustified
  <2> QED
    BY Zenon, <1>0, <2>1, <2>2, <2>3, <2>4, <2>5, Justified
<1> QED
  BY Zenon, <1>1, <1>2, <1>3, <1>4, <1>5, <1>6, <1>7, <1>8 DEF ReplicateStep

\* So does every step of a handler.
LEMMA HandlerSteps ==
  ASSUME IInv, TypeOK', NEW h \in Peers, NEW t \in Tids, HandlerStep(h, t)
  PROVE  IInv'
<1>0. TypeOK /\ ProtocolInv /\ DecisionsOK
  BY Zenon DEF IInv, ProtocolInv
<1> SUFFICES ProtocolInv' /\ DecisionsOK'
  BY Zenon DEF IInv, ProtocolInv
<1>1. CASE Consult(h, t)
  <2>1. ProtocolInv'
    BY Zenon, <1>0, <1>1, ConsultInv
  <2>2. VotesKept
    <3>1. vote[h][t] = "none"
      BY Zenon, <1>0, <1>1 DEF Consult, ProtocolInv, ReadersOK, ReaderAt
    <3>2. PICK v : vote' = [vote EXCEPT ![h][t] = v]
      BY Zenon, <1>1 DEF Consult
    <3> QED
      BY Zenon, <1>0, <3>1, <3>2, FirstVote
  <2>3. CallsJustified
    BY Zenon, <1>1 DEF Consult, callVars, CallsJustified
  <2>4. MirrorsJustified
    <3>1. \A g \in Peers, u \in Tids :
            pc'[g][u] = IF g = h /\ u = t THEN "respond" ELSE pc[g][u]
      BY <1>0, <1>1, GoToAt DEF Consult
    <3> QED
      BY Zenon, <3>1 DEF MirrorsJustified
  <2>5. EndsJustified
    BY Zenon, <1>1 DEF Consult, endVars, EndsJustified
  <2> QED
    BY Zenon, <1>0, <2>1, <2>2, <2>3, <2>4, <2>5, Justified
<1>2. CASE Respond(h, t)
  <2>1. ProtocolInv'
    <3>1. \A m \in net' : m \in net \/ /\ m.tid = t /\ m.from = h /\ m.to # h
                                         /\ m.body = ours[h][t]
      <4>1. CASE \E errs, arrive \in SUBSET Others(h) :
                   Broadcast(h, t, ours[h][t], errs, arrive)
        BY <4>1 DEF Broadcast, Others
      <4>2. CASE UNCHANGED net
        BY Zenon, <4>2
      <4> QED
        BY Zenon, <1>2, <4>1, <4>2 DEF Respond
    <3>2. UNCHANGED <<ts, responses, got, ours, heard, call, notifying, vote>>
      BY Zenon, <1>2 DEF Respond, tableVars, callVars
    <3>3. GoTo(h, t, "gather") /\ SendMove(h, t, ours[h][t], "gather")
      BY Zenon, <1>2 DEF Respond, SendMove
    <3>4. SameCalls
      BY Zenon, <3>2 DEF SameCalls
    <3> QED
      BY ZenonT(30), <1>0, <3>1, <3>2, <3>3, <3>4, SendInv
  <2>2. VotesKept
    BY Zenon, <1>2, SameVotes DEF Respond
  <2>3. CallsJustified
    BY Zenon, <1>2 DEF Respond, callVars, CallsJustified
  <2>4. MirrorsJustified
    <3>1. \A g \in Peers, u \in Tids :
            pc'[g][u] = IF g = h /\ u = t THEN "gather" ELSE pc[g][u]
      BY <1>0, <1>2, GoToAt DEF Respond
    <3> QED
      BY Zenon, <3>1 DEF MirrorsJustified
  <2>5. EndsJustified
    BY Zenon, <1>2 DEF Respond, endVars, EndsJustified
  <2> QED
    BY Zenon, <1>0, <2>1, <2>2, <2>3, <2>4, <2>5, Justified
<1>3. CASE GatherTimeout(h, t)
  <2>1. ProtocolInv'
    <3>1. UNCHANGED <<ts, responses, got, ours, heard, call, net, notifying, vote>>
      BY Zenon, <1>3 DEF GatherTimeout, tableVars, callVars
    <3>2. GoTo(h, t, "exiterr") /\ LateMove(h, t, "exiterr")
      BY Zenon, <1>3 DEF GatherTimeout, LateMove
    <3>3. SameCalls
      BY Zenon, <3>1 DEF SameCalls
    <3> QED
      BY Zenon, <1>0, <3>1, <3>2, <3>3, MoveInv
  <2>2. VotesKept
    BY Zenon, <1>3, SameVotes DEF GatherTimeout
  <2>3. CallsJustified
    BY Zenon, <1>3 DEF GatherTimeout, callVars, CallsJustified
  <2>4. MirrorsJustified
    <3>1. \A g \in Peers, u \in Tids :
            pc'[g][u] = IF g = h /\ u = t THEN "exiterr" ELSE pc[g][u]
      BY <1>0, <1>3, GoToAt DEF GatherTimeout
    <3> QED
      BY Zenon, <3>1 DEF MirrorsJustified
  <2>5. EndsJustified
    <3>1. \A g \in Peers, u \in Tids :
            verdict'[g][u] = verdict[g][u] \/ verdict'[g][u] = "failed"
      BY <1>0, <1>3, EndAt DEF GatherTimeout
    <3> QED
      BY Zenon, <3>1 DEF EndsJustified
  <2> QED
    BY Zenon, <1>0, <2>1, <2>2, <2>3, <2>4, <2>5, Justified
<1>4. CASE Decide(h, t)
  <2>1. ProtocolInv'
    <3>1. UNCHANGED <<ts, responses, got, ours, heard, call, net, notifying, vote>>
      BY Zenon, <1>4 DEF Decide, tableVars, callVars
    <3>2. PICK l \in {"mirror", "exiterr"} : GoTo(h, t, l)
      BY Zenon, <1>4 DEF Decide
    <3>3. SameCalls /\ LateMove(h, t, l)
      BY Zenon, <1>4, <3>1 DEF SameCalls, Decide, LateMove
    <3> QED
      BY Zenon, <1>0, <3>1, <3>2, <3>3, MoveInv
  <2>2. VotesKept
    BY Zenon, <1>4, SameVotes DEF Decide
  <2>3. CallsJustified
    BY Zenon, <1>4 DEF Decide, callVars, CallsJustified
  <2>4. MirrorsJustified
    <3>1. CASE GoTo(h, t, "mirror") /\ Unanimous(t)
      <4>1. \A g \in Peers, u \in Tids :
              pc'[g][u] = IF g = h /\ u = t THEN "mirror" ELSE pc[g][u]
        BY <1>0, <3>1, GoToAt
      <4> QED
        BY Zenon, <2>2, <3>1, <4>1 DEF MirrorsJustified, VotesKept
    <3>2. CASE GoTo(h, t, "exiterr")
      <4>1. \A g \in Peers, u \in Tids :
              pc'[g][u] = IF g = h /\ u = t THEN "exiterr" ELSE pc[g][u]
        BY <1>0, <3>2, GoToAt
      <4> QED
        BY Zenon, <4>1 DEF MirrorsJustified
    <3> QED
      BY Zenon, <1>0, <1>4, <3>1, <3>2, DecideDecides DEF Decide
  <2>5. EndsJustified
    <3>1. CASE UNCHANGED verdict
      BY Zenon, <3>1 DEF EndsJustified
    <3>2. CASE End(h, t, "rejected") /\ Opposed(t)
      <4>1. \A g \in Peers, u \in Tids :
              verdict'[g][u] = verdict[g][u] \/ (u = t /\ verdict'[g][u] = "rejected")
        BY <1>0, <3>2, EndAt
      <4> QED
        BY Zenon, <2>2, <3>2, <4>1 DEF EndsJustified, VotesKept
    <3> QED
      BY Zenon, <1>0, <1>4, <3>1, <3>2, DecideDecides DEF Decide
  <2> QED
    BY Zenon, <1>0, <2>1, <2>2, <2>3, <2>4, <2>5, Justified
<1>5. CASE Mirror(h, t)
  <2>1. ProtocolInv'
    <3>1. UNCHANGED <<ts, responses, got, ours, heard, call, net, notifying, vote>>
      BY Zenon, <1>5 DEF Mirror, tableVars, callVars
    <3>2. SameCalls
      BY Zenon, <3>1 DEF SameCalls
    <3>3. CASE UNCHANGED pc
      BY Zenon, <1>0, <3>1, <3>2, <3>3, FrameInv DEF readerVars
    <3>4. ASSUME NEW l \in {"exit", "exiterr"}, GoTo(h, t, l) PROVE ProtocolInv'
      <4>1. LateMove(h, t, l)
        BY Zenon, <1>5, <3>4 DEF Mirror, LateMove
      <4> QED
        BY Zenon, <1>0, <3>1, <3>2, <3>4, <4>1, MoveInv
    <3> QED
      BY Zenon, <1>5, <3>3, <3>4 DEF Mirror
  <2>2. VotesKept
    BY Zenon, <1>5, SameVotes DEF Mirror
  <2>3. CallsJustified
    BY Zenon, <1>5 DEF Mirror, callVars, CallsJustified
  <2>4. MirrorsJustified
    <3>1. CASE UNCHANGED pc
      BY Zenon, <3>1 DEF MirrorsJustified
    <3>2. ASSUME NEW l \in {"exit", "exiterr"}, GoTo(h, t, l) PROVE MirrorsJustified
      <4>1. \A g \in Peers, u \in Tids :
              pc'[g][u] = IF g = h /\ u = t THEN l ELSE pc[g][u]
        BY <1>0, <3>2, GoToAt
      <4> QED
        BY Zenon, <4>1 DEF MirrorsJustified
    <3> QED
      BY Zenon, <1>5, <3>1, <3>2 DEF Mirror
  <2>5. EndsJustified
    <3>1. Unanimous(t)'
      BY Zenon, <1>0, <1>5, <2>2 DEF Mirror, DecisionsOK, VotesKept
    <3>2. \A g \in Peers, u \in Tids :
            \/ verdict'[g][u] = verdict[g][u] \/ verdict'[g][u] = "failed"
            \/ u = t /\ verdict'[g][u] = "applied"
      BY <1>0, <1>5, EndAt DEF Mirror
    <3> QED
      BY Zenon, <3>1, <3>2 DEF EndsJustified
  <2> QED
    BY Zenon, <1>0, <2>1, <2>2, <2>3, <2>4, <2>5, Justified
<1>6. CASE Exit(h, t)
  <2>1. ProtocolInv'
    <3>1. /\ pc[h][t] \in {"exit", "exiterr"} /\ Delete(h, t)
          /\ UNCHANGED <<call, notifying, vote>>
      BY Zenon, <1>6 DEF Exit, callVars
    <3>2. net' \subseteq net
      BY Zenon, <1>6 DEF Exit
    <3> QED
      BY Zenon, <1>0, <3>1, <3>2, DeleteInv
  <2>2. VotesKept
    BY Zenon, <1>6, SameVotes DEF Exit
  <2>3. CallsJustified
    BY Zenon, <1>6 DEF Exit, callVars, CallsJustified
  <2>4. MirrorsJustified
    <3>1. \A g \in Peers, u \in Tids : pc'[g][u] \in {"idle", pc[g][u]}
      BY <1>0, <1>6, DeleteAt DEF Exit
    <3> QED
      BY Zenon, <3>1 DEF MirrorsJustified
  <2>5. EndsJustified
    BY Zenon, <1>6 DEF Exit, endVars, EndsJustified
  <2> QED
    BY Zenon, <1>0, <2>1, <2>2, <2>3, <2>4, <2>5, Justified
<1> QED
  BY Zenon, <1>1, <1>2, <1>3, <1>4, <1>5, <1>6 DEF HandlerStep

\* So do the steps of the listeners, the loss of a message and a crash.
LEMMA ListenerSteps ==
  ASSUME IInv, TypeOK', NEW h \in Peers, ListenerStep(h)
  PROVE  IInv'
<1>0. TypeOK /\ ProtocolInv /\ DecisionsOK
  BY Zenon DEF IInv, ProtocolInv
<1> SUFFICES ProtocolInv' /\ DecisionsOK'
  BY Zenon DEF IInv, ProtocolInv
<1>1. ASSUME NEW m \in net, Listen(h, m) PROVE ProtocolInv' /\ DecisionsOK'
  <2>1. m.tid \in Tids
    BY Zenon, <1>0, MessageFields DEF TypeOK, NetTypes
  <2>2. ProtocolInv'
    BY Zenon, <1>0, <1>1, <2>1, ListenInv
  <2>3. MirrorsJustified
    <3>1. CASE UNCHANGED pc
      BY Zenon, <3>1 DEF MirrorsJustified
    <3>2. CASE GoTo(h, m.tid, "gather")
      <4>1. \A g \in Peers, u \in Tids :
              pc'[g][u] = IF g = h /\ u = m.tid THEN "gather" ELSE pc[g][u]
        BY <1>0, <2>1, <3>2, GoToAt
      <4> QED
        BY Zenon, <4>1 DEF MirrorsJustified
    <3> QED
      BY Zenon, <1>1, <3>1, <3>2 DEF Listen
  <2>4. VotesKept /\ CallsJustified /\ EndsJustified
    BY Zenon, <1>1, SameVotes DEF Listen, callVars, endVars, CallsJustified, EndsJustified
  <2> QED
    BY Zenon, <1>0, <2>2, <2>3, <2>4, Justified
<1>2. ASSUME NEW m \in notifying[h], Notify(h, m) PROVE ProtocolInv' /\ DecisionsOK'
  <2>1. m.tid \in Tids
    BY Zenon, <1>0, HeldMessages
  <2>2. ProtocolInv'
    BY Zenon, <1>0, <1>2, <2>1, NotifyInv
  <2>3. MirrorsJustified
    <3>1. CASE UNCHANGED pc
      BY Zenon, <3>1 DEF MirrorsJustified
    <3>2. CASE GoTo(h, m.tid, "consult")
      <4>1. \A g \in Peers, u \in Tids :
              pc'[g][u] = IF g = h /\ u = m.tid THEN "consult" ELSE pc[g][u]
        BY <1>0, <2>1, <3>2, GoToAt
      <4> QED
        BY Zenon, <4>1 DEF MirrorsJustified
    <3> QED
      BY Zenon, <1>2, <3>1, <3>2 DEF Notify
  <2>4. VotesKept /\ CallsJustified /\ EndsJustified
    BY Zenon, <1>2, SameVotes DEF Notify, callVars, endVars, CallsJustified, EndsJustified
  <2> QED
    BY Zenon, <1>0, <2>2, <2>3, <2>4, Justified
<1> QED
  BY Zenon, <1>1, <1>2 DEF ListenerStep

\* The loss of a message and a crash keep the invariant.
LEMMA QuietSteps ==
  ASSUME IInv, TypeOK',
         (\E m \in net : Lose(m)) \/ (\E h \in Peers : Crash(h)) \/ UNCHANGED vars
  PROVE  IInv'
<1>0. TypeOK /\ ProtocolInv /\ DecisionsOK
  BY Zenon DEF IInv, ProtocolInv
<1>1. /\ net' \subseteq net
      /\ UNCHANGED <<ts, responses, readerVars, notifying, vote, call, verdict>>
  BY Zenon DEF Lose, Crash, vars, tableVars, callVars, endVars
<1>2. ProtocolInv'
  BY Zenon, <1>0, <1>1, FrameInv DEF SameCalls
<1>3. VotesKept /\ CallsJustified /\ MirrorsJustified /\ EndsJustified
  BY Zenon, <1>1, SameVotes DEF readerVars, CallsJustified, MirrorsJustified, EndsJustified
<1> QED
  BY Zenon, <1>0, <1>2, <1>3, Justified DEF IInv, ProtocolInv

-----------------------------------------------------------------------------
\* The invariant holds when all peers start with empty tables.
LEMMA InitIInv == Init => IInv
<1> SUFFICES ASSUME Init PROVE IInv
  OBVIOUS
<1>1. TypeOK
  BY Zenon, InitType
<1>2. /\ \A h \in Peers, t \in Tids :
           /\ pc[h][t] = "idle" /\ vote[h][t] = "none" /\ verdict[h][t] = "none"
           /\ got[h][t] = 0 /\ ours[h][t] = "ACK"
           /\ heard[h][t] = {} /\ responses[h][t] = {}
      /\ \A h \in Peers : ts[h] = {} /\ notifying[h] = {}
      /\ \A t \in Tids : call[t] = "none"
      /\ net = {}
  BY Zenon DEF Init
<1>3. ReadersOK
  BY <1>2 DEF ReadersOK, ReaderAt, ReplicatePC
<1>4. SecretsOK
  BY ZenonT(30), <1>2, TidsAssumption DEF SecretsOK, SecretAt, Others
<1>5. ListenersOK /\ MessagesOK
  BY Zenon, <1>2, MessageFields DEF ListenersOK, MessagesOK, Pending
<1>6. GatheredOK
  <2>1. Cardinality({}) = 0
    BY Zenon, FS_EmptySet
  <2> SUFFICES ASSUME NEW h \in Peers, NEW t \in Tids PROVE GatheredAt(h, t)
    BY Zenon DEF GatheredOK
  <2>2. heard[h][t] = {} /\ responses[h][t] = {}
    BY Zenon, <1>2
  <2>3. got[h][t] = 0 /\ ours[h][t] = "ACK" /\ pc[h][t] = "idle"
    BY Zenon, <1>2
  <2>4. got[h][t] = Cardinality(heard[h][t])
    BY Zenon, <2>1, <2>2, <2>3
  <2> QED
    BY Zenon, <2>2, <2>3, <2>4 DEF GatheredAt
<1>7. DecisionsOK
  BY Zenon, <1>2 DEF DecisionsOK
<1> QED
  BY Zenon, <1>1, <1>3, <1>4, <1>5, <1>6, <1>7 DEF IInv

\* Every step of the protocol keeps the invariant.
LEMMA NextIInv == IInv /\ [Next]_vars => IInv'
<1> SUFFICES ASSUME IInv, [Next]_vars PROVE IInv'
  OBVIOUS
<1>1. TypeOK'
  BY Zenon, TypeStep DEF IInv
<1> QED
  BY Zenon, <1>1, ReplicateSteps, HandlerSteps, ListenerSteps, QuietSteps DEF Next

\* IInv holds in every state: messages tell the votes of their senders, a vote
\* is cast once, a reader takes one message of each peer, and what was decided
\* follows from the votes.
THEOREM InvariantHolds == Spec => []IInv
<1> QED
  BY InitIInv, NextIInv, PTL DEF Spec

\* Every operation that reached a directory had the ACK of every peer, for any
\* number of peers, concurrent transactions, send errors, lost messages,
\* timeouts and crashes.
THEOREM UnanimityHolds == Spec => []Unanimity
<1>1. IInv => Unanimity
  BY Zenon DEF IInv, DecisionsOK, Unanimous, Unanimity
<1> QED
  BY <1>1, InvariantHolds, PTL

\* No peer rejects what another one applied.
THEOREM VerdictsAgreeHolds == Spec => []VerdictsAgree
<1>1. IInv => VerdictsAgree
  BY Zenon, VoteNames DEF IInv, DecisionsOK, Unanimous, Opposed, VerdictsAgree
<1> QED
  BY <1>1, InvariantHolds, PTL

-----------------------------------------------------------------------------
(* The protocol is an open ballot *)

Opened == {t \in Tids : call[t] # "none"}

BallotStep == [Ballot!BallotNext]_(Ballot!ballotVars)

\* A step that leaves the calls alone opens no proposal.
LEMMA OpenedKept == SameCalls => Opened' = Opened
BY Zenon DEF SameCalls, Opened

\* Steps that neither open a transaction, nor vote, nor end anything.
LEMMA StutterStep ==
  ASSUME SameCalls, UNCHANGED <<vote, verdict>>
  PROVE  BallotStep
BY Zenon, OpenedKept DEF BallotStep, Opened, Ballot!ballotVars

\* A first vote of a peer is a vote of the ballot.
LEMMA CastStep ==
  ASSUME SameCalls, UNCHANGED verdict, NEW h \in Peers, NEW t \in Tids, NEW v \in Votes,
         call[t] # "none", vote[h][t] = "none", vote' = [vote EXCEPT ![h][t] = v]
  PROVE  BallotStep
<1>1. v \in {"ACK"} \cup Ballot!BallotNacks
  BY Zenon DEF Votes, Nacks, Ballot!BallotNacks
<1>2. Ballot!Cast(h, t, v)
  BY Zenon, OpenedKept DEF Ballot!Cast, Opened
<1> QED
  BY Zenon, <1>1, <1>2 DEF BallotStep, Ballot!BallotNext

\* The end of a transaction at a peer is an end in the ballot, or the repeated
\* end of a transaction that came back.
LEMMA ConcludeStep ==
  ASSUME TypeOK, SameCalls, UNCHANGED vote, NEW h \in Peers, NEW t \in Tids,
         NEW v \in {"applied", "rejected", "failed"}, call[t] # "none", End(h, t, v),
         v = "applied" => Unanimous(t), v = "rejected" => Opposed(t)
  PROVE  BallotStep
<1>1. CASE verdict[h][t] = "none"
  <2>1. verdict' = [verdict EXCEPT ![h][t] = v]
    BY Zenon, <1>1 DEF End
  <2>2. v = "applied" => \A q \in Peers : vote[q][t] = "ACK"
    BY Zenon DEF Unanimous
  <2>3. v = "rejected" => \E q \in Peers : vote[q][t] \in Ballot!BallotNacks
    BY Zenon DEF Opposed, Nacks, Ballot!BallotNacks
  <2>4. Ballot!Conclude(h, t, v)
    BY Zenon, <1>1, <2>1, <2>2, <2>3, OpenedKept DEF Ballot!Conclude, Opened
  <2> QED
    BY Zenon, <2>4 DEF BallotStep, Ballot!BallotNext
<1>2. CASE verdict[h][t] # "none"
  <2>1. verdict' = verdict
    BY Zenon, <1>2 DEF End, TypeOK, EndTypes
  <2> QED
    BY Zenon, <2>1, StutterStep
<1> QED
  BY Zenon, <1>1, <1>2

\* A transaction that a reader works on was called.
LEMMA ReadIsCalled ==
  ASSUME IInv, NEW h \in Peers, NEW t \in Tids, pc[h][t] # "idle"
  PROVE  call[t] # "none"
BY Zenon DEF IInv, SecretsOK, SecretAt

\* The steps of a caller of Replicate are steps of the ballot.
LEMMA BallotReplicate ==
  ASSUME IInv, NEW t \in Tids, Replicate(t) \/ ReplicateStep(t)
  PROVE  BallotStep
<1> DEFINE h == Initiator[t]
<1>0. h \in Peers /\ TypeOK
  BY Zenon, TidsAssumption DEF IInv
<1>1. CASE Replicate(t)
  <2>1. Opened' = Opened \cup {t} /\ t \notin Opened
    BY Zenon, <1>0, <1>1 DEF Replicate, Opened, TypeOK, CallTypes
  <2>2. Ballot!Propose(t)
    BY Zenon, <1>1, <2>1 DEF Ballot!Propose, Opened, Replicate, endVars
  <2> QED
    BY Zenon, <2>2 DEF BallotStep, Ballot!BallotNext
<1>2. CASE Detect(t)
  <2>1. pc[h][t] = "detect" /\ vote[h][t] = "none" /\ call[t] # "none"
    BY SMTT(30), <1>0, <1>2, ReadIsCalled DEF Detect, IInv, ReadersOK, ReaderAt
  <2>2. SameCalls /\ UNCHANGED verdict
    BY Zenon, <1>0, <1>2, <2>1 DEF Detect, SameCalls, TypeOK, CallTypes, endVars
  <2>3. PICK v \in Votes : vote' = [vote EXCEPT ![h][t] = v]
    BY Zenon, <1>2, VotesType DEF Detect
  <2> QED
    BY Zenon, <1>0, <2>1, <2>2, <2>3, CastStep
<1>3. CASE SendRequest(t) \/ SendRequestPeerIsDown(t) \/ AwaitTimeout(t) \/ ProcessResponses(t)
  <2>1. call[t] # "none"
    BY Zenon, <1>0, <1>3, ReadIsCalled
       DEF SendRequest, SendRequestPeerIsDown, AwaitTimeout, ProcessResponses
  <2>2. /\ \A u \in Tids : u # t => call'[u] = call[u]
        /\ call'[t] # "none"
    BY Zenon, <1>0, <1>3, <2>1 DEF SendRequest, SendRequestPeerIsDown, AwaitTimeout,
       ProcessResponses, TypeOK, CallTypes
  <2>3. UNCHANGED <<vote, verdict>>
    BY Zenon, <1>3 DEF SendRequest, SendRequestPeerIsDown, AwaitTimeout, ProcessResponses, endVars
  <2> QED
    BY Zenon, <2>1, <2>2, <2>3, StutterStep DEF SameCalls
<1>4. CASE Return(t)
  <2>1. call[t] # "none" /\ SameCalls /\ UNCHANGED vote
    BY Zenon, <1>0, <1>4, ReadIsCalled DEF Return, SameCalls, callVars
  <2>2. CASE UNCHANGED verdict
    BY Zenon, <2>1, <2>2, StutterStep
  <2>3. CASE call[t] \in {"conflict", "notpermitted"} /\ End(h, t, "rejected")
    <3>1. Opposed(t)
      BY Zenon, <2>3 DEF IInv, DecisionsOK
    <3> QED
      BY Zenon, <1>0, <2>1, <2>3, <3>1, ConcludeStep
  <2>4. CASE End(h, t, "failed")
    BY Zenon, <1>0, <2>1, <2>4, ConcludeStep
  <2> QED
    BY Zenon, <1>4, <2>2, <2>3, <2>4 DEF Return
<1>5. CASE LocalApply(t)
  <2>1. call[t] = "ok" /\ SameCalls /\ UNCHANGED vote
    BY Zenon, <1>5 DEF LocalApply, SameCalls, callVars
  <2>2. Unanimous(t)
    BY Zenon, <2>1 DEF IInv, DecisionsOK
  <2>3. End(h, t, "applied") \/ End(h, t, "failed")
    BY Zenon, <1>5 DEF LocalApply
  <2> QED
    BY Zenon, <1>0, <2>1, <2>2, <2>3, ConcludeStep
<1> QED
  BY Zenon, <1>1, <1>2, <1>3, <1>4, <1>5 DEF ReplicateStep

\* The steps of a handler are steps of the ballot.
LEMMA BallotHandler ==
  ASSUME IInv, NEW h \in Peers, NEW t \in Tids, HandlerStep(h, t)
  PROVE  BallotStep
<1>0. TypeOK /\ ProtocolInv
  BY Zenon DEF IInv, ProtocolInv
<1>1. call[t] # "none" /\ UNCHANGED call
  BY Zenon, ReadIsCalled DEF HandlerStep, Consult, Respond, GatherTimeout, Decide, Mirror,
     Exit, callVars
<1>2. SameCalls
  BY Zenon, <1>1 DEF SameCalls
<1>3. CASE Consult(h, t)
  <2>1. vote[h][t] = "none" /\ UNCHANGED verdict
    BY Zenon, <1>3 DEF Consult, IInv, ReadersOK, ReaderAt, endVars
  <2>2. PICK v \in Votes : vote' = [vote EXCEPT ![h][t] = v]
    BY Zenon, <1>3, AnswersAssumption DEF Consult, Votes, Nacks
  <2> QED
    BY Zenon, <1>1, <1>2, <2>1, <2>2, CastStep
<1>4. CASE Respond(h, t) \/ Exit(h, t)
  <2>1. UNCHANGED <<vote, verdict>>
    BY Zenon, <1>4 DEF Respond, Exit, endVars
  <2> QED
    BY Zenon, <1>2, <2>1, StutterStep
<1>5. CASE GatherTimeout(h, t)
  <2>1. End(h, t, "failed") /\ UNCHANGED vote
    BY Zenon, <1>5 DEF GatherTimeout
  <2> QED
    BY Zenon, <1>0, <1>1, <1>2, <2>1, ConcludeStep
<1>6. CASE Decide(h, t)
  <2>1. UNCHANGED vote /\ (UNCHANGED verdict \/ (End(h, t, "rejected") /\ Opposed(t)))
    BY Zenon, <1>0, <1>6, DecideDecides DEF Decide
  <2> QED
    BY Zenon, <1>0, <1>1, <1>2, <2>1, ConcludeStep, StutterStep
<1>7. CASE Mirror(h, t)
  <2>1. Unanimous(t)
    BY Zenon, <1>7 DEF Mirror, IInv, DecisionsOK
  <2>2. /\ UNCHANGED vote
        /\ UNCHANGED verdict \/ End(h, t, "applied") \/ End(h, t, "failed")
    BY Zenon, <1>7 DEF Mirror
  <2> QED
    BY Zenon, <1>0, <1>1, <1>2, <2>1, <2>2, ConcludeStep, StutterStep
<1> QED
  BY Zenon, <1>3, <1>4, <1>5, <1>6, <1>7 DEF HandlerStep

\* The replication protocol implements the open ballot of
\* adr/shared_disk_emulation.md: votes are final, a peer applies only what all
\* voted for and rejects only what someone voted against.
THEOREM ProtocolIsBallot == Spec => ImplementsBallot
<1>1. Init => Ballot!BallotInit
  BY Zenon DEF Init, Ballot!BallotInit
<1>2. IInv /\ [Next]_vars => BallotStep
  <2> SUFFICES ASSUME IInv, [Next]_vars PROVE BallotStep
    OBVIOUS
  <2>1. CASE \/ \E h \in Peers : ListenerStep(h) \/ Crash(h)
             \/ \E m \in net : Lose(m)
             \/ UNCHANGED vars
    <3>1. UNCHANGED <<call, vote, verdict>>
      BY ZenonT(30), <2>1 DEF ListenerStep, Listen, Notify, Crash, Lose, vars, callVars, endVars
    <3> QED
      BY Zenon, <3>1, StutterStep DEF SameCalls
  <2> QED
    BY Zenon, <2>1, BallotReplicate, BallotHandler DEF Next
<1> QED
  BY <1>1, <1>2, InvariantHolds, PTL DEF Spec, ImplementsBallot, Ballot!BallotSpec, BallotStep

-----------------------------------------------------------------------------
(* Conflicting requests.                                                    *)

Called == {t \in Tids : call[t] # "none"}

\* u has the request that wins over all others for its path.
Winning(u) ==
  /\ u \in Called
  /\ \A v \in Called : Path[v] = Path[u] => ~Smaller(RequestOf(u), RequestOf(v))

\* The tables hold requests of calls; a conflict is answered in favour of a
\* greater request, and there is a greatest one for every path.
ConflictsOK ==
  /\ \A h \in Peers : reqs[h] \subseteq Called
  /\ \A p \in Peers, t \in Tids :
       vote[p][t] = "CONFLICT" =>
         \E u \in Called : Rivals(t, u) /\ Smaller(RequestOf(t), RequestOf(u))
  /\ \A t \in Called : \E u \in Tids : Path[u] = Path[t] /\ Winning(u)

Refusals == {"conflict", "notpermitted"}

\* The calls of h that were refused for conflicts and for nothing else.
Losses(h) ==
  {t \in Tids :
     /\ Initiator[t] = h
     /\ call[t] \in Refusals
     /\ {vote[p][t] : p \in Peers} \cap Nacks = {"CONFLICT"}}

\* The places of Replicate before it returns.
Undecided == {"detect", "send", "await"}

\* A call is undecided until Replicate returns; the votes on one that was refused
\* are all cast, or it was the initiator who refused it.
SettledAt(t) ==
  /\ pc[Initiator[t]][t] \in Undecided => call[t] = "pending"
  /\ call[t] \in Refusals =>
       vote[Initiator[t]][t] = "CONFLICT" \/ \A p \in Peers : vote[p][t] # "none"

\* The clock of a peer is the number of its losses.
ClocksOK ==
  /\ \A t \in Tids : SettledAt(t)
  /\ \A h \in Peers : IsFiniteSet(Losses(h)) /\ clock[h] = Cardinality(Losses(h))

\* What a step does to the votes: at most one is cast, for a call that was made
\* and that its initiator did not refuse, by the initiator or by one who has heard
\* it; CONFLICT when the table of the voter holds a greater rival, ACK only when not.
VoteStep ==
  \/ UNCHANGED vote
  \/ \E h \in Peers, t \in Tids, v \in Votes :
       /\ vote[h][t] = "none" /\ vote' = [vote EXCEPT ![h][t] = v]
       /\ t \in Called /\ vote[Initiator[t]][t] # "CONFLICT"
       /\ h # Initiator[t] => Initiator[t] \in heard[h][t]
       /\ v = "CONFLICT" => Refused(h, t)
       /\ v = "ACK" => ~Refused(h, t)

\* What a step does to the calls and the requests of the tables, unless it is a
\* call.
NoCall ==
  /\ Called' = Called /\ UNCHANGED startClock
  /\ \A h \in Peers : reqs'[h] \subseteq reqs[h] \cup Called

-----------------------------------------------------------------------------
\* The votes of a step.
LEMMA StepVotes ==
  ASSUME IInv, [Next]_vars
  PROVE  VoteStep
<1>1. ASSUME NEW t \in Tids, Detect(t) PROVE VoteStep
  <2>1. /\ Initiator[t] \in Peers /\ vote[Initiator[t]][t] = "none" /\ t \in Called
    BY ZenonT(30), <1>1, TidsAssumption
       DEF Detect, IInv, ReadersOK, ReaderAt, ReplicatePC, Called
  <2>2. "CONFLICT" # "ACK"
    OBVIOUS
  <2> QED
    BY Zenon, <1>1, <2>1, <2>2, VotesType DEF Detect, VoteStep
<1>2. ASSUME NEW h \in Peers, NEW t \in Tids, Consult(h, t) PROVE VoteStep
  <2>1. vote[h][t] = "none" /\ t \in Called /\ Initiator[t] \in heard[h][t]
    BY ZenonT(30), <1>2, ReadIsCalled DEF Consult, IInv, ReadersOK, ReaderAt, Called
  <2>0. vote[Initiator[t]][t] # "CONFLICT"
    BY Zenon, <2>1 DEF IInv, GatheredOK, GatheredAt
  <2>2. PICK answer \in {"ACK", "OTHER"} :
          vote' = [vote EXCEPT ![h][t] =
                     IF answer = "ACK" /\ Refused(h, t) THEN "CONFLICT" ELSE answer]
    BY Zenon, <1>2, AnswersAssumption DEF Consult
  <2>3. CASE answer = "ACK" /\ Refused(h, t)
    BY Zenon, <2>0, <2>1, <2>2, <2>3, VotesType DEF VoteStep
  <2>4. CASE ~(answer = "ACK" /\ Refused(h, t))
    <3>1. answer # "CONFLICT" /\ (answer = "ACK" => ~Refused(h, t))
      BY Zenon, <2>4
    <3> QED
      BY Zenon, <2>0, <2>1, <2>2, <2>4, <3>1, VotesType DEF VoteStep
  <2> QED
    BY Zenon, <2>3, <2>4
<1>3. ASSUME NEW t \in Tids, \/ Replicate(t) \/ SendRequest(t) \/ SendRequestPeerIsDown(t)
                             \/ AwaitTimeout(t) \/ ProcessResponses(t) \/ Return(t) \/ LocalApply(t)
      PROVE  VoteStep
  BY Zenon, <1>3 DEF Replicate, SendRequest, SendRequestPeerIsDown, AwaitTimeout,
     ProcessResponses, Return, LocalApply, VoteStep
<1>4. ASSUME NEW h \in Peers, NEW t \in Tids,
             Respond(h, t) \/ GatherTimeout(h, t) \/ Decide(h, t) \/ Mirror(h, t) \/ Exit(h, t)
      PROVE  VoteStep
  BY Zenon, <1>4 DEF Respond, GatherTimeout, Decide, Mirror, Exit, VoteStep
<1>5. ASSUME NEW h \in Peers, ListenerStep(h) \/ Crash(h)
      PROVE  VoteStep
  BY Zenon, <1>5 DEF ListenerStep, Listen, Notify, Crash, VoteStep
<1>6. CASE (\E m \in net : Lose(m)) \/ UNCHANGED vars
  BY Zenon, <1>6 DEF Lose, vars, VoteStep
<1> QED
  BY Zenon, <1>1, <1>2, <1>3, <1>4, <1>5, <1>6 DEF Next, ReplicateStep, HandlerStep

\* A caller of Replicate goes on with a call that was made.
LEMMA CallerCalled ==
  ASSUME IInv, NEW t \in Tids, ReplicateStep(t)
  PROVE  Called' = Called /\ UNCHANGED startClock
<1>1. UNCHANGED startClock
  BY Zenon DEF ReplicateStep, Detect, SendRequest, SendRequestPeerIsDown, AwaitTimeout,
     ProcessResponses, Return, LocalApply, callVars
<1>2. CASE UNCHANGED call
  BY Zenon, <1>1, <1>2 DEF Called
<1>3. CASE ~UNCHANGED call
  <2>1. pc[Initiator[t]][t] \in ReplicatePC
    BY Zenon, <1>3 DEF ReplicateStep, Detect, SendRequest, SendRequestPeerIsDown, AwaitTimeout,
       ProcessResponses, Return, LocalApply, callVars, ReplicatePC
  <2>2. call[t] # "none"
    BY Zenon, <2>1, TidsAssumption DEF IInv, ReadersOK, ReaderAt
  <2>3. PICK r \in Results : call' = [call EXCEPT ![t] = r]
    BY Zenon, <1>3 DEF ReplicateStep, Detect, SendRequest, SendRequestPeerIsDown, AwaitTimeout,
       ProcessResponses, Return, LocalApply, callVars, Results
  <2>4. \A u \in Tids : call'[u] = "none" <=> call[u] = "none"
    BY Zenon, <2>2, <2>3 DEF IInv, TypeOK, CallTypes, Results
  <2> QED
    BY Zenon, <1>1, <2>4 DEF Called
<1> QED
  BY Zenon, <1>2, <1>3

\* Delete takes a request out of a table.
LEMMA DeleteRequests ==
  ASSUME TypeOK, NEW h \in Peers, NEW t \in Tids, Delete(h, t)
  PROVE  \A g \in Peers : reqs'[g] = IF g = h THEN reqs[g] \ {t} ELSE reqs[g]
BY Zenon DEF Delete, TypeOK, TableTypes

\* The calls and requests of a step.
LEMMA StepCalls ==
  ASSUME IInv, [Next]_vars
  PROVE  NoCall \/ \E t \in Tids : Replicate(t)
<1>1. ASSUME NEW t \in Tids, ReplicateStep(t) PROVE NoCall
  <2>1. \A h \in Peers : reqs'[h] \subseteq reqs[h]
    <3>1. CASE UNCHANGED reqs
      BY Zenon, <3>1
    <3>2. CASE Delete(Initiator[t], t)
      BY ZenonT(30), <3>2, DeleteRequests, TidsAssumption DEF IInv
    <3> QED
      BY Zenon, <1>1, <3>1, <3>2 DEF ReplicateStep, Detect, SendRequest, SendRequestPeerIsDown,
         AwaitTimeout, ProcessResponses, Return, LocalApply, tableVars
  <2> QED
    BY Zenon, <1>1, <2>1, CallerCalled DEF NoCall
<1>2. ASSUME NEW h \in Peers, NEW t \in Tids, HandlerStep(h, t) PROVE NoCall
  <2>1. \A g \in Peers : reqs'[g] \subseteq reqs[g]
    <3>1. CASE UNCHANGED reqs
      BY Zenon, <3>1
    <3>2. CASE Delete(h, t)
      BY Zenon, <3>2, DeleteRequests DEF IInv
    <3> QED
      BY Zenon, <1>2, <3>1, <3>2 DEF HandlerStep, Consult, Respond, GatherTimeout, Decide, Mirror,
         Exit, tableVars
  <2>2. UNCHANGED <<call, startClock>>
    BY Zenon, <1>2 DEF HandlerStep, Consult, Respond, GatherTimeout, Decide, Mirror, Exit, callVars
  <2> QED
    BY Zenon, <2>1, <2>2 DEF NoCall, Called
<1>3. ASSUME NEW h \in Peers, NEW m \in net, Listen(h, m) PROVE NoCall
  <2>1. m \in Message /\ m.tid \in Tids /\ m.from \in Peers /\ Pending(m)
    BY Zenon, MessageFields DEF IInv, TypeOK, NetTypes, Pending
  <2>2. m.tid \in Called
    BY Zenon, <2>1 DEF IInv, MessagesOK, MessageAt, NotSent, SecretsOK, SecretAt, Called
  <2>3. \A g \in Peers : reqs'[g] \subseteq reqs[g] \cup {m.tid}
    BY Zenon, <1>3 DEF Listen, IInv, TypeOK, TableTypes
  <2> QED
    BY Zenon, <1>3, <2>2, <2>3 DEF Listen, callVars, NoCall, Called
<1>4. CASE \/ \E h \in Peers : Crash(h) \/ \E m \in notifying[h] : Notify(h, m)
           \/ \E m \in net : Lose(m)
           \/ UNCHANGED vars
  BY Zenon, <1>4 DEF Crash, Notify, Lose, vars, callVars, tableVars, NoCall, Called
<1> QED
  BY Zenon, <1>1, <1>2, <1>3, <1>4 DEF Next, ListenerStep

-----------------------------------------------------------------------------
(* Conflicting requests *)

\* Smaller is a strict order.
LEMMA SmallerTransitive ==
  ASSUME NEW x, NEW y, NEW z,
         x.clock \in Nat, y.clock \in Nat, z.clock \in Nat,
         x.initiator \in Nat, y.initiator \in Nat, z.initiator \in Nat
  PROVE  /\ Smaller(x, y) /\ Smaller(y, z) => Smaller(x, z)
         /\ ~Smaller(x, x)
BY DEF Smaller

\* Refused means that the table holds a greater rival.
LEMMA RefusedByRival ==
  ASSUME ConflictsOK, NEW h \in Peers, NEW t \in Tids, Refused(h, t)
  PROVE  \E u \in Called : Rivals(t, u) /\ Smaller(RequestOf(t), RequestOf(u))
BY Zenon DEF ConflictsOK, Refused, DetectAndResolveConflict, Rivals

\* A step that is no call keeps the invariant.
LEMMA NoCallConflicts ==
  ASSUME IInv, ConflictsOK, NoCall, VoteStep
  PROVE  ConflictsOK'
<1>1. /\ \A t \in Tids : RequestOf(t)' = RequestOf(t)
      /\ \A t, u \in Tids : Rivals(t, u)' <=> Rivals(t, u)
  BY Zenon DEF NoCall, RequestOf, Rivals
<1>2. \A h \in Peers : reqs'[h] \subseteq Called'
  BY Zenon DEF NoCall, ConflictsOK
<1>3. ASSUME NEW p \in Peers, NEW t \in Tids, vote'[p][t] = "CONFLICT"
      PROVE  \E u \in Called : Rivals(t, u) /\ Smaller(RequestOf(t), RequestOf(u))
  <2>1. CASE vote[p][t] = "CONFLICT"
    BY Zenon, <2>1 DEF ConflictsOK
  <2>2. CASE vote[p][t] # "CONFLICT"
    <3>1. PICK h \in Peers, u \in Tids, v \in Votes :
            vote' = [vote EXCEPT ![h][u] = v] /\ (v = "CONFLICT" => Refused(h, u))
      BY Zenon, <1>3, <2>2 DEF VoteStep
    <3>2. p = h /\ t = u /\ v = "CONFLICT"
      BY Zenon, <1>3, <2>2, <3>1 DEF IInv, TypeOK, HostTypes
    <3> QED
      BY Zenon, <3>1, <3>2, RefusedByRival
  <2> QED
    BY Zenon, <2>1, <2>2
<1>4. \A u \in Tids : Winning(u)' <=> Winning(u)
  BY Zenon, <1>1 DEF NoCall, Winning, Called
<1>5. \A t \in Called' : \E u \in Tids : Path[u] = Path[t] /\ Winning(u)'
  BY Zenon, <1>4 DEF NoCall, ConflictsOK
<1>6. \A p \in Peers, t \in Tids :
        vote'[p][t] = "CONFLICT" =>
          \E u \in Called' : Rivals(t, u)' /\ Smaller(RequestOf(t)', RequestOf(u)')
  BY Zenon, <1>1, <1>3 DEF NoCall, Called
<1> QED
  BY Zenon, <1>2, <1>5, <1>6 DEF ConflictsOK, Smaller

\* So does a call: it becomes the greatest for its path, or the greatest stays.
LEMMA CallConflicts ==
  ASSUME IInv, TypeOK', ConflictsOK, NEW t \in Tids, Replicate(t)
  PROVE  ConflictsOK'
<1>0. TypeOK
  BY Zenon DEF IInv
<1>1. t \notin Called /\ UNCHANGED vote
  BY Zenon DEF Replicate, Called
<1>2. Called' = Called \cup {t}
  BY <1>0 DEF Replicate, Called, TypeOK, CallTypes
<1>3. \A h \in Peers : reqs'[h] \subseteq reqs[h] \cup {t}
  BY Zenon, <1>0, TidsAssumption DEF Replicate, TypeOK, TableTypes
<1>4. \A u \in Tids \ {t} : RequestOf(u)' = RequestOf(u)
  BY Zenon, <1>0 DEF Replicate, RequestOf, TypeOK, CallTypes
<1>5. \A h \in Peers : reqs'[h] \subseteq Called'
  BY Zenon, <1>2, <1>3 DEF ConflictsOK
<1>6. ASSUME NEW p \in Peers, NEW u \in Tids, vote[p][u] = "CONFLICT"
      PROVE  \E v \in Called' : Rivals(u, v)' /\ Smaller(RequestOf(u)', RequestOf(v)')
  <2>1. u \in Called
    BY Zenon, <1>6 DEF IInv, SecretsOK, SecretAt, Called
  <2>2. PICK v \in Called : Rivals(u, v) /\ Smaller(RequestOf(u), RequestOf(v))
    BY Zenon, <1>6 DEF ConflictsOK
  <2>3. RequestOf(u)' = RequestOf(u) /\ RequestOf(v)' = RequestOf(v)
    BY Zenon, <1>1, <1>4, <2>1 DEF Called
  <2> QED
    BY Zenon, <1>2, <2>2, <2>3 DEF Rivals
<1>7. ASSUME NEW w \in Called'
      PROVE  \E u \in Tids : Path[u] = Path[w] /\ Winning(u)'
  <2> DEFINE smaller(u, v) == Smaller(RequestOf(u)', RequestOf(v)')
  <2>0. /\ \A u, v, x \in Tids : smaller(u, v) /\ smaller(v, x) => smaller(u, x)
        /\ \A u \in Tids : ~smaller(u, u)
    <3>1. \A u \in Tids : RequestOf(u)'.clock \in Nat /\ RequestOf(u)'.initiator \in Nat
      <4>1. \A u \in Tids : Initiator[u] \in Nat
        BY Zenon, TidsAssumption, PeersAssumption
      <4> QED
        BY <4>1 DEF RequestOf
    <3> QED
      BY Zenon, <3>1, SmallerTransitive
  <2> HIDE DEF smaller
  <2>1. CASE \E u \in Tids : Path[u] = Path[w] /\ Winning(u)
    <3>1. PICK u \in Tids : Path[u] = Path[w] /\ Winning(u)
      BY Zenon, <2>1
    <3>2. u # t /\ u \in Called
      BY Zenon, <1>1, <3>1 DEF Winning
    <3>3. \A v \in Called : Path[v] = Path[u] => ~smaller(u, v)
      BY Zenon, <1>1, <1>4, <3>1, <3>2 DEF Winning, smaller, Called
    <3>4. CASE Path[t] = Path[u] /\ smaller(u, t)
      <4>1. \A v \in Called : Path[v] = Path[t] => ~smaller(t, v)
        BY Zenon, <2>0, <3>3, <3>4 DEF Called
      <4>2. Winning(t)'
        BY Zenon, <1>2, <2>0, <4>1 DEF Winning, smaller
      <4> QED
        BY Zenon, <3>1, <3>4, <4>2
    <3>5. CASE ~(Path[t] = Path[u] /\ smaller(u, t))
      <4>1. Winning(u)'
        BY Zenon, <1>2, <3>2, <3>3, <3>5 DEF Winning, smaller
      <4> QED
        BY Zenon, <3>1, <4>1
    <3> QED
      BY Zenon, <3>4, <3>5
  <2>2. CASE ~\E u \in Tids : Path[u] = Path[w] /\ Winning(u)
    <3>1. \A v \in Called : Path[v] # Path[w]
      BY Zenon, <2>2 DEF ConflictsOK
    <3>2. w = t
      BY Zenon, <1>2, <3>1
    <3>3. Winning(t)'
      BY Zenon, <1>2, <2>0, <3>1, <3>2 DEF Winning, smaller
    <3> QED
      BY Zenon, <3>2, <3>3
  <2> QED
    BY Zenon, <2>1, <2>2
<1> QED
  BY Zenon, <1>1, <1>5, <1>6, <1>7 DEF ConflictsOK

\* At the start nothing is called.
LEMMA InitConflicts == Init => ConflictsOK
<1> SUFFICES ASSUME Init PROVE ConflictsOK
  OBVIOUS
<1>1. Called = {}
  BY Zenon DEF Init, Called
<1>2. \A p \in Peers : reqs[p] = {} /\ \A t \in Tids : vote[p][t] # "CONFLICT"
  BY Zenon DEF Init
<1> QED
  BY Zenon, <1>1, <1>2 DEF ConflictsOK

\* The invariant of the conflicts holds in every reachable state.
THEOREM ConflictsHold == Spec => []ConflictsOK
<1>1. IInv /\ ConflictsOK /\ [Next]_vars => ConflictsOK'
  BY Zenon, StepCalls, StepVotes, NoCallConflicts, CallConflicts, NextIInv DEF IInv
<1> QED
  BY <1>1, InitConflicts, InvariantHolds, PTL DEF Spec

\* Conflicting requests never all refuse one another, for any number of peers,
\* calls and faults: the greatest request for a path is refused by nobody.
THEOREM NotAllRefusedHolds == Spec => []NotAllRefused
<1>1. ASSUME IInv, ConflictsOK PROVE NotAllRefused
  <2> SUFFICES ASSUME NEW t \in Tids, NEW p \in Peers, vote[p][t] = "CONFLICT"
               PROVE  \E u \in Tids : /\ call[u] # "none" /\ Path[u] = Path[t]
                                     /\ \A q \in Peers : vote[q][u] # "CONFLICT"
    BY Zenon DEF NotAllRefused
  <2>1. t \in Called
    BY Zenon, <1>1 DEF IInv, SecretsOK, SecretAt, Called
  <2>2. PICK u \in Tids : Path[u] = Path[t] /\ Winning(u)
    BY Zenon, <1>1, <2>1 DEF ConflictsOK
  <2>3. ASSUME NEW q \in Peers, vote[q][u] = "CONFLICT" PROVE FALSE
    <3>1. PICK v \in Called : Rivals(u, v) /\ Smaller(RequestOf(u), RequestOf(v))
      BY Zenon, <1>1, <2>3 DEF ConflictsOK
    <3>2. Path[v] = Path[u]
      BY Zenon, <3>1 DEF Rivals, Conflict, RequestOf
    <3> QED
      BY Zenon, <2>2, <3>1, <3>2 DEF Winning
  <2> QED
    BY Zenon, <2>2, <2>3 DEF Winning, Called
<1> QED
  BY <1>1, ConflictsHold, InvariantHolds, PTL

-----------------------------------------------------------------------------
(* The conflicts clock *)

StayPending ==
  \A u \in Tids : pc'[Initiator[u]][u] \in Undecided => call'[u] = "pending"

\* A reader that moves or ends leaves the waiting callers what they are.
LEMMA MovesSettled ==
  ASSUME IInv, \A u \in Tids : SettledAt(u), NEW h \in Peers, NEW t \in Tids,
         \A u \in Tids : u # t \/ Initiator[u] # h => call'[u] = call[u],
         \/ \E l : GoTo(h, t, l) /\ (l \notin Undecided \/ call'[t] = "pending")
         \/ Delete(h, t) /\ UNCHANGED call
         \/ UNCHANGED <<pc, call>>
  PROVE  StayPending
<1> SUFFICES ASSUME NEW u \in Tids, pc'[Initiator[u]][u] \in Undecided
             PROVE  call'[u] = "pending"
  BY Zenon DEF StayPending
<1>0. Initiator[u] \in Peers /\ TypeOK
  BY Zenon, TidsAssumption DEF IInv
<1>1. ASSUME NEW l, GoTo(h, t, l), l \notin Undecided \/ call'[t] = "pending"
      PROVE  call'[u] = "pending"
  <2>1. pc'[Initiator[u]][u] = IF Initiator[u] = h /\ u = t THEN l ELSE pc[Initiator[u]][u]
    BY <1>0, <1>1, GoToAt
  <2>2. CASE Initiator[u] = h /\ u = t
    <3>1. l \in Undecided
      BY Zenon, <2>1, <2>2
    <3> QED
      BY Zenon, <1>1, <2>2, <3>1
  <2>3. CASE ~(Initiator[u] = h /\ u = t)
    <3>1. pc[Initiator[u]][u] \in Undecided /\ call[u] = "pending"
      BY Zenon, <2>1, <2>3 DEF SettledAt
    <3> QED
      BY Zenon, <2>3, <3>1
  <2> QED
    BY Zenon, <2>2, <2>3
<1>2. CASE Delete(h, t) /\ UNCHANGED call
  <2>1. pc'[Initiator[u]][u] = IF Initiator[u] = h /\ u = t THEN "idle" ELSE pc[Initiator[u]][u]
    BY Zenon, <1>0, <1>2 DEF Delete, TypeOK, ReaderTypes
  <2>2. "idle" \notin Undecided
    BY Zenon DEF Undecided
  <2> QED
    BY Zenon, <1>2, <2>1, <2>2 DEF SettledAt
<1>3. CASE UNCHANGED <<pc, call>>
  BY Zenon, <1>3 DEF SettledAt
<1> QED
  BY Zenon, <1>1, <1>2, <1>3

\* A call is pending until Replicate returns.
LEMMA StepUndecided ==
  ASSUME IInv, \A u \in Tids : SettledAt(u), [Next]_vars
  PROVE  StayPending
<1>0. /\ TypeOK
      /\ \A l \in {"idle", "return"} \cup HandlerPC : l \notin Undecided
      /\ {"detect", "send", "await"} = Undecided
  BY Zenon DEF IInv, HandlerPC, Undecided
<1>1. ASSUME NEW t \in Tids, Replicate(t) PROVE StayPending
  <2>0. Initiator[t] \in Peers
    BY Zenon, TidsAssumption
  <2>1. /\ \A u \in Tids : call'[u] = IF u = t THEN "pending" ELSE call[u]
        /\ GoTo(Initiator[t], t, "detect")
    BY Zenon, <1>0, <1>1 DEF Replicate, TypeOK, CallTypes
  <2> QED
    BY Zenon, <2>0, <2>1, MovesSettled
<1>2. ASSUME NEW t \in Tids, ReplicateStep(t) PROVE StayPending
  <2>0. Initiator[t] \in Peers
    BY Zenon, TidsAssumption
  <2>1. \A u \in Tids : u # t => call'[u] = call[u]
    BY Zenon, <1>0, <1>2 DEF ReplicateStep, Detect, SendRequest, SendRequestPeerIsDown,
       AwaitTimeout, ProcessResponses, Return, LocalApply, callVars, TypeOK, CallTypes
  <2>2. CASE GoTo(Initiator[t], t, "return")
    BY Zenon, <1>0, <2>0, <2>1, <2>2, MovesSettled
  <2>3. CASE /\ pc[Initiator[t]][t] \in Undecided /\ UNCHANGED call
             /\ \E l : GoTo(Initiator[t], t, l)
    <3>1. call'[t] = "pending"
      BY Zenon, <2>3 DEF SettledAt
    <3> QED
      BY Zenon, <2>0, <2>1, <2>3, <3>1, MovesSettled
  <2>4. CASE Return(t) \/ LocalApply(t)
    <3>1. \/ Delete(Initiator[t], t) /\ UNCHANGED call
          \/ UNCHANGED <<pc, call>>
      BY Zenon, <2>4 DEF Return, LocalApply, callVars, readerVars
    <3> QED
      BY Zenon, <2>0, <2>1, <3>1, MovesSettled
  <2> QED
    BY Zenon, <1>0, <1>2, <2>2, <2>3, <2>4 DEF ReplicateStep, Detect, SendRequest,
       SendRequestPeerIsDown, AwaitTimeout, ProcessResponses
<1>3. ASSUME NEW h \in Peers, NEW t \in Tids, HandlerStep(h, t) PROVE StayPending
  <2>1. UNCHANGED call
    BY Zenon, <1>3 DEF HandlerStep, Consult, Respond, GatherTimeout, Decide, Mirror, Exit, callVars
  <2>2. \/ \E l \in HandlerPC : GoTo(h, t, l)
        \/ Delete(h, t)
        \/ UNCHANGED pc
    BY Zenon, <1>3 DEF HandlerStep, Consult, Respond, GatherTimeout, Decide, Mirror, Exit, HandlerPC
  <2> QED
    BY Zenon, <1>0, <2>1, <2>2, MovesSettled
<1>4. ASSUME NEW h \in Peers, ListenerStep(h) PROVE StayPending
  <2>1. PICK m \in Message : Listen(h, m) \/ Notify(h, m)
    BY Zenon, <1>0, <1>4, HeldMessages DEF ListenerStep, TypeOK, NetTypes
  <2>2. m.tid \in Tids
    BY Zenon, <2>1, MessageFields
  <2>3. UNCHANGED call /\ ((\E l \in HandlerPC : GoTo(h, m.tid, l)) \/ UNCHANGED pc)
    BY Zenon, <2>1 DEF Listen, Notify, callVars, HandlerPC
  <2> QED
    BY Zenon, <1>0, <2>2, <2>3, MovesSettled
<1>5. CASE (\E h \in Peers : Crash(h)) \/ (\E m \in net : Lose(m)) \/ UNCHANGED vars
  BY Zenon, <1>5 DEF Crash, Lose, vars, callVars, readerVars, SettledAt, StayPending
<1> QED
  BY Zenon, <1>1, <1>2, <1>3, <1>4, <1>5 DEF Next

\* The votes on a call that was refused stay what they are.
LEMMA RefusedVotesStay ==
  ASSUME IInv, ClocksOK, VoteStep, NEW t \in Tids, call[t] \in Refusals
  PROVE  \A p \in Peers : vote'[p][t] = vote[p][t]
<1>1. CASE UNCHANGED vote
  BY Zenon, <1>1
<1>2. ASSUME NEW g \in Peers, NEW u \in Tids, NEW v,
             vote[g][u] = "none", vote' = [vote EXCEPT ![g][u] = v],
             vote[Initiator[u]][u] # "CONFLICT"
      PROVE  \A p \in Peers : vote'[p][t] = vote[p][t]
  <2>1. u # t
    BY Zenon, <1>2 DEF ClocksOK, SettledAt
  <2> QED
    BY Zenon, <1>2, <2>1 DEF IInv, TypeOK, HostTypes
<1> QED
  BY Zenon, <1>1, <1>2 DEF VoteStep

CallsStayRefused(h) ==
  \A u \in Tids : Initiator[u] = h => (call'[u] \in Refusals <=> call[u] \in Refusals)

\* The losses of a peer change only when a call of it is refused.
LEMMA SameLosses ==
  ASSUME IInv, ClocksOK, VoteStep, NEW h \in Peers, CallsStayRefused(h)
  PROVE  Losses(h)' = Losses(h)
<1>1. ASSUME NEW u \in Tids PROVE u \in Losses(h)' <=> u \in Losses(h)
  <2>1. CASE Initiator[u] = h /\ call[u] \in Refusals
    <3>1. {vote'[p][u] : p \in Peers} = {vote[p][u] : p \in Peers}
      BY Zenon, <2>1, RefusedVotesStay
    <3> QED
      BY Zenon, <2>1, <3>1 DEF Losses, CallsStayRefused
  <2>2. CASE ~(Initiator[u] = h /\ call[u] \in Refusals)
    BY Zenon, <2>2 DEF Losses, CallsStayRefused
  <2> QED
    BY Zenon, <2>1, <2>2
<1> QED
  BY Zenon, <1>1 DEF Losses

\* Only conflicts stood against t, after the step.
LostNow(t) == {vote'[p][t] : p \in Peers} \cap Nacks = {"CONFLICT"}

\* A call that ends is a loss of its initiator, or leaves the losses.
LEMMA CallEnds ==
  ASSUME IInv, ClocksOK, VoteStep, NEW h \in Peers, NEW t \in Tids, NEW r,
         call[t] \notin Refusals, call' = [call EXCEPT ![t] = r]
  PROVE  /\ t \notin Losses(h)
         /\ Losses(h)' = IF Initiator[t] = h /\ r \in Refusals /\ LostNow(t)
                           THEN Losses(h) \cup {t} ELSE Losses(h)
<1>1. t \notin Losses(h)
  BY Zenon DEF Losses
<1>2. \A u \in Tids : call'[u] = IF u = t THEN r ELSE call[u]
  BY Zenon DEF IInv, TypeOK, CallTypes
<1>3. ASSUME NEW u \in Tids, u # t PROVE u \in Losses(h)' <=> u \in Losses(h)
  <2>1. CASE call[u] \in Refusals
    <3>1. {vote'[p][u] : p \in Peers} = {vote[p][u] : p \in Peers}
      BY ZenonT(30), <2>1, RefusedVotesStay
    <3> QED
      BY Zenon, <1>2, <1>3, <2>1, <3>1 DEF Losses
  <2>2. CASE call[u] \notin Refusals
    BY Zenon, <1>2, <1>3, <2>2 DEF Losses
  <2> QED
    BY Zenon, <2>1, <2>2
<1>4. t \in Losses(h)' <=> Initiator[t] = h /\ r \in Refusals /\ LostNow(t)
  BY Zenon, <1>2 DEF Losses, LostNow
<1>5. Losses(h) \subseteq Tids /\ Losses(h)' \subseteq Tids
  BY Zenon DEF Losses
<1>6. CASE Initiator[t] = h /\ r \in Refusals /\ LostNow(t)
  <2>1. Losses(h)' = Losses(h) \cup {t}
    BY Zenon, <1>3, <1>4, <1>5, <1>6
  <2> QED
    BY Zenon, <1>1, <1>6, <2>1
<1>7. CASE ~(Initiator[t] = h /\ r \in Refusals /\ LostNow(t))
  <2>0. \A u \in Tids : u \in Losses(h)' <=> u \in Losses(h)
    BY Zenon, <1>1, <1>3, <1>4, <1>7
  <2>1. Losses(h)' = Losses(h)
    BY Zenon, <2>0, <1>5
  <2> QED
    BY Zenon, <1>1, <1>7, <2>1
<1> QED
  BY Zenon, <1>6, <1>7

\* The clock of a peer ticks with its losses, and the votes on what is refused
\* are all cast unless the initiator refused it.
TicksAt(h) ==
  \/ clock'[h] = clock[h] /\ Losses(h)' = Losses(h)
  \/ /\ clock'[h] = clock[h] + 1
     /\ \E t \in Tids \ Losses(h) : Losses(h)' = Losses(h) \cup {t}

CastAt(t) ==
  call'[t] \in Refusals =>
    vote'[Initiator[t]][t] = "CONFLICT" \/ \A p \in Peers : vote'[p][t] # "none"

\* A call that was already refused needs no further look.
LEMMA OldRefusals ==
  ASSUME IInv, ClocksOK, VoteStep, NEW t \in Tids, call'[t] \in Refusals => call[t] \in Refusals
  PROVE  CastAt(t)
BY Zenon, RefusedVotesStay, TidsAssumption DEF ClocksOK, SettledAt, CastAt

\* Steps that refuse no call.
LEMMA QuietTicks ==
  ASSUME IInv, ClocksOK, VoteStep, UNCHANGED clock,
         \A u \in Tids : call'[u] \in Refusals <=> call[u] \in Refusals
  PROVE  (\A h \in Peers : TicksAt(h)) /\ (\A t \in Tids : CastAt(t))
<1>1. \A h \in Peers : CallsStayRefused(h)
  BY Zenon DEF CallsStayRefused
<1> QED
  BY Zenon, <1>1, SameLosses, OldRefusals DEF TicksAt

\* The refusal by the initiator itself.
LEMMA DetectTicks ==
  ASSUME IInv, ClocksOK, VoteStep, NEW t \in Tids, Detect(t)
  PROVE  (\A h \in Peers : TicksAt(h)) /\ (\A u \in Tids : CastAt(u))
<1> DEFINE h == Initiator[t]
<1>0. h \in Peers /\ pc[h][t] = "detect" /\ TypeOK
  BY Zenon, TidsAssumption DEF Detect, IInv
<1> HIDE DEF h
<1>1. CASE UNCHANGED <<clock, call>>
  BY Zenon, <1>1, QuietTicks
<1>2. CASE /\ IncrementClock(h) /\ call' = [call EXCEPT ![t] = "conflict"]
           /\ vote' = [vote EXCEPT ![h][t] = "CONFLICT"]
  <2>1. call[t] = "pending" /\ call[t] \notin Refusals /\ "conflict" \in Refusals
    BY Zenon, <1>0 DEF ClocksOK, SettledAt, Undecided, Refusals, h
  <2>2. \A p \in Peers : p # h => vote[p][t] = "none"
    BY Zenon, <1>0 DEF IInv, ReadersOK, ReaderAt, SecretsOK, SecretAt, NotSent, Others, h
  <2>3. \A p \in Peers : vote'[p][t] = IF p = h THEN "CONFLICT" ELSE "none"
    BY Zenon, <1>0, <1>2, <2>2 DEF TypeOK, HostTypes
  <2>4. LostNow(t)
    BY Zenon, <1>0, <2>3, VoteNames DEF LostNow
  <2>5. ASSUME NEW g \in Peers PROVE TicksAt(g)
    <3>1. /\ t \notin Losses(g)
          /\ Losses(g)' = IF h = g THEN Losses(g) \cup {t} ELSE Losses(g)
      BY Zenon, <1>2, <2>1, <2>4, CallEnds DEF h
    <3>2. clock'[g] = IF h = g THEN clock[g] + 1 ELSE clock[g]
      BY Zenon, <1>0, <1>2 DEF IncrementClock, TypeOK, HostTypes
    <3> QED
      BY Zenon, <3>1, <3>2 DEF TicksAt
  <2>6. ASSUME NEW u \in Tids PROVE CastAt(u)
    <3>1. CASE u = t
      BY Zenon, <1>0, <2>3, <3>1 DEF CastAt, h
    <3>2. CASE u # t
      <4>1. call'[u] = call[u]
        BY Zenon, <1>0, <1>2, <3>2 DEF TypeOK, CallTypes
      <4> QED
        BY Zenon, <4>1, OldRefusals
    <3> QED
      BY Zenon, <3>1, <3>2
  <2> QED
    BY Zenon, <2>5, <2>6
<1> QED
  BY Zenon, <1>1, <1>2 DEF Detect, h

\* The refusal by the others.
LEMMA ProcessResponsesTicks ==
  ASSUME IInv, ClocksOK, VoteStep, NEW t \in Tids, ProcessResponses(t)
  PROVE  (\A h \in Peers : TicksAt(h)) /\ (\A u \in Tids : CastAt(u))
<1> DEFINE h == Initiator[t]
           errors == Errors(h, t)
<1>0. h \in Peers /\ pc[h][t] = "await" /\ TypeOK /\ ProtocolInv /\ UNCHANGED vote
  BY Zenon, TidsAssumption DEF ProcessResponses, IInv, ProtocolInv
<1>1. call[t] = "pending" /\ call[t] \notin Refusals
  BY Zenon, <1>0 DEF ClocksOK, SettledAt, Undecided, Refusals
<1>2. PICK r : /\ call' = [call EXCEPT ![t] = r]
               /\ r = IF failed[t] > 0 THEN "senderr"
                      ELSE IF errors # {} THEN "notpermitted" ELSE "ok"
  BY Zenon DEF ProcessResponses
<1>3. IF failed[t] = 0 /\ errors = {"CONFLICT"} THEN IncrementClock(h) ELSE UNCHANGED clock
  BY Zenon DEF ProcessResponses, OnlyConflicts
<1>4. \A u \in Tids : call'[u] = IF u = t THEN r ELSE call[u]
  BY Zenon, <1>0, <1>2 DEF TypeOK, CallTypes
<1>5. failed[t] \in Nat /\ got[h][t] = NumOthers - failed[t] /\ NumOthers \in Nat
  BY <1>0, NumOthersType DEF ProcessResponses, Expected, TypeOK, CallTypes
<1>6. vote[h][t] = "ACK"
  BY Zenon, <1>0 DEF ProtocolInv, ReadersOK, ReaderAt
<1>7. ASSUME failed[t] = 0
      PROVE  /\ \A p \in Peers : vote[p][t] # "none"
             /\ {vote[p][t] : p \in Peers} \cap Nacks = errors
  <2>1. got[h][t] = NumOthers
    BY <1>5, <1>7
  <2>2. \A p \in Peers : p # h =>
          /\ vote[p][t] \in Votes /\ [from |-> p, vote |-> vote[p][t]] \in responses[h][t]
    BY Zenon, <1>0, <2>1, AllHeard
  <2>3. \A p \in Peers : vote[p][t] # "none"
    BY Zenon, <1>6, <2>2, VoteNames
  <2>4. ASSUME NEW p \in Peers, vote[p][t] \in Nacks PROVE vote[p][t] \in errors
    <3>1. p # h
      BY Zenon, <1>6, <2>4, VoteNames
    <3>2. PICK r2 \in responses[h][t] : r2 = [from |-> p, vote |-> vote[p][t]]
      BY Zenon, <2>2, <3>1
    <3>3. r2.vote = vote[p][t]
      BY Zenon, <3>2
    <3> QED
      BY Zenon, <2>4, <3>3 DEF Errors
  <2>5. ASSUME NEW v \in errors PROVE \E p \in Peers : vote[p][t] = v /\ v \in Nacks
    BY Zenon, <1>0, ResponsesAreVotes DEF Errors
  <2>6. {vote[p][t] : p \in Peers} \cap Nacks \subseteq errors
    BY Zenon, <2>4
  <2>7. errors \subseteq {vote[p][t] : p \in Peers} \cap Nacks
    BY Zenon, <2>5
  <2> QED
    BY Zenon, <2>3, <2>6, <2>7
<1> HIDE DEF h, errors
<1>8. r \in Refusals <=> failed[t] = 0 /\ errors # {}
  BY <1>2, <1>5 DEF Refusals
<1>9. r \in Refusals /\ LostNow(t) <=> failed[t] = 0 /\ errors = {"CONFLICT"}
  <2>1. LostNow(t) <=> {vote[p][t] : p \in Peers} \cap Nacks = {"CONFLICT"}
    BY Zenon, <1>0 DEF LostNow
  <2> QED
    BY Zenon, <1>7, <1>8, <2>1
<1>10. ASSUME NEW g \in Peers PROVE TicksAt(g)
  <2>1. /\ t \notin Losses(g)
        /\ Losses(g)' = IF h = g /\ r \in Refusals /\ LostNow(t)
                          THEN Losses(g) \cup {t} ELSE Losses(g)
    BY Zenon, <1>1, <1>2, CallEnds DEF h
  <2>2. CASE failed[t] = 0 /\ errors = {"CONFLICT"}
    <3>1. clock'[g] = IF h = g THEN clock[g] + 1 ELSE clock[g]
      BY Zenon, <1>0, <1>3, <2>2 DEF IncrementClock, TypeOK, HostTypes
    <3> QED
      BY Zenon, <1>9, <2>1, <2>2, <3>1 DEF TicksAt
  <2>3. CASE ~(failed[t] = 0 /\ errors = {"CONFLICT"})
    BY Zenon, <1>3, <1>9, <2>1, <2>3 DEF TicksAt
  <2> QED
    BY Zenon, <2>2, <2>3
<1>11. ASSUME NEW u \in Tids PROVE CastAt(u)
  <2>1. CASE u = t
    BY Zenon, <1>0, <1>4, <1>7, <1>8, <2>1 DEF CastAt
  <2>2. CASE u # t
    BY Zenon, <1>4, <2>2, OldRefusals
  <2> QED
    BY Zenon, <2>1, <2>2
<1> QED
  BY Zenon, <1>10, <1>11

\* Every step keeps the clocks right.
LEMMA StepTicks ==
  ASSUME IInv, ClocksOK, [Next]_vars
  PROVE  (\A h \in Peers : TicksAt(h)) /\ (\A t \in Tids : CastAt(t))
<1>0. VoteStep /\ TypeOK
  BY Zenon, StepVotes DEF IInv
<1>1. CASE UNCHANGED <<call, clock>>
  BY Zenon, <1>0, <1>1, QuietTicks
<1>2. ASSUME NEW t \in Tids, NEW r, r \notin Refusals, call[t] \notin Refusals,
             call' = [call EXCEPT ![t] = r], UNCHANGED clock
      PROVE  (\A h \in Peers : TicksAt(h)) /\ (\A u \in Tids : CastAt(u))
  <2>1. \A u \in Tids : call'[u] \in Refusals <=> call[u] \in Refusals
    BY Zenon, <1>0, <1>2 DEF TypeOK, CallTypes
  <2> QED
    BY Zenon, <1>0, <1>2, <2>1, QuietTicks
<1>3. /\ "pending" \notin Refusals /\ "none" \notin Refusals /\ "senderr" \notin Refusals
      /\ "peerdown" \notin Refusals /\ "timeout" \notin Refusals
      /\ "send" \in Undecided /\ "await" \in Undecided
  BY Zenon DEF Refusals, Undecided
<1>4. ASSUME NEW t \in Tids, Replicate(t)
      PROVE  (\A h \in Peers : TicksAt(h)) /\ (\A u \in Tids : CastAt(u))
  BY Zenon, <1>2, <1>3, <1>4 DEF Replicate
<1>5. ASSUME NEW t \in Tids, ReplicateStep(t)
      PROVE  (\A h \in Peers : TicksAt(h)) /\ (\A u \in Tids : CastAt(u))
  <2>1. CASE SendRequest(t) \/ SendRequestPeerIsDown(t) \/ AwaitTimeout(t)
    <3>1. call[t] = "pending"
      BY Zenon, <1>3, <2>1 DEF SendRequest, SendRequestPeerIsDown, AwaitTimeout, ClocksOK, SettledAt
    <3>2. UNCHANGED clock
      BY Zenon, <2>1 DEF SendRequest, SendRequestPeerIsDown, AwaitTimeout
    <3>3. UNCHANGED call \/ \E r \in {"senderr", "peerdown", "timeout"} :
                              call' = [call EXCEPT ![t] = r]
      BY Zenon, <2>1 DEF SendRequest, SendRequestPeerIsDown, AwaitTimeout
    <3> QED
      BY Zenon, <1>1, <1>2, <1>3, <3>1, <3>2, <3>3
  <2>2. CASE Return(t) \/ LocalApply(t)
    BY Zenon, <1>1, <2>2 DEF Return, LocalApply, callVars
  <2> QED
    BY Zenon, <1>0, <1>5, <2>1, <2>2, DetectTicks, ProcessResponsesTicks DEF ReplicateStep
<1>6. CASE \/ \E h \in Peers : ListenerStep(h) \/ Crash(h)
           \/ \E h \in Peers, t \in Tids : HandlerStep(h, t)
           \/ \E m \in net : Lose(m)
           \/ UNCHANGED vars
  <2>1. ASSUME NEW h \in Peers, ListenerStep(h) \/ Crash(h) PROVE UNCHANGED <<call, clock>>
    BY Zenon, <2>1 DEF ListenerStep, Listen, Notify, Crash, callVars
  <2>2. ASSUME NEW h \in Peers, NEW t \in Tids, HandlerStep(h, t) PROVE UNCHANGED <<call, clock>>
    BY Zenon, <2>2 DEF HandlerStep, Consult, Respond, GatherTimeout, Decide, Mirror, Exit, callVars
  <2>3. CASE (\E m \in net : Lose(m)) \/ UNCHANGED vars
    BY Zenon, <1>1, <2>3 DEF Lose, vars, callVars
  <2> QED
    BY Zenon, <1>1, <1>6, <2>1, <2>2, <2>3
<1> QED
  BY Zenon, <1>4, <1>5, <1>6 DEF Next

\* One more loss is one tick more.
LEMMA TickCounts ==
  ASSUME NEW h \in Peers, TicksAt(h), IsFiniteSet(Losses(h)), clock[h] = Cardinality(Losses(h))
  PROVE  IsFiniteSet(Losses(h)') /\ clock'[h] = Cardinality(Losses(h)')
<1>1. ASSUME NEW t \in Tids \ Losses(h), Losses(h)' = Losses(h) \cup {t},
             clock'[h] = clock[h] + 1
      PROVE  IsFiniteSet(Losses(h)') /\ clock'[h] = Cardinality(Losses(h)')
  <2>1. IsFiniteSet(Losses(h) \cup {t}) /\ Cardinality(Losses(h) \cup {t}) = Cardinality(Losses(h)) + 1
    BY Zenon, FS_AddElement
  <2> QED
    BY Zenon, <1>1, <2>1
<1> QED
  BY Zenon, <1>1 DEF TicksAt

\* At the start there are no losses.
LEMMA InitClocks == Init => ClocksOK
<1> SUFFICES ASSUME Init PROVE ClocksOK
  OBVIOUS
<1>1. ASSUME NEW t \in Tids PROVE SettledAt(t) /\ call[t] \notin Refusals
  BY Zenon, TidsAssumption DEF Init, SettledAt, Undecided, Refusals
<1>2. ASSUME NEW h \in Peers PROVE IsFiniteSet(Losses(h)) /\ clock[h] = Cardinality(Losses(h))
  <2>1. Losses(h) = {}
    BY Zenon, <1>1 DEF Losses
  <2>2. clock[h] = 0
    BY Zenon DEF Init
  <2> QED
    BY Zenon, <2>1, <2>2, FS_EmptySet
<1> QED
  BY Zenon, <1>1, <1>2 DEF ClocksOK

\* The clock of every peer is the number of its losses, in every reachable state.
THEOREM ClocksHold == Spec => []ClocksOK
<1>1. ASSUME IInv, ClocksOK, [Next]_vars PROVE ClocksOK'
  <2>1. StayPending
    BY Zenon, <1>1, StepUndecided DEF ClocksOK
  <2>2. (\A h \in Peers : TicksAt(h)) /\ (\A t \in Tids : CastAt(t))
    BY Zenon, <1>1, StepTicks
  <2>3. \A t \in Tids : SettledAt(t)'
    BY Zenon, <2>1, <2>2 DEF StayPending, CastAt, SettledAt
  <2>4. \A h \in Peers : IsFiniteSet(Losses(h)') /\ clock'[h] = Cardinality(Losses(h)')
    BY Zenon, <1>1, <2>2, TickCounts DEF ClocksOK
  <2> QED
    BY Zenon, <2>3, <2>4 DEF ClocksOK
<1> QED
  BY <1>1, InitClocks, InvariantHolds, PTL DEF Spec

\* The conflicts clock of a peer counts exactly the calls it lost to conflicts and
\* to nothing else, for any number of peers, calls and faults.
THEOREM ClockCountsConflictsHolds == Spec => []ClockCountsConflicts
<1>1. ClocksOK => ClockCountsConflicts
  BY Zenon DEF ClocksOK, Losses, Refusals, ClockCountsConflicts
<1> QED
  BY <1>1, ClocksHold, PTL
==============================================================================
