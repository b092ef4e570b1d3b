------------------------------ MODULE HostCalm -------------------------------
(***************************************************************************)
(* What holds while no deadline passes and no Send reports an error:       *)
(* listeners are never left without a reader, mirrors never without the    *)
(* request, and a smaller request comes after the rivals of its past.      *)
(***************************************************************************)
EXTENDS HostTheorems

\* Peers may die, connections and messages may be lost, but nobody gives up
\* waiting and no broadcast fails for some peers only.
Calm == FaultKinds \cap {"timeout", "senderr"} = {}

\* A reader is done only when it has heard everyone, or when nobody else was told.
LateAt(h, t) ==
  /\ pc[h][t] \in {"mirror", "exit", "exiterr"} => got[h][t] = NumOthers
  /\ pc[h][t] = "return" => got[h][t] = NumOthers \/ call[t] \in {"conflict", "peerdown"}

\* A call given up before the request is sent stays unknown to the others.
UntoldAt(t) ==
  call[t] \in {"conflict", "peerdown"} =>
    /\ \A h \in Others(Initiator[t]) : vote[h][t] = "none" /\ pc[h][t] = "idle"
    /\ \A m \in Message : Pending(m) => m.tid # t

\* The initiator never becomes a handler, and leaves only when all have answered.
InitiatorAt(t) ==
  /\ pc[Initiator[t]][t] \notin HandlerPC
  /\ pc[Initiator[t]][t] = "idle" /\ call[t] \notin {"none", "conflict", "peerdown"} =>
       \A h \in Others(Initiator[t]) : ~NotSent(h, t)

\* A handler that has heard the initiator has the request.
RequestAt(h, t) ==
  h # Initiator[t] /\ Initiator[t] \in heard[h][t] => t \in reqs[h]

\* A message finds a reader: the initiator waits for what is on its way to it,
\* anyone for what the listener holds.
ReaderFor(m) ==
  /\ m.to = Initiator[m.tid] \/ m \in notifying[m.to] => pc[m.to][m.tid] # "idle"
  /\ m \in notifying[m.to] /\ m.body = "request" => m.tid \in reqs[m.to]

\* All of this for one transaction.
CalmAt(t) ==
  /\ failed[t] = 0 /\ UntoldAt(t) /\ InitiatorAt(t)
  /\ \A h \in Peers : LateAt(h, t) /\ RequestAt(h, t)
  /\ \A m \in Message : m.tid = t /\ Pending(m) => ReaderFor(m)

CalmInv == \A t \in Tids : CalmAt(t)

-----------------------------------------------------------------------------
\* What a step leaves of the other transactions.
SameReader(h, u) ==
  /\ pc'[h][u] = pc[h][u] /\ got'[h][u] = got[h][u] /\ heard'[h][u] = heard[h][u]
  /\ vote'[h][u] = vote[h][u]
  /\ u \in reqs'[h] <=> u \in reqs[h]

SameCall(u) == failed'[u] = failed[u] /\ call'[u] = call[u]

NoNewMail(t) ==
  \A m \in Message : m.tid # t =>
    /\ m \in net' => m \in net
    /\ m \in notifying'[m.to] => m \in notifying[m.to]

OnlyTouches(t) ==
  /\ \A u \in Tids : u # t => SameCall(u) /\ \A h \in Peers : SameReader(h, u)
  /\ NoNewMail(t)

\* A transaction that a step does not touch stays as it is.
LEMMA Untouched ==
  ASSUME CalmInv, NEW t, OnlyTouches(t), NEW u \in Tids, u # t
  PROVE  CalmAt(u)'
<1>0. CalmAt(u) /\ Initiator[u] \in Peers /\ Others(Initiator[u]) \subseteq Peers
  BY Zenon, TidsAssumption DEF CalmInv, Others
<1>1. SameCall(u) /\ \A h \in Peers : SameReader(h, u)
  BY Zenon DEF OnlyTouches
<1>2. \A m \in Message : m.tid = u =>
        /\ m \in notifying'[m.to] => m \in notifying[m.to]
        /\ Pending(m)' => Pending(m)
  BY Zenon DEF OnlyTouches, NoNewMail, Pending
<1>3. failed'[u] = 0 /\ UntoldAt(u)'
  BY Zenon, <1>0, <1>1, <1>2 DEF CalmAt, SameCall, SameReader, UntoldAt
<1>4. InitiatorAt(u)'
  BY Zenon, <1>0, <1>1 DEF CalmAt, SameCall, SameReader, InitiatorAt, NotSent
<1>5. \A h \in Peers : LateAt(h, u)' /\ RequestAt(h, u)'
  BY ZenonT(30), <1>0, <1>1 DEF CalmAt, SameCall, SameReader, LateAt, RequestAt
<1>6. ASSUME NEW m \in Message, m.tid = u, Pending(m)' PROVE ReaderFor(m)'
  <2>1. ReaderFor(m) /\ SameReader(m.to, u)
    BY Zenon, <1>0, <1>1, <1>2, <1>6, MessageFields DEF CalmAt
  <2> QED
    BY Zenon, <1>2, <1>6, <2>1 DEF SameReader, ReaderFor
<1> QED
  BY Zenon, <1>3, <1>4, <1>5, <1>6 DEF CalmAt

\* Whatever moves a reader of t or ends it touches only t.
ReaderMoves(h, t) ==
  \/ /\ (\E l : GoTo(h, t, l)) \/ UNCHANGED pc
     /\ UNCHANGED <<got, heard, reqs>>
  \/ Delete(h, t)

CallMoves(t) ==
  /\ UNCHANGED call \/ \E r : call' = [call EXCEPT ![t] = r]
  /\ UNCHANGED failed \/ \E n : failed' = [failed EXCEPT ![t] = n]

VoteMoves(h, t) == UNCHANGED vote \/ \E v : vote' = [vote EXCEPT ![h][t] = v]

\* Such steps touch nothing of the other transactions.
LEMMA MovesTouch ==
  ASSUME TypeOK, NEW h \in Peers, NEW t \in Tids,
         ReaderMoves(h, t), CallMoves(t), VoteMoves(h, t), NoNewMail(t)
  PROVE  OnlyTouches(t)
<1> SUFFICES ASSUME NEW u \in Tids, u # t
             PROVE  SameCall(u) /\ \A g \in Peers : SameReader(g, u)
  BY Zenon DEF OnlyTouches
<1>1. SameCall(u)
  BY Zenon DEF CallMoves, SameCall, TypeOK, CallTypes
<1>2. \A g \in Peers : vote'[g][u] = vote[g][u]
  BY ZenonT(30) DEF VoteMoves, TypeOK, HostTypes
<1>3. ASSUME NEW g \in Peers
      PROVE  /\ pc'[g][u] = pc[g][u] /\ got'[g][u] = got[g][u] /\ heard'[g][u] = heard[g][u]
             /\ u \in reqs'[g] <=> u \in reqs[g]
  <2>1. CASE (\E l : GoTo(h, t, l)) /\ UNCHANGED <<got, heard, reqs>>
    BY <2>1, GoToAt
  <2>2. CASE UNCHANGED <<pc, got, heard, reqs>>
    BY Zenon, <2>2
  <2>3. CASE Delete(h, t)
    <3>1. u \in reqs'[g] <=> u \in reqs[g]
      BY Zenon, <2>3, DeleteRequests
    <3> QED
      BY <2>3, <3>1, DeleteAt
  <2> QED
    BY Zenon, <2>1, <2>2, <2>3 DEF ReaderMoves
<1> QED
  BY Zenon, <1>1, <1>2, <1>3 DEF SameReader

\* A step of the reader of t at h: what is to be shown of it.
LEMMA OneReader ==
  ASSUME IInv, NEW t \in Tids, CalmAt(t), NEW h \in Peers,
         \A g \in Peers : g # h => SameReader(g, t),
         failed'[t] = 0, UntoldAt(t)', LateAt(h, t)', RequestAt(h, t)',
         h # Initiator[t] => call'[t] = call[t] /\ (NotSent(h, t)' => NotSent(h, t)),
         h = Initiator[t] =>
           /\ pc'[h][t] \notin HandlerPC
           /\ pc'[h][t] = "idle" /\ call'[t] \notin {"none", "conflict", "peerdown"} =>
                \A g \in Others(h) : ~NotSent(g, t),
         \A m \in Message : m.tid = t /\ Pending(m)' => ReaderFor(m)'
  PROVE  CalmAt(t)'
<1>0. Initiator[t] \in Peers
  BY Zenon, TidsAssumption
<1>1. ASSUME NEW g \in Peers PROVE LateAt(g, t)' /\ RequestAt(g, t)'
  <2>1. CASE g = h
    BY Zenon, <2>1
  <2>2. CASE g # h
    <3>1. pc[g][t] = "return" => call'[t] = call[t]
      BY Zenon, <2>2 DEF IInv, ReadersOK, ReaderAt, ReplicatePC
    <3> QED
      BY Zenon, <2>2, <3>1 DEF CalmAt, SameReader, LateAt, RequestAt
  <2> QED
    BY Zenon, <2>1, <2>2
<1>2. \A g \in Peers : g # h => (NotSent(g, t)' <=> NotSent(g, t))
  BY Zenon DEF SameReader, NotSent
<1>3. InitiatorAt(t)'
  <2>1. CASE h = Initiator[t]
    BY Zenon, <1>2, <2>1 DEF InitiatorAt, Others
  <2>2. CASE h # Initiator[t]
    <3>1. pc'[Initiator[t]][t] = pc[Initiator[t]][t] /\ call'[t] = call[t]
      BY Zenon, <1>0, <2>2 DEF SameReader
    <3> QED
      BY Zenon, <1>2, <2>2, <3>1 DEF CalmAt, InitiatorAt, Others
  <2> QED
    BY Zenon, <2>1, <2>2
<1> QED
  BY Zenon, <1>1, <1>3 DEF CalmAt

\* Before the request is sent there are no messages about t, and no other readers.
LEMMA BeforeSending ==
  ASSUME IInv, NEW t \in Tids, NotSent(Initiator[t], t)
  PROVE  /\ \A h \in Others(Initiator[t]) : vote[h][t] = "none" /\ pc[h][t] = "idle"
         /\ \A m \in Message : Pending(m) => m.tid # t
<1>1. \A h \in Others(Initiator[t]) : vote[h][t] = "none" /\ pc[h][t] = "idle"
  BY Zenon DEF IInv, SecretsOK, SecretAt
<1>2. ASSUME NEW m \in Message, Pending(m), m.tid = t PROVE FALSE
  <2>1. ~NotSent(m.from, t) /\ m.from \in Peers
    BY Zenon, <1>2, MessageFields DEF IInv, MessagesOK, MessageAt
  <2>2. m.from # Initiator[t]
    BY Zenon, <2>1
  <2> QED
    BY Zenon, <1>1, <2>1, <2>2 DEF Others, NotSent
<1> QED
  BY Zenon, <1>1, <1>2

\* A reader for whom there is a message has not heard everyone.
LEMMA MailIsAwaited ==
  ASSUME IInv, NEW m \in Message, Pending(m)
  PROVE  got[m.to][m.tid] # NumOthers /\ got[m.to][m.tid] < NumOthers
<1>1. m.tid \in Tids /\ m.from \in Peers /\ m.to \in Peers
  BY Zenon, MessageFields
<1>2. m.from # m.to /\ m.from \notin heard[m.to][m.tid]
  BY Zenon DEF IInv, MessagesOK, MessageAt
<1>3. heard[m.to][m.tid] \in SUBSET Others(m.to)
  <2>1. heard[m.to][m.tid] \subseteq Peers
    BY <1>1 DEF IInv, TypeOK, ReaderTypes
  <2>2. ASSUME NEW h \in Peers, NEW t \in Tids, NEW p \in heard[h][t] PROVE p # h
    <3>1. GatheredAt(h, t)
      BY Zenon DEF IInv, GatheredOK
    <3> QED
      BY Zenon, <3>1 DEF GatheredAt
  <2> QED
    BY Zenon, <1>1, <2>1, <2>2 DEF Others
<1>4. heard[m.to][m.tid] # Others(m.to)
  BY Zenon, <1>1, <1>2 DEF Others
<1>5. got[m.to][m.tid] = Cardinality(heard[m.to][m.tid])
  BY Zenon, <1>1 DEF IInv, GatheredOK, GatheredAt
<1>6. got[m.to][m.tid] \in 0 .. NumOthers /\ got[m.to][m.tid] # NumOthers
  BY Zenon, <1>1, <1>3, <1>4, <1>5, SubsetOfOthers
<1> QED
  BY <1>6, NumOthersType

\* A call that anyone has a message about was made, and not given up.
LEMMA MailIsTold ==
  ASSUME IInv, NEW m \in Message, Pending(m), CalmAt(m.tid)
  PROVE  call[m.tid] \notin {"none", "conflict", "peerdown"}
<1>1. m.tid \in Tids /\ m.from \in Peers
  BY Zenon, MessageFields
<1>2. call[m.tid] # "none"
  BY Zenon, <1>1 DEF IInv, MessagesOK, MessageAt, NotSent, SecretsOK, SecretAt
<1>3. call[m.tid] \notin {"conflict", "peerdown"}
  BY Zenon DEF CalmAt, UntoldAt
<1> QED
  BY Zenon, <1>2, <1>3

-----------------------------------------------------------------------------
(* The steps of the caller *)

\* Replicate is called.
LEMMA CallCalm ==
  ASSUME IInv, NEW t \in Tids, CalmAt(t), Replicate(t)
  PROVE  CalmAt(t)' /\ OnlyTouches(t)
<1> DEFINE h == Initiator[t]
<1>0. h \in Peers /\ TypeOK
  BY Zenon, TidsAssumption DEF IInv
<1>1. \A g \in Peers, u \in Tids : pc'[g][u] = IF g = h /\ u = t THEN "detect" ELSE pc[g][u]
  BY <1>0, GoToAt DEF Replicate
<1>2. \A u \in Tids : call'[u] = IF u = t THEN "pending" ELSE call[u]
  BY Zenon, <1>0 DEF Replicate, TypeOK, CallTypes
<1>3. \A g \in Peers : reqs'[g] = IF g = h THEN reqs[g] \cup {t} ELSE reqs[g]
  BY Zenon, <1>0 DEF Replicate, TypeOK, TableTypes
<1>4. UNCHANGED <<got, heard, failed, notifying, net, vote>>
  BY Zenon DEF Replicate
<1> HIDE DEF h
<1>5. OnlyTouches(t)
  BY ZenonT(30), <1>1, <1>2, <1>3, <1>4 DEF OnlyTouches, SameCall, SameReader, NoNewMail
<1>6. NotSent(h, t)
  BY Zenon, <1>0 DEF Replicate, IInv, SecretsOK, SecretAt, NotSent
<1>7. \A m \in Message : Pending(m)' => m.tid # t
  BY Zenon, <1>4, <1>6, BeforeSending DEF h, Pending
<1>8. \A g \in Peers : g # h => SameReader(g, t)
  BY Zenon, <1>1, <1>3, <1>4 DEF SameReader
<1>9. failed'[t] = 0 /\ UntoldAt(t)' /\ LateAt(h, t)' /\ RequestAt(h, t)'
  BY Zenon, <1>0, <1>1, <1>2, <1>4 DEF CalmAt, UntoldAt, LateAt, RequestAt, h
<1>10. pc'[h][t] \notin HandlerPC /\ pc'[h][t] # "idle"
  BY Zenon, <1>0, <1>1 DEF HandlerPC
<1> QED
  BY Zenon, <1>0, <1>5, <1>7, <1>8, <1>9, <1>10, OneReader DEF h

\* A caller that goes on before anyone was told, or gives up.
LEMMA UntoldCalm ==
  ASSUME IInv, NEW t \in Tids, CalmAt(t), Detect(t) \/ SendRequestPeerIsDown(t)
  PROVE  CalmAt(t)' /\ OnlyTouches(t)
<1> DEFINE h == Initiator[t]
<1>0. h \in Peers /\ TypeOK
  BY Zenon, TidsAssumption DEF IInv
<1>1. PICK l \in {"return", "send"} : GoTo(h, t, l) /\ (l = "send" => UNCHANGED call)
  BY Zenon DEF Detect, SendRequestPeerIsDown
<1>2. \A g \in Peers, u \in Tids : pc'[g][u] = IF g = h /\ u = t THEN l ELSE pc[g][u]
  BY <1>0, <1>1, GoToAt
<1>3. UNCHANGED <<got, heard, reqs, failed, notifying, net>>
  BY Zenon DEF Detect, SendRequestPeerIsDown, tableVars
<1>4. CallMoves(t) /\ VoteMoves(h, t) /\ NoNewMail(t) /\ ReaderMoves(h, t)
  BY Zenon, <1>1, <1>3 DEF Detect, SendRequestPeerIsDown, CallMoves, VoteMoves, NoNewMail, ReaderMoves
<1> HIDE DEF h
<1>5. OnlyTouches(t)
  BY Zenon, <1>0, <1>4, MovesTouch
<1>6. pc[h][t] \in {"detect", "send"}
  BY Zenon DEF Detect, SendRequestPeerIsDown, h
<1>7. NotSent(h, t)
  BY Zenon, <1>0, <1>6 DEF IInv, ReadersOK, ReaderAt, NotSent
<1>8. /\ \A m \in Message : Pending(m)' => m.tid # t
      /\ \A g \in Others(h) : vote[g][t] = "none" /\ pc[g][t] = "idle"
  BY Zenon, <1>3, <1>7, BeforeSending DEF h, Pending
<1>9. \A g \in Peers : g # h => SameReader(g, t)
  <2>1. \A g \in Peers : g # h => vote'[g][t] = vote[g][t]
    BY Zenon, <1>0, <1>4 DEF VoteMoves, TypeOK, HostTypes
  <2> QED
    BY Zenon, <1>2, <1>3, <2>1 DEF SameReader
<1>10. UntoldAt(t)'
  BY Zenon, <1>8, <1>9 DEF UntoldAt, SameReader, h, Others
<1>11. LateAt(h, t)'
  <2>1. pc'[h][t] = l
    BY Zenon, <1>0, <1>2
  <2>2. l = "return" => call'[t] \in {"conflict", "peerdown"}
    <3>1. GoTo(h, t, "send") => pc'[h][t] = "send"
      BY <1>0, GoToAt
    <3> QED
      BY Zenon, <1>0, <2>1, <3>1 DEF Detect, SendRequestPeerIsDown, TypeOK, CallTypes, h
  <2> QED
    BY Zenon, <2>1, <2>2 DEF LateAt
<1>12. failed'[t] = 0 /\ RequestAt(h, t)'
  BY Zenon, <1>3 DEF CalmAt, RequestAt, h
<1>13. pc'[h][t] \notin HandlerPC /\ pc'[h][t] # "idle"
  BY Zenon, <1>0, <1>2 DEF HandlerPC
<1> QED
  BY Zenon, <1>0, <1>5, <1>8, <1>9, <1>10, <1>11, <1>12, <1>13, OneReader DEF h

\* The request goes to everyone.
LEMMA SendCalm ==
  ASSUME Calm, IInv, NEW t \in Tids, CalmAt(t), SettledAt(t), SendRequest(t)
  PROVE  CalmAt(t)' /\ OnlyTouches(t)
<1> DEFINE h == Initiator[t]
<1>0. h \in Peers /\ TypeOK /\ pc[h][t] = "send" /\ call[t] = "pending"
  BY Zenon, TidsAssumption DEF IInv, SendRequest, SettledAt, Undecided
<1>1. PICK arrive \in SUBSET Others(h) :
        /\ net' = net \cup {[tid |-> t, from |-> h, to |-> p, body |-> "request"] : p \in arrive}
        /\ failed' = [failed EXCEPT ![t] = Cardinality({})]
        /\ {} # Others(h) => GoTo(h, t, "await") /\ UNCHANGED call
  BY Zenon DEF Calm, SendRequest, Broadcast
<1>2. GoTo(h, t, "await") /\ UNCHANGED call
  BY Zenon, <1>0, <1>1, NumOthersType, FS_EmptySet
<1>3. \A g \in Peers, u \in Tids : pc'[g][u] = IF g = h /\ u = t THEN "await" ELSE pc[g][u]
  BY <1>0, <1>2, GoToAt
<1>4. \A u \in Tids : failed'[u] = IF u = t THEN 0 ELSE failed[u]
  BY Zenon, <1>0, <1>1, FS_EmptySet DEF TypeOK, CallTypes
<1>5. UNCHANGED <<got, heard, reqs, notifying, vote>>
  BY Zenon DEF SendRequest, tableVars
<1>6. \A m \in net' : m \in net \/ (m.tid = t /\ m.to # h)
  BY <1>1 DEF Others
<1> HIDE DEF h
<1>7. OnlyTouches(t)
  BY Zenon, <1>2, <1>3, <1>4, <1>5, <1>6 DEF OnlyTouches, SameCall, SameReader, NoNewMail
<1>8. \A m \in Message : Pending(m) => m.tid # t
  BY Zenon, <1>0, BeforeSending DEF NotSent, h
<1>9. ASSUME NEW m \in Message, m.tid = t, Pending(m)' PROVE ReaderFor(m)'
  <2>1. m.to # h /\ m \notin notifying'[m.to]
    BY Zenon, <1>5, <1>6, <1>8, <1>9 DEF Pending
  <2> QED
    BY Zenon, <1>9, <2>1 DEF ReaderFor, h
<1>10. \A g \in Peers : g # h => SameReader(g, t)
  BY Zenon, <1>3, <1>5 DEF SameReader
<1>11. failed'[t] = 0 /\ UntoldAt(t)' /\ LateAt(h, t)' /\ RequestAt(h, t)'
  BY Zenon, <1>0, <1>2, <1>3, <1>4 DEF UntoldAt, LateAt, RequestAt, h
<1>12. pc'[h][t] \notin HandlerPC /\ pc'[h][t] # "idle"
  BY Zenon, <1>0, <1>3 DEF HandlerPC
<1> QED
  BY Zenon, <1>0, <1>7, <1>9, <1>10, <1>11, <1>12, OneReader DEF h

\* The responses are all there.
LEMMA ProcessCalm ==
  ASSUME IInv, NEW t \in Tids, CalmAt(t), ProcessResponses(t)
  PROVE  CalmAt(t)' /\ OnlyTouches(t)
<1> DEFINE h == Initiator[t]
<1>0. h \in Peers /\ TypeOK /\ pc[h][t] = "await" /\ failed[t] = 0
  BY Zenon, TidsAssumption DEF IInv, ProcessResponses, CalmAt
<1>1. \A g \in Peers, u \in Tids : pc'[g][u] = IF g = h /\ u = t THEN "return" ELSE pc[g][u]
  BY <1>0, GoToAt DEF ProcessResponses
<1>2. UNCHANGED <<got, heard, reqs, failed, notifying, net, vote>>
  BY Zenon DEF ProcessResponses, tableVars
<1>3. got[h][t] = NumOthers
  BY <1>0, NumOthersType DEF ProcessResponses, Expected
<1>4. CallMoves(t) /\ VoteMoves(h, t) /\ NoNewMail(t) /\ ReaderMoves(h, t)
  BY Zenon, <1>2 DEF ProcessResponses, CallMoves, VoteMoves, NoNewMail, ReaderMoves
<1>5. call'[t] \in {"ok", "notpermitted"}
  <2>1. PICK r \in {"ok", "notpermitted"} : call' = [call EXCEPT ![t] = r]
    <3>1. ~(failed[t] > 0)
      BY <1>0
    <3> QED
      BY Zenon, <3>1 DEF ProcessResponses
  <2> QED
    BY Zenon, <1>0, <2>1 DEF TypeOK, CallTypes
<1> HIDE DEF h
<1>6. OnlyTouches(t)
  BY Zenon, <1>0, <1>4, MovesTouch
<1>7. \A g \in Peers : g # h => SameReader(g, t)
  BY Zenon, <1>1, <1>2 DEF SameReader
<1>8. failed'[t] = 0 /\ UntoldAt(t)' /\ LateAt(h, t)' /\ RequestAt(h, t)'
  BY Zenon, <1>0, <1>1, <1>2, <1>3, <1>5 DEF UntoldAt, LateAt, RequestAt, h
<1>9. pc'[h][t] \notin HandlerPC /\ pc'[h][t] # "idle"
  BY Zenon, <1>0, <1>1 DEF HandlerPC
<1>10. ASSUME NEW m \in Message, m.tid = t, Pending(m)' PROVE ReaderFor(m)'
  <2>1. Pending(m) /\ ReaderFor(m) /\ m.to \in Peers
    BY Zenon, <1>2, <1>10, MessageFields DEF Pending, CalmAt
  <2>2. pc[m.to][t] # "idle" => pc'[m.to][t] # "idle"
    BY Zenon, <1>1, <2>1
  <2> QED
    BY Zenon, <1>2, <1>10, <2>1, <2>2 DEF ReaderFor
<1> QED
  BY Zenon, <1>0, <1>6, <1>7, <1>8, <1>9, <1>10, OneReader DEF h

\* Replicate returns.
LEMMA ReturnCalm ==
  ASSUME IInv, NEW t \in Tids, CalmAt(t), Return(t)
  PROVE  CalmAt(t)' /\ OnlyTouches(t)
<1> DEFINE h == Initiator[t]
<1>0. h \in Peers /\ TypeOK /\ ProtocolInv /\ pc[h][t] = "return" /\ Delete(h, t)
  BY Zenon, TidsAssumption DEF IInv, ProtocolInv, Return
<1>1. UNCHANGED <<call, failed, notifying, net, vote>>
  BY Zenon DEF Return, callVars
<1> HIDE DEF h
<1>2. CallMoves(t) /\ VoteMoves(h, t) /\ NoNewMail(t) /\ ReaderMoves(h, t)
  BY Zenon, <1>0, <1>1 DEF CallMoves, VoteMoves, NoNewMail, ReaderMoves
<1>3. OnlyTouches(t)
  BY Zenon, <1>0, <1>2, MovesTouch
<1>4. pc'[h][t] = "idle" /\ heard'[h][t] = {}
  BY Zenon, <1>0, DeleteAt
<1>5. \A g \in Peers : g # h => SameReader(g, t)
  <2>1. \A g \in Peers : g # h => reqs'[g] = reqs[g]
    BY Zenon, <1>0, DeleteRequests
  <2>2. \A g \in Peers : g # h =>
          pc'[g][t] = pc[g][t] /\ got'[g][t] = got[g][t] /\ heard'[g][t] = heard[g][t]
    BY <1>0, DeleteAt
  <2> QED
    BY Zenon, <1>1, <2>1, <2>2 DEF SameReader
<1>6. ASSUME call[t] \notin {"conflict", "peerdown"}
      PROVE  \A g \in Others(h) : ~NotSent(g, t)
  <2>1. got[h][t] = NumOthers
    BY Zenon, <1>0, <1>6 DEF CalmAt, LateAt
  <2>2. \A g \in Others(h) : g \in heard[h][t]
    BY Zenon, <1>0, <2>1, AllHeard DEF Others
  <2> QED
    BY Zenon, <1>0, <2>2 DEF IInv, GatheredOK, GatheredAt
<1>7. UntoldAt(t)'
  BY Zenon, <1>1, <1>5 DEF CalmAt, UntoldAt, SameReader, h, Others, Pending
<1>8. failed'[t] = 0 /\ LateAt(h, t)' /\ RequestAt(h, t)'
  BY Zenon, <1>1, <1>4 DEF CalmAt, LateAt, RequestAt, h
<1>9. ASSUME NEW m \in Message, m.tid = t, Pending(m)' PROVE ReaderFor(m)'
  <2>1. Pending(m) /\ ReaderFor(m) /\ m.to \in Peers
    BY Zenon, <1>1, <1>9, MessageFields DEF Pending, CalmAt
  <2>2. m.to # h
    BY Zenon, <1>0, <1>9, <2>1, MailIsAwaited, MailIsTold DEF CalmAt, LateAt
  <2> QED
    BY Zenon, <1>1, <1>5, <1>9, <2>1, <2>2 DEF ReaderFor, SameReader
<1>10. pc'[h][t] \notin HandlerPC
  BY Zenon, <1>4 DEF HandlerPC
<1> QED
  BY Zenon, <1>0, <1>1, <1>3, <1>5, <1>6, <1>7, <1>8, <1>9, <1>10, OneReader DEF h

-----------------------------------------------------------------------------
(* The steps of the listener *)

\* A message is received: it finds a reader, or one is started.
LEMMA ListenCalm ==
  ASSUME IInv, NEW h \in Peers, NEW m \in net, Listen(h, m), NEW t \in Tids, t = m.tid, CalmAt(t)
  PROVE  CalmAt(t)' /\ OnlyTouches(t)
<1>0. TypeOK /\ m \in Message /\ m.to = h /\ Pending(m)
  BY Zenon DEF Listen, IInv, TypeOK, NetTypes, Pending
<1>1. UNCHANGED <<got, heard, call, failed, vote>>
  BY Zenon DEF Listen, callVars
<1>2. \A g \in Peers : /\ reqs[g] \subseteq reqs'[g] /\ reqs'[g] \subseteq reqs[g] \cup {t}
                       /\ g # h => reqs'[g] = reqs[g]
  BY Zenon, <1>0 DEF Listen, TypeOK, TableTypes
<1>3. m.body = "request" => t \in reqs'[h]
  BY <1>0, VoteNames DEF Listen, TypeOK, TableTypes
<1>4. \A g \in Peers : notifying'[g] = IF g = h THEN {m} ELSE notifying[g]
  BY Zenon, <1>0 DEF Listen, TypeOK, NetTypes
<1>5. net' \subseteq net
  BY Zenon DEF Listen
<1>6. /\ \A g \in Peers, u \in Tids : g # h \/ u # t => pc'[g][u] = pc[g][u]
      /\ pc'[h][t] = IF pc[h][t] = "idle" THEN "gather" ELSE pc[h][t]
  <2>1. t \in ts[h] <=> pc[h][t] # "idle"
    BY Zenon DEF IInv, ReadersOK, ReaderAt
  <2>2. CASE t \in ts[h] /\ UNCHANGED pc
    BY Zenon, <2>1, <2>2
  <2>3. CASE t \notin ts[h] /\ GoTo(h, t, "gather")
    BY <1>0, <2>1, <2>3, GoToAt
  <2> QED
    BY Zenon, <2>2, <2>3 DEF Listen
<1>7. OnlyTouches(t)
  <2>1. \A u \in Tids : u # t => SameCall(u) /\ \A g \in Peers : SameReader(g, u)
    BY Zenon, <1>1, <1>2, <1>6 DEF SameCall, SameReader
  <2>2. NoNewMail(t)
    BY Zenon, <1>4, <1>5, MessageFields DEF NoNewMail
  <2> QED
    BY Zenon, <2>1, <2>2 DEF OnlyTouches
<1>8. \A g \in Peers : g # h => SameReader(g, t)
  BY Zenon, <1>1, <1>2, <1>6 DEF SameReader
<1>9. \A n \in Message : n.tid = t /\ Pending(n)' => Pending(n)
  BY Zenon, <1>0, <1>4, <1>5, MessageFields DEF Pending
<1>10. call[t] \notin {"none", "conflict", "peerdown"}
  BY Zenon, <1>0, MailIsTold
<1>11. h = Initiator[t] => pc[h][t] # "idle"
  BY Zenon, <1>0 DEF CalmAt, ReaderFor
<1>12. LateAt(h, t)'
  BY Zenon, <1>1, <1>6 DEF CalmAt, LateAt
<1>13. failed'[t] = 0 /\ UntoldAt(t)' /\ RequestAt(h, t)'
  BY Zenon, <1>1, <1>2, <1>10 DEF CalmAt, UntoldAt, RequestAt
<1>14. NotSent(h, t)' => NotSent(h, t)
  BY Zenon, <1>1, <1>6 DEF NotSent
<1>15. ASSUME NEW n \in Message, n.tid = t, Pending(n)' PROVE ReaderFor(n)'
  <2>1. n.to \in Peers /\ ReaderFor(n)
    BY Zenon, <1>9, <1>15, MessageFields DEF CalmAt
  <2>2. CASE n.to = h
    <3>1. pc'[h][t] # "idle"
      BY Zenon, <1>6
    <3>2. n \in notifying'[n.to] => n = m
      BY Zenon, <1>4, <2>1, <2>2
    <3> QED
      BY Zenon, <1>3, <1>15, <2>2, <3>1, <3>2 DEF ReaderFor
  <2>3. CASE n.to # h
    <3>1. SameReader(n.to, t) /\ notifying'[n.to] = notifying[n.to]
      BY Zenon, <1>4, <1>8, <2>1, <2>3
    <3> QED
      BY Zenon, <1>15, <2>1, <3>1 DEF ReaderFor, SameReader
  <2> QED
    BY Zenon, <2>2, <2>3
<1>16. h = Initiator[t] => pc'[h][t] \notin HandlerPC /\ pc'[h][t] # "idle"
  BY Zenon, <1>6, <1>11 DEF CalmAt, InitiatorAt
<1> QED
  BY Zenon, <1>1, <1>7, <1>8, <1>12, <1>13, <1>14, <1>15, <1>16, OneReader

\* The reader takes a message.
LEMMA NotifyCalm ==
  ASSUME IInv, NEW h \in Peers, NEW m \in notifying[h], Notify(h, m),
         NEW t \in Tids, t = m.tid, CalmAt(t)
  PROVE  CalmAt(t)' /\ OnlyTouches(t)
<1>0. TypeOK /\ m \in Message /\ m.to = h /\ Pending(m) /\ m.from \in Peers
  BY Zenon, HeldMessages DEF IInv, ListenersOK, ListenerAt, Pending
<1>1. UNCHANGED <<reqs, call, failed, vote, net>>
  BY Zenon DEF Notify, callVars, tableVars
<1>2. \A g \in Peers : notifying'[g] = IF g = h THEN {} ELSE notifying[g]
  BY Zenon, <1>0 DEF Notify, TypeOK, NetTypes
<1>3. /\ \A g \in Peers, u \in Tids : g # h \/ u # t =>
           got'[g][u] = got[g][u] /\ heard'[g][u] = heard[g][u]
      /\ heard'[h][t] = heard[h][t] \cup {m.from}
  BY Zenon, <1>0 DEF Notify, TypeOK, ReaderTypes
<1>4. pc[h][t] \in {"await", "gather"}
  BY Zenon DEF Notify, Receiving
<1>5. /\ \A g \in Peers, u \in Tids : g # h \/ u # t => pc'[g][u] = pc[g][u]
      /\ pc'[h][t] = pc[h][t] \/ (pc[h][t] = "gather" /\ pc'[h][t] = "consult")
  <2>1. CASE UNCHANGED pc
    BY Zenon, <2>1
  <2>2. CASE pc[h][t] = "gather" /\ GoTo(h, t, "consult")
    BY SMTT(30), <1>0, <2>2, GoToAt
  <2> QED
    BY Zenon, <2>1, <2>2 DEF Notify
<1>6. OnlyTouches(t)
  <2>1. \A u \in Tids : u # t => SameCall(u) /\ \A g \in Peers : SameReader(g, u)
    BY ZenonT(30), <1>1, <1>3, <1>5 DEF SameCall, SameReader
  <2>2. NoNewMail(t)
    BY Zenon, <1>1, <1>2, MessageFields DEF NoNewMail
  <2> QED
    BY Zenon, <2>1, <2>2 DEF OnlyTouches
<1>7. \A g \in Peers : g # h => SameReader(g, t)
  BY Zenon, <1>1, <1>3, <1>5 DEF SameReader
<1>8. \A n \in Message : n \in notifying'[n.to] => n \in notifying[n.to]
  BY Zenon, <1>2, MessageFields
<1>9. call[t] \notin {"none", "conflict", "peerdown"}
  BY Zenon, <1>0, MailIsTold
<1>10. RequestAt(h, t)'
  <2>1. CASE m.from = Initiator[t]
    <3>1. m.body = "request"
      BY Zenon, <1>0, <2>1 DEF IInv, MessagesOK, MessageAt
    <3>2. t \in reqs[h]
      BY Zenon, <1>0, <3>1 DEF CalmAt, ReaderFor
    <3> QED
      BY Zenon, <1>1, <3>2 DEF RequestAt
  <2>2. CASE m.from # Initiator[t]
    BY Zenon, <1>1, <1>3, <2>2 DEF CalmAt, RequestAt
  <2> QED
    BY Zenon, <2>1, <2>2
<1>11. LateAt(h, t)'
  BY Zenon, <1>4, <1>5 DEF LateAt
<1>12. failed'[t] = 0 /\ UntoldAt(t)'
  BY Zenon, <1>1, <1>9 DEF CalmAt, UntoldAt
<1>13. NotSent(h, t)' => NotSent(h, t)
  BY Zenon, <1>1, <1>5 DEF NotSent
<1>14. h = Initiator[t] => pc'[h][t] \notin HandlerPC /\ pc'[h][t] # "idle"
  BY Zenon, <1>4, <1>5 DEF CalmAt, InitiatorAt, HandlerPC
<1>15. ASSUME NEW n \in Message, n.tid = t, Pending(n)' PROVE ReaderFor(n)'
  <2>1. n.to \in Peers /\ ReaderFor(n)
    BY Zenon, <1>1, <1>8, <1>15, MessageFields DEF CalmAt, Pending
  <2>2. pc[n.to][t] # "idle" => pc'[n.to][t] # "idle"
    BY Zenon, <1>5, <2>1
  <2> QED
    BY Zenon, <1>1, <1>8, <1>15, <2>1, <2>2 DEF ReaderFor
<1> QED
  BY Zenon, <1>1, <1>6, <1>7, <1>10, <1>11, <1>12, <1>13, <1>14, <1>15, OneReader

-----------------------------------------------------------------------------
(* The steps of the handler *)

\* A handler runs where the call was not made, and for a call that was not given up.
LEMMA HandlerIsTold ==
  ASSUME IInv, NEW h \in Peers, NEW t \in Tids, CalmAt(t), pc[h][t] \in HandlerPC
  PROVE  h # Initiator[t] /\ call[t] \notin {"none", "conflict", "peerdown"} /\ pc[h][t] # "idle"
<1>1. pc[h][t] # "idle"
  BY Zenon DEF HandlerPC
<1>2. h # Initiator[t]
  BY Zenon DEF CalmAt, InitiatorAt
<1>3. call[t] # "none"
  BY Zenon, <1>1 DEF IInv, SecretsOK, SecretAt
<1>4. call[t] \notin {"conflict", "peerdown"}
  BY Zenon, <1>1, <1>2 DEF CalmAt, UntoldAt, Others
<1> QED
  BY Zenon, <1>1, <1>2, <1>3, <1>4

\* A handler that moves on, and may answer.
LEMMA AdvanceCalm ==
  ASSUME IInv, NEW h \in Peers, NEW t \in Tids, CalmAt(t), pc[h][t] \in HandlerPC,
         \/ UNCHANGED pc
         \/ \E l : GoTo(h, t, l) /\ l # "idle" /\ (l \in {"mirror", "exit", "exiterr"} =>
                                                    got[h][t] = NumOthers)
                   /\ l # "return",
         VoteMoves(h, t), NotSent(h, t)' => NotSent(h, t),
         UNCHANGED <<got, heard, reqs, call, failed, notifying>>,
         \A m \in net' : m \in net \/ (NotSent(h, t) /\ m.tid = t /\ m.from = h)
  PROVE  CalmAt(t)' /\ OnlyTouches(t)
<1>0. /\ TypeOK /\ h # Initiator[t] /\ call[t] \notin {"none", "conflict", "peerdown"}
      /\ pc[h][t] # "idle" /\ Initiator[t] \in Peers
  BY Zenon, HandlerIsTold, TidsAssumption DEF IInv
<1>1. ReaderMoves(h, t) /\ CallMoves(t) /\ NoNewMail(t)
  BY Zenon DEF ReaderMoves, CallMoves, NoNewMail
<1>2. OnlyTouches(t)
  BY Zenon, <1>0, <1>1, MovesTouch
<1>3. \A g \in Peers : g # h => pc'[g][t] = pc[g][t]
  BY <1>0, GoToAt
<1>4. pc'[h][t] # "idle" /\ LateAt(h, t)'
  <2>1. CASE UNCHANGED pc
    BY Zenon, <1>0, <2>1 DEF CalmAt, LateAt
  <2>2. ASSUME NEW l, GoTo(h, t, l), l # "idle", l # "return",
               l \in {"mirror", "exit", "exiterr"} => got[h][t] = NumOthers
        PROVE  pc'[h][t] # "idle" /\ LateAt(h, t)'
    <3>1. pc'[h][t] = l
      BY <1>0, <2>2, GoToAt
    <3> QED
      BY Zenon, <2>2, <3>1 DEF LateAt
  <2> QED
    BY Zenon, <2>1, <2>2
<1>5. \A g \in Peers : g # h => SameReader(g, t)
  <2>1. \A g \in Peers : g # h => vote'[g][t] = vote[g][t]
    BY Zenon, <1>0 DEF VoteMoves, TypeOK, HostTypes
  <2> QED
    BY Zenon, <1>3, <2>1 DEF SameReader
<1>6. failed'[t] = 0 /\ UntoldAt(t)' /\ RequestAt(h, t)'
  BY Zenon, <1>0 DEF CalmAt, UntoldAt, RequestAt
<1>7. ASSUME NEW m \in Message, m.tid = t, Pending(m)' PROVE ReaderFor(m)'
  <2>0. m.to \in Peers /\ (pc[m.to][t] # "idle" => pc'[m.to][t] # "idle")
    BY Zenon, <1>3, <1>4, MessageFields
  <2>1. CASE Pending(m)
    <3>1. ReaderFor(m)
      BY Zenon, <1>7, <2>1 DEF CalmAt
    <3> QED
      BY Zenon, <1>7, <2>0, <3>1 DEF ReaderFor
  <2>2. CASE ~Pending(m)
    <3>1. NotSent(h, t) /\ m \notin notifying'[m.to]
      BY Zenon, <1>7, <2>2 DEF Pending
    <3>2. pc[Initiator[t]][t] # "idle"
      BY Zenon, <1>0, <3>1 DEF CalmAt, InitiatorAt, Others
    <3> QED
      BY Zenon, <1>7, <2>0, <3>1, <3>2 DEF ReaderFor
  <2> QED
    BY Zenon, <2>1, <2>2
<1> QED
  BY Zenon, <1>0, <1>2, <1>4, <1>5, <1>6, <1>7, OneReader

\* A handler that ends.
LEMMA ExitCalm ==
  ASSUME IInv, NEW h \in Peers, NEW t \in Tids, CalmAt(t), Exit(h, t)
  PROVE  CalmAt(t)' /\ OnlyTouches(t)
<1>0. TypeOK /\ pc[h][t] \in {"exit", "exiterr"} /\ Delete(h, t)
  BY Zenon DEF IInv, Exit
<1>1. h # Initiator[t] /\ call[t] \notin {"none", "conflict", "peerdown"}
  BY Zenon, <1>0, HandlerIsTold DEF HandlerPC
<1>2. UNCHANGED <<call, failed, notifying, vote>> /\ net' \subseteq net
  BY Zenon DEF Exit, callVars
<1>3. CallMoves(t) /\ VoteMoves(h, t) /\ NoNewMail(t) /\ ReaderMoves(h, t)
  BY Zenon, <1>0, <1>2 DEF CallMoves, VoteMoves, NoNewMail, ReaderMoves
<1>4. OnlyTouches(t)
  BY Zenon, <1>0, <1>3, MovesTouch
<1>5. pc'[h][t] = "idle" /\ heard'[h][t] = {}
  BY Zenon, <1>0, DeleteAt
<1>6. \A g \in Peers : g # h => SameReader(g, t)
  <2>1. \A g \in Peers : g # h => reqs'[g] = reqs[g]
    BY Zenon, <1>0, DeleteRequests
  <2>2. \A g \in Peers : g # h =>
          pc'[g][t] = pc[g][t] /\ got'[g][t] = got[g][t] /\ heard'[g][t] = heard[g][t]
    BY <1>0, DeleteAt
  <2> QED
    BY Zenon, <1>2, <2>1, <2>2 DEF SameReader
<1>7. failed'[t] = 0 /\ UntoldAt(t)' /\ LateAt(h, t)' /\ RequestAt(h, t)'
  BY Zenon, <1>1, <1>2, <1>5 DEF CalmAt, UntoldAt, LateAt, RequestAt
<1>8. NotSent(h, t)' => NotSent(h, t)
  BY Zenon, <1>2, <1>5 DEF NotSent
<1>9. ASSUME NEW m \in Message, m.tid = t, Pending(m)' PROVE ReaderFor(m)'
  <2>1. Pending(m) /\ ReaderFor(m) /\ m.to \in Peers
    BY Zenon, <1>2, <1>9, MessageFields DEF Pending, CalmAt
  <2>2. m.to # h
    BY Zenon, <1>0, <1>9, <2>1, MailIsAwaited DEF CalmAt, LateAt
  <2> QED
    BY Zenon, <1>2, <1>6, <1>9, <2>1, <2>2 DEF ReaderFor, SameReader
<1> QED
  BY Zenon, <1>1, <1>2, <1>4, <1>6, <1>7, <1>8, <1>9, OneReader

\* Every step of a handler.
LEMMA HandlerCalm ==
  ASSUME Calm, IInv, NEW h \in Peers, NEW t \in Tids, CalmAt(t), HandlerStep(h, t)
  PROVE  CalmAt(t)' /\ OnlyTouches(t)
<1>0. TypeOK
  BY Zenon DEF IInv
<1>1. CASE Consult(h, t)
  <2>1. /\ pc[h][t] \in HandlerPC /\ NotSent(h, t) /\ GoTo(h, t, "respond") /\ VoteMoves(h, t)
        /\ UNCHANGED <<got, heard, reqs, call, failed, notifying, net>>
    BY Zenon, <1>1 DEF Consult, HandlerPC, IInv, ReadersOK, ReaderAt, NotSent, VoteMoves,
       callVars, tableVars
  <2>2. "respond" # "idle" /\ "respond" \notin {"mirror", "exit", "exiterr"} /\ "respond" # "return"
    OBVIOUS
  <2> QED
    BY Zenon, <2>1, <2>2, AdvanceCalm
<1>2. CASE Respond(h, t)
  <2>1. /\ pc[h][t] \in HandlerPC /\ NotSent(h, t) /\ GoTo(h, t, "gather") /\ VoteMoves(h, t)
        /\ UNCHANGED <<got, heard, reqs, call, failed, notifying>>
    BY Zenon, <1>2 DEF Respond, HandlerPC, NotSent, VoteMoves, callVars, tableVars
  <2>2. \A m \in net' : m \in net \/ (m.tid = t /\ m.from = h)
    <3>1. CASE \E errs, arrive \in SUBSET Others(h) : Broadcast(h, t, ours[h][t], errs, arrive)
      BY <3>1 DEF Broadcast
    <3>2. CASE UNCHANGED net
      BY Zenon, <3>2
    <3> QED
      BY Zenon, <1>2, <3>1, <3>2 DEF Respond
  <2>3. "gather" # "idle" /\ "gather" \notin {"mirror", "exit", "exiterr"} /\ "gather" # "return"
    OBVIOUS
  <2> QED
    BY Zenon, <2>1, <2>2, <2>3, AdvanceCalm
<1>3. CASE GatherTimeout(h, t)
  BY Zenon, <1>3 DEF GatherTimeout, TimedOut, Calm
<1>4. CASE Decide(h, t) \/ Mirror(h, t)
  <2>1. /\ pc[h][t] \in {"gather", "mirror"} /\ UNCHANGED vote
        /\ UNCHANGED <<got, heard, reqs, call, failed, notifying, net>>
    BY Zenon, <1>4 DEF Decide, Mirror, callVars, tableVars
  <2>2. got[h][t] = NumOthers
    BY Zenon, <1>4 DEF Decide, Mirror, Gathered, CalmAt, LateAt
  <2>3. UNCHANGED pc \/ \E l \in {"mirror", "exit", "exiterr"} : GoTo(h, t, l)
    BY Zenon, <1>4 DEF Decide, Mirror
  <2>4. \A l \in {"mirror", "exit", "exiterr"} :
          l # "idle" /\ l # "return" /\ l # "respond" /\ l # "send"
    OBVIOUS
  <2>5. NotSent(h, t)' => NotSent(h, t)
    <3>1. CASE UNCHANGED pc
      BY Zenon, <2>1, <3>1 DEF NotSent
    <3>2. ASSUME NEW l \in {"mirror", "exit", "exiterr"}, GoTo(h, t, l)
          PROVE  NotSent(h, t)' => NotSent(h, t)
      <4>1. pc'[h][t] = l
        BY <1>0, <3>2, GoToAt
      <4> QED
        BY Zenon, <2>1, <2>4, <4>1 DEF NotSent
    <3> QED
      BY Zenon, <2>3, <3>1, <3>2
  <2>6. pc[h][t] \in HandlerPC /\ VoteMoves(h, t)
    BY Zenon, <2>1 DEF HandlerPC, VoteMoves
  <2> QED
    BY Zenon, <2>1, <2>2, <2>3, <2>4, <2>5, <2>6, AdvanceCalm
<1> QED
  BY Zenon, <1>1, <1>2, <1>3, <1>4, ExitCalm DEF HandlerStep

\* Steps that touch no reader and no call.
LEMMA QuietCalm ==
  ASSUME CalmInv, net' \subseteq net,
         UNCHANGED <<pc, got, heard, reqs, call, failed, notifying, vote>>
  PROVE  CalmInv'
<1> SUFFICES ASSUME NEW t \in Tids PROVE CalmAt(t)'
  BY Zenon DEF CalmInv
<1>0. CalmAt(t)
  BY Zenon DEF CalmInv
<1>1. \A m \in Message : Pending(m)' => Pending(m)
  BY Zenon DEF Pending
<1>2. failed'[t] = 0 /\ UntoldAt(t)' /\ InitiatorAt(t)'
  BY Zenon, <1>0, <1>1 DEF CalmAt, UntoldAt, InitiatorAt, NotSent
<1>3. \A h \in Peers : LateAt(h, t)' /\ RequestAt(h, t)'
  BY Zenon, <1>0 DEF CalmAt, LateAt, RequestAt
<1>4. \A m \in Message : m.tid = t /\ Pending(m)' => ReaderFor(m)'
  BY Zenon, <1>0, <1>1 DEF CalmAt, ReaderFor
<1> QED
  BY Zenon, <1>2, <1>3, <1>4 DEF CalmAt

\* Every step keeps the calm.
LEMMA CalmStep ==
  ASSUME Calm, IInv, ClocksOK, CalmInv, [Next]_vars
  PROVE  CalmInv'
<1>0. \A t \in Tids : CalmAt(t) /\ SettledAt(t)
  BY Zenon DEF CalmInv, ClocksOK
<1>1. ASSUME NEW t \in Tids, CalmAt(t)' /\ OnlyTouches(t) PROVE CalmInv'
  BY Zenon, <1>1, Untouched DEF CalmInv
<1>2. ASSUME NEW t \in Tids, Replicate(t) PROVE CalmInv'
  BY Zenon, <1>0, <1>1, <1>2, CallCalm
<1>3. ASSUME NEW t \in Tids, ReplicateStep(t) PROVE CalmInv'
  <2>1. CASE AwaitTimeout(t)
    BY Zenon, <2>1 DEF AwaitTimeout, TimedOut, Calm
  <2>2. CASE LocalApply(t)
    BY Zenon, <2>2, QuietCalm DEF LocalApply, readerVars, callVars, tableVars
  <2> QED
    BY Zenon, <1>0, <1>1, <1>3, <2>1, <2>2, UntoldCalm, SendCalm, ProcessCalm, ReturnCalm
       DEF ReplicateStep
<1>4. ASSUME NEW h \in Peers, NEW t \in Tids, HandlerStep(h, t) PROVE CalmInv'
  BY Zenon, <1>0, <1>1, <1>4, HandlerCalm
<1>5. ASSUME NEW h \in Peers, ListenerStep(h) PROVE CalmInv'
  <2>1. ASSUME NEW m \in net, Listen(h, m) PROVE CalmInv'
    <3>1. m.tid \in Tids
      BY Zenon, MessageFields DEF IInv, TypeOK, NetTypes
    <3> QED
      BY Zenon, <1>0, <1>1, <2>1, <3>1, ListenCalm
  <2>2. ASSUME NEW m \in notifying[h], Notify(h, m) PROVE CalmInv'
    <3>1. m.tid \in Tids
      BY Zenon, HeldMessages DEF IInv
    <3> QED
      BY Zenon, <1>0, <1>1, <2>2, <3>1, NotifyCalm
  <2> QED
    BY Zenon, <1>5, <2>1, <2>2 DEF ListenerStep
<1>6. CASE (\E h \in Peers : Crash(h)) \/ (\E m \in net : Lose(m)) \/ UNCHANGED vars
  BY Zenon, <1>6, QuietCalm DEF Crash, Lose, vars, readerVars, callVars, tableVars
<1> QED
  BY Zenon, <1>2, <1>3, <1>4, <1>5, <1>6 DEF Next

\* Nothing has happened at first.
LEMMA InitCalm == Init => CalmInv
<1> SUFFICES ASSUME Init, NEW t \in Tids PROVE CalmAt(t)
  BY Zenon DEF CalmInv
<1>0. Initiator[t] \in Peers
  BY Zenon, TidsAssumption
<1>1. failed[t] = 0 /\ call[t] = "none" /\ \A h \in Peers : pc[h][t] = "idle" /\ heard[h][t] = {}
  BY Zenon DEF Init
<1>2. \A m \in Message : ~Pending(m)
  BY Zenon, MessageFields DEF Init, Pending
<1>3. failed[t] = 0 /\ UntoldAt(t) /\ InitiatorAt(t)
  BY Zenon, <1>0, <1>1 DEF UntoldAt, InitiatorAt, HandlerPC
<1>4. \A h \in Peers : LateAt(h, t) /\ RequestAt(h, t)
  BY Zenon, <1>1 DEF LateAt, RequestAt
<1> QED
  BY Zenon, <1>2, <1>3, <1>4 DEF CalmAt

\* The invariant holds in every reachable state, while no deadline passes and no
\* Send fails.
THEOREM CalmHolds == Calm => (Spec => []CalmInv)
<1> SUFFICES ASSUME Calm PROVE Spec => []CalmInv
  OBVIOUS
<1>1. IInv /\ ClocksOK /\ CalmInv /\ [Next]_vars => CalmInv'
  BY Zenon, CalmStep
<1> QED
  BY <1>1, InitCalm, InvariantHolds, ClocksHold, PTL DEF Spec

\* The listener never blocks on the NotifyChan of a transaction that nobody will
\* read any more, whatever connections, messages and peers are lost, while no
\* deadline passes and no Send fails.
THEOREM ListenerHasReaderHolds == Calm => (Spec => []ListenerHasReader)
<1> SUFFICES ASSUME Calm PROVE Spec => []ListenerHasReader
  OBVIOUS
<1>1. ASSUME IInv, CalmInv PROVE ListenerHasReader
  <2> SUFFICES ASSUME NEW h \in Peers, NEW m \in notifying[h]
               PROVE  \/ pc[h][m.tid] \in {"detect", "send"}
                      \/ pc[h][m.tid] = "await" /\ got[h][m.tid] < Expected(m.tid)
                      \/ /\ pc[h][m.tid] \in {"gather", "consult", "respond"}
                         /\ got[h][m.tid] < NumOthers
    BY Zenon DEF ListenerHasReader
  <2>1. m \in Message /\ m.tid \in Tids /\ m.to = h /\ Pending(m)
    BY Zenon, <1>1, HeldMessages DEF IInv, ListenersOK, ListenerAt, Pending
  <2>2. got[h][m.tid] # NumOthers /\ got[h][m.tid] < NumOthers
    BY Zenon, <1>1, <2>1, MailIsAwaited
  <2>3. pc[h][m.tid] # "idle" /\ failed[m.tid] = 0
    BY Zenon, <1>1, <2>1 DEF CalmInv, CalmAt, ReaderFor
  <2>4. pc[h][m.tid] \notin {"mirror", "exit", "exiterr", "return"}
    BY Zenon, <1>1, <2>1, <2>2, MailIsTold DEF CalmInv, CalmAt, LateAt
  <2>5. pc[h][m.tid] \in {"idle"} \cup ReplicatePC \cup HandlerPC
    BY <1>1, <2>1 DEF IInv, TypeOK, ReaderTypes
  <2>6. Expected(m.tid) = NumOthers
    BY <2>3, NumOthersType DEF Expected
  <2> QED
    BY Zenon, <2>2, <2>3, <2>4, <2>5, <2>6 DEF ReplicatePC, HandlerPC
<1> QED
  BY <1>1, CalmHolds, InvariantHolds, PTL

\* A handler that comes to call Mirror has the request, under the same conditions.
THEOREM MirrorHasRequestHolds == Calm => (Spec => []MirrorHasRequest)
<1> SUFFICES ASSUME Calm PROVE Spec => []MirrorHasRequest
  OBVIOUS
<1>1. ASSUME IInv, CalmInv PROVE MirrorHasRequest
  <2> SUFFICES ASSUME NEW h \in Peers, NEW t \in Tids, pc[h][t] = "mirror" PROVE t \in reqs[h]
    BY Zenon DEF MirrorHasRequest
  <2>1. CalmAt(t) /\ got[h][t] = NumOthers /\ TypeOK /\ ProtocolInv /\ Initiator[t] \in Peers
    BY Zenon, <1>1, TidsAssumption DEF CalmInv, CalmAt, LateAt, IInv, ProtocolInv
  <2>2. h # Initiator[t]
    BY Zenon, <2>1 DEF CalmAt, InitiatorAt, HandlerPC
  <2>3. Initiator[t] \in heard[h][t]
    BY Zenon, <2>1, <2>2, AllHeard
  <2> QED
    BY Zenon, <2>1, <2>2, <2>3 DEF CalmAt, RequestAt
<1> QED
  BY <1>1, CalmHolds, InvariantHolds, PTL

-----------------------------------------------------------------------------
(* The order of rival operations *)

\* In addition the file system does what it is asked.
Steady == Calm /\ "io" \notin FaultKinds

\* A handler that voted keeps the request until it has ended, and what ends well
\* is in the directory.
EndedAt(h, t) ==
  /\ pc[h][t] \in {"exit", "exiterr"} => verdict[h][t] # "none"
  /\ h # Initiator[t] =>
       /\ verdict[h][t] # "failed"
       /\ vote[h][t] # "none" => t \in reqs[h] \/ verdict[h][t] # "none"
  /\ verdict[h][t] = "applied" => Applied(h, t)
  /\ Applied(h, t) => Unanimous(t)

\* Whoever agrees to t has already applied the greater rivals of its past.
PastAt(h, t) ==
  \A u \in past[t] :
    /\ verdict[Initiator[u]][u] = "applied"
    /\ Rivals(t, u) /\ Smaller(RequestOf(t), RequestOf(u)) =>
         /\ vote[h][t] = "ACK" => Applied(h, u)
         /\ Applied(h, t) => AppliedBefore(h, u, t)

OrderInv == \A h \in Peers, t \in Tids : EndedAt(h, t) /\ PastAt(h, t)

\* What a step does to the verdicts, to the handlers that end, and to the logs.
EndStepAt(h, t) ==
  /\ verdict[h][t] # "none" => verdict'[h][t] = verdict[h][t]
  /\ h # Initiator[t] /\ verdict'[h][t] = "failed" => verdict[h][t] = "failed"
  /\ pc'[h][t] \in {"exit", "exiterr"} => pc'[h][t] = pc[h][t] \/ verdict'[h][t] # "none"
  /\ h # Initiator[t] /\ t \in reqs[h] => t \in reqs'[h] \/ pc[h][t] \in {"exit", "exiterr"}

LogStep ==
  \/ /\ UNCHANGED log
     /\ \A h \in Peers, t \in Tids : verdict'[h][t] = "applied" => verdict[h][t] = "applied"
  \/ \E h \in Peers, t \in Tids :
       /\ log' = [log EXCEPT ![h] = Append(@, t)]
       /\ Unanimous(t)
       /\ \A g \in Peers, u \in Tids :
            verdict'[g][u] = "applied" => verdict[g][u] = "applied" \/ (g = h /\ u = t)

EndStep == LogStep /\ \A h \in Peers, t \in Tids : EndStepAt(h, t)

\* What an operation appended to a log changes.
LEMMA AppendAt ==
  ASSUME TypeOK, NEW h \in Peers, NEW t \in Tids, log' = [log EXCEPT ![h] = Append(@, t)]
  PROVE  /\ \A g \in Peers, u \in Tids : Applied(g, u)' <=> Applied(g, u) \/ (g = h /\ u = t)
         /\ \A g \in Peers, u, v \in Tids : AppliedBefore(g, u, v) => AppliedBefore(g, u, v)'
         /\ \A u \in Tids : Applied(h, u) => AppliedBefore(h, u, t)'
<1>1. \A g \in Peers : log[g] \in Seq(Tids) /\ log'[g] = IF g = h THEN Append(log[h], t) ELSE log[g]
  BY Zenon DEF TypeOK, EndTypes
<1>2. /\ Len(log'[h]) = Len(log[h]) + 1 /\ Len(log[h]) \in Nat
      /\ \A i \in 1 .. Len(log[h]) : log'[h][i] = log[h][i]
      /\ log'[h][Len(log[h]) + 1] = t
  <2>1. ASSUME NEW s \in Seq(Tids)
        PROVE  /\ Len(Append(s, t)) = Len(s) + 1 /\ Len(s) \in Nat
               /\ \A i \in 1 .. Len(s) : Append(s, t)[i] = s[i]
               /\ Append(s, t)[Len(s) + 1] = t
    OBVIOUS
  <2> QED
    BY ZenonT(30), <1>1, <2>1
<1>3. ASSUME NEW g \in Peers, NEW u \in Tids
      PROVE  Applied(g, u)' <=> Applied(g, u) \/ (g = h /\ u = t)
  <2>1. CASE g = h
    BY <1>2, <2>1 DEF Applied
  <2>2. CASE g # h
    BY Zenon, <1>1, <2>2 DEF Applied
  <2> QED
    BY Zenon, <2>1, <2>2
<1>4. ASSUME NEW g \in Peers, NEW u \in Tids, NEW v \in Tids, AppliedBefore(g, u, v)
      PROVE  AppliedBefore(g, u, v)'
  <2>1. CASE g = h
    BY <1>2, <1>4, <2>1 DEF AppliedBefore
  <2>2. CASE g # h
    BY Zenon, <1>1, <1>4, <2>2 DEF AppliedBefore
  <2> QED
    BY Zenon, <2>1, <2>2
<1>5. ASSUME NEW u \in Tids, Applied(h, u) PROVE AppliedBefore(h, u, t)'
  <2>1. PICK i \in 1 .. Len(log[h]) : log[h][i] = u
    BY Zenon, <1>5 DEF Applied
  <2>2. /\ i \in 1 .. Len(log'[h]) /\ Len(log[h]) + 1 \in 1 .. Len(log'[h])
        /\ i < Len(log[h]) + 1 /\ log'[h][i] = u
    BY <1>2, <2>1
  <2> QED
    BY Zenon, <1>2, <2>2 DEF AppliedBefore
<1> QED
  BY Zenon, <1>3, <1>4, <1>5

\* The caller.
LEMMA CallerEnds ==
  ASSUME IInv, NEW t \in Tids, Replicate(t) \/ ReplicateStep(t)
  PROVE  EndStep
<1> DEFINE h == Initiator[t]
<1>0. h \in Peers /\ TypeOK /\ DecisionsOK
  BY Zenon, TidsAssumption DEF IInv
<1>1. UNCHANGED verdict \/ \E v : End(h, t, v)
  BY Zenon DEF Replicate, ReplicateStep, Detect, SendRequest, SendRequestPeerIsDown, AwaitTimeout,
     ProcessResponses, Return, LocalApply, endVars
<1>2. \A g \in Peers, u \in Tids :
        /\ verdict[g][u] # "none" => verdict'[g][u] = verdict[g][u]
        /\ g # h \/ u # t => verdict'[g][u] = verdict[g][u]
  <2>1. CASE UNCHANGED verdict
    BY Zenon, <2>1
  <2>2. ASSUME NEW v, End(h, t, v)
        PROVE  \A g \in Peers, u \in Tids :
                 /\ verdict[g][u] # "none" => verdict'[g][u] = verdict[g][u]
                 /\ g # h \/ u # t => verdict'[g][u] = verdict[g][u]
    BY <1>0, <2>2, EndAt
  <2> QED
    BY Zenon, <1>1, <2>1, <2>2
<1>3. \A g \in Peers, u \in Tids : pc'[g][u] = pc[g][u] \/ pc'[g][u] \notin {"exit", "exiterr"}
  <2>1. \/ \E l \in {"detect", "send", "await", "return"} : GoTo(h, t, l)
        \/ Delete(h, t)
        \/ UNCHANGED pc
    BY Zenon DEF Replicate, ReplicateStep, Detect, SendRequest, SendRequestPeerIsDown, AwaitTimeout,
       ProcessResponses, Return, LocalApply, readerVars
  <2>2. ASSUME NEW l \in {"detect", "send", "await", "return"}, GoTo(h, t, l)
        PROVE  \A g \in Peers, u \in Tids : pc'[g][u] = pc[g][u] \/ pc'[g][u] \notin {"exit", "exiterr"}
    <3>1. \A g \in Peers, u \in Tids : pc'[g][u] = IF g = h /\ u = t THEN l ELSE pc[g][u]
      BY <1>0, <2>2, GoToAt
    <3>2. l \notin {"exit", "exiterr"}
      OBVIOUS
    <3> QED
      BY Zenon, <3>1, <3>2
  <2>3. CASE Delete(h, t)
    <3>1. \A g \in Peers, u \in Tids : pc'[g][u] \in {"idle", pc[g][u]}
      BY SMTT(30), <1>0, <2>3, DeleteAt
    <3> QED
      BY Zenon, <3>1
  <2> QED
    BY Zenon, <2>1, <2>2, <2>3
<1>4. \A g \in Peers, u \in Tids : g # Initiator[u] /\ u \in reqs[g] => u \in reqs'[g]
  <2>1. CASE UNCHANGED reqs
    BY Zenon, <2>1
  <2>2. CASE reqs' = [reqs EXCEPT ![h] = @ \cup {t}]
    BY Zenon, <1>0, <2>2 DEF TypeOK, TableTypes
  <2>3. CASE Delete(h, t)
    BY ZenonT(30), <1>0, <2>3, DeleteRequests
  <2> QED
    BY Zenon, <2>1, <2>2, <2>3 DEF Replicate, ReplicateStep, Detect, SendRequest,
       SendRequestPeerIsDown, AwaitTimeout, ProcessResponses, Return, LocalApply, tableVars
<1>5. \A g \in Peers, u \in Tids : EndStepAt(g, u)
  BY Zenon, <1>2, <1>3, <1>4 DEF EndStepAt
<1>6. LogStep
  <2>1. \/ UNCHANGED log /\ (UNCHANGED verdict \/ End(h, t, "rejected") \/ End(h, t, "failed"))
        \/ log' = [log EXCEPT ![h] = Append(@, t)] /\ call[t] = "ok"
    BY Zenon DEF Replicate, ReplicateStep, Detect, SendRequest, SendRequestPeerIsDown,
       AwaitTimeout, ProcessResponses, Return, LocalApply, endVars
  <2>2. CASE UNCHANGED log /\ (UNCHANGED verdict \/ End(h, t, "rejected") \/ End(h, t, "failed"))
    <3>1. ASSUME NEW v \in {"rejected", "failed"}, End(h, t, v)
          PROVE  \A g \in Peers, u \in Tids : verdict'[g][u] = "applied" => verdict[g][u] = "applied"
      BY <1>0, <3>1, EndAt
    <3> QED
      BY Zenon, <2>2, <3>1 DEF LogStep
  <2>3. CASE log' = [log EXCEPT ![h] = Append(@, t)] /\ call[t] = "ok"
    <3>1. Unanimous(t)
      BY Zenon, <1>0, <2>3 DEF DecisionsOK
    <3>2. \A g \in Peers, u \in Tids :
            verdict'[g][u] = "applied" => verdict[g][u] = "applied" \/ (g = h /\ u = t)
      BY Zenon, <1>2
    <3> QED
      BY Zenon, <1>0, <2>3, <3>1, <3>2 DEF LogStep
  <2> QED
    BY Zenon, <2>1, <2>2, <2>3
<1> QED
  BY Zenon, <1>5, <1>6 DEF EndStep

\* The handler.
LEMMA HandlerEnds ==
  ASSUME Steady, IInv, NEW h \in Peers, NEW t \in Tids, HandlerStep(h, t)
  PROVE  EndStep
<1>0. TypeOK /\ DecisionsOK
  BY Zenon DEF IInv
<1>1. \/ /\ UNCHANGED <<verdict, log, reqs>>
         /\ UNCHANGED pc \/ \E l \in {"respond", "gather", "mirror"} : GoTo(h, t, l)
      \/ /\ End(h, t, "rejected") /\ GoTo(h, t, "exiterr") /\ UNCHANGED <<log, reqs>>
      \/ /\ End(h, t, "applied") /\ GoTo(h, t, "exit") /\ UNCHANGED reqs
         /\ pc[h][t] = "mirror" /\ log' = [log EXCEPT ![h] = Append(@, t)]
      \/ /\ Delete(h, t) /\ pc[h][t] \in {"exit", "exiterr"} /\ UNCHANGED <<verdict, log>>
  <2>1. "timeout" \notin FaultKinds /\ "io" \notin FaultKinds
    BY Zenon DEF Steady, Calm
  <2>2. CASE Consult(h, t) \/ Respond(h, t)
    BY Zenon, <2>2 DEF Consult, Respond, endVars, tableVars
  <2>3. CASE GatherTimeout(h, t)
    BY Zenon, <2>1, <2>3 DEF GatherTimeout, TimedOut
  <2>4. CASE Decide(h, t)
    BY Zenon, <2>4 DEF Decide, tableVars
  <2>5. CASE Mirror(h, t)
    BY Zenon, <2>1, <2>5 DEF Mirror, MayFail, tableVars
  <2>6. CASE Exit(h, t)
    BY Zenon, <2>6 DEF Exit, endVars
  <2> QED
    BY Zenon, <2>2, <2>3, <2>4, <2>5, <2>6 DEF HandlerStep
<1>2. CASE /\ UNCHANGED <<verdict, log, reqs>>
           /\ UNCHANGED pc \/ \E l \in {"respond", "gather", "mirror"} : GoTo(h, t, l)
  <2>1. ASSUME NEW l \in {"respond", "gather", "mirror"}, GoTo(h, t, l),
               NEW g \in Peers, NEW u \in Tids
        PROVE  pc'[g][u] = pc[g][u] \/ pc'[g][u] \notin {"exit", "exiterr"}
    BY <1>0, <2>1, GoToAt
  <2>2. \A g \in Peers, u \in Tids : pc'[g][u] = pc[g][u] \/ pc'[g][u] \notin {"exit", "exiterr"}
    BY Zenon, <1>2, <2>1
  <2> QED
    BY Zenon, <1>2, <2>2 DEF EndStep, LogStep, EndStepAt
<1>3. ASSUME NEW v \in {"rejected", "applied"}, NEW l, End(h, t, v), GoTo(h, t, l), UNCHANGED reqs
      PROVE  /\ \A g \in Peers, u \in Tids : EndStepAt(g, u)
             /\ \A g \in Peers, u \in Tids :
                  verdict'[g][u] = "applied" => verdict[g][u] = "applied" \/ (g = h /\ u = t /\ v = "applied")
  <2>1. \A g \in Peers, u \in Tids :
          /\ verdict'[g][u] = IF g = h /\ u = t /\ verdict[g][u] = "none" THEN v ELSE verdict[g][u]
          /\ pc'[g][u] = IF g = h /\ u = t THEN l ELSE pc[g][u]
    BY SMTT(30), <1>0, <1>3, EndAt, GoToAt
  <2>2. v # "none" /\ v # "failed"
    OBVIOUS
  <2>3. ASSUME NEW g \in Peers, NEW u \in Tids PROVE EndStepAt(g, u)
    BY ZenonT(30), <1>3, <2>1, <2>2 DEF EndStepAt
  <2> QED
    BY Zenon, <2>1, <2>3
<1>4. CASE End(h, t, "rejected") /\ GoTo(h, t, "exiterr") /\ UNCHANGED <<log, reqs>>
  <2>1. "rejected" # "applied" /\ "rejected" \in {"rejected", "applied"}
    OBVIOUS
  <2> QED
    BY Zenon, <1>3, <1>4, <2>1 DEF EndStep, LogStep
<1>5. CASE /\ End(h, t, "applied") /\ GoTo(h, t, "exit") /\ UNCHANGED reqs
           /\ pc[h][t] = "mirror" /\ log' = [log EXCEPT ![h] = Append(@, t)]
  <2>1. Unanimous(t)
    BY Zenon, <1>0, <1>5 DEF DecisionsOK
  <2>2. /\ \A g \in Peers, u \in Tids : EndStepAt(g, u)
        /\ \A g \in Peers, u \in Tids :
             verdict'[g][u] = "applied" => verdict[g][u] = "applied" \/ (g = h /\ u = t)
    BY Zenon, <1>3, <1>5
  <2> QED
    BY <1>5, <2>1, <2>2 DEF EndStep, LogStep
<1>6. CASE Delete(h, t) /\ pc[h][t] \in {"exit", "exiterr"} /\ UNCHANGED <<verdict, log>>
  <2>1. \A g \in Peers, u \in Tids : pc'[g][u] \in {"idle", pc[g][u]}
    BY <1>0, <1>6, DeleteAt
  <2>2. \A g \in Peers, u \in Tids : u \in reqs[g] => u \in reqs'[g] \/ (g = h /\ u = t)
    BY Zenon, <1>0, <1>6, DeleteRequests
  <2>3. "idle" \notin {"exit", "exiterr"}
    OBVIOUS
  <2> QED
    BY Zenon, <1>6, <2>1, <2>2, <2>3 DEF EndStep, LogStep, EndStepAt
<1> QED
  BY Zenon, <1>1, <1>2, <1>4, <1>5, <1>6

\* Every step.
LEMMA StepEnds ==
  ASSUME Steady, IInv, [Next]_vars
  PROVE  EndStep
<1>0. TypeOK
  BY Zenon DEF IInv
<1>1. ASSUME NEW h \in Peers, ListenerStep(h) PROVE EndStep
  <2>0. PICK m \in Message : Listen(h, m) \/ Notify(h, m)
    BY Zenon, <1>0, <1>1, HeldMessages DEF ListenerStep, TypeOK, NetTypes
  <2>1. m.tid \in Tids /\ UNCHANGED <<verdict, log>>
    BY Zenon, <2>0, MessageFields DEF Listen, Notify, endVars
  <2>2. \A g \in Peers, u \in Tids : u \in reqs[g] => u \in reqs'[g]
    <3>1. CASE UNCHANGED reqs
      BY Zenon, <3>1
    <3>2. CASE reqs' = [reqs EXCEPT ![h] = @ \cup {m.tid}]
      BY Zenon, <1>0, <3>2 DEF TypeOK, TableTypes
    <3> QED
      BY Zenon, <2>0, <3>1, <3>2 DEF Listen, Notify, tableVars
  <2>3. \A g \in Peers, u \in Tids : pc'[g][u] = pc[g][u] \/ pc'[g][u] \notin {"exit", "exiterr"}
    <3>1. CASE UNCHANGED pc
      BY Zenon, <3>1
    <3>2. ASSUME NEW l \in {"gather", "consult"}, GoTo(h, m.tid, l)
          PROVE  \A g \in Peers, u \in Tids : pc'[g][u] = pc[g][u] \/ pc'[g][u] \notin {"exit", "exiterr"}
      BY SMTT(30), <1>0, <2>1, <3>2, GoToAt
    <3> QED
      BY Zenon, <2>0, <3>1, <3>2 DEF Listen, Notify
  <2> QED
    BY Zenon, <2>1, <2>2, <2>3 DEF EndStep, LogStep, EndStepAt
<1>2. CASE (\E h \in Peers : Crash(h)) \/ (\E m \in net : Lose(m)) \/ UNCHANGED vars
  <2>1. UNCHANGED <<verdict, log, pc, reqs>>
    BY Zenon, <1>2 DEF Crash, Lose, vars, endVars, readerVars, tableVars
  <2> QED
    BY Zenon, <2>1 DEF EndStep, LogStep, EndStepAt
<1> QED
  BY Zenon, <1>1, <1>2, CallerEnds, HandlerEnds DEF Next

\* The logs only grow, with operations that all agreed to; the latest comes last.
LEMMA LogsGrow ==
  ASSUME TypeOK, LogStep
  PROVE  /\ \A g \in Peers, u \in Tids :
              /\ Applied(g, u) => Applied(g, u)'
              /\ Applied(g, u)' => Applied(g, u) \/ Unanimous(u)
              /\ verdict'[g][u] = "applied" => verdict[g][u] = "applied" \/ Applied(g, u)'
         /\ \A g \in Peers, u, v \in Tids :
              /\ AppliedBefore(g, u, v) => AppliedBefore(g, u, v)'
              /\ Applied(g, u) /\ Applied(g, v)' => Applied(g, v) \/ AppliedBefore(g, u, v)'
<1>1. CASE /\ UNCHANGED log
           /\ \A h \in Peers, t \in Tids : verdict'[h][t] = "applied" => verdict[h][t] = "applied"
  BY ZenonT(30), <1>1 DEF Applied, AppliedBefore
<1>2. ASSUME NEW h \in Peers, NEW t \in Tids, log' = [log EXCEPT ![h] = Append(@, t)], Unanimous(t),
             \A g \in Peers, u \in Tids :
               verdict'[g][u] = "applied" => verdict[g][u] = "applied" \/ (g = h /\ u = t)
      PROVE  /\ \A g \in Peers, u \in Tids :
                  /\ Applied(g, u) => Applied(g, u)'
                  /\ Applied(g, u)' => Applied(g, u) \/ Unanimous(u)
                  /\ verdict'[g][u] = "applied" => verdict[g][u] = "applied" \/ Applied(g, u)'
             /\ \A g \in Peers, u, v \in Tids :
                  /\ AppliedBefore(g, u, v) => AppliedBefore(g, u, v)'
                  /\ Applied(g, u) /\ Applied(g, v)' => Applied(g, v) \/ AppliedBefore(g, u, v)'
  <2>1. /\ \A g \in Peers, u \in Tids : Applied(g, u)' <=> Applied(g, u) \/ (g = h /\ u = t)
        /\ \A g \in Peers, u, v \in Tids : AppliedBefore(g, u, v) => AppliedBefore(g, u, v)'
        /\ \A u \in Tids : Applied(h, u) => AppliedBefore(h, u, t)'
    BY Zenon, <1>2, AppendAt
  <2> QED
    BY Zenon, <1>2, <2>1
<1> QED
  BY Zenon, <1>1, <1>2 DEF LogStep

\* A unanimous vote stays one.
LEMMA UnanimousStays ==
  ASSUME IInv, VoteStep, NEW t \in Tids, Unanimous(t)
  PROVE  Unanimous(t)'
BY Zenon, FirstVote, SameVotes DEF VoteStep, IInv, VotesKept

\* The conjunct about ends is kept.
LEMMA EndedStep ==
  ASSUME IInv, CalmInv, OrderInv, VoteStep, EndStep, NEW h \in Peers, NEW t \in Tids
  PROVE  EndedAt(h, t)'
<1>0. EndedAt(h, t) /\ EndStepAt(h, t) /\ TypeOK /\ LogStep
  BY Zenon DEF OrderInv, EndStep, IInv
<1>1. pc'[h][t] \in {"exit", "exiterr"} => verdict'[h][t] # "none"
  BY Zenon, <1>0 DEF EndedAt, EndStepAt
<1>2. h # Initiator[t] => verdict'[h][t] # "failed"
  BY Zenon, <1>0 DEF EndedAt, EndStepAt
<1>3. ASSUME h # Initiator[t], vote'[h][t] # "none"
      PROVE  t \in reqs'[h] \/ verdict'[h][t] # "none"
  <2>1. t \in reqs[h] \/ verdict[h][t] # "none"
    <3>1. CASE vote[h][t] # "none"
      BY Zenon, <1>0, <1>3, <3>1 DEF EndedAt
    <3>2. CASE vote[h][t] = "none"
      <4>1. PICK g \in Peers, u \in Tids, v \in Votes :
              /\ vote' = [vote EXCEPT ![g][u] = v]
              /\ g # Initiator[u] => Initiator[u] \in heard[g][u]
        BY Zenon, <1>3, <3>2 DEF VoteStep
      <4>2. g = h /\ u = t
        BY ZenonT(30), <1>0, <1>3, <3>2, <4>1 DEF TypeOK, HostTypes
      <4> QED
        BY Zenon, <1>3, <4>1, <4>2 DEF CalmInv, CalmAt, RequestAt
    <3> QED
      BY Zenon, <3>1, <3>2
  <2> QED
    BY Zenon, <1>0, <1>3, <2>1 DEF EndedAt, EndStepAt
<1>4. verdict'[h][t] = "applied" => Applied(h, t)'
  BY Zenon, <1>0, LogsGrow DEF EndedAt
<1>5. Applied(h, t)' => Unanimous(t)'
  BY Zenon, <1>0, LogsGrow, UnanimousStays DEF EndedAt
<1> QED
  BY Zenon, <1>1, <1>2, <1>3, <1>4, <1>5 DEF EndedAt

\* Who agrees to t while its past holds the greater rival u has applied u.
LEMMA AgreesAfter ==
  ASSUME IInv, OrderInv, NEW h \in Peers, NEW t \in Tids, NEW u \in past[t],
         Rivals(t, u), Smaller(RequestOf(t), RequestOf(u)), ~Refused(h, t)
  PROVE  Applied(h, u)
<1>0. u \in Tids /\ Initiator[u] \in Peers
  BY Zenon, TidsAssumption DEF IInv, TypeOK, CallTypes
<1>1. verdict[Initiator[u]][u] = "applied" /\ Unanimous(u)
  BY Zenon, <1>0 DEF OrderInv, PastAt, IInv, DecisionsOK
<1>2. u \notin reqs[h]
  BY Zenon DEF Refused, DetectAndResolveConflict, Rivals
<1>3. verdict[h][u] = "applied"
  <2>1. CASE h = Initiator[u]
    BY Zenon, <1>1, <2>1
  <2>2. CASE h # Initiator[u]
    <3>1. vote[h][u] # "none"
      BY Zenon, <1>1 DEF Unanimous
    <3>2. verdict[h][u] # "none" /\ verdict[h][u] # "failed"
      BY Zenon, <1>0, <1>2, <2>2, <3>1 DEF OrderInv, EndedAt
    <3>3. verdict[h][u] # "rejected"
      BY Zenon, <1>0, <1>1, VoteNames DEF IInv, DecisionsOK, Unanimous, Opposed
    <3>4. verdict[h][u] \in {"none", "applied", "rejected", "failed"}
      BY Zenon, <1>0 DEF IInv, TypeOK, EndTypes
    <3> QED
      BY Zenon, <3>2, <3>3, <3>4
  <2> QED
    BY Zenon, <2>1, <2>2
<1> QED
  BY Zenon, <1>0, <1>3 DEF OrderInv, EndedAt

\* The conjunct about the past is kept by every step but a call of t itself.
LEMMA PastStep ==
  ASSUME IInv, OrderInv, VoteStep, EndStep, NEW h \in Peers, NEW t \in Tids, NEW u \in past[t],
         RequestOf(t)' = RequestOf(t), RequestOf(u)' = RequestOf(u)
  PROVE  /\ verdict'[Initiator[u]][u] = "applied"
         /\ Rivals(t, u)' /\ Smaller(RequestOf(t)', RequestOf(u)') =>
              /\ vote'[h][t] = "ACK" => Applied(h, u)'
              /\ Applied(h, t)' => AppliedBefore(h, u, t)'
<1>0. u \in Tids /\ Initiator[u] \in Peers /\ TypeOK /\ LogStep /\ PastAt(h, t)
  BY Zenon, TidsAssumption DEF IInv, TypeOK, CallTypes, EndStep, OrderInv
<1>1. verdict[Initiator[u]][u] = "applied" /\ verdict'[Initiator[u]][u] = "applied"
  BY Zenon, <1>0 DEF PastAt, EndStep, EndStepAt
<1>2. ASSUME Rivals(t, u)', Smaller(RequestOf(t)', RequestOf(u)')
      PROVE  /\ vote'[h][t] = "ACK" => Applied(h, u)'
             /\ Applied(h, t)' => AppliedBefore(h, u, t)'
  <2>0. Rivals(t, u) /\ Smaller(RequestOf(t), RequestOf(u))
    BY Zenon, <1>2 DEF Rivals
  <2>1. vote'[h][t] = "ACK" => vote[h][t] = "ACK" \/ ~Refused(h, t)
    BY <1>0 DEF VoteStep, TypeOK, HostTypes
  <2>2. vote'[h][t] = "ACK" => Applied(h, u)
    BY Zenon, <1>0, <2>0, <2>1, AgreesAfter DEF PastAt
  <2>3. ASSUME Applied(h, t)' PROVE AppliedBefore(h, u, t)'
    <3>1. CASE Applied(h, t)
      BY Zenon, <1>0, <2>0, <3>1, LogsGrow DEF PastAt
    <3>2. CASE ~Applied(h, t)
      <4>1. vote[h][t] = "ACK"
        BY Zenon, <1>0, <2>3, <3>2, LogsGrow DEF Unanimous
      <4>2. Applied(h, u)
        BY Zenon, <1>0, <2>0, <4>1 DEF PastAt
      <4> QED
        BY Zenon, <1>0, <2>3, <3>2, <4>2, LogsGrow
    <3> QED
      BY Zenon, <3>1, <3>2
  <2> QED
    BY Zenon, <1>0, <2>2, <2>3, LogsGrow
<1> QED
  BY Zenon, <1>1, <1>2

\* Every step keeps the order.
LEMMA OrderStep ==
  ASSUME Steady, IInv, CalmInv, OrderInv, [Next]_vars
  PROVE  OrderInv'
<1>0. VoteStep /\ EndStep /\ TypeOK
  BY Zenon, StepVotes, StepEnds DEF IInv
<1>1. \A h \in Peers, t \in Tids : EndedAt(h, t)'
  BY Zenon, <1>0, EndedStep
<1>2. CASE UNCHANGED <<startClock, past>>
  <2>1. \A t \in Tids : RequestOf(t)' = RequestOf(t)
    BY Zenon, <1>2 DEF RequestOf
  <2>2. \A t \in Tids : past[t] \subseteq Tids
    BY Zenon, <1>0 DEF TypeOK, CallTypes
  <2>3. ASSUME NEW h \in Peers, NEW t \in Tids PROVE PastAt(h, t)'
    BY Zenon, <1>0, <1>2, <2>1, <2>2, PastStep DEF PastAt
  <2> QED
    BY Zenon, <1>1, <2>3 DEF OrderInv
<1>3. ASSUME NEW c \in Tids, Replicate(c) PROVE OrderInv'
  <2>0. UNCHANGED <<verdict, vote, log>> /\ call[c] = "none"
    BY Zenon, <1>3 DEF Replicate, endVars
  <2>1. \A u \in Tids : u # c => past'[u] = past[u] /\ RequestOf(u)' = RequestOf(u)
    BY <1>0, <1>3 DEF Replicate, RequestOf, TypeOK, CallTypes
  <2>2. past'[c] = {u \in Tids : verdict[Initiator[u]][u] = "applied"}
    BY Zenon, <1>0, <1>3 DEF Replicate, TypeOK, CallTypes
  <2>3. \A h \in Peers : vote[h][c] = "none"
    BY Zenon, <2>0 DEF IInv, SecretsOK, SecretAt
  <2>4. ASSUME NEW h \in Peers, NEW t \in Tids PROVE PastAt(h, t)'
    <3>1. CASE t = c
      <4>1. vote'[h][t] # "ACK" /\ ~Applied(h, t)'
        BY Zenon, <2>0, <2>3, <3>1 DEF OrderInv, EndedAt, Unanimous, Applied
      <4> QED
        BY Zenon, <2>0, <2>2, <3>1, <4>1 DEF PastAt
    <3>2. CASE t # c
      <4>1. ASSUME NEW u \in past[t] PROVE u \in Tids /\ u # c
        <5>1. u \in Tids /\ Initiator[u] \in Peers
          BY Zenon, <1>0, TidsAssumption DEF TypeOK, CallTypes
        <5>2. Unanimous(u)
          BY Zenon, <5>1 DEF OrderInv, PastAt, IInv, DecisionsOK
        <5> QED
          BY Zenon, <2>3, <5>1, <5>2 DEF Unanimous
      <4> QED
        BY Zenon, <1>0, <2>1, <3>2, <4>1, PastStep DEF PastAt
    <3> QED
      BY Zenon, <3>1, <3>2
  <2> QED
    BY Zenon, <1>1, <2>4 DEF OrderInv
<1>4. UNCHANGED <<startClock, past>> \/ \E c \in Tids : Replicate(c)
  <2>1. ASSUME NEW t \in Tids, ReplicateStep(t) PROVE UNCHANGED <<startClock, past>>
    BY Zenon, <2>1 DEF ReplicateStep, Detect, SendRequest, SendRequestPeerIsDown, AwaitTimeout,
       ProcessResponses, Return, LocalApply, callVars
  <2>2. ASSUME NEW h \in Peers, ListenerStep(h) \/ Crash(h) PROVE UNCHANGED <<startClock, past>>
    BY Zenon, <2>2 DEF ListenerStep, Listen, Notify, Crash, callVars
  <2>3. ASSUME NEW h \in Peers, NEW t \in Tids, HandlerStep(h, t)
        PROVE  UNCHANGED <<startClock, past>>
    BY Zenon, <2>3 DEF HandlerStep, Consult, Respond, GatherTimeout, Decide, Mirror, Exit, callVars
  <2>4. CASE (\E m \in net : Lose(m)) \/ UNCHANGED vars
    BY Zenon, <2>4 DEF Lose, vars, callVars
  <2> QED
    BY Zenon, <2>1, <2>2, <2>3, <2>4 DEF Next
<1> QED
  BY Zenon, <1>2, <1>3, <1>4

\* Nothing is applied at first.
LEMMA InitOrder == Init => OrderInv
<1> SUFFICES ASSUME Init, NEW h \in Peers, NEW t \in Tids PROVE EndedAt(h, t) /\ PastAt(h, t)
  BY Zenon DEF OrderInv
<1>1. verdict[h][t] = "none" /\ vote[h][t] = "none" /\ pc[h][t] = "idle" /\ past[t] = {}
  BY Zenon DEF Init
<1>2. ~Applied(h, t)
  BY DEF Init, Applied
<1> QED
  BY Zenon, <1>1, <1>2 DEF EndedAt, PastAt

\* An operation that had completed on its initiator before a rival with a smaller
\* request was called comes first in every directory, for any number of peers and
\* calls, whatever connections, messages and peers are lost: while no deadline
\* passes, no Send fails and the file systems do not.
THEOREM SmallerComesAfterHolds == Steady => (Spec => []SmallerComesAfter)
<1> SUFFICES ASSUME Steady PROVE Spec => []SmallerComesAfter
  OBVIOUS
<1>0. Calm
  BY Zenon DEF Steady
<1>1. Spec => []CalmInv
  BY Zenon, <1>0, CalmHolds
<1>2. IInv /\ CalmInv /\ OrderInv /\ [Next]_vars => OrderInv'
  BY Zenon, OrderStep
<1>3. ASSUME OrderInv PROVE SmallerComesAfter
  BY Zenon, <1>3 DEF OrderInv, PastAt, SmallerComesAfter
<1> QED
  BY <1>1, <1>2, <1>3, InitOrder, InvariantHolds, PTL DEF Spec
==============================================================================
