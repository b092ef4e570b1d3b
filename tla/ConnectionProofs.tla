-------------------------- MODULE ConnectionProofs ---------------------------
(***************************************************************************)
(* The connection of a pair of peers: what the two ends of a QUIC          *)
(* connection conclude from their counters, for every value of these, and  *)
(* what follows for the Connections, for any number of QUIC connections    *)
(* that are dialed, lost and closed, of timeouts, stops and restarts.      *)
(***************************************************************************)
EXTENDS Connection, FiniteSetTheorems, TLAPS

\* The conclusions on a connection that `client` dialed to `server`, with the
\* counters c and d: each end reads the byte of the other one.
ClientConclusion(client, c, server, d) ==
  Conclusion(Client, c, Encode(Server, d), client, server)

ServerConclusion(client, c, server, d) ==
  Conclusion(Server, d, Encode(Client, c), server, client)

-----------------------------------------------------------------------------
\* The bits that spill into a perspective leave its own bit set.
LEMMA OrBits ==
  /\ \A x \in 0 .. 3 : Or(Server, x) \in {1, 3} /\ Or(Client, x) \in {2, 3}
  /\ Or(Server, 0) = Server /\ Or(Client, 0) = Client
BY DEF Or, Server, Client

\* What the other end reads in the byte that Encode writes.
LEMMA Encoded ==
  ASSUME NEW c \in Nat
  PROVE  /\ Decode(Encode(Server, c)).perspective # Client
         /\ Decode(Encode(Client, c)).perspective # Server
         /\ c < 64 => /\ Decode(Encode(Server, c)) = [perspective |-> Server, ctr |-> c]
                      /\ Decode(Encode(Client, c)) = [perspective |-> Client, ctr |-> c]
<1>1. (c \div 64) % 4 \in 0 .. 3 /\ c % 64 \in 0 .. 63
  OBVIOUS
<1>2. \A q \in 0 .. 3, r \in 0 .. 63 : (64 * q + r) \div 64 = q /\ (64 * q + r) % 64 = r
  OBVIOUS
<1>3. c < 64 => (c \div 64) % 4 = 0 /\ c % 64 = c
  OBVIOUS
<1> QED
  BY <1>1, <1>2, <1>3, OrBits DEF Encode, Decode, Server, Client

-----------------------------------------------------------------------------
\* The error "BUG: host and peer perspectives are the same across a single
\* connection" of resolve never shows, whatever the counters grow to.
THEOREM NeverBug ==
  ASSUME NEW h \in Nat, NEW p \in Nat, NEW c \in Nat, NEW d \in Nat
  PROVE  /\ ClientConclusion(h, c, p, d) # "bug"
         /\ ServerConclusion(h, c, p, d) # "bug"
BY Zenon, Encoded DEF ClientConclusion, ServerConclusion, Conclusion

\* "Complement logic has to be applied on both sides, otherwise both peers would
\* arrive at different conclusions": while the counters fit in the six bits that
\* Encode leaves them, both ends of a connection accept it, or both reject it.
THEOREM SameConclusion ==
  ASSUME NEW h \in Nat, NEW p \in Nat, h # p, NEW c \in 0 .. 63, NEW d \in 0 .. 63
  PROVE  ClientConclusion(h, c, p, d) = ServerConclusion(h, c, p, d)
<1>1. Fallback(Client, h, p) <=> Fallback(Server, p, h)
  BY Zenon DEF Fallback, Client, Server
<1> QED
  BY <1>1, Encoded DEF ClientConclusion, ServerConclusion, Conclusion, Client, Server

\* Of the two connections of peers that dialed each other at the same time one is
\* always accepted by Establish, the one that the smaller name dialed; the other
\* one only when the counters agree.
THEOREM OneDirection ==
  ASSUME NEW low \in Nat, NEW high \in Nat, low < high, NEW c \in 0 .. 63, NEW d \in 0 .. 63
  PROVE  /\ ClientConclusion(low, c, high, d) = "accept"
         /\ ClientConclusion(high, d, low, c) = "accept" <=> c = d
<1>1. Fallback(Client, low, high) /\ ~Fallback(Client, high, low)
  BY DEF Fallback, Client, Server
<1> QED
  BY <1>1, Encoded DEF ClientConclusion, Conclusion, Client, Server

\* Six bits are needed: when the counter of the end that was dialed, the one with
\* the smaller name, has grown by 64 more than the other, the dialing end accepts
\* the connection as if the counters agreed, and the other end rejects it.
THEOREM WideCountersDisagree ==
  ASSUME NEW low \in Nat, NEW high \in Nat, low < high, NEW c \in 1 .. 63
  PROVE  /\ ClientConclusion(high, c, low, c + 64) = "accept"
         /\ ServerConclusion(high, c, low, c + 64) = "reject"
<1>1. (c + 64) % 64 = c /\ ((c + 64) \div 64) % 4 = 1 /\ c + 64 \in Nat
  OBVIOUS
<1>2. Or(Server, 1) = Server
  BY DEF Or, Server
<1>3. Encode(Server, c + 64) = 64 * Server + c
  BY Zenon, <1>1, <1>2 DEF Encode
<1>4. Decode(Encode(Server, c + 64)) = [perspective |-> Server, ctr |-> c]
  BY <1>3 DEF Decode, Server
<1>5. ~Fallback(Server, low, high)
  BY DEF Fallback, Client, Server
<1> QED
  BY <1>4, <1>5, Encoded DEF ClientConclusion, ServerConclusion, Conclusion, Client, Server

-----------------------------------------------------------------------------
(* The Connection, its establishing and its closing. *)

\* The types of what the invariants below speak of.
FieldTypes ==
  /\ status \in [Pair -> {"dead", "alive"}]
  /\ conn \in [Pair -> Conns \cup {"none"}]
  /\ openNotify \in [Pair -> Nat]
  /\ activeConnections \in [Pair -> 0 .. 1]
  /\ mu \in [Pair -> Conns \cup {"free", "listener", "sender", "pool"}]
  /\ listener \in [Pair -> {"check", "wait", "recv", "read", "closing", "returned"}]
  /\ pool \in [Pair -> {"running", "stopping", "closing", "closed"}]

HandlerTypes ==
  /\ handler \in [Conns -> [Pair -> {"none", "queued", "start", "count", "recv", "lock", "done"}]]
  /\ end \in [Conns -> [Pair -> {"none", "open"} \cup Errors]]

\* A Connection that is alive holds a QUIC connection, and nobody is closing it.
AliveHolds == \A h \in Pair : status[h] = "alive" => conn[h] \in Conns /\ mu[h] = "free"

\* Once Pool.Close has waited there is no handler, and the Connection is dead.
NoHandlerInClose ==
  \A h \in Pair :
    /\ pool[h] \in {"closing", "closed"} => NoHandlers(h) /\ status[h] = "dead"
    /\ mu[h] = "pool" => pool[h] = "closing"

\* The inductive invariant of the Connections.
LifeInv ==
  /\ FieldTypes /\ HandlerTypes /\ AliveHolds
  /\ ActiveIsAlive /\ NoHandlerInClose /\ NoLostWakeup /\ NoneLeftOpen

lives == <<status, conn, openNotify, activeConnections, mu, listener, pool>>

-----------------------------------------------------------------------------
\* The two peers.
LEMMA PairPeers == \A h \in Pair : Peer(h) \in Pair /\ Peer(h) # h
BY ConnectionAssumption DEF Pair, Peer

\* The invariant holds at the start.
LEMMA InitLife == Init => LifeInv
BY ConnectionAssumption
   DEF Init, LifeInv, FieldTypes, HandlerTypes, AliveHolds, ActiveIsAlive, NoHandlerInClose,
       NoLostWakeup, NoneLeftOpen, NoHandlers

\* A step of the establishing of c at h keeps it.
LEMMA HandlerLife ==
  ASSUME LifeInv, NEW c \in Conns, NEW h \in Pair, UNCHANGED <<lives, end>>,
         NEW x \in {"start", "count", "recv", "lock"},
         handler' = [handler EXCEPT ![c][h] = x],
         handler[c][h] \in {"start", "count", "recv"} \/ pool[h] = "running"
  PROVE  LifeInv'
<1>1. FieldTypes' /\ HandlerTypes' /\ AliveHolds' /\ ActiveIsAlive' /\ NoLostWakeup'
  BY Zenon DEF LifeInv, FieldTypes, HandlerTypes, AliveHolds, ActiveIsAlive, NoLostWakeup, lives
<1>2. NoHandlerInClose'
  BY Zenon DEF LifeInv, HandlerTypes, NoHandlerInClose, NoHandlers, lives
<1>3. NoneLeftOpen'
  BY DEF LifeInv, HandlerTypes, NoneLeftOpen, lives
<1> QED
  BY Zenon, <1>1, <1>2, <1>3 DEF LifeInv

\* So does its rejection, with which it ends.
LEMMA RejectLife ==
  ASSUME LifeInv, NEW c \in Conns, NEW h \in Pair, UNCHANGED lives,
         NEW err \in Errors, Reject(c, h, err)
  PROVE  LifeInv'
<1>1. FieldTypes' /\ HandlerTypes' /\ AliveHolds' /\ ActiveIsAlive' /\ NoLostWakeup'
  BY DEF LifeInv, FieldTypes, HandlerTypes, AliveHolds, ActiveIsAlive, NoLostWakeup, lives,
         Reject, CloseConn
<1>2. NoHandlerInClose'
  BY Zenon DEF LifeInv, HandlerTypes, NoHandlerInClose, NoHandlers, lives, Reject
<1>3. NoneLeftOpen'
  BY DEF LifeInv, HandlerTypes, NoneLeftOpen, lives, Reject, CloseConn, Errors
<1> QED
  BY Zenon, <1>1, <1>2, <1>3 DEF LifeInv

\* So does a peer that dials.
LEMMA DialLife ==
  ASSUME LifeInv, NEW c \in Conns, NEW h \in Pair, Dial(h, c)
  PROVE  LifeInv'
<1>1. FieldTypes' /\ HandlerTypes' /\ AliveHolds' /\ ActiveIsAlive' /\ NoLostWakeup'
  BY Zenon DEF LifeInv, FieldTypes, HandlerTypes, AliveHolds, ActiveIsAlive, NoLostWakeup,
         Dial, fields, users
<1>2. NoHandlerInClose'
  BY Zenon DEF LifeInv, HandlerTypes, NoHandlerInClose, NoHandlers, Dial, fields
<1>3. NoneLeftOpen'
  BY Zenon DEF LifeInv, HandlerTypes, NoneLeftOpen, Dial, fields
<1> QED
  BY Zenon, <1>1, <1>2, <1>3 DEF LifeInv

\* So does Establish when it takes a QUIC connection under the mutex.
LEMMA AssignLife ==
  ASSUME LifeInv, NEW c \in Conns, NEW h \in Pair, Lock(c, h), Unassigned(h)
  PROVE  LifeInv'
<1>1. status[h] = "dead" /\ mu[h] = "free" /\ handler[c][h] = "lock" /\ activeConnections[h] = 0
  BY Zenon DEF LifeInv, FieldTypes, ActiveIsAlive, Lock, Unassigned
<1>2. /\ status' = [status EXCEPT ![h] = "alive"]
      /\ conn' = [conn EXCEPT ![h] = c]
      /\ activeConnections' = [activeConnections EXCEPT ![h] = 1]
      /\ openNotify' = [openNotify EXCEPT ![h] = @ + 1]
      /\ handler' = [handler EXCEPT ![c][h] = "done"]
      /\ UNCHANGED <<end, mu, listener, pool>>
  BY <1>1 DEF Lock, Unassigned, Notify, users
<1>3. FieldTypes' /\ HandlerTypes' /\ AliveHolds'
  BY <1>1, <1>2 DEF LifeInv, FieldTypes, HandlerTypes, AliveHolds
<1>4. ActiveIsAlive' /\ NoLostWakeup'
  BY <1>1, <1>2 DEF LifeInv, FieldTypes, ActiveIsAlive, NoLostWakeup
<1>5. NoHandlerInClose'
  BY <1>1, <1>2 DEF LifeInv, FieldTypes, HandlerTypes, NoHandlerInClose, NoHandlers
<1>6. NoneLeftOpen'
  BY <1>1, <1>2 DEF LifeInv, FieldTypes, HandlerTypes, NoneLeftOpen
<1> QED
  BY Zenon, <1>3, <1>4, <1>5, <1>6 DEF LifeInv

\* So does the first half of Close, whoever calls it.
LEMMA BeginCloseLife ==
  ASSUME LifeInv, NEW h \in Pair, NEW who \in Conns \cup {"listener", "sender", "pool"},
         NEW err \in Errors, BeginClose(h, who, err), UNCHANGED handler,
         listener' = listener \/ listener' = [listener EXCEPT ![h] = "closing"],
         \/ who # "pool" /\ pool' = pool
         \/ NoHandlers(h) /\ pool' = [pool EXCEPT ![h] = "closing"]
  PROVE  LifeInv'
<1>1. status[h] = "alive" /\ mu[h] = "free" /\ conn[h] \in Conns /\ activeConnections[h] = 1
  BY Zenon DEF LifeInv, AliveHolds, ActiveIsAlive, BeginClose
<1>2. who # "free"
  BY Zenon, ConnectionAssumption
<1>3. /\ status' = [status EXCEPT ![h] = "dead"]
      /\ mu' = [mu EXCEPT ![h] = who]
      /\ end' = [end EXCEPT ![conn[h]][h] = IF @ = "open" THEN err ELSE @]
      /\ UNCHANGED <<conn, openNotify, activeConnections>>
  BY Zenon DEF BeginClose, CloseConn
<1>4. FieldTypes' /\ HandlerTypes' /\ AliveHolds'
  BY SMTT(30), <1>1, <1>3 DEF LifeInv, FieldTypes, HandlerTypes, AliveHolds
<1>5. ActiveIsAlive' /\ NoLostWakeup'
  BY <1>1, <1>2, <1>3 DEF LifeInv, FieldTypes, ActiveIsAlive, NoLostWakeup
<1>6. NoHandlerInClose'
  BY <1>1, <1>3 DEF LifeInv, FieldTypes, HandlerTypes, NoHandlerInClose, NoHandlers
<1>7. NoneLeftOpen'
  BY <1>1, <1>3 DEF LifeInv, FieldTypes, HandlerTypes, NoneLeftOpen, Errors
<1> QED
  BY Zenon, <1>4, <1>5, <1>6, <1>7 DEF LifeInv

\* So does the second half, also when Listen, Send or Pool.Close go on with it.
LEMMA EndCloseLife ==
  ASSUME LifeInv, NEW h \in Pair, EndClose(h)
  PROVE  LifeInv'
<1>1. status[h] = "dead" /\ activeConnections[h] = 1
  BY Zenon DEF LifeInv, FieldTypes, AliveHolds, ActiveIsAlive, EndClose
<1>2. /\ activeConnections' = [activeConnections EXCEPT ![h] = 0]
      /\ mu' = [mu EXCEPT ![h] = "free"]
      /\ UNCHANGED <<status, conn, openNotify, handler, end>>
  BY <1>1 DEF EndClose, establishing, quic
<1>3. listener' = listener \/ listener' = [listener EXCEPT ![h] = "check"]
  BY Zenon DEF EndClose, ListenerReturns, users, listening
<1>4. pool' = pool \/ (mu[h] = "pool" /\ pool' = [pool EXCEPT ![h] = "closed"])
  BY Zenon DEF EndClose, PoolReturns
<1>5. FieldTypes' /\ HandlerTypes' /\ AliveHolds'
  BY <1>1, <1>2, <1>3, <1>4 DEF LifeInv, FieldTypes, HandlerTypes, AliveHolds
<1>6. ActiveIsAlive' /\ NoLostWakeup'
  BY <1>1, <1>2, <1>3 DEF LifeInv, FieldTypes, ActiveIsAlive, NoLostWakeup
<1>7. NoHandlerInClose'
  BY <1>1, <1>2, <1>4 DEF LifeInv, FieldTypes, HandlerTypes, NoHandlerInClose, NoHandlers
<1>8. NoneLeftOpen'
  BY <1>1, <1>2 DEF LifeInv, FieldTypes, HandlerTypes, NoneLeftOpen
<1> QED
  BY Zenon, <1>5, <1>6, <1>7, <1>8 DEF LifeInv

\* So does an end that learns of, or suffers, the end of its QUIC connection.
LEMMA EndsLife ==
  ASSUME LifeInv, NEW c \in Conns, NEW h \in Pair, NEW err \in Errors,
         end' = [end EXCEPT ![c][h] = err], UNCHANGED <<lives, handler>>
  PROVE  LifeInv'
<1>1. FieldTypes' /\ HandlerTypes' /\ AliveHolds' /\ ActiveIsAlive' /\ NoLostWakeup'
  BY Zenon DEF LifeInv, FieldTypes, HandlerTypes, AliveHolds, ActiveIsAlive, NoLostWakeup, lives
<1>2. NoHandlerInClose' /\ NoneLeftOpen'
  BY DEF LifeInv, HandlerTypes, NoHandlerInClose, NoHandlers, NoneLeftOpen, lives, Errors
<1> QED
  BY Zenon, <1>1, <1>2 DEF LifeInv

\* So does a step of Listen that closes nothing: it waits only when it has seen the
\* Connection dead, and takes one notification when it stops waiting.
LEMMA ListenerLife ==
  ASSUME LifeInv, NEW h \in Pair,
         NEW x \in {"check", "wait", "recv", "read", "returned"},
         listener' = [listener EXCEPT ![h] = x], x = "wait" => status[h] = "dead",
         openNotify' \in [Pair -> Nat],
         \A g \in Pair \ {h} : openNotify'[g] = openNotify[g],
         UNCHANGED <<status, conn, activeConnections, mu, pool, handler, end>>
  PROVE  LifeInv'
<1>1. FieldTypes' /\ HandlerTypes' /\ AliveHolds' /\ ActiveIsAlive' /\ NoneLeftOpen'
  BY Zenon DEF LifeInv, FieldTypes, HandlerTypes, AliveHolds, ActiveIsAlive, NoneLeftOpen
<1>2. NoLostWakeup' /\ NoHandlerInClose'
  BY DEF LifeInv, FieldTypes, NoLostWakeup, NoHandlerInClose, NoHandlers
<1> QED
  BY Zenon, <1>1, <1>2 DEF LifeInv

\* So does a restart.
LEMMA RestartLife ==
  ASSUME LifeInv, NEW h \in Pair, Restart(h)
  PROVE  LifeInv'
<1>1. FieldTypes'
  BY DEF LifeInv, FieldTypes, Restart, ListenerReturns
<1>2. HandlerTypes'
  BY Zenon DEF LifeInv, HandlerTypes, Restart, Errors
<1>3. AliveHolds' /\ ActiveIsAlive' /\ NoLostWakeup'
  BY DEF LifeInv, FieldTypes, AliveHolds, ActiveIsAlive, NoLostWakeup, Restart, ListenerReturns
<1>4. NoHandlerInClose'
  BY DEF LifeInv, FieldTypes, HandlerTypes, NoHandlerInClose, NoHandlers, Restart
<1>5. NoneLeftOpen'
  BY DEF LifeInv, FieldTypes, HandlerTypes, NoneLeftOpen, Restart
<1> QED
  BY Zenon, <1>1, <1>2, <1>3, <1>4, <1>5 DEF LifeInv

\* So does what leaves the Connections alone.
LEMMA SameLife ==
  ASSUME LifeInv, UNCHANGED <<lives, handler, end>>
  PROVE  LifeInv'
BY Zenon DEF LifeInv, FieldTypes, HandlerTypes, AliveHolds, ActiveIsAlive, NoHandlerInClose, NoHandlers,
       NoLostWakeup, NoneLeftOpen, lives

-----------------------------------------------------------------------------
\* The steps of the establishing.
LEMMA EstablishLife ==
  ASSUME LifeInv, NEW c \in Conns, NEW h \in Pair, Accept(c, h) \/ Establish(c, h)
  PROVE  LifeInv'
<1> USE DEF lives, fields, users
<1>1. CASE Accept(c, h)
  BY Zenon, <1>1, HandlerLife, RejectLife DEF Accept, Errors
<1>2. CASE FastPath(c, h)
  BY Zenon, <1>2, HandlerLife, RejectLife DEF FastPath, Errors
<1>3. CASE Count(c, h)
  BY Zenon, <1>3, HandlerLife, RejectLife DEF Count, Errors
<1>4. CASE Resolve(c, h)
  <2>1. \/ handler' = [handler EXCEPT ![c][h] = "lock"] /\ UNCHANGED end
        \/ Reject(c, h, "notresolved") \/ Reject(c, h, "unspecified")
    BY Zenon, <1>4 DEF Resolve
  <2>2. UNCHANGED lives /\ handler[c][h] = "recv"
    BY Zenon, <1>4 DEF Resolve
  <2> QED
    BY Zenon, <2>1, <2>2, HandlerLife, RejectLife DEF Errors
<1>5. CASE ResolveFails(c, h)
  BY Zenon, <1>5, RejectLife DEF ResolveFails, Errors
<1>6. CASE Lock(c, h)
  <2>1. CASE Unassigned(h)
    BY Zenon, <1>6, <2>1, AssignLife
  <2>2. CASE ~Unassigned(h)
    BY Zenon, <1>6, <2>2, RejectLife DEF Lock, Errors
  <2> QED
    BY Zenon, <2>1, <2>2
<1> QED
  BY Zenon, <1>1, <1>2, <1>3, <1>4, <1>5, <1>6 DEF Establish

\* The calls of Close: by a watcher, by Listen, by Send and by Pool.Close.
LEMMA ClosersLife ==
  ASSUME LifeInv, NEW h \in Pair,
         \/ \E c \in Conns : Watch(c, h)
         \/ RecvCloses(h) \/ SendCloses(h) \/ PoolClose(h)
  PROVE  LifeInv'
<1> USE DEF lives, fields, users
<1>1. ASSUME NEW c \in Conns, Watch(c, h) PROVE LifeInv'
  <2>1. CASE BeginClose(h, c, "unspecified")
    BY Zenon, <1>1, <2>1, BeginCloseLife, ConnectionAssumption DEF Watch, establishing, Errors
  <2>2. CASE AlreadyClosed(h)
    BY Zenon, <1>1, <2>2, SameLife DEF Watch, AlreadyClosed, establishing
  <2> QED
    BY Zenon, <1>1, <2>1, <2>2 DEF Watch
<1>2. CASE RecvCloses(h)
  <2>1. CASE listener' = [listener EXCEPT ![h] = "closing"]
    <3>1. PICK err \in Errors : BeginClose(h, "listener", err)
      BY Zenon, <1>2, <2>1, ConnectionAssumption
         DEF RecvCloses, ListenerReturns, LifeInv, FieldTypes, Errors
    <3> QED
      BY Zenon, <1>2, <2>1, <3>1, BeginCloseLife DEF RecvCloses, establishing
  <2>2. CASE AlreadyClosed(h) /\ ListenerReturns(h, "error")
    BY Zenon, <1>2, <2>2, ListenerLife
       DEF RecvCloses, AlreadyClosed, ListenerReturns, establishing, LifeInv, FieldTypes
  <2> QED
    BY Zenon, <1>2, <2>1, <2>2 DEF RecvCloses
<1>3. CASE SendCloses(h)
  <2>1. CASE BeginClose(h, "sender", "closed")
    BY Zenon, <1>3, <2>1, BeginCloseLife DEF SendCloses, establishing, listening, Errors
  <2>2. CASE AlreadyClosed(h)
    BY Zenon, <1>3, <2>2, SameLife DEF SendCloses, AlreadyClosed, establishing, listening
  <2> QED
    BY Zenon, <1>3, <2>1, <2>2 DEF SendCloses
<1>4. CASE PoolClose(h)
  <2>1. CASE BeginClose(h, "pool", "closed") /\ pool' = [pool EXCEPT ![h] = "closing"]
    BY Zenon, <1>4, <2>1, BeginCloseLife DEF PoolClose, establishing, Errors
  <2>2. CASE AlreadyClosed(h) /\ PoolReturns(h)
    BY <1>4, <2>2 DEF PoolClose, AlreadyClosed, PoolReturns, establishing, LifeInv, FieldTypes,
      HandlerTypes, AliveHolds, ActiveIsAlive, NoHandlerInClose, NoHandlers, NoLostWakeup, NoneLeftOpen
  <2> QED
    BY Zenon, <1>4, <2>1, <2>2 DEF PoolClose
<1> QED
  BY Zenon, <1>1, <1>2, <1>3, <1>4

\* The steps of Listen that close nothing.
LEMMA ReceiverLife ==
  ASSUME LifeInv, NEW h \in Pair, Listen(h) \/ WaitForOpen(h) \/ Recv(h) \/ RecvReturns(h)
  PROVE  LifeInv'
<1> USE DEF fields, establishing, quic, LifeInv, FieldTypes
<1>1. CASE Listen(h)
  BY Zenon, <1>1, ListenerLife DEF Listen
<1>2. CASE WaitForOpen(h)
  <2>1. UNCHANGED <<status, conn, activeConnections, mu, pool, handler, end>>
    BY Zenon, <1>2 DEF WaitForOpen
  <2>2. CASE /\ openNotify[h] > 0 /\ openNotify' = [openNotify EXCEPT ![h] = @ - 1]
             /\ listener' = [listener EXCEPT ![h] = "recv"]
    <3>1. openNotify' \in [Pair -> Nat] /\ \A g \in Pair \ {h} : openNotify'[g] = openNotify[g]
      BY <2>2
    <3> QED
      BY Zenon, <2>1, <2>2, <3>1, ListenerLife
  <2>3. CASE listener' = [listener EXCEPT ![h] = "returned"] /\ UNCHANGED openNotify
    BY Zenon, <2>1, <2>3, ListenerLife
  <2> QED
    BY Zenon, <1>2, <2>2, <2>3 DEF WaitForOpen
<1>3. CASE Recv(h)
  BY Zenon, <1>3, ListenerLife DEF Recv, ListenerReturns
<1>4. CASE RecvReturns(h)
  BY Zenon, <1>4, ListenerLife DEF RecvReturns, ListenerReturns
<1> QED
  BY Zenon, <1>1, <1>2, <1>3, <1>4

\* Every step keeps the invariant.
LEMMA NextLife == LifeInv /\ [Next]_vars => LifeInv'
<1> SUFFICES ASSUME LifeInv, [Next]_vars PROVE LifeInv'
  OBVIOUS
<1>1. CASE UNCHANGED vars
  BY Zenon, <1>1, SameLife DEF vars, lives, fields, users, establishing, quic
<1>2. ASSUME NEW h \in Pair, NEW c \in Conns,
             Dial(h, c) \/ Accept(c, h) \/ Establish(c, h) \/ Watch(c, h)
      PROVE  LifeInv'
  BY Zenon, <1>2, DialLife, EstablishLife, ClosersLife
<1>3. ASSUME NEW h \in Pair, NEW c \in Conns, Learn(c, h) \/ Lose(c, h)
      PROVE  LifeInv'
  BY Zenon, <1>3, EndsLife DEF Learn, Lose, lives, fields, users, establishing, Errors
<1>4. ASSUME NEW h \in Pair,
             EndClose(h) \/ Receiver(h) \/ SendCloses(h) \/ PoolClose(h) \/ Restart(h)
      PROVE  LifeInv'
  BY Zenon, <1>4, EndCloseLife, ReceiverLife, ClosersLife, RestartLife DEF Receiver
<1>5. ASSUME NEW h \in Pair, Broadcast(h) \/ Send(h) \/ SendReturns(h)
      PROVE  LifeInv'
  BY Zenon, <1>5, SameLife
     DEF Broadcast, Send, SendReturns, lives, fields, listening, establishing, quic
<1>6. ASSUME NEW h \in Pair, Stop(h)
      PROVE  LifeInv'
  BY <1>6
     DEF Stop, fields, users, establishing, quic, LifeInv, FieldTypes, HandlerTypes, AliveHolds,
         ActiveIsAlive, NoHandlerInClose, NoHandlers, NoLostWakeup, NoneLeftOpen
<1> QED
  BY Zenon, <1>1, <1>2, <1>3, <1>4, <1>5, <1>6 DEF Next, Sender

-----------------------------------------------------------------------------
(* The counters and the conclusions. *)

CountTypes ==
  /\ counter \in [Pair -> Nat]
  /\ ctr \in [Conns -> [Pair -> Nat]]
  /\ dialer \in [Conns -> Pair]
  /\ concluded \in [Conns -> [Pair -> {"none", "accept", "reject", "bug"}]]

\* Nothing is established on a QUIC connection that nobody dialed.
Undialed ==
  \A c \in Conns, g, h \in Pair : end[c][h] = "none" => handler[c][g] = "none"

\* resolve counts once for a QUIC connection.
CountsOnce ==
  \A c \in Conns, h \in Pair : ctr[c][h] > 0 => handler[c][h] \in {"recv", "lock", "done"}

\* A conclusion is drawn from the two resolvents, which do not change any more.
DrawnFromCounters ==
  \A c \in Conns, h \in Pair :
    concluded[c][h] # "none" =>
      /\ handler[c][h] \in {"lock", "done"}
      /\ ctr[c][Peer(h)] > 0
      /\ concluded[c][h] = Conclusion(PerspectiveOf(c, h), ctr[c][h],
                             Encode(PerspectiveOf(c, Peer(h)), ctr[c][Peer(h)]), h, Peer(h))

\* The QUIC connections that h has counted, or will never count.
Counted(h) == {c \in Conns : handler[c][h] \in {"recv", "lock", "done"}}

\* A peer counts at most its QUIC connections.
CountersBounded ==
  IsFiniteSet(Conns) =>
    /\ \A h \in Pair : counter[h] <= Cardinality(Counted(h))
    /\ \A c \in Conns, h \in Pair : ctr[c][h] <= Cardinality(Conns)

\* The inductive invariant of the counters, on top of that of the Connections.
CountInv == CountTypes /\ Undialed /\ CountsOnce /\ DrawnFromCounters /\ CountersBounded

\* What most steps do to the counters: they leave them, or reset them, while the
\* establishing and the ends go on.
Onward ==
  /\ UNCHANGED <<ctr, concluded, dialer>>
  /\ counter' \in [Pair -> Nat] /\ \A h \in Pair : counter'[h] <= counter[h]
  /\ \A c \in Conns, h \in Pair :
       /\ end'[c][h] = "none" => end[c][h] = "none"
       /\ handler[c][h] = "none" => handler'[c][h] = "none"
       /\ handler[c][h] \in {"recv", "lock", "done"} => handler'[c][h] \in {"recv", "lock", "done"}
       /\ handler[c][h] \in {"lock", "done"} => handler'[c][h] \in {"lock", "done"}

-----------------------------------------------------------------------------
\* It holds at the start.
LEMMA InitCounts == Init => CountInv
<1> SUFFICES ASSUME Init PROVE CountInv
  OBVIOUS
<1>1. CountTypes /\ Undialed /\ CountsOnce /\ DrawnFromCounters
  BY DEF Init, CountTypes, Undialed, CountsOnce, DrawnFromCounters, Pair
<1>2. CountersBounded
  <2> SUFFICES ASSUME IsFiniteSet(Conns)
               PROVE  /\ \A h \in Pair : counter[h] <= Cardinality(Counted(h))
                      /\ \A c \in Conns, h \in Pair : ctr[c][h] <= Cardinality(Conns)
    BY Zenon DEF CountersBounded
  <2>1. \A h \in Pair : Cardinality(Counted(h)) \in Nat
    BY Zenon, FS_Subset, FS_CardinalityType DEF Counted
  <2>2. Cardinality(Conns) \in Nat
    BY Zenon, FS_CardinalityType
  <2> QED
    BY <2>1, <2>2 DEF Init
<1> QED
  BY Zenon, <1>1, <1>2 DEF CountInv

\* Counting more QUIC connections counts at least as many.
LEMMA CountedGrows ==
  ASSUME IsFiniteSet(Conns), NEW h \in Pair, Counted(h) \subseteq Counted(h)'
  PROVE  /\ Cardinality(Counted(h)) \in Nat /\ Cardinality(Counted(h)') \in Nat
         /\ Cardinality(Counted(h)) <= Cardinality(Counted(h)')
<1>1. IsFiniteSet(Counted(h)')
  BY Zenon, FS_Subset DEF Counted
<1> QED
  BY Zenon, <1>1, FS_Subset, FS_CardinalityType

\* The steps that only go on keep the invariant.
LEMMA OnwardCounts ==
  ASSUME CountInv, Onward
  PROVE  CountInv'
<1>1. CountTypes' /\ Undialed' /\ CountsOnce'
  BY SMTT(30) DEF CountInv, CountTypes, Undialed, CountsOnce, Onward
<1>2. DrawnFromCounters'
  BY DEF CountInv, DrawnFromCounters, PerspectiveOf, Onward
<1>3. CountersBounded'
  <2> SUFFICES ASSUME IsFiniteSet(Conns), NEW h \in Pair
               PROVE  counter'[h] <= Cardinality(Counted(h)')
    BY Zenon, SMTT(30) DEF CountInv, CountersBounded, Onward
  <2>1. Counted(h) \subseteq Counted(h)'
    BY Zenon DEF Counted, Onward
  <2>2. counter[h] <= Cardinality(Counted(h)) /\ counter[h] \in Nat
    BY Zenon DEF CountInv, CountTypes, CountersBounded
  <2> QED
    BY <2>1, <2>2, CountedGrows DEF Onward
<1> QED
  BY Zenon, <1>1, <1>2, <1>3 DEF CountInv

\* So does dialing: what it dials had no handler and no conclusion.
LEMMA DialCounts ==
  ASSUME LifeInv, CountInv, NEW c \in Conns, NEW h \in Pair, Dial(h, c)
  PROVE  CountInv'
<1>1. \A g \in Pair : handler[c][g] = "none" /\ concluded[c][g] = "none" /\ ctr[c][g] = 0
  <2>1. end[c][h] = "none"
    BY Zenon DEF Dial
  <2>2. \A g \in Pair : handler[c][g] = "none"
    BY Zenon, <2>1 DEF CountInv, Undialed
  <2>3. \A g \in Pair : concluded[c][g] = "none"
    BY Zenon, <2>2 DEF CountInv, DrawnFromCounters
  <2>4. \A g \in Pair : ctr[c][g] \in Nat /\ ~(ctr[c][g] > 0)
    BY SMTT(30), <2>2 DEF CountInv, CountTypes, CountsOnce
  <2> QED
    BY SMTT(30), <2>2, <2>3, <2>4
<1>2. /\ UNCHANGED <<counter, ctr, concluded>>
      /\ dialer' = [dialer EXCEPT ![c] = h]
      /\ end' = [end EXCEPT ![c] = [g \in Pair |-> "open"]]
      /\ handler' = [handler EXCEPT ![c] = [g \in Pair |-> IF g = h THEN "start" ELSE "queued"]]
  BY Zenon DEF Dial, fields
<1>3. CountTypes' /\ Undialed' /\ CountsOnce'
  BY SMTT(30), <1>1, <1>2 DEF CountInv, CountTypes, Undialed, CountsOnce, LifeInv, HandlerTypes
<1>4. DrawnFromCounters'
  BY <1>1, <1>2 DEF CountInv, CountTypes, DrawnFromCounters, PerspectiveOf, LifeInv, HandlerTypes
<1>5. CountersBounded'
  <2> SUFFICES ASSUME IsFiniteSet(Conns), NEW g \in Pair
               PROVE  counter[g] <= Cardinality(Counted(g)')
    BY Zenon, <1>2 DEF CountInv, CountersBounded
  <2>1. Counted(g) \subseteq Counted(g)'
    BY Zenon, <1>1, <1>2 DEF Counted, LifeInv, HandlerTypes
  <2>2. counter[g] <= Cardinality(Counted(g)) /\ counter[g] \in Nat
    BY Zenon DEF CountInv, CountTypes, CountersBounded
  <2> QED
    BY SMTT(30), <2>1, <2>2, CountedGrows
<1> QED
  BY Zenon, <1>3, <1>4, <1>5 DEF CountInv

\* So does the counting: one more is counted, and not once more.
LEMMA CountCounts ==
  ASSUME LifeInv, CountInv, NEW c \in Conns, NEW h \in Pair, Count(c, h)
  PROVE  CountInv'
<1>1. handler[c][h] = "count" /\ ctr[c][h] = 0 /\ concluded[c][h] = "none"
  BY DEF Count, CountInv, CountTypes, CountsOnce, DrawnFromCounters
<1>2. PICK x \in {"recv", "done"} : handler' = [handler EXCEPT ![c][h] = x]
  BY Zenon DEF Count, Reject
<1>3. ctr' = ctr \/ ctr' = [ctr EXCEPT ![c][h] = counter[h] + 1]
  BY Zenon DEF Count, CountInv, CountTypes
<1>4. /\ counter' = [counter EXCEPT ![h] = @ + 1]
      /\ UNCHANGED <<concluded, dialer>>
      /\ \A d \in Conns, g \in Pair : end'[d][g] = "none" => end[d][g] = "none"
  <2>1. UNCHANGED end \/ Reject(c, h, "unspecified")
    BY Zenon DEF Count
  <2>2. \A d \in Conns, g \in Pair : end'[d][g] = "none" => end[d][g] = "none"
    BY <2>1 DEF Reject, CloseConn, LifeInv, HandlerTypes
  <2> QED
    BY Zenon, <2>2 DEF Count
<1>5. CountTypes' /\ Undialed' /\ CountsOnce'
  <2>1. CountTypes'
    BY <1>3, <1>4 DEF CountInv, CountTypes
  <2>2. Undialed'
    BY <1>1, <1>2, <1>4 DEF CountInv, Undialed, LifeInv, HandlerTypes
  <2>3. CountsOnce'
    BY SMTT(30), <1>1, <1>2, <1>3 DEF CountInv, CountTypes, CountsOnce, LifeInv, HandlerTypes
  <2> QED
    BY Zenon, <2>1, <2>2, <2>3
<1>6. DrawnFromCounters'
  <2>0. UNCHANGED concluded /\ \A d, g : PerspectiveOf(d, g)' = PerspectiveOf(d, g)
    BY Zenon, <1>4 DEF PerspectiveOf
  <2> SUFFICES ASSUME NEW d \in Conns, NEW g \in Pair, concluded[d][g] # "none"
               PROVE  /\ handler'[d][g] \in {"lock", "done"}
                      /\ ctr'[d][g] = ctr[d][g] /\ ctr'[d][Peer(g)] = ctr[d][Peer(g)]
    BY SMTT(30), <2>0 DEF CountInv, DrawnFromCounters
  <2>1. /\ handler[d][g] \in {"lock", "done"} /\ ctr[d][Peer(g)] > 0
        /\ Peer(g) \in Pair
    BY Zenon, PairPeers DEF CountInv, DrawnFromCounters
  <2> QED
    BY <2>1, <1>1, <1>2, <1>3 DEF CountInv, CountTypes, LifeInv, HandlerTypes
<1>7. CountersBounded'
  <2> SUFFICES ASSUME IsFiniteSet(Conns)
               PROVE  /\ \A g \in Pair : counter'[g] <= Cardinality(Counted(g)')
                      /\ \A d \in Conns, g \in Pair : ctr'[d][g] <= Cardinality(Conns)
    BY Zenon DEF CountersBounded
  <2>1. /\ \A g \in Pair : counter[g] \in Nat /\ counter[g] <= Cardinality(Counted(g))
        /\ \A d \in Conns, g \in Pair : ctr[d][g] <= Cardinality(Conns)
    BY Zenon DEF CountInv, CountTypes, CountersBounded
  <2>2. \A g \in Pair \ {h} : Counted(g)' = Counted(g)
    BY Zenon, <1>2 DEF Counted, LifeInv, HandlerTypes
  <2>3. Counted(h)' = Counted(h) \cup {c} /\ c \notin Counted(h)
    BY Zenon, <1>1, <1>2 DEF Counted, LifeInv, HandlerTypes
  <2>4. IsFiniteSet(Counted(h)) /\ Cardinality(Counted(h)) \in Nat
    BY Zenon, FS_Subset, FS_CardinalityType DEF Counted
  <2>5. Cardinality(Counted(h)') = Cardinality(Counted(h)) + 1
    BY Zenon, <2>3, <2>4, FS_AddElement
  <2>6. Cardinality(Counted(h)') <= Cardinality(Conns) /\ Cardinality(Conns) \in Nat
    BY Zenon, FS_Subset, FS_CardinalityType DEF Counted
  <2>7. counter'[h] = counter[h] + 1 /\ \A g \in Pair \ {h} : counter'[g] = counter[g]
    BY Zenon, <1>4 DEF CountInv, CountTypes
  <2>8. \A g \in Pair : counter'[g] <= Cardinality(Counted(g)')
    BY <2>1, <2>2, <2>4, <2>5, <2>7
  <2>9. counter[h] + 1 <= Cardinality(Conns)
    BY <2>1, <2>4, <2>5, <2>6
  <2> QED
    BY SMTT(30), <1>3, <2>1, <2>8, <2>9 DEF CountInv, CountTypes
<1> QED
  BY Zenon, <1>5, <1>6, <1>7 DEF CountInv

\* So does the conclusion.
LEMMA ResolveCounts ==
  ASSUME LifeInv, CountInv, NEW c \in Conns, NEW h \in Pair, Resolve(c, h)
  PROVE  CountInv'
<1> DEFINE r == Conclusion(PerspectiveOf(c, h), ctr[c][h],
                  Encode(PerspectiveOf(c, Peer(h)), ctr[c][Peer(h)]), h, Peer(h))
<1>0. r \in {"accept", "reject", "bug"}
  BY Zenon, SMTT(30) DEF Conclusion
<1> HIDE DEF r
<1>1. /\ handler[c][h] = "recv" /\ ctr[c][Peer(h)] > 0
      /\ concluded' = [concluded EXCEPT ![c][h] = r]
      /\ UNCHANGED <<counter, ctr, dialer>>
  BY Zenon, SMTT(30) DEF Resolve, r, fields
<1>2. PICK x \in {"lock", "done"} : handler' = [handler EXCEPT ![c][h] = x]
  BY Zenon DEF Resolve, Reject
<1>3. \A d \in Conns, g \in Pair : end'[d][g] = "none" => end[d][g] = "none"
  <2>1. UNCHANGED end \/ Reject(c, h, "notresolved") \/ Reject(c, h, "unspecified")
    BY Zenon, SMTT(30) DEF Resolve
  <2> QED
    BY <2>1 DEF Reject, CloseConn, LifeInv, HandlerTypes
<1>4. CountTypes' /\ Undialed' /\ CountsOnce'
  BY SMTT(30), <1>0, <1>1, <1>2, <1>3 DEF CountInv, CountTypes, Undialed, CountsOnce, LifeInv, HandlerTypes
<1>5. DrawnFromCounters'
  <2> SUFFICES ASSUME NEW d \in Conns, NEW g \in Pair, concluded'[d][g] # "none"
               PROVE  /\ handler'[d][g] \in {"lock", "done"}
                      /\ ctr[d][Peer(g)] > 0
                      /\ concluded'[d][g] = Conclusion(PerspectiveOf(d, g), ctr[d][g],
                           Encode(PerspectiveOf(d, Peer(g)), ctr[d][Peer(g)]), g, Peer(g))
    BY SMTT(30), <1>1 DEF DrawnFromCounters, PerspectiveOf
  <2>1. CASE d = c /\ g = h
    BY Zenon, <1>1, <1>2, <2>1 DEF r, LifeInv, HandlerTypes, CountInv, CountTypes, DrawnFromCounters
  <2>2. CASE ~(d = c /\ g = h)
    BY <1>1, <1>2, <2>2 DEF LifeInv, HandlerTypes, CountInv, CountTypes, DrawnFromCounters
  <2> QED
    BY Zenon, <2>1, <2>2
<1>6. CountersBounded'
  <2>1. \A g \in Pair : Counted(g)' = Counted(g)
    BY Zenon, <1>1, <1>2 DEF Counted, LifeInv, HandlerTypes
  <2> QED
    BY Zenon, <1>1, <2>1 DEF CountInv, CountersBounded
<1> QED
  BY Zenon, <1>4, <1>5, <1>6 DEF CountInv

\* The steps that only go on.
LEMMA OthersGoOn ==
  ASSUME LifeInv, CountInv, NEW h \in Pair,
         \/ \E c \in Conns : \/ Accept(c, h) \/ FastPath(c, h) \/ ResolveFails(c, h) \/ Lock(c, h)
                             \/ Watch(c, h) \/ Learn(c, h) \/ Lose(c, h)
         \/ EndClose(h) \/ Receiver(h) \/ Broadcast(h) \/ Sender(h)
         \/ Stop(h) \/ PoolClose(h) \/ Restart(h)
  PROVE  Onward
<1> USE DEF fields, users, establishing, quic, listening
<1>1. ASSUME NEW c \in Conns, UNCHANGED <<counter, ctr, concluded, dialer>>,
             \/ handler[c][h] = "queued" /\ handler' = [handler EXCEPT ![c][h] = "start"] /\ UNCHANGED end
             \/ handler[c][h] = "start" /\ handler' = [handler EXCEPT ![c][h] = "count"] /\ UNCHANGED end
             \/ handler[c][h] # "none" /\ handler' = [handler EXCEPT ![c][h] = "done"] /\ UNCHANGED end
             \/ handler[c][h] # "none" /\ \E err \in Errors : Reject(c, h, err)
      PROVE  Onward
  BY <1>1 DEF Onward, Reject, CloseConn, LifeInv, HandlerTypes, CountInv, CountTypes, Errors
<1>2. ASSUME NEW c \in Conns, Accept(c, h) \/ FastPath(c, h) \/ ResolveFails(c, h) \/ Lock(c, h)
      PROVE  Onward
  <2>1. CASE Accept(c, h)
    BY Zenon, <2>1, <1>1 DEF Accept, Errors
  <2>2. CASE FastPath(c, h)
    BY Zenon, <2>2, <1>1 DEF FastPath, Errors
  <2>3. CASE ResolveFails(c, h)
    BY Zenon, <2>3, <1>1 DEF ResolveFails, Errors
  <2>4. CASE Lock(c, h)
    BY Zenon, <2>4, <1>1 DEF Lock, Errors
  <2> QED
    BY Zenon, <1>2, <2>1, <2>2, <2>3, <2>4
<1>3. ASSUME UNCHANGED <<counter, ctr, concluded, dialer, handler>>,
             \/ UNCHANGED end
             \/ \E c \in Conns, err \in Errors : end' = [end EXCEPT ![c][h] = err]
             \/ \E err \in Errors : conn[h] \in Conns /\ CloseConn(conn[h], h, err)
      PROVE  Onward
  <2>1. \A c \in Conns, g \in Pair : end'[c][g] = "none" => end[c][g] = "none"
    <3>1. CASE \E c \in Conns, err \in Errors : end' = [end EXCEPT ![c][h] = err]
      BY SMTT(30), <3>1 DEF LifeInv, HandlerTypes, Errors
    <3>2. CASE \E err \in Errors : conn[h] \in Conns /\ CloseConn(conn[h], h, err)
      BY SMTT(30), <3>2 DEF CloseConn, LifeInv, HandlerTypes, Errors
    <3> QED
      BY Zenon, <1>3, <3>1, <3>2
  <2> QED
    BY SMTT(30), <1>3, <2>1 DEF Onward, CountInv, CountTypes
<1>4. ASSUME NEW who, NEW err \in Errors, BeginClose(h, who, err)
      PROVE  /\ UNCHANGED counter /\ conn[h] \in Conns
             /\ CloseConn(conn[h], h, err)
  BY Zenon, <1>4 DEF BeginClose, LifeInv, AliveHolds
<1>5. ASSUME NEW c \in Conns, Watch(c, h) \/ Learn(c, h) \/ Lose(c, h)
      PROVE  Onward
  <2>1. CASE Watch(c, h)
    BY Zenon, <2>1, <1>3, <1>4 DEF Watch, AlreadyClosed, Errors
  <2>2. CASE Learn(c, h) \/ Lose(c, h)
    BY Zenon, <2>2, <1>3 DEF Learn, Lose, Errors
  <2> QED
    BY Zenon, <1>5, <2>1, <2>2
<1>6. CASE Receiver(h)
  <2>1. CASE RecvCloses(h)
    BY Zenon, <2>1, <1>3, <1>4 DEF RecvCloses, AlreadyClosed, Errors
  <2>2. CASE Listen(h) \/ WaitForOpen(h) \/ Recv(h) \/ RecvReturns(h)
    BY Zenon, <2>2, <1>3 DEF Listen, WaitForOpen, Recv, RecvReturns
  <2> QED
    BY Zenon, <1>6, <2>1, <2>2 DEF Receiver
<1>7. CASE Broadcast(h) \/ Sender(h)
  <2>1. CASE SendCloses(h)
    BY Zenon, <2>1, <1>3, <1>4 DEF SendCloses, AlreadyClosed, Errors
  <2>2. CASE Broadcast(h) \/ Send(h) \/ SendReturns(h)
    BY Zenon, <2>2, <1>3 DEF Broadcast, Send, SendReturns
  <2> QED
    BY Zenon, <1>7, <2>1, <2>2 DEF Sender
<1>8. CASE Stop(h) \/ PoolClose(h)
  BY Zenon, <1>8, <1>3, <1>4 DEF Stop, PoolClose, AlreadyClosed, Errors
<1>9. CASE EndClose(h)
  <2>1. /\ UNCHANGED <<ctr, concluded, dialer, end, handler>>
        /\ counter' = [counter EXCEPT ![h] = 0]
    BY Zenon, <1>9 DEF EndClose
  <2>2. counter \in [Pair -> Nat]
    BY Zenon DEF CountInv, CountTypes
  <2>3. counter' \in [Pair -> Nat] /\ \A g \in Pair : counter'[g] <= counter[g]
    BY SMTT(30), <2>1, <2>2
  <2> QED
    BY Zenon, <2>1, <2>3 DEF Onward
<1>10. CASE Restart(h)
  <2>1. UNCHANGED <<ctr, concluded, dialer>> /\ counter' = [counter EXCEPT ![h] = 0]
    BY Zenon, <1>10 DEF Restart
  <2>2. counter \in [Pair -> Nat]
    BY Zenon DEF CountInv, CountTypes
  <2>3. counter' \in [Pair -> Nat] /\ \A g \in Pair : counter'[g] <= counter[g]
    BY SMTT(30), <2>1, <2>2
  <2>4. \A c \in Conns, g \in Pair : end'[c][g] = "none" => end[c][g] = "none"
    BY Zenon, <1>10 DEF Restart, LifeInv, HandlerTypes
  <2>5. \A c \in Conns, g \in Pair :
          handler'[c][g] = IF g = h /\ handler[c][g] # "none" THEN "done" ELSE handler[c][g]
    BY Zenon, <1>10 DEF Restart, LifeInv, HandlerTypes
  <2> QED
    BY ZenonT(30), <2>1, <2>3, <2>4, <2>5 DEF Onward
<1> QED
  BY ZenonT(30), <1>2, <1>5, <1>6, <1>7, <1>8, <1>9, <1>10

\* Every step keeps the invariant of the counters.
LEMMA NextCounts == LifeInv /\ CountInv /\ [Next]_vars => CountInv'
<1> SUFFICES ASSUME LifeInv, CountInv, [Next]_vars PROVE CountInv'
  OBVIOUS
<1>1. CASE UNCHANGED vars
  <2>1. Onward
    <3>1. UNCHANGED <<counter, ctr, concluded, dialer, end, handler>>
      BY Zenon, <1>1 DEF vars, fields, establishing, quic
    <3>2. counter' \in [Pair -> Nat] /\ \A h \in Pair : counter'[h] <= counter[h]
      BY SMTT(30), <3>1 DEF CountInv, CountTypes
    <3> QED
      BY Zenon, <3>1, <3>2 DEF Onward
  <2> QED
    BY Zenon, <2>1, OnwardCounts
<1>2. CASE Next
  BY Zenon, <1>2, OthersGoOn, OnwardCounts, DialCounts, CountCounts, ResolveCounts DEF Next, Establish
<1> QED
  BY Zenon, <1>1, <1>2

-----------------------------------------------------------------------------
\* The invariants of the Connections and of the counters hold in every reachable
\* state.
THEOREM ConnectionInvariant == Spec => [](LifeInv /\ CountInv)
<1>1. Init => LifeInv /\ CountInv
  BY Zenon, InitLife, InitCounts
<1>2. LifeInv /\ CountInv /\ [Next]_vars => (LifeInv /\ CountInv)'
  BY Zenon, NextLife, NextCounts
<1> QED
  BY <1>1, <1>2, PTL DEF Spec

\* The counters the conclusions are drawn from fit in six bits.
LEMMA CountersAgree ==
  ASSUME IsFiniteSet(Conns), Cardinality(Conns) < 64, CountInv
  PROVE  ConclusionsAgree
<1> SUFFICES ASSUME NEW c \in Conns, concluded[c][Low] # "none", concluded[c][High] # "none"
             PROVE  concluded[c][Low] = concluded[c][High]
  BY Zenon DEF ConclusionsAgree
<1>1. Low \in Nat /\ High \in Nat /\ Low # High /\ Low \in Pair /\ High \in Pair
      /\ Peer(Low) = High /\ Peer(High) = Low
  BY SMTT(30), ConnectionAssumption DEF Pair, Peer
<1>2. ctr[c][Low] \in 0 .. 63 /\ ctr[c][High] \in 0 .. 63
  <2>1. Cardinality(Conns) \in Nat
    BY Zenon, FS_CardinalityType
  <2>2. \A h \in Pair : ctr[c][h] \in Nat /\ ctr[c][h] <= Cardinality(Conns)
    BY Zenon DEF CountInv, CountTypes, CountersBounded
  <2>3. \A m, n \in Nat : m <= n /\ n < 64 => m \in 0 .. 63
    BY SMTT(30)
  <2> QED
    BY Zenon, <1>1, <2>1, <2>2, <2>3
<1>3. /\ concluded[c][Low] = Conclusion(PerspectiveOf(c, Low), ctr[c][Low],
                               Encode(PerspectiveOf(c, High), ctr[c][High]), Low, High)
      /\ concluded[c][High] = Conclusion(PerspectiveOf(c, High), ctr[c][High],
                                Encode(PerspectiveOf(c, Low), ctr[c][Low]), High, Low)
  BY Zenon, <1>1 DEF CountInv, DrawnFromCounters
<1> DEFINE Agree(h, x, p, y) == ClientConclusion(h, x, p, y) = ServerConclusion(h, x, p, y)
<1>a. ASSUME NEW h \in Nat, NEW p \in Nat, h # p, NEW x \in 0 .. 63, NEW y \in 0 .. 63
      PROVE  Agree(h, x, p, y)
  BY Zenon, <1>a, SameConclusion
<1> HIDE DEF Agree
<1>4. CASE dialer[c] = Low
  <2>1. PerspectiveOf(c, Low) = Client /\ PerspectiveOf(c, High) = Server
    BY Zenon, <1>1, <1>4 DEF PerspectiveOf
  <2>2. Agree(Low, ctr[c][Low], High, ctr[c][High])
    BY Zenon, <1>1, <1>2, <1>a
  <2> QED
    BY Zenon, <1>3, <2>1, <2>2 DEF Agree, ClientConclusion, ServerConclusion
<1>5. CASE dialer[c] = High
  <2>1. PerspectiveOf(c, Low) = Server /\ PerspectiveOf(c, High) = Client
    BY Zenon, <1>1, <1>5 DEF PerspectiveOf
  <2>2. Agree(High, ctr[c][High], Low, ctr[c][Low])
    BY Zenon, <1>1, <1>2, <1>a
  <2> QED
    BY Zenon, <1>3, <2>1, <2>2 DEF Agree, ClientConclusion, ServerConclusion
<1> QED
  BY Zenon, <1>4, <1>5 DEF CountInv, CountTypes, Pair

\* Two ends of a QUIC connection never conclude differently on it, however their
\* counting, closing and restarting interleave, when fewer than 64 QUIC connections
\* are dialed: by WideCountersDisagree the six bits of the counter allow no more.
THEOREM ConclusionsAgreeHolds ==
  IsFiniteSet(Conns) /\ Cardinality(Conns) < 64 => (Spec => []ConclusionsAgree)
<1> SUFFICES ASSUME IsFiniteSet(Conns), Cardinality(Conns) < 64
             PROVE  Spec => []ConclusionsAgree
  OBVIOUS
<1>1. CountInv => ConclusionsAgree
  BY Zenon, CountersAgree
<1> QED
  BY <1>1, ConnectionInvariant, PTL

\* No QUIC connection is left behind open and unused, by any order of dialing,
\* losing, closing and restarting.
THEOREM NoneLeftOpenHolds == Spec => []NoneLeftOpen
<1>1. LifeInv => NoneLeftOpen
  BY Zenon DEF LifeInv
<1> QED
  BY <1>1, ConnectionInvariant, PTL

\* A listener that waits while the Connection is alive has a notification coming.
THEOREM NoLostWakeupHolds == Spec => []NoLostWakeup
<1>1. LifeInv => NoLostWakeup
  BY Zenon DEF LifeInv
<1> QED
  BY <1>1, ConnectionInvariant, PTL

\* activeConnections counts the Connection exactly while it is alive or its closing
\* has not ended.
THEOREM ActiveIsAliveHolds == Spec => []ActiveIsAlive
<1>1. LifeInv => ActiveIsAlive
  BY Zenon DEF LifeInv
<1> QED
  BY <1>1, ConnectionInvariant, PTL

\* Nothing establishes a Connection again that Pool.Close has closed.
THEOREM ClosedStaysClosedHolds == Spec => []ClosedStaysClosed
<1>1. LifeInv => ClosedStaysClosed
  BY Zenon DEF LifeInv, NoHandlerInClose, ClosedStaysClosed
<1> QED
  BY <1>1, ConnectionInvariant, PTL
==============================================================================
