----------------------------- MODULE Connection ------------------------------
(***************************************************************************)
(* The connection of a pair of peers (connection/connection.go): each peer *)
(* keeps one Connection for the other, dials and accepts QUIC connections  *)
(* for it, settles on one of them by perspective resolving, listens on it, *)
(* sends on it, and gives it up when it is lost or when a pool is closed.  *)
(*                                                                         *)
(* The goroutines of a peer interleave at their reads and writes of the    *)
(* Connection's fields; Connection.mu is held from the first to the second *)
(* step of Close. QUIC itself is external: each end of a QUIC connection   *)
(* is open or has ended with an error, which the other end learns later.   *)
(***************************************************************************)
EXTENDS Naturals, Perspective

CONSTANTS
  Low, High,  \* the two peers, in the order of their names
  Conns,      \* the QUIC connections that are ever dialed
  Budgets     \* bounds on the losses, timeouts, messages, stops and restarts of each

Pair == {Low, High}

Kinds == {"loss", "timeout", "send", "stop", "restart"}

ASSUME ConnectionAssumption ==
  /\ Low \in Nat /\ High \in Nat /\ Low < High
  /\ Conns \cap {"none", "free", "listener", "sender", "pool"} = {}
  /\ Budgets \subseteq [Kinds -> [Pair -> Nat]]

VARIABLES
  \* the fields of a peer's Connection
  status, perspective, conn, counter, openNotify, activeConnections, mu,
  \* its goroutines: Establish for each QUIC connection, watchConnection for
  \* each established one, Listen, Send, and Pool.Close
  handler, ctr, watcher, listener, reading, sender, writing, pool,
  \* QUIC: who dialed, the state of the two ends, the data
  dialer, end, stream,
  \* what Establish concluded, what Listen passed on, what Send returned
  concluded, sink, sent,
  \* what is left of the budget
  budget

fields == <<status, perspective, conn, counter, openNotify, activeConnections, mu>>
users == <<listener, reading, sender, writing, sink, sent>>
establishing == <<handler, ctr, concluded>>
quic == <<dialer, end, stream>>
vars == <<fields, users, establishing, watcher, pool, quic, budget>>

Peer(h) == IF h = Low THEN High ELSE Low

PerspectiveOf(c, h) == IF dialer[c] = h THEN Client ELSE Server

\* The errors that end a QUIC connection: the connErr codes, and a connection
\* that QUIC itself declared lost.
Errors == {"already", "closed", "notresolved", "unspecified", "lost"}

Spend(kind, h) ==
  budget[kind][h] > 0 /\ budget' = [budget EXCEPT ![kind][h] = @ - 1]

\* closeConn: CloseWithError on an end that may have ended already.
CloseConn(c, h, err) ==
  end' = [end EXCEPT ![c][h] = IF @ = "open" THEN err ELSE @]

-----------------------------------------------------------------------------
Init ==
  /\ status = [h \in Pair |-> "dead"]
  /\ perspective = [h \in Pair |-> Unknown]
  /\ conn = [h \in Pair |-> "none"]
  /\ counter = [h \in Pair |-> 0]
  /\ openNotify = [h \in Pair |-> 0]
  /\ activeConnections = [h \in Pair |-> 0]
  /\ mu = [h \in Pair |-> "free"]
  /\ handler = [c \in Conns |-> [h \in Pair |-> "none"]]
  /\ ctr = [c \in Conns |-> [h \in Pair |-> 0]]
  /\ watcher = [c \in Conns |-> [h \in Pair |-> "none"]]
  /\ listener = [h \in Pair |-> "check"]
  /\ reading = [h \in Pair |-> "none"]
  /\ sender = [h \in Pair |-> "idle"]
  /\ writing = [h \in Pair |-> "none"]
  /\ pool = [h \in Pair |-> "running"]
  /\ dialer = [c \in Conns |-> Low]
  /\ end = [c \in Conns |-> [h \in Pair |-> "none"]]
  /\ stream = [c \in Conns |-> [h \in Pair |-> 0]]
  /\ concluded = [c \in Conns |-> [h \in Pair |-> "none"]]
  /\ sink = [h \in Pair |-> "none"]
  /\ sent = [h \in Pair |-> "none"]
  /\ budget \in Budgets

-----------------------------------------------------------------------------
(* Pool.dial, Pool.acceptConnections, Pool.add *)

\* dial sees that the Connection is dead, and dialOnce succeeds: a QUIC
\* connection appears at both ends. A peer dials one connection at a time.
Dial(h, c) ==
  /\ pool[h] = "running" /\ pool[Peer(h)] # "closed"
  /\ status[h] = "dead"
  /\ end[c][h] = "none"
  /\ \A d \in Conns : dialer[d] = h => handler[d][h] \in {"none", "done"}
  /\ dialer' = [dialer EXCEPT ![c] = h]
  /\ end' = [end EXCEPT ![c] = [g \in Pair |-> "open"]]
  /\ handler' = [handler EXCEPT ![c] =
                   [g \in Pair |-> IF g = h THEN "start" ELSE "queued"]]
  /\ UNCHANGED <<fields, users, watcher, pool, ctr, concluded, stream, budget>>

\* A plausible add that forgets the QUIC connection it could not establish.
RejectOpen(c, h, err) ==
  /\ handler' = [handler EXCEPT ![c][h] = "done"]
  /\ UNCHANGED end

\* add closes the QUIC connection that Establish returned an error for.
Reject(c, h, err) ==
  /\ handler' = [handler EXCEPT ![c][h] = "done"]
  /\ CloseConn(c, h, err)

\* acceptConnections takes a QUIC connection off the listener.
Accept(c, h) ==
  /\ handler[c][h] = "queued"
  /\ IF pool[h] = "running"
       THEN handler' = [handler EXCEPT ![c][h] = "start"] /\ UNCHANGED end
       ELSE Reject(c, h, "closed")
  /\ UNCHANGED <<fields, users, watcher, pool, ctr, concluded, dialer, stream, budget>>

-----------------------------------------------------------------------------
(* Connection.Establish and perspectiveResolver.resolve *)

\* The fast path of Establish, which reads the fields without the mutex.
FastPath(c, h) ==
  /\ handler[c][h] = "start"
  /\ IF status[h] = "alive" /\ perspective[h] # Unknown
       THEN Reject(c, h, "already")
       ELSE handler' = [handler EXCEPT ![c][h] = "count"] /\ UNCHANGED end
  /\ UNCHANGED <<fields, users, watcher, pool, ctr, concluded, dialer, stream, budget>>

\* resolve counts and sends its resolvent.
Count(c, h) ==
  /\ handler[c][h] = "count"
  /\ counter' = [counter EXCEPT ![h] = @ + 1]
  /\ IF end[c][h] = "open"
       THEN /\ ctr' = [ctr EXCEPT ![c][h] = counter'[h]]
            /\ handler' = [handler EXCEPT ![c][h] = "recv"]
            /\ UNCHANGED end
       ELSE Reject(c, h, "unspecified") /\ UNCHANGED ctr
  /\ UNCHANGED <<status, perspective, conn, openNotify, activeConnections, mu>>
  /\ UNCHANGED <<users, watcher, pool, concluded, dialer, stream, budget>>

\* resolve receives the resolvent of the other end and draws its conclusion.
Resolve(c, h) ==
  /\ handler[c][h] = "recv" /\ end[c][h] = "open"
  /\ ctr[c][Peer(h)] > 0
  /\ LET b == Encode(PerspectiveOf(c, Peer(h)), ctr[c][Peer(h)])
         r == Conclusion(PerspectiveOf(c, h), ctr[c][h], b, h, Peer(h))
     IN  /\ concluded' = [concluded EXCEPT ![c][h] = r]
         /\ IF r = "accept"
              THEN handler' = [handler EXCEPT ![c][h] = "lock"] /\ UNCHANGED end
              ELSE Reject(c, h, IF r = "reject" THEN "notresolved" ELSE "unspecified")
  /\ UNCHANGED <<fields, users, watcher, pool, ctr, dialer, stream, budget>>

\* A plausible resolve that waits for the resolvent until Pool.Close.
GivesUpLate(c, h) == pool[h] # "running"

\* The QUIC connection has ended, Pool.Close cancelled the context, or the other
\* end will not answer before the timeout.
GivesUp(c, h) ==
  end[c][h] # "open" \/ pool[h] # "running" \/ handler[c][Peer(h)] = "done"

\* resolve fails, possibly in a timeout that comes too early.
ResolveFails(c, h) ==
  /\ handler[c][h] = "recv"
  /\ IF GivesUp(c, h) THEN UNCHANGED budget ELSE Spend("timeout", h)
  /\ Reject(c, h, "unspecified")
  /\ UNCHANGED <<fields, users, watcher, pool, ctr, concluded, dialer, stream>>

\* A plausible Establish that does not look at the status again under the mutex.
UnassignedUnchecked(h) == TRUE

\* Establish looks at the status again under the mutex.
Unassigned(h) == status[h] # "alive"

\* A plausible notification that is lost unless the listener, which has seen the
\* Connection dead, is already in its select.
NotifyWaiting(h) ==
  \/ UNCHANGED openNotify
  \/ listener[h] = "wait" /\ openNotify' = [openNotify EXCEPT ![h] = @ + 1]

\* A goroutine stays behind that publishes on openNotify until someone receives.
Notify(h) == openNotify' = [openNotify EXCEPT ![h] = @ + 1]

\* Establish takes the mutex, and the QUIC connection if it has none.
Lock(c, h) ==
  /\ handler[c][h] = "lock" /\ mu[h] = "free"
  /\ IF Unassigned(h)
       THEN /\ conn' = [conn EXCEPT ![h] = c]
            /\ perspective' = [perspective EXCEPT ![h] = PerspectiveOf(c, h)]
            /\ status' = [status EXCEPT ![h] = "alive"]
            /\ activeConnections' = [activeConnections EXCEPT ![h] = @ + 1]
            /\ Notify(h)
            /\ watcher' = [watcher EXCEPT ![c][h] = "watch"]
            /\ handler' = [handler EXCEPT ![c][h] = "done"]
            /\ UNCHANGED end
       ELSE /\ Reject(c, h, "already")
            /\ UNCHANGED <<conn, perspective, status, activeConnections, openNotify, watcher>>
  /\ UNCHANGED <<counter, mu, users, pool, ctr, concluded, dialer, stream, budget>>

-----------------------------------------------------------------------------
(* Connection.Close, in two steps: who is a QUIC connection (its watcher),   *)
(* "listener", "sender" or "pool".                                           *)

\* Close finds the Connection alive: it marks it dead and closes what it holds.
BeginClose(h, who, err) ==
  /\ mu[h] = "free" /\ status[h] = "alive"
  /\ mu' = [mu EXCEPT ![h] = who]
  /\ status' = [status EXCEPT ![h] = "dead"]
  /\ CloseConn(conn[h], h, err)
  /\ UNCHANGED <<perspective, conn, counter, openNotify, activeConnections>>

\* Close finds it dead already.
AlreadyClosed(h) == mu[h] = "free" /\ status[h] = "dead" /\ UNCHANGED <<fields, end>>

\* The goroutines go on when Close returns.
WatcherReturns(c, h) == watcher' = [watcher EXCEPT ![c][h] = "done"]

ListenerReturns(h, what) ==
  /\ sink' = [sink EXCEPT ![h] = IF what = "error" THEN @ ELSE what]
  /\ listener' = [listener EXCEPT ![h] = "check"]
  /\ reading' = [reading EXCEPT ![h] = "none"]

SenderReturns(h, what) ==
  /\ sent' = [sent EXCEPT ![h] = IF what = "error" THEN @ ELSE what]
  /\ sender' = [sender EXCEPT ![h] = "idle"]
  /\ writing' = [writing EXCEPT ![h] = "none"]

PoolReturns(h) == pool' = [pool EXCEPT ![h] = "closed"]

listening == <<listener, reading, sink>>
sending == <<sender, writing, sent>>

\* The rest of Close.
EndClose(h) ==
  /\ mu[h] # "free"
  /\ perspective' = [perspective EXCEPT ![h] = Unknown]
  /\ counter' = [counter EXCEPT ![h] = 0]
  /\ activeConnections' = [activeConnections EXCEPT ![h] = @ - 1]
  /\ mu' = [mu EXCEPT ![h] = "free"]
  /\ \/ mu[h] \in Conns /\ WatcherReturns(mu[h], h) /\ UNCHANGED <<users, pool>>
     \/ mu[h] = "listener" /\ ListenerReturns(h, "error") /\ UNCHANGED <<sending, watcher, pool>>
     \/ mu[h] = "sender" /\ SenderReturns(h, "error") /\ UNCHANGED <<listening, watcher, pool>>
     \/ mu[h] = "pool" /\ PoolReturns(h) /\ UNCHANGED <<users, watcher>>
  /\ UNCHANGED <<status, conn, openNotify, establishing, quic, budget>>

\* A plausible watcher that overlooks a connection that just went silent.
EndedByPeer(c, h) == end[c][h] \notin {"open", "lost"}

\* The context of a QUIC connection is done.
Ended(c, h) == end[c][h] # "open"

\* watchConnection wakes up when its QUIC connection has ended.
Watch(c, h) ==
  /\ watcher[c][h] = "watch" /\ Ended(c, h)
  /\ \/ BeginClose(h, c, "unspecified") /\ watcher' = [watcher EXCEPT ![c][h] = "closing"]
     \/ AlreadyClosed(h) /\ WatcherReturns(c, h)
  /\ UNCHANGED <<users, establishing, pool, dialer, stream, budget>>

-----------------------------------------------------------------------------
(* Connection.Listen and Recv *)

\* A plausible Listen that leaves it to Recv to find the Connection dead.
ListenAnyway(h) ==
  /\ listener[h] = "check"
  /\ listener' = [listener EXCEPT ![h] = "recv"]
  /\ UNCHANGED <<fields, reading, sink, sending, establishing, watcher, pool, quic, budget>>

\* Listen waits when the Connection is dead, until openNotify.
Listen(h) ==
  /\ listener[h] = "check"
  /\ listener' = [listener EXCEPT ![h] = IF status[h] = "dead" THEN "wait" ELSE "recv"]
  /\ UNCHANGED <<fields, reading, sink, sending, establishing, watcher, pool, quic, budget>>

WaitForOpen(h) ==
  /\ listener[h] = "wait"
  /\ \/ /\ openNotify[h] > 0
        /\ openNotify' = [openNotify EXCEPT ![h] = @ - 1]
        /\ listener' = [listener EXCEPT ![h] = "recv"]
     \/ /\ pool[h] # "running"
        /\ listener' = [listener EXCEPT ![h] = "returned"]
        /\ UNCHANGED openNotify
  /\ UNCHANGED <<status, perspective, conn, counter, activeConnections, mu>>
  /\ UNCHANGED <<reading, sink, sending, establishing, watcher, pool, quic, budget>>

\* Recv looks at the status, and blocks on the QUIC connection of the moment.
Recv(h) ==
  /\ listener[h] = "recv"
  /\ IF status[h] = "dead"
       THEN ListenerReturns(h, "error")
       ELSE /\ reading' = [reading EXCEPT ![h] = conn[h]]
            /\ listener' = [listener EXCEPT ![h] = "read"]
            /\ UNCHANGED sink
  /\ UNCHANGED <<fields, sending, establishing, watcher, pool, quic, budget>>

\* handleErrors: what it makes of an error, apart from closing the Connection.
Handled(err) == IF err = "already" THEN "nothing" ELSE "error"

\* The errors that are permanent for handleErrors.
Permanent(err) == err = "closed"

\* Recv gets data, times out on it, or gets an error that is not permanent.
RecvReturns(h) ==
  /\ listener[h] = "read"
  /\ LET c == reading[h]
     IN  \/ /\ end[c][h] = "open" /\ stream[c][h] > 0
            /\ stream' = [stream EXCEPT ![c][h] = @ - 1]
            /\ \/ ListenerReturns(h, "data") /\ UNCHANGED budget
               \/ ListenerReturns(h, "error") /\ Spend("timeout", h)
         \/ /\ end[c][h] # "open" /\ ~Permanent(end[c][h])
            /\ ListenerReturns(h, Handled(end[c][h]))
            /\ UNCHANGED <<stream, budget>>
  /\ UNCHANGED <<fields, sending, establishing, watcher, pool, dialer, end>>

\* Recv gets a permanent error, or the context was cancelled by Pool.Close:
\* handleErrors closes the Connection, whatever QUIC connection it holds by now.
RecvCloses(h) ==
  /\ listener[h] = "read"
  /\ pool[h] # "running" \/ Permanent(end[reading[h]][h])
  /\ \/ /\ BeginClose(h, "listener", IF pool[h] # "running" THEN "unspecified" ELSE "closed")
        /\ listener' = [listener EXCEPT ![h] = "closing"]
        /\ UNCHANGED <<reading, sink>>
     \/ AlreadyClosed(h) /\ ListenerReturns(h, "error")
  /\ UNCHANGED <<sending, establishing, watcher, pool, dialer, stream, budget>>

-----------------------------------------------------------------------------
(* Pool.Broadcast and Connection.Send *)

\* Broadcast finds that all connections are active.
Broadcast(h) ==
  /\ sender[h] = "idle" /\ pool[h] = "running" /\ activeConnections[h] = 1
  /\ Spend("send", h)
  /\ sender' = [sender EXCEPT ![h] = "send"]
  /\ sent' = [sent EXCEPT ![h] = "none"]
  /\ UNCHANGED <<fields, listening, writing, establishing, watcher, pool, quic>>

\* Send looks at the status.
Send(h) ==
  /\ sender[h] = "send"
  /\ IF status[h] = "dead"
       THEN SenderReturns(h, "error")
       ELSE /\ writing' = [writing EXCEPT ![h] = conn[h]]
            /\ sender' = [sender EXCEPT ![h] = "write"]
            /\ UNCHANGED sent
  /\ UNCHANGED <<fields, listening, establishing, watcher, pool, quic, budget>>

\* Send writes on the QUIC connection, times out (with the data written or not),
\* or gets an error that is not permanent.
SendReturns(h) ==
  /\ sender[h] = "write"
  /\ LET c == writing[h]
     IN  \/ /\ end[c][h] = "open"
            /\ stream' = [stream EXCEPT ![c][Peer(h)] = @ + 1]
            /\ \/ SenderReturns(h, "data") /\ UNCHANGED budget
               \/ SenderReturns(h, "error") /\ Spend("timeout", h)
         \/ /\ end[c][h] = "open" /\ Spend("timeout", h)
            /\ SenderReturns(h, "error")
            /\ UNCHANGED stream
         \/ /\ end[c][h] # "open" /\ ~Permanent(end[c][h])
            /\ SenderReturns(h, Handled(end[c][h]))
            /\ UNCHANGED <<stream, budget>>
  /\ UNCHANGED <<fields, listening, establishing, watcher, pool, dialer, end>>

SendCloses(h) ==
  /\ sender[h] = "write" /\ Permanent(end[writing[h]][h])
  /\ \/ /\ BeginClose(h, "sender", "closed")
        /\ sender' = [sender EXCEPT ![h] = "closing"]
        /\ UNCHANGED <<writing, sent>>
     \/ AlreadyClosed(h) /\ SenderReturns(h, "error")
  /\ UNCHANGED <<listening, establishing, watcher, pool, dialer, stream, budget>>

-----------------------------------------------------------------------------
(* Pool.Close, restarts, and the network *)

\* Close marks the pool closed and cancels the context.
Stop(h) ==
  /\ pool[h] = "running" /\ Spend("stop", h)
  /\ pool' = [pool EXCEPT ![h] = "stopping"]
  /\ UNCHANGED <<fields, users, establishing, watcher, quic>>

\* A plausible Close that does not wait for the connection handlers.
NoWaiting(h) == TRUE

\* A plausible pool that never counts its handlers down.
NeverHandled(h) == \A c \in Conns : handler[c][h] \in {"none", "queued"}

\* activeConnectionHandlers of h is zero.
NoHandlers(h) == \A c \in Conns : handler[c][h] \in {"none", "queued", "done"}

\* Close has waited for the handlers of connections, and closes the Connection.
PoolClose(h) ==
  /\ pool[h] = "stopping" /\ NoHandlers(h)
  /\ \/ BeginClose(h, "pool", "closed") /\ pool' = [pool EXCEPT ![h] = "closing"]
     \/ AlreadyClosed(h) /\ PoolReturns(h)
  /\ UNCHANGED <<users, establishing, watcher, dialer, stream, budget>>

\* The process of h dies, whatever it was doing, and starts again.
Restart(h) ==
  /\ Spend("restart", h)
  /\ status' = [status EXCEPT ![h] = "dead"]
  /\ perspective' = [perspective EXCEPT ![h] = Unknown]
  /\ conn' = [conn EXCEPT ![h] = "none"]
  /\ counter' = [counter EXCEPT ![h] = 0]
  /\ openNotify' = [openNotify EXCEPT ![h] = 0]
  /\ activeConnections' = [activeConnections EXCEPT ![h] = 0]
  /\ mu' = [mu EXCEPT ![h] = "free"]
  /\ handler' = [c \in Conns |-> [handler[c] EXCEPT ![h] = IF @ = "none" THEN @ ELSE "done"]]
  /\ watcher' = [c \in Conns |-> [watcher[c] EXCEPT ![h] = "none"]]
  /\ ListenerReturns(h, "none")
  /\ SenderReturns(h, "none")
  /\ pool' = [pool EXCEPT ![h] = "running"]
  /\ end' = [c \in Conns |-> [end[c] EXCEPT ![h] = IF @ = "open" THEN "lost" ELSE @]]
  /\ UNCHANGED <<ctr, concluded, dialer, stream>>

\* An end learns that the other one has ended.
Learn(c, h) ==
  /\ end[c][h] = "open" /\ end[c][Peer(h)] \in Errors
  /\ end' = [end EXCEPT ![c][h] = end[c][Peer(h)]]
  /\ UNCHANGED <<fields, users, establishing, watcher, pool, dialer, stream, budget>>

\* QUIC declares a connection lost at one end.
Lose(c, h) ==
  /\ end[c][h] = "open" /\ Spend("loss", h)
  /\ end' = [end EXCEPT ![c][h] = "lost"]
  /\ UNCHANGED <<fields, users, establishing, watcher, pool, dialer, stream>>

-----------------------------------------------------------------------------
Establish(c, h) ==
  FastPath(c, h) \/ Count(c, h) \/ Resolve(c, h) \/ ResolveFails(c, h) \/ Lock(c, h)

Receiver(h) == Listen(h) \/ WaitForOpen(h) \/ Recv(h) \/ RecvReturns(h) \/ RecvCloses(h)

Sender(h) == Send(h) \/ SendReturns(h) \/ SendCloses(h)

Next ==
  \E h \in Pair :
    \/ \E c \in Conns : \/ Dial(h, c) \/ Accept(c, h) \/ Establish(c, h)
                        \/ Watch(c, h) \/ Learn(c, h) \/ Lose(c, h)
    \/ EndClose(h) \/ Receiver(h) \/ Broadcast(h) \/ Sender(h)
    \/ Stop(h) \/ PoolClose(h) \/ Restart(h)

Spec == Init /\ [][Next]_vars

\* Goroutines go on running, the establishing has a timeout, QUIC tells the end
\* of a connection or finds it out. Nobody has to dial, to lose a connection, to
\* stop or to restart.
Fairness ==
  \A h \in Pair :
    /\ \A c \in Conns : /\ WF_vars(Accept(c, h)) /\ WF_vars(Establish(c, h))
                        /\ WF_vars(Watch(c, h)) /\ WF_vars(Learn(c, h))
    /\ WF_vars(EndClose(h)) /\ WF_vars(Receiver(h)) /\ WF_vars(Sender(h))
    /\ WF_vars(PoolClose(h))

FairSpec == Spec /\ Fairness

-----------------------------------------------------------------------------
\* The types of the variables.
TypeOK ==
  /\ status \in [Pair -> {"dead", "alive"}]
  /\ perspective \in [Pair -> {Unknown, Server, Client}]
  /\ conn \in [Pair -> Conns \cup {"none"}]
  /\ counter \in [Pair -> Nat] /\ openNotify \in [Pair -> Nat]
  /\ activeConnections \in [Pair -> 0 .. 1]
  /\ mu \in [Pair -> Conns \cup {"free", "listener", "sender", "pool"}]
  /\ handler \in [Conns -> [Pair -> {"none", "queued", "start", "count", "recv", "lock", "done"}]]
  /\ ctr \in [Conns -> [Pair -> Nat]]
  /\ watcher \in [Conns -> [Pair -> {"none", "watch", "closing", "done"}]]
  /\ listener \in [Pair -> {"check", "wait", "recv", "read", "closing", "returned"}]
  /\ sender \in [Pair -> {"idle", "send", "write", "closing"}]
  /\ reading \in [Pair -> Conns \cup {"none"}] /\ writing \in [Pair -> Conns \cup {"none"}]
  /\ pool \in [Pair -> {"running", "stopping", "closing", "closed"}]
  /\ dialer \in [Conns -> Pair]
  /\ end \in [Conns -> [Pair -> {"none", "open"} \cup Errors]]
  /\ stream \in [Conns -> [Pair -> Nat]]
  /\ concluded \in [Conns -> [Pair -> {"none", "accept", "reject", "bug"}]]
  /\ sink \in [Pair -> {"none", "data", "nothing"}]
  /\ sent \in [Pair -> {"none", "data", "nothing"}]
  /\ budget \in [Kinds -> [Pair -> Nat]]

\* "Complement logic has to be applied on both sides, otherwise both peers would
\* arrive at different conclusions": no two ends of a QUIC connection conclude
\* differently on it, however their counting, closing and restarting interleave.
ConclusionsAgree ==
  \A c \in Conns :
    \/ concluded[c][Low] = "none" \/ concluded[c][High] = "none"
    \/ concluded[c][Low] = concluded[c][High]

\* A QUIC connection that is still open at an end and not being established is
\* the one the Connection holds: none is left behind open and unused.
NoneLeftOpen ==
  \A c \in Conns, h \in Pair :
    (end[c][h] = "open" /\ handler[c][h] = "done") => (status[h] = "alive" /\ conn[h] = c)

\* A listener that waits for openNotify while the Connection is alive will be
\* woken up: no notification was lost between its look at the status and its
\* waiting.
NoLostWakeup ==
  \A h \in Pair : (listener[h] = "wait" /\ status[h] = "alive") => openNotify[h] > 0

\* activeConnections "should be incremented when Connection is StatusAlive and
\* decremented when it goes to StatusDead": Broadcast relies on it.
ActiveIsAlive ==
  \A h \in Pair :
    activeConnections[h] = IF status[h] = "alive" \/ mu[h] # "free" THEN 1 ELSE 0

\* Once Pool.Close has closed the Connection nothing establishes it again.
ClosedStaysClosed ==
  \A h \in Pair : pool[h] = "closed" => status[h] = "dead"

\* The establishing of a QUIC connection comes to an end at both peers.
EstablishReturns ==
  \A c \in Conns, h \in Pair : handler[c][h] # "none" ~> handler[c][h] = "done"

\* A peer does not stay alive on a QUIC connection that the other peer gave up.
HalfOpenHeals ==
  \A c \in Conns, h \in Pair :
    (status[h] = "alive" /\ conn[h] = c /\ end[c][Peer(h)] # "open")
      ~> ~(status[h] = "alive" /\ conn[h] = c)

\* The goroutines that publish on openNotify do not pile up over connections that
\* come and go: those that nobody has received from when the Connection dies are
\* received from while it is dead, unless the pool is closed.
NotifiersEnd ==
  \A h \in Pair :
    (openNotify[h] > 0 /\ status[h] = "dead")
      ~> (openNotify[h] = 0 \/ status[h] = "alive" \/ pool[h] # "running")

\* Pool.Close returns, unless the process dies first.
StopReturns == \A h \in Pair : pool[h] = "stopping" ~> pool[h] \in {"closed", "running"}

\* "Either watchConnection or handleErrors gets here first": Close is called for
\* the QUIC connection that the Connection holds, or finds it dead.
WatcherClosesItsOwn ==
  [][\A h \in Pair :
       (pool[h] = "running" /\ mu'[h] \in Conns /\ mu[h] = "free") => conn[h] = mu'[h]]_vars

\* "The received data along with any errors is wrapped by Message struct and sent
\* to the sink channel": what Listen passes on was received, or is an error.
OnlyWhatWasReceived == \A h \in Pair : sink[h] # "nothing"

\* Send returns no error only when the data was handed to a QUIC connection.
SentOrError == \A h \in Pair : sent[h] # "nothing"
==============================================================================
