-------------------------------- MODULE Pool ---------------------------------
(***************************************************************************)
(* The goroutines of a pool (connection/pool.go): the accept loop and the  *)
(* handlers it starts, one dial loop per peer, and Close, which counts the *)
(* handlers down before it closes the connections. What the two ends of a  *)
(* connection say to each other is in Connection; here a Connection is     *)
(* alive or dead.                                                          *)
(***************************************************************************)
EXTENDS Backoff, FiniteSets, Sequences

CONSTANTS
  Peers,     \* the other peers, by name; each has a Connection and a dial loop
  Offered,   \* the QUIC connections that are ever offered to the listener
  Certs,     \* the names in the certificates each of them comes with
  Acceptor,  \* the accept loop
  None

ASSUME PoolAssumption ==
  /\ IsFiniteSet(Peers) /\ IsFiniteSet(Offered)
  /\ Peers \cap Offered = {}
  /\ Acceptor \notin Peers \cup Offered /\ None \notin Peers \cup Offered \cup {Acceptor}
  /\ \A c \in Offered : DOMAIN Certs[c] = 1 .. Len(Certs[c])

VARIABLES
  at,         \* where each goroutine stands
  got,        \* what the accept loop got last
  count,      \* activeConnectionHandlers
  closed,     \* the flag of the pool
  cancelled,  \* its context
  closer,     \* where Close stands
  open,       \* the Connections Close has still to close
  status,     \* the status of each Connection
  \* each dial loop's Backoff: its timer, whether an attempt was made since the
  \* last Reset (0 or 1), and the duration
  timer, attempt, val

vars == <<at, got, count, closed, cancelled, closer, open, status, timer, attempt, val>>

Goroutines == Peers \cup Offered \cup {Acceptor}

\* The places between addConnectionHandler and removeConnectionHandler,
CountedPlaces == {"load", "dialing", "won", "lost", "refused", "failed", "establish", "leave"}

\* and the others.
Places == CountedPlaces \cup {"check", "ticker", "add", "reset", "next", "paused", "blocked",
                              "returned", "none", "accept", "done"}

Init ==
  /\ at = [g \in Goroutines |->
             IF g \in Peers THEN "check" ELSE IF g = Acceptor THEN "accept" ELSE "none"]
  /\ got = None /\ count = 0
  /\ closed = FALSE /\ cancelled = FALSE /\ closer = "idle" /\ open = Peers
  /\ status = [p \in Peers |-> "dead"]
  /\ timer = [p \in Peers |-> "nil"]
  /\ attempt = [p \in Peers |-> 0]
  /\ val = [p \in Peers |-> Initial]

Goes(g, place) == at' = [at EXCEPT ![g] = place]

closing == <<closed, cancelled, closer, open>>
backoff == <<timer, attempt, val>>

-----------------------------------------------------------------------------
(* addConnectionHandler and removeConnectionHandler *)

\* addConnectionHandler counts first,
Add(g) ==
  /\ at[g] = "add"
  /\ Goes(g, "load") /\ count' = count + 1
  /\ UNCHANGED <<got, closing, status, backoff>>

\* and then looks whether the pool is closed.
Refused == closed

\* A plausible handler that is not counted down.
NotRemoved == UNCHANGED count

Removed == count' = count - 1

-----------------------------------------------------------------------------
(* dial and dialOnce, for the Connection to p *)

\* The loop waits on its ticker as long as the Connection is alive.
Check(p) ==
  /\ at[p] = "check"
  /\ Goes(p, IF status[p] = "alive" THEN "ticker" ELSE "add")
  /\ UNCHANGED <<got, count, closing, status, backoff>>

Tick(p) ==
  /\ at[p] = "ticker" /\ status[p] = "dead"
  /\ Goes(p, "add")
  /\ UNCHANGED <<got, count, closing, status, backoff>>

DialLoad(p) ==
  /\ at[p] = "load"
  /\ Goes(p, IF Refused THEN "refused" ELSE "dialing")
  /\ UNCHANGED <<got, count, closing, status, backoff>>

\* add: Establish takes the QUIC connection if the Connection is dead. It may
\* fail in any state, as may dialing.
Establish(p) == status[p] = "dead" /\ status' = [status EXCEPT ![p] = "alive"]

Dial(p) ==
  /\ at[p] = "dialing"
  /\ \/ Establish(p) /\ Goes(p, "won")
     \/ UNCHANGED status /\ Goes(p, "lost")
  /\ UNCHANGED <<got, count, closing, backoff>>

\* dialOnce returns, and its handler is counted down.
DialReturns(p) ==
  /\ \/ at[p] = "won" /\ Goes(p, "reset")
     \/ at[p] = "lost" /\ Goes(p, "next")
     \/ at[p] = "refused" /\ Goes(p, "returned")
  /\ Removed
  /\ UNCHANGED <<got, closing, status, backoff>>

\* Backoff.Next sets the timer, after the first attempt to a new duration, and
\* receives from its channel.
Pause(p) ==
  /\ at[p] = "next"
  /\ Goes(p, "paused") /\ timer' = [timer EXCEPT ![p] = "running"]
  /\ \/ attempt[p] = 0 /\ UNCHANGED val
     \/ attempt[p] = 1 /\ \E jt \in Jitters : val' = [val EXCEPT ![p] = NextDuration(@, jt)]
  /\ UNCHANGED <<got, count, closing, status, attempt>>

Fire(p) ==
  /\ at[p] = "paused"
  /\ Goes(p, "check") /\ timer' = [timer EXCEPT ![p] = "drained"]
  /\ attempt' = [attempt EXCEPT ![p] = 1]
  /\ UNCHANGED <<got, count, closing, status, val>>

\* Backoff.Reset: Stop is false for a timer that has fired, and nothing will be
\* received from the channel that Next has drained.
Reset(p) ==
  /\ at[p] = "reset"
  /\ attempt' = [attempt EXCEPT ![p] = 0] /\ val' = [val EXCEPT ![p] = Initial]
  /\ Goes(p, IF timer[p] = "drained" THEN "blocked" ELSE "check")
  /\ UNCHANGED <<got, count, closing, status, timer>>

-----------------------------------------------------------------------------
(* acceptConnections *)

\* VerifyConnection: one certificate, with a whitelisted name.
VerifyConnection(c) == Len(Certs[c]) = 1 /\ Certs[c][1] \in Peers

Accept(c) ==
  /\ at[Acceptor] = "accept" /\ at[c] = "none" /\ VerifyConnection(c)
  /\ Goes(Acceptor, "add") /\ got' = c
  /\ UNCHANGED <<count, closing, status, backoff>>

\* Accept returns an error, at the latest when the context is cancelled.
AcceptFails ==
  /\ at[Acceptor] = "accept"
  /\ Goes(Acceptor, "add") /\ got' = None
  /\ UNCHANGED <<count, closing, status, backoff>>

\* A closed pool closes what it got, an error is logged, a connection gets a
\* handler, which takes over the count.
AcceptLoad ==
  /\ at[Acceptor] = "load"
  /\ at' = [at EXCEPT ![Acceptor] = IF Refused THEN "refused"
                                    ELSE IF got = None THEN "failed" ELSE "accept",
                      ![got] = IF Refused THEN "done" ELSE "establish"]
  /\ UNCHANGED <<got, count, closing, status, backoff>>

AcceptReturns ==
  /\ \/ at[Acceptor] = "refused" /\ Goes(Acceptor, "returned")
     \/ at[Acceptor] = "failed" /\ Goes(Acceptor, "accept")
  /\ Removed
  /\ UNCHANGED <<got, closing, status, backoff>>

\* The handler: add finds the Connection by the name in the certificate.
Handle(c) ==
  /\ at[c] = "establish"
  /\ Goes(c, "leave")
  /\ Establish(Certs[c][1]) \/ UNCHANGED status
  /\ UNCHANGED <<got, count, closing, backoff>>

HandlerReturns(c) ==
  /\ at[c] = "leave"
  /\ Goes(c, "done") /\ Removed
  /\ UNCHANGED <<got, closing, status, backoff>>

-----------------------------------------------------------------------------
(* Close *)

others == <<at, got, count, backoff>>

CloseBegins ==
  /\ closer = "idle"
  /\ closer' = "stored" /\ closed' = TRUE
  /\ UNCHANGED <<others, cancelled, open, status>>

Cancel ==
  /\ closer = "stored"
  /\ closer' = "waiting" /\ cancelled' = TRUE
  /\ UNCHANGED <<others, closed, open, status>>

\* A plausible Close that does not wait.
NotWaiting == TRUE

Waited == count = 0

\* The handlers have returned; the listener is closed.
CloseListener ==
  /\ closer = "waiting" /\ Waited
  /\ closer' = "closing"
  /\ UNCHANGED <<others, closed, cancelled, open, status>>

\* A plausible Close that leaves a Connection as it is.
CloseConnectionAlive(p) ==
  /\ closer = "closing" /\ p \in open
  /\ open' = open \ {p}
  /\ UNCHANGED <<others, closed, cancelled, closer, status>>

CloseConnection(p) ==
  /\ closer = "closing" /\ p \in open
  /\ status' = [status EXCEPT ![p] = "dead"] /\ open' = open \ {p}
  /\ UNCHANGED <<others, closed, cancelled, closer>>

CloseReturns ==
  /\ closer = "closing" /\ open = {}
  /\ closer' = "returned"
  /\ UNCHANGED <<others, closed, cancelled, open, status>>

\* A Connection is lost.
Lose(p) ==
  /\ status[p] = "alive" /\ status' = [status EXCEPT ![p] = "dead"]
  /\ UNCHANGED <<others, closing>>

-----------------------------------------------------------------------------
DialLoop(p) ==
  \/ Check(p) \/ Tick(p) \/ Add(p) \/ DialLoad(p) \/ Dial(p) \/ DialReturns(p)
  \/ Pause(p) \/ Fire(p) \/ Reset(p)

AcceptLoop == Add(Acceptor) \/ AcceptLoad \/ AcceptReturns

Handler(c) == Handle(c) \/ HandlerReturns(c)

Close == Cancel \/ CloseListener \/ (\E p \in Peers : CloseConnection(p)) \/ CloseReturns

Next ==
  \/ \E p \in Peers : DialLoop(p) \/ Lose(p)
  \/ \E c \in Offered : Accept(c) \/ Handler(c)
  \/ AcceptFails \/ AcceptLoop \/ CloseBegins \/ Close

Spec == Init /\ [][Next]_vars

\* Goroutines run, tickers and timers go off, establishing and dialing have a
\* deadline, a cancelled Accept returns. Nobody has to connect to the listener, to
\* lose a connection or to call Close.
Fairness ==
  /\ \A p \in Peers : WF_vars(DialLoop(p))
  /\ \A c \in Offered : WF_vars(Handler(c))
  /\ WF_vars(AcceptLoop) /\ WF_vars(cancelled /\ AcceptFails) /\ WF_vars(Close)

FairSpec == Spec /\ Fairness

-----------------------------------------------------------------------------
\* The types of the variables.
TypeOK ==
  /\ at \in [Goroutines -> Places]
  /\ got \in Offered \cup {None} /\ count \in Nat
  /\ closed \in BOOLEAN /\ cancelled \in BOOLEAN
  /\ closer \in {"idle", "stored", "waiting", "closing", "returned"}
  /\ open \subseteq Peers
  /\ status \in [Peers -> {"dead", "alive"}]
  /\ timer \in [Peers -> {"nil", "running", "drained"}]
  /\ attempt \in [Peers -> 0 .. 1] /\ val \in [Peers -> Int]

\* The goroutines between their addConnectionHandler and removeConnectionHandler.
Counted == {g \in Goroutines : at[g] \in CountedPlaces}

\* activeConnectionHandlers is the number of these goroutines, although the accept
\* loop counts and its handler is counted down.
HandlersCounted == count = Cardinality(Counted)

\* "waiting for all active connection handlers to return": when Close goes on to
\* close the listener and the connections, no goroutine is dialing or establishing,
\* and none will be.
NoHandlerAfterWait ==
  closer \in {"closing", "returned"}
    => \A g \in Goroutines : at[g] \notin {"dialing", "establish"}

\* A Connection that Close has closed stays closed.
ClosedIsDead == closer \in {"closing", "returned"} => \A p \in Peers \ open : status[p] = "dead"

\* "Backoff never exceeds max": no sequence of failed and successful dials brings
\* a duration above Max, or below Initial.
DurationInRange == \A p \in Peers : val[p] \in Initial .. Max

\* A pause is never shorter than the one before it, unless a dial succeeded in
\* between, however the jitter of next falls.
NeverShrinks ==
  [][\A p \in Peers : (attempt[p] = 1 /\ attempt'[p] = 1) => val'[p] >= val[p]]_vars

\* Close returns, whatever is being dialed or accepted when it is called.
CloseEnds == closed ~> closer = "returned"

\* "This function will run forever responding to connection being closed, in this
\* case it will attempt to dial again": a dead Connection is dialed, becomes alive
\* because the peer dialed, or the pool is closed.
DialsAgain ==
  \A p \in Peers : status[p] = "dead" ~> (at[p] = "dialing" \/ status[p] = "alive" \/ closed)
==============================================================================
