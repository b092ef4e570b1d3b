------------------------------ MODULE Shutdown -------------------------------
(***************************************************************************)
(* The life of one process, from main.run to the return of closeOnSignal:  *)
(* start of the host and the FUSE server, Host.Close and Server.Close,     *)
(* beside the calls of Replicate that FUSE makes and the transactions that *)
(* other peers start. The vote itself is module Host, the inside of        *)
(* Pool.Close is module Pool.                                              *)
(***************************************************************************)
EXTENDS Naturals, TLAPS

CONSTANTS
  Calls,        \* file operations of this host
  Works,        \* transactions of other peers
  Responses     \* how many messages of a transaction may come after its end

ASSUME CallsAssumption == Calls \cap Works = {}

ASSUME ResponsesAssumption == Responses \in Nat

VARIABLES
  main,         \* place of the main goroutine
  mounted,      \* the FUSE server takes operations
  cancelled,    \* the context of listen and the handlers
  listening,    \* the goroutine of Host.listen runs
  connected,    \* the pool's connections
  call,         \* place of each operation, in rfs and in Replicate
  work,         \* place of each transaction of others: in the channel, in handleTransaction
  owed,         \* how many messages of a transaction may still come after its end
  ghosts,       \* ended transactions that a late message put into the table again
  old,          \* history: transactions in the table since the signal came
  late          \* history: operations not begun when the connections were closed

process == <<main, mounted, cancelled, listening, connected>>
transactions == <<call, work, owed, ghosts>>
vars == <<process, transactions, old, late>>

CallTable == {"put", "await"}
WorkTable == {"handle", "answered", "mirror"}

\* A plausible table whose entries are deleted only when Replicate succeeds.
TableKept ==
  {c \in Calls : call[c] \in CallTable \cup {"failed"}} \cup {w \in Works : work[w] \in WorkTable} \cup ghosts

\* The table of transactions: Replicate and the handlers delete their own entry.
Table ==
  {c \in Calls : call[c] \in CallTable} \cup {w \in Works : work[w] \in WorkTable} \cup ghosts

TypeOK ==
  /\ main \in {"start", "mount", "wait", "poll", "cancel", "pool", "unmount", "exited"}
  /\ mounted \in BOOLEAN /\ cancelled \in BOOLEAN /\ listening \in BOOLEAN /\ connected \in BOOLEAN
  /\ call \in [Calls -> {"idle", "put", "await", "apply", "done", "unsent", "refused", "failed"}]
  /\ work \in [Works -> {"unborn", "incoming", "handle", "answered", "mirror", "done", "refused", "failed"}]
  /\ owed \in [Calls \cup Works -> 0..Responses] /\ ghosts \subseteq Calls \cup Works
  /\ old \subseteq Calls \cup Works /\ late \subseteq Calls
  /\ main \in {"start", "mount"} => ~mounted

Init ==
  /\ main = "start"
  /\ mounted = FALSE /\ cancelled = FALSE /\ listening = FALSE /\ connected = FALSE
  /\ call = [c \in Calls |-> "idle"]
  /\ work = [w \in Works |-> "unborn"]
  /\ owed = [t \in Calls \cup Works |-> Responses] /\ ghosts = {}
  /\ old = {} /\ late = {}

-----------------------------------------------------------------------------
(* The main goroutine. *)

\* Host.Run, with Pool.Run.
Run ==
  /\ main = "start"
  /\ main' = "mount"
  /\ listening' = TRUE /\ connected' = TRUE
  /\ UNCHANGED <<mounted, cancelled, transactions, old, late>>

Mount ==
  /\ main = "mount"
  /\ mounted' = TRUE
  /\ main' = "wait"
  /\ UNCHANGED <<cancelled, listening, connected, transactions, old, late>>

\* When Mount fails the process ends at once.
MountFails ==
  /\ main = "mount"
  /\ main' = "exited"
  /\ UNCHANGED <<mounted, cancelled, listening, connected, transactions, old, late>>

\* closeOnSignal receives a signal and calls Host.Close.
Signal ==
  /\ main = "wait"
  /\ main' = "poll"
  /\ old' = Table
  /\ UNCHANGED <<mounted, cancelled, listening, connected, transactions, late>>

\* A plausible Host.Close that sleeps once.
PollOnce ==
  /\ main = "poll"
  /\ main' = "cancel"
  /\ UNCHANGED <<mounted, cancelled, listening, connected, transactions, old, late>>

\* The loop of Host.Close ends when it finds the table empty.
Poll ==
  /\ main = "poll"
  /\ Table = {}
  /\ main' = "cancel"
  /\ UNCHANGED <<mounted, cancelled, listening, connected, transactions, old, late>>

Cancel ==
  /\ main = "cancel"
  /\ cancelled' = TRUE
  /\ main' = "pool"
  /\ UNCHANGED <<mounted, listening, connected, transactions, old, late>>

\* A plausible Host.Close that returns without closing the connections.
KeepPool ==
  /\ main = "pool"
  /\ main' = "unmount"
  /\ late' = {c \in Calls : call[c] = "idle"}
  /\ UNCHANGED <<mounted, cancelled, listening, connected, transactions, old>>

ClosePool ==
  /\ main = "pool"
  /\ connected' = FALSE
  /\ main' = "unmount"
  /\ late' = {c \in Calls : call[c] = "idle"}
  /\ UNCHANGED <<mounted, cancelled, listening, transactions, old>>

\* Server.Close: a busy file system is not unmounted, and main goes on to its end.
Unmount ==
  /\ main = "unmount"
  /\ mounted' = \E c \in Calls : call[c] \in {"put", "await", "apply"}
  /\ main' = "exited"
  /\ UNCHANGED <<cancelled, listening, connected, transactions, old, late>>

Main == Run \/ Mount \/ Poll \/ Cancel \/ ClosePool \/ Unmount

-----------------------------------------------------------------------------
(* Operations of this host. *)

\* An operation that leaves the table is no longer an old one.
CallMoves(c, places, to) ==
  /\ main # "exited"
  /\ call[c] \in places
  /\ call' = [call EXCEPT ![c] = to]
  /\ old' = IF to \in CallTable THEN old ELSE old \ {c}
  /\ UNCHANGED <<process, work, owed, ghosts, late>>

Replicate(c) == mounted /\ CallMoves(c, {"idle"}, "put")

\* A rival is found, and nothing is sent.
RivalFound(c) == CallMoves(c, {"put"}, "unsent")

\* With its connections closed, Broadcast returns ErrPeerIsDown.
Broadcast(c) == CallMoves(c, {"put"}, IF connected THEN "await" ELSE "unsent")

\* Every send reports an error, although some may have gone out.
SendsFail(c) == connected /\ CallMoves(c, {"put"}, "failed")

\* The last response is handed over by listen: all agree, or not.
Permitted(c) == listening /\ CallMoves(c, {"await"}, "apply")
Refused(c) == listening /\ CallMoves(c, {"await"}, "refused")

\* The deadline, or some of the sends reported an error. The context of Replicate is
\* that of FUSE, which Host.Close does not cancel.
Timeout(c) == CallMoves(c, {"await"}, "failed")

\* The operation rfs performs after Replicate returned.
Perform(c) == CallMoves(c, {"apply"}, "done")

Call(c) ==
  \/ RivalFound(c) \/ Broadcast(c) \/ SendsFail(c) \/ Permitted(c) \/ Refused(c)
  \/ Timeout(c) \/ Perform(c)

-----------------------------------------------------------------------------
(* Transactions of other peers. *)

WorkMoves(w, places, to) ==
  /\ main # "exited"
  /\ work[w] \in places
  /\ work' = [work EXCEPT ![w] = to]
  /\ old' = IF to \in WorkTable THEN old ELSE old \ {w}
  /\ UNCHANGED <<process, call, owed, ghosts, late>>

Arrive(w) == connected /\ WorkMoves(w, {"unborn"}, "incoming")

\* The select of listen may take a message although its context is cancelled.
Listen(w) == listening /\ WorkMoves(w, {"incoming"}, "handle")

\* Consult and the broadcast of the response, whose failure is only logged.
Answer(w) == WorkMoves(w, {"handle"}, "answered")

\* All responses were gathered (with two peers the request was the only message).
Gathered(w) == WorkMoves(w, {"answered"}, "mirror")
Rejected(w) == WorkMoves(w, {"answered"}, "refused")

\* The context of the handler is done: cancelled by Host.Close, or at its deadline.
Done(w) == WorkMoves(w, {"handle", "answered"}, "failed")

Mirror(w) == WorkMoves(w, {"mirror"}, "done")

Work(w) == Listen(w) \/ Answer(w) \/ Gathered(w) \/ Rejected(w) \/ Done(w) \/ Mirror(w)

-----------------------------------------------------------------------------
(* Messages of transactions that have ended without them. *)

Ended(t) == IF t \in Calls THEN call[t] = "failed" ELSE work[t] = "failed"

\* listen puts the transaction into the table again and starts a handler, or hands
\* the message to the one that was started so before.
LateMessage(t) ==
  /\ main # "exited" /\ listening
  /\ Ended(t) /\ owed[t] > 0
  /\ owed' = [owed EXCEPT ![t] = @ - 1]
  /\ ghosts' = ghosts \cup {t}
  /\ UNCHANGED <<process, call, work, old, late>>

\* This handler ends at its deadline, when it is cancelled, or with ErrNotPermitted.
GhostEnds(t) ==
  /\ main # "exited"
  /\ t \in ghosts
  /\ ghosts' = ghosts \ {t} /\ old' = old \ {t}
  /\ UNCHANGED <<process, call, work, owed, late>>

\* One that gathered all responses to a request of this host, and no refusal, calls
\* Mirror without a request: the process panics.
GhostMirrors(c) ==
  /\ main # "exited"
  /\ c \in ghosts /\ owed[c] = 0
  /\ main' = "exited"
  /\ UNCHANGED <<mounted, cancelled, listening, connected, transactions, old, late>>

-----------------------------------------------------------------------------
StopListening ==
  /\ cancelled /\ listening /\ main # "exited"
  /\ listening' = FALSE
  /\ UNCHANGED <<main, mounted, cancelled, connected, transactions, old, late>>

Next ==
  \/ Main \/ MountFails \/ Signal \/ StopListening
  \/ \E c \in Calls : Replicate(c) \/ Call(c) \/ GhostMirrors(c)
  \/ \E w \in Works : Arrive(w) \/ Work(w)
  \/ \E t \in Calls \cup Works : LateMessage(t) \/ GhostEnds(t)

Spec == Init /\ [][Next]_vars

\* The goroutines are scheduled fairly and deadlines expire. Nobody has to
\* start an operation, and neither a signal nor a late message has to come.
FairSpec ==
  /\ Spec
  /\ WF_vars(Main) /\ WF_vars(StopListening)
  /\ \A c \in Calls : WF_vars(Call(c))
  /\ \A w \in Works : WF_vars(Work(w))
  /\ \A t \in Calls \cup Works : WF_vars(GhostEnds(t))

-----------------------------------------------------------------------------
(* Properties. *)

\* Host.Close: until a transaction that was in the table when the signal came has
\* left it, the listener hands it its messages, its context is not cancelled and the
\* connections are open, whatever else begins, ends or is put into the table again.
OldTransactionsUndisturbed == old # {} => listening /\ connected /\ ~cancelled

\* An operation that begins after the connections were closed, while FUSE is
\* still mounted, is never performed: it would be performed on this host only.
NotPerformedAlone == \A c \in late : call[c] \in {"idle", "put", "unsent"}

\* After the signal, Host.Close and the process come to their end, although
\* operations and messages still come in, as long as they are finitely many.
CloseReturns == (main = "poll") ~> (main = "exited")

\* Host.Close closes the connections only when all transactions have ended, and
\* takes no new ones ("Wait for all transactions to finish and stop accepting new ones").
NoNewTransactions == main \in {"unmount", "exited"} /\ cancelled => Table = {}

\* The process does not end between the agreement of all peers and the
\* operation that they agreed upon.
AgreedIsPerformed ==
  main = "exited" /\ cancelled =>
    (\A c \in Calls : call[c] # "apply") /\ (\A w \in Works : work[w] # "mirror")

-----------------------------------------------------------------------------
(* Proofs. *)

\* Old transactions are in the table, so that Host.Close goes on only without them,
\* and a closed pool stays closed.
IInv ==
  /\ TypeOK
  /\ old \subseteq Table
  /\ old # {} => main \in {"poll", "exited"}
  /\ main \in {"mount", "wait", "poll", "cancel"} => listening /\ connected
  /\ main \in {"start", "mount", "wait", "poll", "cancel"} => ~cancelled
  /\ main \notin {"unmount", "exited"} => late = {}
  /\ late # {} => ~connected
  /\ OldTransactionsUndisturbed
  /\ NotPerformedAlone

\* The steps of the main goroutine keep the invariant.
LEMMA MainInv ==
  ASSUME IInv, Main \/ MountFails \/ Signal \/ StopListening
  PROVE  IInv'
<1> USE DEF IInv, TypeOK, Table, OldTransactionsUndisturbed, NotPerformedAlone, transactions
<1>1. CASE Run BY <1>1 DEF Run
<1>2. CASE Mount BY <1>2 DEF Mount
<1>3. CASE MountFails BY <1>3 DEF MountFails
<1>4. CASE Signal BY <1>4 DEF Signal
<1>5. CASE Poll BY <1>5 DEF Poll
<1>6. CASE Cancel BY <1>6 DEF Cancel
<1>7. CASE ClosePool BY <1>7 DEF ClosePool
<1>8. CASE Unmount BY <1>8 DEF Unmount
<1>9. CASE StopListening BY <1>9 DEF StopListening
<1> QED BY <1>1, <1>2, <1>3, <1>4, <1>5, <1>6, <1>7, <1>8, <1>9 DEF Main

\* The steps of an operation of this host keep it.
LEMMA CallInv ==
  ASSUME IInv, NEW c \in Calls, Replicate(c) \/ Call(c)
  PROVE  IInv'
<1> USE CallsAssumption DEF IInv, TypeOK, Table, CallTable, OldTransactionsUndisturbed,
        NotPerformedAlone, CallMoves, process
<1>1. CASE Replicate(c) BY <1>1 DEF Replicate
<1>2. CASE RivalFound(c) BY <1>2 DEF RivalFound
<1>3. CASE Broadcast(c) BY <1>3 DEF Broadcast
<1>4. CASE SendsFail(c) BY <1>4 DEF SendsFail
<1>5. CASE Permitted(c) BY <1>5 DEF Permitted
<1>6. CASE Refused(c) BY <1>6 DEF Refused
<1>7. CASE Timeout(c) BY <1>7 DEF Timeout
<1>8. CASE Perform(c) BY SMTT(30), <1>8 DEF Perform
<1> QED BY <1>1, <1>2, <1>3, <1>4, <1>5, <1>6, <1>7, <1>8 DEF Call

\* The steps of a transaction of another peer keep it.
LEMMA WorkInv ==
  ASSUME IInv, NEW w \in Works, Arrive(w) \/ Work(w)
  PROVE  IInv'
<1> USE CallsAssumption DEF IInv, TypeOK, Table, WorkTable, OldTransactionsUndisturbed,
        NotPerformedAlone, WorkMoves, process
<1>1. CASE Arrive(w) BY <1>1 DEF Arrive
<1>2. CASE Listen(w) BY <1>2 DEF Listen
<1>3. CASE Answer(w) BY <1>3 DEF Answer
<1>4. CASE Gathered(w) BY <1>4 DEF Gathered
<1>5. CASE Rejected(w) BY <1>5 DEF Rejected
<1>6. CASE Done(w) BY <1>6 DEF Done
<1>7. CASE Mirror(w) BY SMTT(30), <1>7 DEF Mirror
<1> QED BY <1>1, <1>2, <1>3, <1>4, <1>5, <1>6, <1>7 DEF Work

\* The messages that come too late keep it.
LEMMA LateInv ==
  ASSUME IInv, NEW t \in Calls \cup Works, LateMessage(t) \/ GhostEnds(t) \/ GhostMirrors(t)
  PROVE  IInv'
<1> USE DEF IInv, TypeOK, Table, OldTransactionsUndisturbed, NotPerformedAlone, process, transactions
<1>1. CASE LateMessage(t)
  <2>1. owed[t] - 1 \in 0..Responses
    BY <1>1, ResponsesAssumption DEF LateMessage
  <2> QED
    BY <1>1, <2>1 DEF LateMessage
<1>2. CASE GhostEnds(t) BY <1>2 DEF GhostEnds
<1>3. CASE GhostMirrors(t) BY <1>3 DEF GhostMirrors
<1> QED BY <1>1, <1>2, <1>3

\* Host.Close and the goroutines around it: the invariant of the two theorems.
LEMMA ShutdownInvariant == Spec => []IInv
<1>0. Responses \in 0..Responses
  BY ResponsesAssumption
<1>1. Init => IInv
  BY <1>0 DEF Init, IInv, TypeOK, Table, OldTransactionsUndisturbed, NotPerformedAlone
<1>2. IInv /\ [Next]_vars => IInv'
  <2> SUFFICES ASSUME IInv, [Next]_vars PROVE IInv'
    OBVIOUS
  <2>1. CASE Next BY <2>1, MainInv, CallInv, WorkInv, LateInv DEF Next
  <2>2. CASE UNCHANGED vars
    BY <2>2 DEF vars, process, transactions, IInv, TypeOK, Table, OldTransactionsUndisturbed, NotPerformedAlone
  <2> QED BY <2>1, <2>2
<1> QED BY <1>1, <1>2, PTL DEF Spec

\* Host.Close: for any number of operations, transactions and late messages, it
\* neither cancels a transaction of before the signal nor takes its listener or its
\* connections from it.
THEOREM OldTransactionsUndisturbedHolds == Spec => []OldTransactionsUndisturbed
<1>1. IInv => OldTransactionsUndisturbed BY DEF IInv
<1> QED BY <1>1, ShutdownInvariant, PTL

\* Host.Close, then Server.Close: what FUSE begins in between is not performed
\* on this host alone.
THEOREM NotPerformedAloneHolds == Spec => []NotPerformedAlone
<1>1. IInv => NotPerformedAlone BY DEF IInv
<1> QED BY <1>1, ShutdownInvariant, PTL
==============================================================================
