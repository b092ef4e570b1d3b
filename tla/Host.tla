-------------------------------- MODULE Host --------------------------------
(***************************************************************************)
(* The replication protocol of package p2p, run by every peer at once.     *)
(*                                                                         *)
(* A transaction is a vote: its initiator runs Replicate, which broadcasts *)
(* a request; every other peer runs handleTransaction, which consults its  *)
(* mirror and broadcasts a response to ALL peers; each peer decides by     *)
(* itself from the responses it gathered and its own one.                  *)
(*                                                                         *)
(* The goroutines of a host h are                                          *)
(*   - the listener (listen), whose state is notifying[h];                 *)
(*   - one reader for each transaction t in its table: Replicate at the    *)
(*     initiator, handleTransaction elsewhere; its state is pc[h][t],      *)
(*     got[h][t] and ours[h][t].                                           *)
(* NotifyChan is unbuffered: the listener holds a message until the reader *)
(* of the transaction takes it (Notify).                                   *)
(***************************************************************************)
EXTENDS Naturals, FiniteSets, Sequences, ConflictsResolver

CONSTANTS
  Peers,       \* the names of all the peers of the configuration file
  Tids,        \* the transactions: one for each call of Replicate
  Initiator,   \* Initiator[t]: the peer on which Replicate is called
  Path,        \* Path[t]: RelativePath and NewRelativePath of the request
  Answers,     \* Answers[h]: what Mirror.Consult may answer at h, ACK or OTHER
  FaultKinds,  \* the faults that may happen
  MaxFaults    \* how many may happen (timeouts are not counted)

AllFaults == {"timeout", "senderr", "down", "lose", "race", "io", "crash"}

ASSUME PeersAssumption ==
  Peers \subseteq Nat /\ IsFiniteSet(Peers) /\ Cardinality(Peers) >= 2

ASSUME TidsAssumption ==
  Initiator \in [Tids -> Peers] /\ DOMAIN Path = Tids

ASSUME AnswersAssumption == Answers \in [Peers -> SUBSET {"ACK", "OTHER"}]

ASSUME BoundsAssumption ==
  FaultKinds \subseteq AllFaults /\ MaxFaults \in Nat

VARIABLES
  up,          \* up[h]: the process of h runs
  ts,          \* ts[h]: the transactions in the table of h
  reqs,        \* reqs[h]: those whose Request is set
  responses,   \* responses[h][t]: the Responses gathered (with their senders)
  pc,          \* pc[h][t]: where the reader of t at h stands
  got,         \* got[h][t]: how many messages this reader has taken
  ours,        \* ours[h][t]: ourResponse, ACK (the zero value) at first
  failed,      \* failed[t]: how many sends of the request returned an error
  notifying,   \* notifying[h]: the message the listener hands over, if any
  net,         \* the messages in flight
  clock,       \* clock[h]: the conflicts clock
  call,        \* call[t]: the state of the call of Replicate
  log,         \* log[h]: the operations applied to the directory of h
  faults,      \* how many faults have happened
  vote,        \* history: vote[h][t], what h answered
  verdict,     \* history: verdict[h][t], how t ended at h
  heard,       \* history: heard[h][t], whose messages the reader has taken
  startClock,  \* history: startClock[t], the clock when Replicate was called
  past         \* history: past[t], operations completed before that call

tableVars == <<ts, reqs, responses>>
readerVars == <<pc, got, ours, heard>>
callVars == <<failed, call, startClock, past>>
endVars == <<log, verdict>>
vars == <<up, tableVars, readerVars, callVars, endVars,
          notifying, net, clock, faults, vote>>

-----------------------------------------------------------------------------
\* CONFLICT is ERR_TRANSACTION_CONFLICT, OTHER any other Response_Error.
Nacks == {"CONFLICT", "OTHER"}
Votes == {"ACK"} \cup Nacks

Message == [tid: Tids, from: Peers, to: Peers, body: {"request"} \cup Votes]

Response == [from: Peers, vote: Votes]

Others(h) == Peers \ {h}

\* len(h.peers): the configuration without the host itself.
NumOthers == Cardinality(Peers) - 1

ReplicatePC == {"detect", "send", "await", "return"}
HandlerPC == {"gather", "consult", "respond", "mirror", "exit", "exiterr"}

Results == {"ok", "conflict", "notpermitted", "senderr", "peerdown", "timeout"}

\* No caller of Replicate sets Request.Clock: it stays the zero value.
RequestOf(t) == [initiator |-> Initiator[t], path |-> Path[t], clock |-> 0]

\* DetectAndResolveConflict called at h for the request of t.
Refused(h, t) ==
  DetectAndResolveConflict({RequestOf(u) : u \in reqs[h]}, RequestOf(t))

\* A fault of this kind may still happen.
MayFail(kind) == kind \in FaultKinds /\ faults < MaxFaults

Init ==
  /\ up = [h \in Peers |-> TRUE]
  /\ ts = [h \in Peers |-> {}]
  /\ reqs = [h \in Peers |-> {}]
  /\ responses = [h \in Peers |-> [t \in Tids |-> {}]]
  /\ pc = [h \in Peers |-> [t \in Tids |-> "idle"]]
  /\ got = [h \in Peers |-> [t \in Tids |-> 0]]
  /\ ours = [h \in Peers |-> [t \in Tids |-> "ACK"]]
  /\ failed = [t \in Tids |-> 0]
  /\ notifying = [h \in Peers |-> {}]
  /\ net = {}
  /\ clock = [h \in Peers |-> 0]
  /\ call = [t \in Tids |-> "none"]
  /\ log = [h \in Peers |-> <<>>]
  /\ faults = 0
  /\ vote = [h \in Peers |-> [t \in Tids |-> "none"]]
  /\ verdict = [h \in Peers |-> [t \in Tids |-> "none"]]
  /\ heard = [h \in Peers |-> [t \in Tids |-> {}]]
  /\ startClock = [t \in Tids |-> 0]
  /\ past = [t \in Tids |-> {}]

-----------------------------------------------------------------------------
\* Mutants: the response goes to the initiator only; the table keeps what ended;
\* the clock runs backwards.
BroadcastToInitiator(h, t, body, errs, arrive) ==
  /\ errs = {} \/ "senderr" \in FaultKinds
  /\ faults + Cardinality(errs) <= MaxFaults
  /\ Others(h) \ errs \subseteq arrive
  /\ faults' = faults + Cardinality(errs)
  /\ net' = net \cup {[tid |-> t, from |-> h, to |-> p, body |-> body] :
                       p \in {q \in arrive : body = "request" \/ q = Initiator[t]}}

\* Broadcast by h of a message about t. Pool.Broadcast runs the Sends in
\* parallel: those to errs return an error, the messages to arrive are sent
\* all the same (Send may report an error for data that was delivered).
Broadcast(h, t, body, errs, arrive) ==
  /\ errs = {} \/ "senderr" \in FaultKinds
  /\ faults + Cardinality(errs) <= MaxFaults
  /\ Others(h) \ errs \subseteq arrive
  /\ faults' = faults + Cardinality(errs)
  /\ net' = net \cup {[tid |-> t, from |-> h, to |-> p, body |-> body] : p \in arrive}

\* Broadcast returns ErrPeerIsDown and sends nothing: h has lost a connection,
\* because a peer died or by a fault of the network.
PeerIsDown(h) ==
  \/ /\ \E p \in Others(h) : ~up[p]
     /\ UNCHANGED faults
  \/ /\ MayFail("down")
     /\ faults' = faults + 1

\* transactions.Delete, and the end of the reader.
Delete(h, t) ==
  /\ ts' = [ts EXCEPT ![h] = @ \ {t}]
  /\ reqs' = [reqs EXCEPT ![h] = @ \ {t}]
  /\ responses' = [responses EXCEPT ![h][t] = {}]
  /\ pc' = [pc EXCEPT ![h][t] = "idle"]
  /\ got' = [got EXCEPT ![h][t] = 0]
  /\ ours' = [ours EXCEPT ![h][t] = "ACK"]
  /\ heard' = [heard EXCEPT ![h][t] = {}]

IncrementClock(h) == clock' = [clock EXCEPT ![h] = @ + 1]

GoTo(h, t, l) == pc' = [pc EXCEPT ![h][t] = l]

\* The first end of t at h is the one that counts.
End(h, t, v) ==
  verdict' = [verdict EXCEPT ![h][t] = IF @ = "none" THEN v ELSE @]

-----------------------------------------------------------------------------
(* Replicate, on the initiator of t *)

\* The call, up to transactions.Put.
Replicate(t) ==
  LET h == Initiator[t] IN
  /\ up[h]
  /\ call[t] = "none"
  /\ call' = [call EXCEPT ![t] = "pending"]
  /\ startClock' = [startClock EXCEPT ![t] = clock[h]]
  /\ past' = [past EXCEPT ![t] =
                {u \in Tids : verdict[Initiator[u]][u] = "applied"}]
  /\ ts' = [ts EXCEPT ![h] = @ \cup {t}]
  /\ reqs' = [reqs EXCEPT ![h] = @ \cup {t}]
  /\ GoTo(h, t, "detect")
  /\ UNCHANGED <<up, responses, got, ours, heard, failed, endVars,
                 notifying, net, clock, faults, vote>>

\* The search for a conflict before anything is sent. The initiator's own
\* vote is recorded: it is what the request, or its absence, tells the others.
Detect(t) ==
  LET h == Initiator[t] IN
  /\ up[h]
  /\ pc[h][t] = "detect"
  /\ \/ /\ Refused(h, t)
        /\ IncrementClock(h)
        /\ call' = [call EXCEPT ![t] = "conflict"]
        /\ vote' = [vote EXCEPT ![h][t] = "CONFLICT"]
        /\ GoTo(h, t, "return")
     \/ /\ ~Refused(h, t)
        /\ vote' = [vote EXCEPT ![h][t] = "ACK"]
        /\ GoTo(h, t, "send")
        /\ UNCHANGED <<clock, call>>
  /\ UNCHANGED <<up, tableVars, got, ours, heard, failed, startClock, past,
                 endVars, notifying, net, faults>>

\* The broadcast of the request. When every Send fails Replicate gives up,
\* when some do it waits for the answers of the others.
SendRequest(t) ==
  LET h == Initiator[t] IN
  /\ up[h]
  /\ pc[h][t] = "send"
  /\ \E errs, arrive \in SUBSET Others(h) :
       /\ Broadcast(h, t, "request", errs, arrive)
       /\ failed' = [failed EXCEPT ![t] = Cardinality(errs)]
       /\ \/ /\ errs = Others(h)
             /\ call' = [call EXCEPT ![t] = "senderr"]
             /\ GoTo(h, t, "return")
          \/ /\ errs # Others(h)
             /\ GoTo(h, t, "await")
             /\ UNCHANGED call
  /\ UNCHANGED <<up, tableVars, got, ours, heard, startClock, past, endVars,
                 notifying, clock, vote>>

SendRequestPeerIsDown(t) ==
  LET h == Initiator[t] IN
  /\ up[h]
  /\ pc[h][t] = "send"
  /\ PeerIsDown(h)
  /\ call' = [call EXCEPT ![t] = "peerdown"]
  /\ GoTo(h, t, "return")
  /\ UNCHANGED <<up, tableVars, got, ours, heard, failed, startClock, past,
                 endVars, notifying, net, clock, vote>>

\* Mutants: no deadline; one response too few, or one too many, is awaited; the
\* NACKs are not counted, or only those for conflicts; any of them is a conflict.
NeverTimedOut == FALSE
ExpectedTooFew(t) == NumOthers - failed[t] - 1
ExpectedTooMany(t) == NumOthers - failed[t] + 1
ErrorsForConflicts(h, t) == {r.vote : r \in responses[h][t]} \cap {"CONFLICT"}
NoErrors(h, t) == {}
AnyError(errors) == errors # {}

\* The deadline of replicationTimeout may pass while messages are awaited.
TimedOut == "timeout" \in FaultKinds

\* sentMessagesCount
Expected(t) == NumOthers - failed[t]

AwaitTimeout(t) ==
  LET h == Initiator[t] IN
  /\ TimedOut
  /\ up[h]
  /\ pc[h][t] = "await"
  /\ got[h][t] < Expected(t)
  /\ call' = [call EXCEPT ![t] = "timeout"]
  /\ GoTo(h, t, "return")
  /\ UNCHANGED <<up, tableVars, got, ours, heard, failed, startClock, past,
                 endVars, notifying, net, clock, faults, vote>>

\* errorsCtr: the errors of the NACKs among the responses.
Errors(h, t) == {r.vote : r \in responses[h][t]} \cap Nacks

\* Whether a refusal makes the clock tick: there was no other error.
OnlyConflicts(errors) == errors = {"CONFLICT"}

\* The loop over the expected responses is over. With a send error the
\* responses are not looked at.
ProcessResponses(t) ==
  LET h == Initiator[t]
      errors == Errors(h, t)
  IN
  /\ up[h]
  /\ pc[h][t] = "await"
  /\ got[h][t] = Expected(t)
  /\ call' = [call EXCEPT ![t] = IF failed[t] > 0 THEN "senderr"
                                 ELSE IF errors # {} THEN "notpermitted"
                                 ELSE "ok"]
  /\ IF failed[t] = 0 /\ OnlyConflicts(errors)
       THEN IncrementClock(h)
       ELSE UNCHANGED clock
  /\ GoTo(h, t, "return")
  /\ UNCHANGED <<up, tableVars, got, ours, heard, failed, startClock, past,
                 endVars, notifying, net, faults, vote>>

\* Replicate returns: the deferred Delete. After an error the caller returns it
\* to FUSE and the operation has ended.
Return(t) ==
  LET h == Initiator[t] IN
  /\ up[h]
  /\ pc[h][t] = "return"
  /\ Delete(h, t)
  /\ \/ call[t] = "ok" /\ UNCHANGED verdict
     \/ call[t] \in {"conflict", "notpermitted"} /\ End(h, t, "rejected")
     \/ call[t] \in {"senderr", "peerdown", "timeout"} /\ End(h, t, "failed")
  /\ UNCHANGED <<up, callVars, log, notifying, net, clock, faults, vote>>

\* The caller (package rfs) performs the operation on the initiator.
LocalApply(t) ==
  LET h == Initiator[t] IN
  /\ up[h]
  /\ call[t] = "ok"
  /\ pc[h][t] = "idle"
  /\ verdict[h][t] = "none"
  /\ \/ /\ log' = [log EXCEPT ![h] = Append(@, t)]
        /\ End(h, t, "applied")
        /\ UNCHANGED faults
     \/ /\ MayFail("io")
        /\ faults' = faults + 1
        /\ End(h, t, "failed")
        /\ UNCHANGED log
  /\ UNCHANGED <<up, tableVars, readerVars, callVars, notifying, net, clock, vote>>

-----------------------------------------------------------------------------
(* listen, on h *)

\* A message is received and Put into its transaction. When that creates the
\* transaction a handler is started; the listener goes on to NotifyChan.
Listen(h, m) ==
  /\ up[h]
  /\ notifying[h] = {}
  /\ m \in net /\ m.to = h
  /\ net' = net \ {m}
  /\ notifying' = [notifying EXCEPT ![h] = {m}]
  /\ ts' = [ts EXCEPT ![h] = @ \cup {m.tid}]
  /\ \/ /\ m.body = "request"
        /\ reqs' = [reqs EXCEPT ![h] = @ \cup {m.tid}]
        /\ UNCHANGED responses
     \/ /\ m.body \in Votes
        /\ responses' = [responses EXCEPT ![h][m.tid] =
                           @ \cup {[from |-> m.from, vote |-> m.body]}]
        /\ UNCHANGED reqs
  /\ \/ m.tid \in ts[h] /\ UNCHANGED pc
     \/ m.tid \notin ts[h] /\ GoTo(h, m.tid, "gather")
  /\ UNCHANGED <<up, got, ours, heard, callVars, endVars, clock, faults, vote>>

\* Mutant: the handler is not ready for a response that precedes the request.
ReceivingRequestFirst(h, t) ==
  \/ pc[h][t] = "await" /\ got[h][t] < Expected(t)
  \/ pc[h][t] = "gather" /\ got[h][t] < NumOthers /\ t \in reqs[h]

\* The reader of the transaction is at its receive from NotifyChan.
Receiving(h, t) ==
  \/ pc[h][t] = "await" /\ got[h][t] < Expected(t)
  \/ pc[h][t] = "gather" /\ got[h][t] < NumOthers

\* The rendezvous on NotifyChan. A request sends the handler to its mirror.
Notify(h, m) ==
  /\ up[h]
  /\ m \in notifying[h]
  /\ Receiving(h, m.tid)
  /\ notifying' = [notifying EXCEPT ![h] = {}]
  /\ got' = [got EXCEPT ![h][m.tid] = @ + 1]
  /\ heard' = [heard EXCEPT ![h][m.tid] = @ \cup {m.from}]
  /\ \/ /\ pc[h][m.tid] = "gather" /\ m.body = "request"
        /\ GoTo(h, m.tid, "consult")
     \/ /\ pc[h][m.tid] = "await" \/ m.body # "request"
        /\ UNCHANGED pc
  /\ UNCHANGED <<up, tableVars, ours, callVars, endVars, net, clock, faults, vote>>

\* Receiving fails (recv returns an error, which the listener only logs): the
\* message is gone.
Lose(m) ==
  /\ MayFail("lose")
  /\ m \in net
  /\ faults' = faults + 1
  /\ net' = net \ {m}
  /\ UNCHANGED <<up, tableVars, readerVars, callVars, endVars, notifying, clock, vote>>

-----------------------------------------------------------------------------
(* handleTransaction, on h for t *)

\* Mirror.Consult may answer anything; an ACK is followed by the search for a
\* conflict.
Consult(h, t) ==
  /\ up[h]
  /\ pc[h][t] = "consult"
  /\ \E answer \in Answers[h] :
       LET response == IF answer = "ACK" /\ Refused(h, t) THEN "CONFLICT" ELSE answer
       IN  /\ vote' = [vote EXCEPT ![h][t] = response]
           /\ ours' = [ours EXCEPT ![h][t] = response]
  /\ GoTo(h, t, "respond")
  /\ UNCHANGED <<up, tableVars, got, heard, callVars, endVars, notifying, net,
                 clock, faults>>

\* The broadcast of the response; its errors are only logged.
Respond(h, t) ==
  /\ up[h]
  /\ pc[h][t] = "respond"
  /\ \/ \E errs, arrive \in SUBSET Others(h) : Broadcast(h, t, ours[h][t], errs, arrive)
     \/ PeerIsDown(h) /\ UNCHANGED net
  /\ GoTo(h, t, "gather")
  /\ UNCHANGED <<up, tableVars, got, ours, heard, callVars, endVars, notifying,
                 clock, vote>>

GatherTimeout(h, t) ==
  /\ TimedOut
  /\ up[h]
  /\ pc[h][t] = "gather"
  /\ got[h][t] < NumOthers
  /\ GoTo(h, t, "exiterr")
  /\ End(h, t, "failed")
  /\ UNCHANGED <<up, tableVars, got, ours, heard, callVars, log, notifying, net,
                 clock, faults, vote>>

\* Mutants: the loop ends one message early; the handler forgets its own
\* response, or those of the others.
GatheredEarly(h, t) == got[h][t] >= NumOthers - 1
PermittedByOthers(h, t) == \A r \in responses[h][t] : r.vote = "ACK"
PermittedByOurselves(h, t) == ours[h][t] = "ACK"

\* The loop of the handler is over: one message for each other peer.
Gathered(h, t) == got[h][t] = NumOthers

\* permitted, from the handler's own response and those of the others.
Permitted(h, t) ==
  /\ ours[h][t] = "ACK"
  /\ \A r \in responses[h][t] : r.vote = "ACK"

Decide(h, t) ==
  /\ up[h]
  /\ pc[h][t] = "gather"
  /\ Gathered(h, t)
  /\ \/ Permitted(h, t) /\ GoTo(h, t, "mirror") /\ UNCHANGED verdict
     \/ ~Permitted(h, t) /\ GoTo(h, t, "exiterr") /\ End(h, t, "rejected")
  /\ UNCHANGED <<up, tableVars, got, ours, heard, callVars, log, notifying, net,
                 clock, faults, vote>>

\* Mirror.Mirror(transaction.Request); it dereferences the request.
Mirror(h, t) ==
  /\ up[h]
  /\ pc[h][t] = "mirror"
  /\ \/ /\ t \in reqs[h]
        /\ log' = [log EXCEPT ![h] = Append(@, t)]
        /\ End(h, t, "applied")
        /\ GoTo(h, t, "exit")
        /\ UNCHANGED <<up, faults>>
     \/ /\ t \in reqs[h]
        /\ MayFail("io")
        /\ faults' = faults + 1
        /\ End(h, t, "failed")
        /\ GoTo(h, t, "exiterr")
        /\ UNCHANGED <<up, log>>
     \/ /\ t \notin reqs[h]
        /\ up' = [up EXCEPT ![h] = FALSE]
        /\ UNCHANGED <<pc, log, verdict, faults>>
  /\ UNCHANGED <<tableVars, got, ours, heard, callVars, notifying, net, clock, vote>>

\* The handler returns and its transaction is deleted. Its result is assigned
\* to the variable err of listen: an error assigned between ReadMessage and the
\* test of err makes the listener drop the message it has just read.
Exit(h, t) ==
  /\ up[h]
  /\ pc[h][t] \in {"exit", "exiterr"}
  /\ Delete(h, t)
  /\ \/ UNCHANGED <<net, faults>>
     \/ /\ pc[h][t] = "exiterr"
        /\ notifying[h] = {}
        /\ MayFail("race")
        /\ faults' = faults + 1
        /\ \E m \in net : m.to = h /\ net' = net \ {m}
  /\ UNCHANGED <<up, callVars, endVars, notifying, clock, vote>>

\* The process of h is killed.
Crash(h) ==
  /\ MayFail("crash")
  /\ up[h]
  /\ up' = [up EXCEPT ![h] = FALSE]
  /\ faults' = faults + 1
  /\ UNCHANGED <<tableVars, readerVars, callVars, endVars, notifying, net, clock, vote>>

-----------------------------------------------------------------------------
ReplicateStep(t) ==
  \/ Detect(t) \/ SendRequest(t) \/ SendRequestPeerIsDown(t)
  \/ AwaitTimeout(t) \/ ProcessResponses(t) \/ Return(t) \/ LocalApply(t)

HandlerStep(h, t) ==
  \/ Consult(h, t) \/ Respond(h, t) \/ GatherTimeout(h, t)
  \/ Decide(h, t) \/ Mirror(h, t) \/ Exit(h, t)

ListenerStep(h) ==
  \/ \E m \in net : Listen(h, m)
  \/ \E m \in notifying[h] : Notify(h, m)

Next ==
  \/ \E t \in Tids : Replicate(t) \/ ReplicateStep(t)
  \/ \E h \in Peers : ListenerStep(h) \/ Crash(h)
  \/ \E h \in Peers, t \in Tids : HandlerStep(h, t)
  \/ \E m \in net : Lose(m)

Spec == Init /\ [][Next]_vars

\* Every goroutine that can run runs (the Go scheduler is fair), the deadline
\* of a waiting goroutine included. Nobody has to call Replicate.
Fairness ==
  /\ \A t \in Tids : WF_vars(ReplicateStep(t))
  /\ \A h \in Peers : WF_vars(ListenerStep(h))
  /\ \A h \in Peers, t \in Tids : WF_vars(HandlerStep(h, t))

FairSpec == Spec /\ Fairness

-----------------------------------------------------------------------------
TableTypes ==
  /\ ts \in [Peers -> SUBSET Tids]
  /\ reqs \in [Peers -> SUBSET Tids]
  /\ responses \in [Peers -> [Tids -> SUBSET Response]]

ReaderTypes ==
  /\ pc \in [Peers -> [Tids -> {"idle"} \cup ReplicatePC \cup HandlerPC]]
  /\ got \in [Peers -> [Tids -> Nat]]
  /\ ours \in [Peers -> [Tids -> Votes]]
  /\ heard \in [Peers -> [Tids -> SUBSET Peers]]

CallTypes ==
  /\ failed \in [Tids -> 0 .. NumOthers]
  /\ call \in [Tids -> {"none", "pending"} \cup Results]
  /\ startClock \in [Tids -> Nat]
  /\ past \in [Tids -> SUBSET Tids]

EndTypes ==
  /\ log \in [Peers -> Seq(Tids)]
  /\ verdict \in [Peers -> [Tids -> {"none", "applied", "rejected", "failed"}]]

HostTypes ==
  /\ up \in [Peers -> BOOLEAN]
  /\ clock \in [Peers -> Nat]
  /\ vote \in [Peers -> [Tids -> {"none"} \cup Votes]]

NetTypes ==
  /\ notifying \in [Peers -> SUBSET Message]
  /\ net \in SUBSET Message
  /\ faults \in 0 .. MaxFaults

\* The types of the variables.
TypeOK ==
  TableTypes /\ ReaderTypes /\ CallTypes /\ EndTypes /\ HostTypes /\ NetTypes

\* Unanimity ("All peers must agree before the operation is executed"): an
\* operation reaches the directory of a peer only when every peer answered ACK
\* to it, whatever was lost, late, refused or dead.
Unanimity ==
  \A h \in Peers, t \in Tids :
    verdict[h][t] = "applied" => \A p \in Peers : vote[p][t] = "ACK"

\* Peers decide alone but alike: no peer rejects an operation that another one
\* has applied (some may fail to decide, when a message is lost or late).
VerdictsAgree ==
  \A g, h \in Peers, t \in Tids :
    ~(verdict[g][t] = "applied" /\ verdict[h][t] = "rejected")

\* The messages still to be taken fit what the reader waits for: when the
\* listener blocks on NotifyChan, the reader of that transaction is running and
\* will come to receive. Without faults the listener is never stuck.
ListenerHasReader ==
  \A h \in Peers : \A m \in notifying[h] :
    \/ pc[h][m.tid] \in {"detect", "send"}
    \/ pc[h][m.tid] = "await" /\ got[h][m.tid] < Expected(m.tid)
    \/ pc[h][m.tid] \in {"gather", "consult", "respond"} /\ got[h][m.tid] < NumOthers

\* "when all responses and a single request are gathered" (handleTransaction):
\* a handler that came to call Mirror has the request in its transaction.
MirrorHasRequest ==
  \A h \in Peers, t \in Tids : pc[h][t] = "mirror" => t \in reqs[h]

Rivals(t, u) == Conflict(RequestOf(u), RequestOf(t))

\* Conflicting requests never all refuse one another: whenever a request was
\* refused for a conflict, another request for the path was not.
NotAllRefused ==
  \A t \in Tids :
    (\E p \in Peers : vote[p][t] = "CONFLICT") =>
      \E u \in Tids : /\ call[u] # "none"
                     /\ Path[u] = Path[t]
                     /\ \A p \in Peers : vote[p][u] # "CONFLICT"

\* conflicts_resolver.go, the comment of DetectAndResolveConflict: "We always want
\* to let the peer which had the most transaction conflicts not resolved in his
\* favor proceed with his request". A call is refused for a conflict only if a rival
\* had lost at least as many. Fails: the requests do not carry the clock, so the
\* names of the peers decide.
LossesGivePriority ==
  \A t \in Tids :
    (\E p \in Peers : vote[p][t] = "CONFLICT") =>
      \E u \in Tids : /\ call[u] # "none"
                     /\ Rivals(t, u)
                     /\ startClock[t] <= startClock[u]

\* The conflicts clock counts the calls that were refused for conflicts and for
\* nothing else (processResponses).
ClockCountsConflicts ==
  \A h \in Peers :
    clock[h] = Cardinality({t \in Tids :
                 /\ Initiator[t] = h
                 /\ call[t] \in {"conflict", "notpermitted"}
                 /\ {vote[p][t] : p \in Peers} \cap Nacks = {"CONFLICT"}})

\* u is applied to the directory of h, and before t.
AppliedBefore(h, u, t) ==
  \E i, j \in 1 .. Len(log[h]) : i < j /\ log[h][i] = u /\ log[h][j] = t

Applied(h, t) == \E i \in 1 .. Len(log[h]) : log[h][i] = t

\* An operation that had completed on its initiator before a rival one was
\* called comes first in every directory, when the later one has the smaller
\* request: the peers that still work on the first refuse it.
SmallerComesAfter ==
  \A h \in Peers, t \in Tids : \A u \in past[t] :
    (Rivals(t, u) /\ Smaller(RequestOf(t), RequestOf(u)) /\ Applied(h, t))
      => AppliedBefore(h, u, t)

\* Every directory holds the operations on one path in the order in which they
\* completed and were called.
OrderIsKept ==
  \A h \in Peers, t \in Tids : \A u \in past[t] :
    (Path[u] = Path[t] /\ Applied(h, t)) => AppliedBefore(h, u, t)

\* No two directories hold two rival operations in opposite orders.
SameOrder ==
  \A g, h \in Peers, t, u \in Tids :
    Rivals(t, u) => ~(AppliedBefore(g, t, u) /\ AppliedBefore(h, u, t))

-----------------------------------------------------------------------------
\* A call of Replicate returns.
ReplicateReturns ==
  \A t \in Tids :
    pc[Initiator[t]][t] \in ReplicatePC ~>
      (pc[Initiator[t]][t] \notin ReplicatePC \/ ~up[Initiator[t]])

\* The tables become empty, as Host.Close waits for, once no more calls come.
TablesDrain ==
  <>[](\A h \in Peers : up[h] => ts[h] = {})

\* What Replicate permitted is applied by everyone.
PermittedIsApplied ==
  \A t \in Tids : call[t] = "ok" ~> \A h \in Peers : Applied(h, t)

\* listen "finds or creates the right transcation" for a message: what was sent
\* to a peer that stays up is put into a transaction there.
MessagesAreHandled ==
  \A m \in Message : m \in net ~> (m \in notifying[m.to] \/ ~up[m.to])

\* The listener of a peer comes back to receive the next message, whatever
\* becomes of a transaction (the timeout is there for "dropping it for good").
ListenerGoesOn ==
  \A h \in Peers : []<>(notifying[h] = {} \/ ~up[h])

\* The protocol is an open ballot.
Ballot == INSTANCE OpenBallot WITH
            opened <- {t \in Tids : call[t] # "none"}

ImplementsBallot == Ballot!BallotSpec
=============================================================================
