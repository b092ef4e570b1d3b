-------------------------------- MODULE NetOp --------------------------------
(***************************************************************************)
(* connection/net_op.go: one message on one unidirectional QUIC stream,    *)
(* sent by send on one peer and received by recv on the other. Each of the *)
(* two starts a goroutine for the transfer and selects among its two       *)
(* unbuffered channels and the context. The goroutine of send assigns the  *)
(* variable stream, that of recv the variable err, which the functions     *)
(* read without any synchronization.                                       *)
(***************************************************************************)
EXTENDS Naturals

VARIABLES
  s,        \* place of send
  sgo,      \* place of its goroutine
  sdone,    \* its context is done
  early,    \* history: and was before stream was assigned
  stream,   \* its variable stream is not nil
  wire,     \* what the stream holds: 0 nothing, 1 the header, 2 the header and the body
  fin,      \* how the sending side ended: "open", "closed" or "reset"
  r,        \* place of recv
  rgo,      \* place of its goroutine
  rdone,    \* its context is done
  err,      \* its variable err: nil, a streamErr, or what ReadFull returned
  full,     \* its buffer holds the body
  stopped,  \* CancelRead was called
  up        \* the connection

sender == <<s, sgo, sdone, early, stream>>
receiver == <<r, rgo, rdone, err, full, stopped>>
vars == <<sender, wire, fin, receiver, up>>

TypeOK ==
  /\ s \in {"select", "failing", "closing", "closing err", "ok", "err"}
  /\ sgo \in {"opening", "opened", "header", "body", "report", "report err", "gone"}
  /\ wire \in 0..2 /\ fin \in {"open", "closed", "reset"}
  /\ r \in {"accept", "header", "select", "test", "cancel", "return", "data", "err", "empty"}
  /\ rgo \in {"none", "reading", "report", "report err", "gone"}
  /\ err \in {"nil", "stream", "other"}
  /\ {sdone, early, stream, rdone, full, stopped, up} \subseteq BOOLEAN
  /\ s = "ok" => sgo = "gone"

Init ==
  /\ s = "select" /\ sgo = "opening" /\ sdone = FALSE /\ early = FALSE /\ stream = FALSE
  /\ wire = 0 /\ fin = "open"
  /\ r = "accept" /\ rgo = "none" /\ rdone = FALSE /\ err = "nil" /\ full = FALSE /\ stopped = FALSE
  /\ up = TRUE

-----------------------------------------------------------------------------
(* The goroutine of send. *)

OpenUniStreamSync ==
  /\ sgo = "opening"
  /\ \/ ~sdone /\ up /\ sgo' = "opened"
     \/ (sdone \/ ~up) /\ sgo' = "report err"
  /\ UNCHANGED <<s, sdone, early, stream, wire, fin, receiver, up>>

AssignStream ==
  /\ sgo = "opened"
  /\ sgo' = "header" /\ stream' = TRUE
  /\ UNCHANGED <<s, sdone, early, wire, fin, receiver, up>>

\* WriteTo writes the header, then the body; a stream that was reset, closed or
\* stopped takes nothing more.
WriteTo ==
  /\ sgo \in {"header", "body"}
  /\ IF up /\ fin = "open" /\ ~stopped
       THEN /\ wire' = wire + 1
            /\ sgo' = IF sgo = "header" THEN "body" ELSE "report"
       ELSE /\ sgo' = "report err"
            /\ UNCHANGED wire
  /\ UNCHANGED <<s, sdone, early, stream, fin, receiver, up>>

-----------------------------------------------------------------------------
(* send. *)

\* selectResult: the context is done.
SendContextDone ==
  /\ s = "select" /\ sdone
  /\ s' = "failing"
  /\ UNCHANGED <<sgo, sdone, early, stream, wire, fin, receiver, up>>

\* A plausible goroutine that reports when it has written the header.
SendReports ==
  /\ s = "select" /\ sgo = "body"
  /\ s' = "closing" /\ sgo' = "gone"
  /\ UNCHANGED <<sdone, early, stream, wire, fin, receiver, up>>

\* selectResult: the goroutine hands over its result.
SendResult ==
  /\ s = "select" /\ sgo \in {"report", "report err"}
  /\ s' = IF sgo = "report" THEN "closing" ELSE "failing"
  /\ sgo' = "gone"
  /\ UNCHANGED <<sdone, early, stream, wire, fin, receiver, up>>

CancelWrite ==
  /\ s = "failing"
  /\ s' = "closing err"
  /\ fin' = IF stream THEN "reset" ELSE fin
  /\ UNCHANGED <<sgo, sdone, early, stream, wire, receiver, up>>

\* A plausible send that relies on the peer to close the stream.
LeaveStream ==
  /\ s \in {"closing", "closing err"}
  /\ s' = IF s = "closing" THEN "ok" ELSE "err"
  /\ UNCHANGED <<sgo, sdone, early, stream, wire, fin, receiver, up>>

\* The deferred Close, of what stream is then.
CloseStream ==
  /\ s \in {"closing", "closing err"}
  /\ fin' = IF stream /\ fin = "open" THEN "closed" ELSE fin
  /\ s' = IF s = "closing" THEN "ok" ELSE "err"
  /\ UNCHANGED <<sgo, sdone, early, stream, wire, receiver, up>>

-----------------------------------------------------------------------------
(* recv. *)

\* The stream shows up at the receiver with its first frame, whatever it is.
AcceptUniStream ==
  /\ r = "accept"
  /\ \/ up /\ (wire > 0 \/ fin # "open") /\ r' = "header"
     \/ ~up /\ r' = "err"
  /\ UNCHANGED <<sender, wire, fin, rgo, rdone, err, full, stopped, up>>

\* binary.Read of the header, without a deadline. Data that precedes a reset may be lost.
ReadHeader ==
  /\ r = "header"
  /\ \/ /\ wire > 0
        /\ r' = "select" /\ rgo' = "reading"
        /\ UNCHANGED stopped
     \/ /\ ~up \/ fin = "reset" \/ (fin = "closed" /\ wire = 0)
        /\ r' = "err" /\ stopped' = TRUE
        /\ UNCHANGED rgo
  /\ UNCHANGED <<sender, wire, fin, rdone, err, full, up>>

\* A plausible reader that takes what is there (Read instead of ReadFull).
ReadSome ==
  /\ rgo = "reading"
  /\ rgo' = "report" /\ err' = "nil" /\ full' = (wire = 2)
  /\ UNCHANGED <<sender, wire, fin, r, rdone, stopped, up>>

\* io.ReadFull in the goroutine, which assigns err.
ReadFull ==
  /\ rgo = "reading"
  /\ \/ wire = 2 /\ ~stopped /\ rgo' = "report" /\ err' = "nil" /\ full' = TRUE
     \/ /\ ~up \/ stopped \/ fin = "reset" \/ (fin = "closed" /\ wire < 2)
        /\ rgo' = "report err" /\ err' = "other"
        /\ UNCHANGED full
  /\ UNCHANGED <<sender, wire, fin, r, rdone, stopped, up>>

\* selectResult, assigned to err.
RecvResult ==
  /\ r = "select" /\ rgo \in {"report", "report err"}
  /\ r' = "test" /\ rgo' = "gone"
  /\ err' = IF rgo = "report" THEN "nil" ELSE "stream"
  /\ UNCHANGED <<sender, wire, fin, rdone, full, stopped, up>>

\* A plausible select that does not look at the context.
RecvWaits ==
  /\ r = "select" /\ rdone /\ rgo = "gone"
  /\ r' = "test" /\ err' = "stream"
  /\ UNCHANGED <<sender, wire, fin, rgo, rdone, full, stopped, up>>

RecvContextDone ==
  /\ r = "select" /\ rdone
  /\ r' = "test" /\ err' = "stream"
  /\ UNCHANGED <<sender, wire, fin, rgo, rdone, full, stopped, up>>

\* err is read when it is tested, for its cause, and when it is returned.
Test ==
  /\ r = "test"
  /\ r' = IF err = "nil" THEN "data" ELSE "cancel"
  /\ UNCHANGED <<sender, wire, fin, rgo, rdone, err, full, stopped, up>>

CancelRead ==
  /\ r = "cancel"
  /\ r' = "return"
  /\ stopped' = (stopped \/ err = "stream")
  /\ UNCHANGED <<sender, wire, fin, rgo, rdone, err, full, up>>

Return ==
  /\ r = "return"
  /\ r' = IF err = "nil" THEN "empty" ELSE "err"
  /\ UNCHANGED <<sender, wire, fin, rgo, rdone, err, full, stopped, up>>

-----------------------------------------------------------------------------
(* Deadlines, cancellations and a lost connection. *)

SendDeadline == ~sdone /\ sdone' = TRUE /\ early' = ~stream /\ UNCHANGED <<s, sgo, stream, wire, fin, receiver, up>>

RecvDeadline == r = "select" /\ ~rdone /\ rdone' = TRUE /\ UNCHANGED <<sender, wire, fin, r, rgo, err, full, stopped, up>>

Lost == up /\ up' = FALSE /\ UNCHANGED <<sender, wire, fin, receiver>>

Send == OpenUniStreamSync \/ AssignStream \/ WriteTo \/ SendContextDone \/ SendResult \/ CancelWrite \/ CloseStream

Recv == AcceptUniStream \/ ReadHeader \/ ReadFull \/ RecvResult \/ RecvContextDone \/ Test \/ CancelRead \/ Return

Next == Send \/ Recv \/ SendDeadline \/ RecvDeadline \/ Lost

Spec == Init /\ [][Next]_vars

\* Deadlines come; send and recv go on when they can. The goroutines of the two
\* may be held up by the network at any point.
FairSpec ==
  /\ Spec
  /\ WF_vars(SendDeadline) /\ WF_vars(RecvDeadline)
  /\ WF_vars(SendContextDone \/ SendResult \/ CancelWrite \/ CloseStream)
  /\ WF_vars(RecvResult \/ RecvContextDone \/ Test \/ CancelRead \/ Return)

-----------------------------------------------------------------------------
(* Properties. *)

\* What recv returns as data is the whole message, also when its deadline
\* passes while the goroutine reads on and overwrites err; and it returns neither
\* data nor an error only when its deadline passed and the goroutine then read the
\* whole message.
WholeMessage ==
  /\ r = "data" => full /\ wire = 2
  /\ r = "empty" => full /\ rdone

\* When send reports no error, the whole message went out on a stream that was
\* closed and not reset, so that the peer can read it.
SentIsWritten == s = "ok" => wire = 2 /\ fin = "closed"

\* send returns, and recv once it has the header, whatever their goroutines are
\* held up by.
CallersReturn ==
  /\ <>(s \in {"ok", "err"})
  /\ (r = "select") ~> (r \in {"data", "err", "empty"})

\* send closes or resets its stream ("just want to make sure, the stream is closed"),
\* also at a deadline that passes while the goroutine writes. Only when the deadline
\* passed before the goroutine had assigned stream may send miss it.
StreamIsClosed == s \in {"ok", "err"} /\ stream /\ ~early => fin # "open"
==============================================================================
