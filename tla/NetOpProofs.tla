----------------------------- MODULE NetOpProofs -----------------------------
(***************************************************************************)
(* What send and recv report is what happened to the message, however      *)
(* their goroutines, their deadlines and the loss of the connection        *)
(* interleave.                                                             *)
(***************************************************************************)
EXTENDS NetOp, TLAPS

\* The stream holds what the goroutine of send has written. Without a deadline
\* send leaves its select only when the goroutine is gone, which no longer
\* assigns stream then; at a deadline that is not early it is assigned already.
SendOK ==
  /\ wire \in 0..2
  /\ sgo \in {"opening", "opened", "header"} => wire = 0
  /\ sgo = "body" => wire = 1
  /\ sgo = "report" => wire = 2
  /\ sgo \in {"header", "body", "report"} => stream
  /\ s \in {"select", "failing", "closing"} => fin = "open"
  /\ s = "closing" => sgo = "gone" /\ wire = 2 /\ stream
  /\ s = "ok" => sgo = "gone"
  /\ s # "select" /\ ~sdone => sgo = "gone"
  /\ (early => sdone) /\ (sdone /\ ~early => stream)

\* err is nil only once the body was read. A goroutine that still runs when recv
\* has left its select was left behind at the deadline.
RecvOK ==
  /\ full => wire = 2
  /\ r \in {"accept", "header"} => rgo = "none"
  /\ rgo = "report" => full
  /\ r \in {"test", "cancel", "return"} /\ err = "nil" => full
  /\ r \in {"test", "cancel", "return"} /\ rgo # "gone" => rdone
  /\ r \in {"cancel", "return"} /\ err = "nil" => rdone

\* The inductive invariant.
IInv == SendOK /\ RecvOK /\ WholeMessage /\ SentIsWritten /\ StreamIsClosed

-----------------------------------------------------------------------------
\* It holds before send and recv have done anything.
LEMMA InitIInv == Init => IInv
BY DEF Init, IInv, SendOK, RecvOK, WholeMessage, SentIsWritten, StreamIsClosed

\* A step of send or of its goroutine keeps it.
LEMMA SendIInv == IInv /\ Send => IInv'
<1> SUFFICES ASSUME IInv, Send PROVE IInv'
  OBVIOUS
<1> USE DEF IInv, SendOK, RecvOK, WholeMessage, SentIsWritten, StreamIsClosed, receiver
<1>1. CASE OpenUniStreamSync
  BY Zenon, <1>1 DEF OpenUniStreamSync
<1>2. CASE AssignStream
  BY Zenon, <1>2 DEF AssignStream
<1>3. CASE WriteTo
  <2>1. CASE ~(up /\ fin = "open" /\ ~stopped)
    BY Zenon, <1>3, <2>1 DEF WriteTo
  <2>2. CASE up /\ fin = "open" /\ ~stopped /\ sgo = "header"
    <3>1. wire' = 1 /\ sgo' = "body"
      BY <1>3, <2>2 DEF WriteTo
    <3> QED
      BY <1>3, <2>2, <3>1 DEF WriteTo
  <2>3. CASE up /\ fin = "open" /\ ~stopped /\ sgo = "body"
    <3>1. wire' = 2 /\ sgo' = "report"
      BY <1>3, <2>3 DEF WriteTo
    <3> QED
      BY <1>3, <2>3, <3>1 DEF WriteTo
  <2> QED
    BY ZenonT(30), <1>3, <2>1, <2>2, <2>3 DEF WriteTo
<1>4. CASE SendContextDone
  BY ZenonT(30), <1>4 DEF SendContextDone
<1>5. CASE SendResult
  BY ZenonT(30), <1>5 DEF SendResult
<1>6. CASE CancelWrite
  BY ZenonT(30), <1>6 DEF CancelWrite
<1>7. CASE CloseStream
  BY ZenonT(30), <1>7 DEF CloseStream
<1> QED
  BY ZenonT(30), <1>1, <1>2, <1>3, <1>4, <1>5, <1>6, <1>7 DEF Send

\* A step of recv or of its goroutine keeps it.
LEMMA RecvIInv == IInv /\ Recv => IInv'
<1> SUFFICES ASSUME IInv, Recv PROVE IInv'
  OBVIOUS
<1> USE DEF IInv, SendOK, RecvOK, WholeMessage, SentIsWritten, StreamIsClosed, sender
<1>1. CASE AcceptUniStream
  BY ZenonT(30), <1>1 DEF AcceptUniStream
<1>2. CASE ReadHeader
  BY ZenonT(30), <1>2 DEF ReadHeader
<1>3. CASE ReadFull
  <2>1. CASE wire = 2 /\ rgo' = "report" /\ err' = "nil" /\ full' = TRUE
    BY ZenonT(30), <1>3, <2>1 DEF ReadFull
  <2>2. CASE rgo' = "report err" /\ err' = "other" /\ UNCHANGED full
    BY ZenonT(30), <1>3, <2>2 DEF ReadFull
  <2> QED
    BY ZenonT(30), <1>3, <2>1, <2>2 DEF ReadFull
<1>4. CASE RecvResult
  BY ZenonT(30), <1>4 DEF RecvResult
<1>5. CASE RecvContextDone
  BY ZenonT(30), <1>5 DEF RecvContextDone
<1>6. CASE Test
  BY ZenonT(30), <1>6 DEF Test
<1>7. CASE CancelRead
  BY ZenonT(30), <1>7 DEF CancelRead
<1>8. CASE Return
  BY <1>8 DEF Return
<1> QED
  BY ZenonT(30), <1>1, <1>2, <1>3, <1>4, <1>5, <1>6, <1>7, <1>8 DEF Recv

\* So do a deadline, the loss of the connection and a step that changes nothing.
LEMMA NextIInv == IInv /\ [Next]_vars => IInv'
<1> SUFFICES ASSUME IInv, [Next]_vars PROVE IInv'
  OBVIOUS
<1>1. CASE Send \/ Recv
  BY Zenon, <1>1, SendIInv, RecvIInv
<1> USE DEF IInv, SendOK, RecvOK, WholeMessage, SentIsWritten, StreamIsClosed, sender, receiver
<1>2. CASE SendDeadline
  <2>1. CASE stream
    BY ZenonT(30), <1>2, <2>1 DEF SendDeadline
  <2>2. CASE ~stream
    BY ZenonT(30), <1>2, <2>2 DEF SendDeadline
  <2> QED
    BY Zenon, <2>1, <2>2
<1>3. CASE RecvDeadline
  BY ZenonT(30), <1>3 DEF RecvDeadline
<1>4. CASE Lost
  BY ZenonT(30), <1>4 DEF Lost
<1>5. CASE UNCHANGED vars
  BY ZenonT(30), <1>5 DEF vars
<1> QED
  BY Zenon, <1>1, <1>2, <1>3, <1>4, <1>5 DEF Next

-----------------------------------------------------------------------------
\* The inductive invariant of send and recv holds in every reachable state.
THEOREM NetOpInvariant == Spec => []IInv
BY InitIInv, NextIInv, PTL DEF Spec

\* What recv returns as data is the whole message, and it returns neither data
\* nor an error only after its deadline, although its goroutine writes err
\* unsynchronized.
THEOREM WholeMessageHolds == Spec => []WholeMessage
<1>1. IInv => WholeMessage
  BY Zenon DEF IInv
<1> QED
  BY <1>1, NetOpInvariant, PTL

\* send reports no error only for a whole message on a closed stream.
THEOREM SentIsWrittenHolds == Spec => []SentIsWritten
<1>1. IInv => SentIsWritten
  BY Zenon DEF IInv
<1> QED
  BY <1>1, NetOpInvariant, PTL

\* send leaves no stream open unless its deadline passed before there was one to
\* close, although its goroutine writes stream unsynchronized.
THEOREM StreamIsClosedHolds == Spec => []StreamIsClosed
<1>1. IInv => StreamIsClosed
  BY Zenon DEF IInv
<1> QED
  BY <1>1, NetOpInvariant, PTL
==============================================================================
