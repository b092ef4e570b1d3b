------------------------- MODULE ConflictsResolver -------------------------
(***************************************************************************)
(* p2p/conflicts_resolver.go: how a peer decides that a replication        *)
(* request has to give way to a transaction it already knows about.        *)
(*                                                                         *)
(* A request is a record                                                   *)
(*   initiator: the name of the peer that sent it (Message.PeerName, kept  *)
(*              in the table as transaction.InitiatorName)                 *)
(*   path:      the pair RelativePath, NewRelativePath                     *)
(*   clock:     Request.Clock                                              *)
(* Names are compared with < in the code; here a name is a natural number. *)
(***************************************************************************)
EXTENDS Naturals

\* The two requests touch the same path and come from different peers.
Conflict(t, req) ==
  /\ t.initiator # req.initiator
  /\ t.path = req.path

\* Mutants: equal clocks are a conflict for both; nothing is a conflict.
SmallerOrEqual(req, t) == req.clock <= t.clock
NoConflict(trans, req) == FALSE

\* The clock decides, and the peer names when the clocks are equal.
Smaller(req, t) ==
  \/ req.clock < t.clock
  \/ req.clock = t.clock /\ req.initiator < t.initiator

\* TRUE when ErrTransactionConflict is returned: one of the transactions
\* (only those that hold a Request are passed here) wins over the request.
DetectAndResolveConflict(trans, req) ==
  \E t \in trans : Conflict(t, req) /\ Smaller(req, t)
=============================================================================
