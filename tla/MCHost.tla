------------------------------- MODULE MCHost -------------------------------
(***************************************************************************)
(* Instances of Host for TLC. Peers are 1, 2, 3 (names in this order).     *)
(***************************************************************************)
EXTENDS HostInv, TLC

CONSTANTS t1, t2, t3

\* Two requests of different peers for the same path.
MCRivals == t1 :> 1 @@ t2 :> 2
MCSamePath == t1 :> "p" @@ t2 :> "p"

\* A single request.
MCOneCall == t1 :> 1
MCOnePath == t1 :> "p"

\* Every mirror agrees to everything; every mirror may object.
MCAgree == [h \in Peers |-> {"ACK"}]
MCObject == [h \in Peers |-> {"ACK", "OTHER"}]

\* Three requests, of two peers in turn, for the same path.
MCThree == t1 :> 1 @@ t2 :> 2 @@ t3 :> 1
MCThreePath == [t \in {t1, t2, t3} |-> "p"]

\* Two requests of one peer for the same path.
MCSameCaller == t1 :> 1 @@ t2 :> 1
=============================================================================
