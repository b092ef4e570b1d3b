----------------------------- MODULE OpenBallot -----------------------------
(***************************************************************************)
(* What the replication protocol promises, without messages, goroutines or *)
(* timeouts: an open ballot (adr/shared_disk_emulation.md). Each proposal  *)
(* is voted on by every peer, its initiator included; a vote is final and  *)
(* known to all; a peer applies a proposal only when all the votes are     *)
(* ACK, rejects it only when one is a NACK, and may fail to do either.     *)
(***************************************************************************)
CONSTANTS Peers, Tids

VARIABLES
  opened,   \* the proposals that were made
  vote,     \* vote[p][t]
  verdict   \* verdict[p][t]: how the proposal ended at the peer

ballotVars == <<opened, vote, verdict>>

BallotNacks == {"CONFLICT", "OTHER"}

BallotInit ==
  /\ opened = {}
  /\ vote = [p \in Peers |-> [t \in Tids |-> "none"]]
  /\ verdict = [p \in Peers |-> [t \in Tids |-> "none"]]

Propose(t) ==
  /\ t \notin opened
  /\ opened' = opened \cup {t}
  /\ UNCHANGED <<vote, verdict>>

Cast(p, t, v) ==
  /\ t \in opened
  /\ vote[p][t] = "none"
  /\ vote' = [vote EXCEPT ![p][t] = v]
  /\ UNCHANGED <<opened, verdict>>

Conclude(p, t, v) ==
  /\ t \in opened
  /\ verdict[p][t] = "none"
  /\ v = "applied" => \A q \in Peers : vote[q][t] = "ACK"
  /\ v = "rejected" => \E q \in Peers : vote[q][t] \in BallotNacks
  /\ verdict' = [verdict EXCEPT ![p][t] = v]
  /\ UNCHANGED <<opened, vote>>

BallotNext ==
  \/ \E t \in Tids : Propose(t)
  \/ \E p \in Peers, t \in Tids :
       \/ \E v \in {"ACK"} \cup BallotNacks : Cast(p, t, v)
       \/ \E v \in {"applied", "rejected", "failed"} : Conclude(p, t, v)

BallotSpec == BallotInit /\ [][BallotNext]_ballotVars
=============================================================================
