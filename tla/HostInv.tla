------------------------------ MODULE HostInv -------------------------------
(***************************************************************************)
(* The inductive invariant behind the agreement of the peers on a vote.    *)
(***************************************************************************)
EXTENDS Host

\* m was sent and has not been taken by the reader of its transaction.
Pending(m) == m \in net \/ m \in notifying[m.to]

\* h has not yet sent its request or its response about t.
NotSent(h, t) == vote[h][t] = "none" \/ pc[h][t] \in {"send", "respond"}

\* Where the readers stand, and what they imply of the call and the table.
ReaderAt(h, t) ==
  /\ pc[h][t] \in ReplicatePC => h = Initiator[t] /\ call[t] # "none"
  /\ h = Initiator[t] => pc[h][t] \notin {"consult", "respond"}
  /\ t \in ts[h] <=> pc[h][t] # "idle"
  /\ pc[h][t] = "idle" => /\ got[h][t] = 0 /\ heard[h][t] = {}
                          /\ ours[h][t] = "ACK" /\ responses[h][t] = {}
  /\ pc[h][t] = "detect" => vote[h][t] = "none"
  /\ pc[h][t] \in {"send", "await"} => vote[h][t] = "ACK"
  /\ pc[h][t] = "consult" => vote[h][t] = "none" /\ Initiator[t] \in heard[h][t]

ReadersOK == \A h \in Peers, t \in Tids : ReaderAt(h, t)

\* Nobody knows of a transaction before it is called, and nobody but its
\* initiator before the request is sent.
SecretAt(t) ==
  /\ call[t] = "none" => \A h \in Peers : vote[h][t] = "none" /\ pc[h][t] = "idle"
  /\ NotSent(Initiator[t], t) =>
       \A h \in Others(Initiator[t]) : vote[h][t] = "none" /\ pc[h][t] = "idle"
  /\ \A h \in Others(Initiator[t]) :
       vote[h][t] # "none" => vote[Initiator[t]][t] = "ACK"

SecretsOK == \A t \in Tids : SecretAt(t)

\* The listener holds at most one message, one for its own host.
ListenerAt(h, m) ==
  /\ m.to = h /\ m \notin net
  /\ \A n \in notifying[h] : n = m
  /\ (pc[h][m.tid] # "idle" /\ m.body \in Votes) =>
       [from |-> m.from, vote |-> m.body] \in responses[h][m.tid]

ListenersOK == \A h \in Peers : \A m \in notifying[h] : ListenerAt(h, m)

\* A message tells the vote of its sender, is sent once and taken once; a
\* request is the only one its receiver gets.
MessageAt(m) ==
  /\ m.from # m.to
  /\ m.from \notin heard[m.to][m.tid]
  /\ ~NotSent(m.from, m.tid)
  /\ m.body = "request" => /\ m.from = Initiator[m.tid]
                           /\ vote[m.from][m.tid] = "ACK"
                           /\ vote[m.to][m.tid] = "none"
                           /\ pc[m.to][m.tid] # "consult"
  /\ m.body # "request" => /\ m.from # Initiator[m.tid]
                           /\ vote[m.from][m.tid] = m.body

MessagesOK == \A m \in Message : Pending(m) => MessageAt(m)

\* What a reader has gathered is what the others voted, and what a handler
\* remembers of its own response is its vote.
GatheredAt(h, t) ==
  /\ got[h][t] = Cardinality(heard[h][t])
  /\ \A p \in heard[h][t] :
       /\ p # h
       /\ ~NotSent(p, t)
       /\ IF p = Initiator[t]
            THEN /\ vote[p][t] = "ACK"
                 /\ pc[h][t] # "consult" => ours[h][t] = vote[h][t]
            ELSE [from |-> p, vote |-> vote[p][t]] \in responses[h][t]
  /\ \A r \in responses[h][t] : vote[r.from][t] = r.vote
  /\ ours[h][t] # "ACK" => vote[h][t] = ours[h][t]
  /\ pc[h][t] = "respond" => vote[h][t] = ours[h][t]

GatheredOK == \A h \in Peers, t \in Tids : GatheredAt(h, t)

Unanimous(t) == \A p \in Peers : vote[p][t] = "ACK"
Opposed(t) == \E p \in Peers : vote[p][t] \in Nacks

\* What was decided follows from the votes.
DecisionsOK ==
  \A t \in Tids :
    /\ call[t] = "ok" => Unanimous(t)
    /\ call[t] \in {"conflict", "notpermitted"} => Opposed(t)
    /\ \A h \in Peers : /\ pc[h][t] = "mirror" => Unanimous(t)
                        /\ verdict[h][t] = "applied" => Unanimous(t)
                        /\ verdict[h][t] = "rejected" => Opposed(t)

\* The invariant that every step keeps: messages tell votes, votes do not
\* change, each reader hears each peer once.
IInv ==
  /\ TypeOK /\ ReadersOK /\ SecretsOK /\ ListenersOK
  /\ MessagesOK /\ GatheredOK /\ DecisionsOK
=============================================================================
