--------------------------- MODULE MCConnection -----------------------------
(***************************************************************************)
(* Instances of Connection for TLC: what may happen once at each peer.     *)
(***************************************************************************)
EXTENDS Connection, TLC

Once(low, high) ==
  [k \in Kinds |-> [h \in Pair |-> IF k \in (IF h = Low THEN low ELSE high) THEN 1 ELSE 0]]

\* For two QUIC connections that cross.
CrossBudgets == {Once({"loss"}, {"restart"}), Once({"send"}, {})}

\* For a single one.
LiveBudgets == {Once({"loss"}, {"stop", "restart"}),
                Once({"send", "timeout"}, {"stop"}), Once({"send"}, {"timeout"})}

\* For the statements at the end of Connection that do not hold; the README says why.
NoBudgets == {Once({}, {})}
SendBudgets == {Once({"send"}, {"send"})}
StopBudgets == {Once({}, {"stop"})}

ConnSymmetry == Permutations(Conns)
=============================================================================
