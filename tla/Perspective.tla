----------------------------- MODULE Perspective -----------------------------
(***************************************************************************)
(* Perspective resolving (connection/perspective.go): two peers that dial  *)
(* each other may hold two QUIC connections, and have to settle on one.    *)
(* On every new connection each end counts, sends one byte made of its     *)
(* perspective (2 bits) and its counter (6 bits), and draws a conclusion   *)
(* from the byte of the other end. Peers are named by numbers in the order *)
(* of their names.                                                         *)
(***************************************************************************)
EXTENDS Naturals

Unknown == 0
Server == 1
Client == 2

\* The bitwise or of two numbers of two bits.
Or(a, b) ==
  LET or(i, j) == IF i = 1 \/ j = 1 THEN 1 ELSE 0
  IN  2 * or(a \div 2, b \div 2) + or(a % 2, b % 2)

\* perspectiveResolvent.Encode: byte(uint32(p.Perspective) << 6 | p.ctr). The
\* bits of the counter beyond the sixth spill into the perspective.
Encode(p, ctr) == 64 * Or(p, (ctr \div 64) % 4) + (ctr % 64)

\* perspectiveResolvent.Decode.
Decode(b) == [perspective |-> b \div 64, ctr |-> b % 64]

\* A plausible fallback that applies the same logic on both sides.
FallbackAlike(p, host, peer) == host < peer

\* The fallback of Connection.Establish: naming takes precedence.
Fallback(p, host, peer) ==
  \/ p = Client /\ host < peer
  \/ p = Server /\ host > peer

\* What Resolve concludes at an end with perspective p whose counter was ctr,
\* from the byte b of the other end.
Conclusion(p, ctr, b, host, peer) ==
  IF Decode(b).perspective = p THEN "bug"
  ELSE IF ctr = Decode(b).ctr \/ Fallback(p, host, peer) THEN "accept" ELSE "reject"
==============================================================================
