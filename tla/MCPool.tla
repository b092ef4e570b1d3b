------------------------------- MODULE MCPool --------------------------------
(***************************************************************************)
(* Instances of Pool for TLC: the QUIC connections offered come from the   *)
(* peers in turn, from a stranger, and with two certificates.              *)
(***************************************************************************)
EXTENDS Pool, TLC

CONSTANTS p1, p2, stranger, c1, c2, c3, c4

MCCerts == (c1 :> <<p1>>) @@ (c2 :> <<p2>>) @@ (c3 :> <<stranger>>) @@ (c4 :> <<p1, p2>>)
==============================================================================
