------------------------------- MODULE Backoff -------------------------------
(***************************************************************************)
(* The durations of the pauses of a dial loop (connection/backoff.go), in  *)
(* units of 10 ms; the factor and its jitter are in percent, and the       *)
(* conversion of their product to a time.Duration rounds down. Pool holds  *)
(* the state of each Backoff.                                              *)
(***************************************************************************)
EXTENDS Integers

CONSTANTS Initial, Max, Factor, MaxFactorJitter

\* What config.Backoff is validated for, in these units.
ASSUME BackoffAssumption ==
  /\ Initial \in Nat /\ Initial > 0
  /\ Max \in Nat /\ Max >= Initial
  /\ Factor \in Nat /\ Factor >= 100
  /\ MaxFactorJitter \in Nat

\* rand.Intn gives the size of the jitter, one of its bits the sign.
Jitters ==
  IF MaxFactorJitter = 0 THEN {0}
  ELSE {IF (jt \div 2) % 2 = 0 THEN -jt ELSE jt : jt \in 0 .. (MaxFactorJitter - 1)}

\* A plausible next that only looks at the initial duration.
CappedBelow(dur) == IF dur < Initial THEN Initial ELSE dur

\* The end of next: the duration stays between the two.
Capped(dur) == IF dur < Initial THEN Initial ELSE IF dur > Max THEN Max ELSE dur

\* A plausible next that starts from the initial duration each time.
NextFromInitial(val, jt) == Capped((Initial * Factor * (100 + jt)) \div 10000)

\* next, from the duration val with the jitter jt.
NextDuration(val, jt) ==
  IF val > Max THEN Max ELSE Capped((val * Factor * (100 + jt)) \div 10000)

\* The factor with its least jitter is at least one, as in config.json (the
\* validation of the configuration does not ask for it).
Growing == Factor * (101 - MaxFactorJitter) >= 10000
==============================================================================
