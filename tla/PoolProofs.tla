------------------------------ MODULE PoolProofs -----------------------------
(***************************************************************************)
(* Close waits for the connection handlers: for any number of peers and of *)
(* offered connections, nothing is established once Close has gone on. The *)
(* pauses between dials stay in their bounds and do not shrink.            *)
(***************************************************************************)
EXTENDS Pool, FiniteSetTheorems, TLAPS

-----------------------------------------------------------------------------
(* What next does to a duration, for every configuration. *)

\* The jitters are integers.
LEMMA JittersAreIntegers == \A jt \in Jitters : jt \in Int
BY BackoffAssumption DEF Jitters

\* next keeps the duration between Initial and Max, for every configuration that
\* passes the validation.
LEMMA NextInRange ==
  ASSUME NEW v \in Initial .. Max, NEW jt \in Jitters
  PROVE  NextDuration(v, jt) \in Initial .. Max
<1>1. jt \in Int
  BY Zenon, JittersAreIntegers
<1> DEFINE dur == (v * Factor * (100 + jt)) \div 10000
<1>2. dur \in Int
  BY <1>1, BackoffAssumption
<1> HIDE DEF dur
<1>3. Capped(dur) \in Initial .. Max
  BY <1>2, BackoffAssumption DEF Capped
<1> QED
  BY <1>3, BackoffAssumption DEF NextDuration, dur

\* Multiplying by at least 10000 and dividing by it does not make smaller.
LEMMA ScaledUp ==
  ASSUME NEW a \in Nat, NEW b \in Nat, b >= 10000
  PROVE  (a * b) \div 10000 >= a
<1>1. \A n \in Nat : n >= 10000 * a => n \div 10000 >= a
  OBVIOUS
<1>2. a * b \in Nat /\ a * b >= 10000 * a
  <2>1. PICK k \in Nat : b = 10000 + k
    <3>1. b - 10000 \in Nat /\ b = 10000 + (b - 10000)
      OBVIOUS
    <3> QED
      BY <3>1
  <2>2. a * (10000 + k) = 10000 * a + a * k /\ a * k \in Nat
    OBVIOUS
  <2> QED
    BY <2>1, <2>2
<1> QED
  BY <1>1, <1>2

\* A jitter of more than the whole factor is not Growing.
LEMMA GrowingBoundsJitter == ASSUME Growing PROVE MaxFactorJitter \in 0 .. 100
<1> SUFFICES ASSUME MaxFactorJitter > 100 PROVE FALSE
  BY BackoffAssumption
<1>1. PICK k \in Nat : MaxFactorJitter = 101 + k
  <2>1. MaxFactorJitter - 101 \in Nat /\ MaxFactorJitter = 101 + (MaxFactorJitter - 101)
    BY BackoffAssumption
  <2> QED
    BY Zenon, <2>1
<1>2. Factor * k \in Nat /\ Factor * (0 - k) = 0 - Factor * k
  BY BackoffAssumption
<1>3. 101 - MaxFactorJitter = 0 - k
  BY <1>1
<1> QED
  BY <1>2, <1>3 DEF Growing

\* next does not shrink a duration when the factor with its least jitter is at
\* least one.
LEMMA NextGrows ==
  ASSUME Growing, NEW v \in Initial .. Max, NEW jt \in Jitters
  PROVE  NextDuration(v, jt) >= v
<1>0. MaxFactorJitter \in 0 .. 100
  BY Zenon, GrowingBoundsJitter
<1>1. jt \in Int /\ jt >= -100 /\ (jt = 0 \/ jt >= 1 - MaxFactorJitter)
  BY <1>0 DEF Jitters
<1> DEFINE b == Factor * (100 + jt)
<1>2. b \in Nat /\ b >= 10000
  <2>1. CASE jt = 0
    BY <2>1, BackoffAssumption
  <2> SUFFICES ASSUME jt >= 1 - MaxFactorJitter PROVE b \in Nat /\ b >= 10000
    BY <1>1, <2>1
  <2>2. \A m, n \in Nat : m >= n => Factor * m >= Factor * n /\ Factor * m \in Nat
    BY BackoffAssumption
  <2>3. 100 + jt \in Nat /\ 100 + jt >= 101 - MaxFactorJitter /\ 101 - MaxFactorJitter \in Nat
    BY <1>0, <1>1
  <2> QED
    BY <2>2, <2>3, BackoffAssumption DEF Growing
<1>3. v \in Nat /\ v >= Initial /\ v <= Max
  BY BackoffAssumption
<1>4. v * Factor * (100 + jt) = v * b
  BY <1>1, <1>3, BackoffAssumption
<1> HIDE DEF b
<1>5. (v * b) \div 10000 >= v
  BY <1>2, <1>3, ScaledUp
<1> DEFINE dur == (v * b) \div 10000
<1>6. dur \in Int
  BY <1>2, <1>3
<1>7. NextDuration(v, jt) = Capped(dur)
  BY <1>3, <1>4, BackoffAssumption DEF NextDuration
<1> HIDE DEF dur
<1>8. dur >= v
  BY <1>5 DEF dur
<1> QED
  BY <1>3, <1>6, <1>7, <1>8, BackoffAssumption DEF Capped

-----------------------------------------------------------------------------
(* The pool. *)

CloserOK ==
  /\ closer # "idle" => closed
  /\ closer \notin {"closing", "returned"} => open = Peers

BackoffOK ==
  /\ timer \in [Peers -> {"nil", "running", "drained"}]
  /\ attempt \in [Peers -> 0 .. 1]
  /\ val \in [Peers -> Initial .. Max]

\* The inductive invariant: what the accept loop got has no handler yet, and
\* Close only goes on in a closed pool, with all Connections left to close.
IInv ==
  /\ TypeOK
  /\ HandlersCounted
  /\ at[Acceptor] \in {"add", "load"} /\ got # None => at[got] = "none"
  /\ CloserOK
  /\ NoHandlerAfterWait
  /\ ClosedIsDead
  /\ BackoffOK

-----------------------------------------------------------------------------
\* The goroutines are finitely many.
LEMMA FinitelyMany == IsFiniteSet(Goroutines)
<1>1. IsFiniteSet({Acceptor})
  BY Zenon, FS_Singleton
<1>2. IsFiniteSet(Peers \cup Offered)
  BY Zenon, PoolAssumption, FS_Union
<1> QED
  BY Zenon, <1>1, <1>2, FS_Union DEF Goroutines

\* So are the counted ones, and their number is zero only when there are none.
LEMMA CountedFinite ==
  /\ IsFiniteSet(Counted) /\ Cardinality(Counted) \in Nat
  /\ Cardinality(Counted) = 0 => Counted = {}
<1>1. Counted \subseteq Goroutines
  BY Zenon DEF Counted
<1>2. IsFiniteSet(Counted)
  BY Zenon, <1>1, FinitelyMany, FS_Subset
<1> QED
  BY Zenon, <1>2, FS_CardinalityType, FS_EmptySet

\* The same of the next state.
LEMMA CountedFiniteNext == Cardinality(Counted') \in Nat
<1>1. Counted' \subseteq Goroutines
  BY Zenon DEF Counted
<1>2. IsFiniteSet(Counted')
  BY Zenon, <1>1, FinitelyMany, FS_Subset
<1> QED
  BY Zenon, <1>2, FS_CardinalityType

\* A goroutine that enters the counted places makes one more.
LEMMA CountUp ==
  ASSUME TypeOK, NEW g \in Goroutines, NEW x, at' = [at EXCEPT ![g] = x],
         at[g] \notin CountedPlaces, x \in CountedPlaces
  PROVE  Cardinality(Counted') = Cardinality(Counted) + 1
<1>1. Counted' = Counted \cup {g} /\ g \notin Counted
  BY Zenon DEF Counted, CountedPlaces, TypeOK
<1> QED
  BY Zenon, <1>1, CountedFinite, FS_AddElement

\* One that leaves them makes one less.
LEMMA CountDown ==
  ASSUME TypeOK, NEW g \in Goroutines, NEW x, at' = [at EXCEPT ![g] = x],
         at[g] \in CountedPlaces, x \notin CountedPlaces
  PROVE  Cardinality(Counted') = Cardinality(Counted) - 1
<1>1. Counted' = Counted \ {g} /\ g \in Counted
  BY Zenon DEF Counted, CountedPlaces, TypeOK
<1> QED
  BY Zenon, <1>1, CountedFinite, FS_RemoveElement

\* One that stays inside or outside changes nothing.
LEMMA CountSame ==
  ASSUME TypeOK, NEW g \in Goroutines, NEW x, at' = [at EXCEPT ![g] = x],
         at[g] \in CountedPlaces <=> x \in CountedPlaces
  PROVE  Counted' = Counted
BY Zenon DEF Counted, CountedPlaces, TypeOK

\* The accept loop hands its count to a handler.
LEMMA CountHanded ==
  ASSUME TypeOK, NEW g \in Goroutines, NEW h \in Goroutines, NEW x, NEW y,
         at' = [at EXCEPT ![g] = x, ![h] = y], g # h,
         at[g] \in CountedPlaces, x \notin CountedPlaces,
         at[h] \notin CountedPlaces, y \in CountedPlaces
  PROVE  Cardinality(Counted') = Cardinality(Counted)
<1>1. Counted' = (Counted \ {g}) \cup {h} /\ g \in Counted /\ h \notin Counted \ {g}
  BY Zenon DEF Counted, CountedPlaces, TypeOK
<1>2. /\ IsFiniteSet(Counted \ {g})
      /\ Cardinality(Counted \ {g}) = Cardinality(Counted) - 1
  BY Zenon, <1>1, CountedFinite, FS_RemoveElement
<1>3. Cardinality((Counted \ {g}) \cup {h}) = Cardinality(Counted \ {g}) + 1
  BY Zenon, <1>1, <1>2, FS_AddElement
<1> QED
  BY <1>1, <1>2, <1>3, CountedFinite

-----------------------------------------------------------------------------
\* What a step must show when it moves one goroutine and leaves Close alone.
LEMMA MoveInv ==
  ASSUME IInv, NEW g \in Goroutines, NEW x \in Places,
         at' = [at EXCEPT ![g] = x], UNCHANGED closing,
         got' \in Offered \cup {None},
         count' \in Nat, count' = Cardinality(Counted'),
         status' \in [Peers -> {"dead", "alive"}],
         BackoffOK',
         closer \in {"closing", "returned"} =>
           x \notin {"dialing", "establish"} /\ \A p \in Peers \ open : status'[p] = "dead",
         at'[Acceptor] \in {"add", "load"} /\ got' # None => at'[got'] = "none"
  PROVE  IInv'
<1>1. TypeOK'
  BY BackoffAssumption DEF IInv, TypeOK, BackoffOK, closing
<1>2. NoHandlerAfterWait' /\ ClosedIsDead' /\ CloserOK'
  BY Zenon DEF IInv, TypeOK, closing, CloserOK, NoHandlerAfterWait, ClosedIsDead
<1> QED
  BY Zenon, <1>1, <1>2 DEF IInv, HandlersCounted

\* The step of a dial loop: what the accept loop got is not concerned.
LEMMA PeerMoves ==
  ASSUME IInv, NEW p \in Peers, NEW x \in Places, at' = [at EXCEPT ![p] = x],
         UNCHANGED <<got, closing>>,
         count' \in Nat, count' = Cardinality(Counted'),
         status' \in [Peers -> {"dead", "alive"}],
         BackoffOK',
         closer \in {"closing", "returned"} =>
           x # "dialing" /\ \A q \in Peers \ open : status'[q] = "dead",
         x # "establish"
  PROVE  IInv'
<1>1. p \in Goroutines /\ p # Acceptor /\ p \notin Offered /\ Acceptor \in Goroutines
  BY Zenon, PoolAssumption DEF Goroutines
<1>2. got' = got /\ got' \in Offered \cup {None}
  BY Zenon DEF IInv, TypeOK
<1>3. at'[Acceptor] \in {"add", "load"} /\ got' # None => at'[got'] = "none"
  <2>1. got # None => got \in Goroutines /\ got # p
    BY Zenon, <1>1, <1>2 DEF Goroutines
  <2> QED
    BY Zenon, <1>1, <1>2, <2>1 DEF IInv, TypeOK
<1> QED
  BY Zenon, <1>1, <1>2, <1>3, MoveInv

\* Next and Reset keep the types of a Backoff, and its bounds.
LEMMA BackoffSteps ==
  ASSUME IInv, NEW p \in Peers, Pause(p) \/ Fire(p) \/ Reset(p)
  PROVE  BackoffOK'
<1>1. BackoffOK
  BY Zenon DEF IInv
<1>2. CASE Pause(p)
  <2>1. CASE UNCHANGED val
    BY Zenon, <1>1, <1>2, <2>1 DEF Pause, BackoffOK
  <2>2. CASE \E jt \in Jitters : val' = [val EXCEPT ![p] = NextDuration(@, jt)]
    <3>1. PICK jt \in Jitters : val' = [val EXCEPT ![p] = NextDuration(val[p], jt)]
      BY Zenon, <2>2
    <3>2. val[p] \in Initial .. Max
      BY Zenon, <1>1 DEF BackoffOK
    <3>3. NextDuration(val[p], jt) \in Initial .. Max
      BY Zenon, <3>2, NextInRange
    <3> QED
      BY Zenon, <1>1, <1>2, <3>1, <3>3 DEF Pause, BackoffOK
  <2> QED
    BY Zenon, <1>2, <2>1, <2>2 DEF Pause
<1>3. CASE Fire(p)
  BY <1>1, <1>3 DEF Fire, BackoffOK
<1>4. CASE Reset(p)
  BY <1>1, <1>4, BackoffAssumption DEF Reset, BackoffOK
<1> QED
  BY Zenon, <1>2, <1>3, <1>4

\* The dial loop keeps the invariant.
LEMMA DialLoopInv ==
  ASSUME IInv, NEW p \in Peers, DialLoop(p)
  PROVE  IInv'
<1>0. /\ p \in Goroutines /\ TypeOK /\ count = Cardinality(Counted) /\ count \in Nat
      /\ status \in [Peers -> {"dead", "alive"}]
      /\ UNCHANGED backoff => BackoffOK'
      /\ closer \in {"closing", "returned"} => \A q \in Peers \ open : status[q] = "dead"
      /\ closer \in {"closing", "returned"} => closed /\ at[p] # "dialing"
  BY Zenon DEF IInv, TypeOK, CloserOK, HandlersCounted, ClosedIsDead, NoHandlerAfterWait, Goroutines,
         BackoffOK, backoff
<1>1. CASE Check(p)
  <2>1. PICK x \in {"ticker", "add"} : at' = [at EXCEPT ![p] = x]
    BY Zenon, <1>1 DEF Check, Goes
  <2>2. at[p] \notin CountedPlaces /\ x \notin CountedPlaces /\ x \in Places
    BY Zenon, <1>1 DEF Check, CountedPlaces, Places
  <2>3. Counted' = Counted
    BY Zenon, <1>0, <2>1, <2>2, CountSame
  <2> QED
    BY Zenon, <1>0, <1>1, <2>1, <2>2, <2>3, PeerMoves DEF Check
<1>2. CASE Tick(p)
  <2>1. at' = [at EXCEPT ![p] = "add"]
    BY Zenon, <1>2 DEF Tick, Goes
  <2>2. at[p] \notin CountedPlaces /\ "add" \notin CountedPlaces /\ "add" \in Places
    BY Zenon, <1>2 DEF Tick, CountedPlaces, Places
  <2>3. Counted' = Counted
    BY Zenon, <1>0, <2>1, <2>2, CountSame
  <2> QED
    BY Zenon, <1>0, <1>2, <2>1, <2>2, <2>3, PeerMoves DEF Tick
<1>3. CASE Add(p)
  <2>1. at' = [at EXCEPT ![p] = "load"]
    BY Zenon, <1>3 DEF Add, Goes
  <2>2. at[p] \notin CountedPlaces /\ "load" \in CountedPlaces /\ "load" \in Places
    BY Zenon, <1>3 DEF Add, CountedPlaces, Places
  <2>3. Cardinality(Counted') = Cardinality(Counted) + 1
    BY Zenon, <1>0, <2>1, <2>2, CountUp
  <2>4. count' = Cardinality(Counted') /\ count' \in Nat
    BY <1>0, <1>3, <2>3 DEF Add
  <2> QED
    BY Zenon, <1>0, <1>3, <2>1, <2>2, <2>4, PeerMoves DEF Add
<1>4. CASE DialLoad(p)
  <2>1. PICK x \in {"refused", "dialing"} : at' = [at EXCEPT ![p] = x] /\ (x = "dialing" => ~closed)
    BY Zenon, <1>4 DEF DialLoad, Goes, Refused
  <2>2. at[p] \in CountedPlaces /\ x \in CountedPlaces /\ x \in Places
    BY Zenon, <1>4 DEF DialLoad, CountedPlaces, Places
  <2>3. Counted' = Counted
    BY Zenon, <1>0, <2>1, <2>2, CountSame
  <2> QED
    BY Zenon, <1>0, <1>4, <2>1, <2>2, <2>3, PeerMoves DEF DialLoad
<1>5. CASE Dial(p)
  <2>1. PICK x \in {"won", "lost"} : at' = [at EXCEPT ![p] = x]
    BY Zenon, <1>5 DEF Dial, Goes
  <2>2. at[p] \in CountedPlaces /\ x \in CountedPlaces /\ x \in Places
    BY Zenon, <1>5 DEF Dial, CountedPlaces, Places
  <2>3. Counted' = Counted
    BY Zenon, <1>0, <2>1, <2>2, CountSame
  <2>4. /\ status' \in [Peers -> {"dead", "alive"}]
        /\ closer \notin {"closing", "returned"}
    BY Zenon, <1>0, <1>5 DEF Dial, Establish
  <2> QED
    BY Zenon, <1>0, <1>5, <2>1, <2>2, <2>3, <2>4, PeerMoves DEF Dial
<1>6. CASE DialReturns(p)
  <2>1. PICK x \in {"reset", "next", "returned"} : at' = [at EXCEPT ![p] = x]
    BY Zenon, <1>6 DEF DialReturns, Goes
  <2>2. at[p] \in CountedPlaces /\ x \notin CountedPlaces /\ x \in Places
    BY Zenon, <1>6 DEF DialReturns, CountedPlaces, Places
  <2>3. Cardinality(Counted') = Cardinality(Counted) - 1
    BY Zenon, <1>0, <2>1, <2>2, CountDown
  <2>4. count' = Cardinality(Counted') /\ count' \in Nat
    BY Zenon, <1>0, <1>6, <2>3, CountedFiniteNext DEF DialReturns, Removed
  <2> QED
    BY Zenon, <1>0, <1>6, <2>1, <2>2, <2>4, PeerMoves DEF DialReturns
<1>7. CASE Pause(p) \/ Fire(p) \/ Reset(p)
  <2>1. PICK x \in {"paused", "check", "blocked"} : at' = [at EXCEPT ![p] = x]
    BY Zenon, <1>7 DEF Pause, Fire, Reset, Goes
  <2>2. at[p] \notin CountedPlaces /\ x \notin CountedPlaces /\ x \in Places
    BY Zenon, <1>7 DEF Pause, Fire, Reset, CountedPlaces, Places
  <2>3. Counted' = Counted
    BY Zenon, <1>0, <2>1, <2>2, CountSame
  <2>4. UNCHANGED <<got, count, closing, status>>
    BY Zenon, <1>7 DEF Pause, Fire, Reset
  <2>5. BackoffOK'
    BY Zenon, <1>7, BackoffSteps
  <2> QED
    BY Zenon, <1>0, <2>1, <2>2, <2>3, <2>4, <2>5, PeerMoves
<1> QED
  BY Zenon, <1>1, <1>2, <1>3, <1>4, <1>5, <1>6, <1>7 DEF DialLoop

\* Taking a QUIC connection off the listener, or failing to, keeps it.
LEMMA AcceptInv ==
  ASSUME IInv, AcceptFails \/ \E c \in Offered : Accept(c)
  PROVE  IInv'
<1>0. /\ Acceptor \in Goroutines /\ TypeOK /\ count = Cardinality(Counted) /\ count \in Nat
      /\ status \in [Peers -> {"dead", "alive"}]
      /\ UNCHANGED backoff => BackoffOK'
      /\ closer \in {"closing", "returned"} => \A q \in Peers \ open : status[q] = "dead"
  BY Zenon DEF IInv, TypeOK, HandlersCounted, ClosedIsDead, Goroutines, BackoffOK, backoff
<1>1. /\ at' = [at EXCEPT ![Acceptor] = "add"]
      /\ at[Acceptor] = "accept" /\ UNCHANGED <<count, closing, status, backoff>>
      /\ got' \in Offered \cup {None} /\ (got' # None => at[got'] = "none")
  BY Zenon DEF AcceptFails, Accept, Goes
<1>2. at[Acceptor] \notin CountedPlaces /\ "add" \notin CountedPlaces /\ "add" \in Places
  BY Zenon, <1>1 DEF CountedPlaces, Places
<1>3. Counted' = Counted
  BY Zenon, <1>0, <1>1, <1>2, CountSame
<1>4. got' # None => at'[got'] = "none"
  <2>1. got' # None => got' \in Goroutines /\ got' # Acceptor
    BY Zenon, <1>1, PoolAssumption DEF Goroutines
  <2> QED
    BY Zenon, <1>0, <1>1, <2>1 DEF TypeOK
<1> QED
  BY Zenon, <1>0, <1>1, <1>2, <1>3, <1>4, MoveInv

\* The accept loop keeps it: a handler is started only in a pool that is open.
LEMMA AcceptLoopInv ==
  ASSUME IInv, AcceptLoop
  PROVE  IInv'
<1>0. /\ Acceptor \in Goroutines /\ TypeOK /\ count = Cardinality(Counted) /\ count \in Nat
      /\ status \in [Peers -> {"dead", "alive"}]
      /\ UNCHANGED backoff => BackoffOK'
      /\ got \in Offered \cup {None}
      /\ closer \in {"closing", "returned"} => closed /\ \A q \in Peers \ open : status[q] = "dead"
      /\ (at[Acceptor] \in {"add", "load"} /\ got # None) => at[got] = "none"
      /\ got # None => got \in Goroutines /\ got # Acceptor
  BY Zenon, PoolAssumption DEF IInv, TypeOK, CloserOK, HandlersCounted, ClosedIsDead, Goroutines, BackoffOK, backoff
<1>1. CASE Add(Acceptor)
  <2>1. at' = [at EXCEPT ![Acceptor] = "load"] /\ at[Acceptor] = "add"
    BY Zenon, <1>1 DEF Add, Goes
  <2>2. at[Acceptor] \notin CountedPlaces /\ "load" \in CountedPlaces /\ "load" \in Places
    BY Zenon, <2>1 DEF CountedPlaces, Places
  <2>3. Cardinality(Counted') = Cardinality(Counted) + 1
    BY Zenon, <1>0, <2>1, <2>2, CountUp
  <2>4. count' = Cardinality(Counted') /\ count' \in Nat
    BY <1>0, <1>1, <2>3 DEF Add
  <2>5. got' # None => at'[got'] = "none"
    BY Zenon, <1>0, <1>1, <2>1 DEF Add, TypeOK
  <2> QED
    BY Zenon, <1>0, <1>1, <2>1, <2>2, <2>4, <2>5, MoveInv DEF Add
<1>2. CASE AcceptLoad /\ got = None
  <2>1. PICK x \in {"refused", "failed"} : at' = [at EXCEPT ![Acceptor] = x]
    <3>1. None \notin DOMAIN at
      BY Zenon, <1>0, PoolAssumption DEF TypeOK, Goroutines
    <3>2. at' = [at EXCEPT ![Acceptor] = IF Refused THEN "refused" ELSE "failed"]
      BY Zenon, <1>0, <1>2, <3>1, PoolAssumption DEF AcceptLoad, TypeOK
    <3> QED
      BY Zenon, <3>2
  <2>2. at[Acceptor] \in CountedPlaces /\ x \in CountedPlaces /\ x \in Places
    BY Zenon, <1>2 DEF AcceptLoad, CountedPlaces, Places
  <2>3. Counted' = Counted
    BY Zenon, <1>0, <2>1, <2>2, CountSame
  <2> QED
    <3>1. at'[Acceptor] \notin {"add", "load"}
      BY Zenon, <1>0, <2>1 DEF TypeOK
    <3>2. UNCHANGED <<got, count, closing, status, backoff>>
      BY Zenon, <1>2 DEF AcceptLoad
    <3> QED
      BY Zenon, <1>0, <2>1, <2>2, <2>3, <3>1, <3>2, MoveInv
<1>3. CASE AcceptLoad /\ got # None
  <2>1. PICK x \in {"refused", "accept"}, y \in {"done", "establish"} :
          /\ at' = [at EXCEPT ![Acceptor] = x, ![got] = y]
          /\ \/ closed /\ x = "refused" /\ y = "done"
             \/ ~closed /\ x = "accept" /\ y = "establish"
    BY Zenon, <1>3 DEF AcceptLoad, Refused
  <2>2. at[Acceptor] = "load" /\ at[got] = "none" /\ UNCHANGED <<got, count, closing, status, backoff>>
    BY Zenon, <1>0, <1>3 DEF AcceptLoad
  <2>3. Cardinality(Counted') = Cardinality(Counted)
    <3>1. CASE closed
      <4>1. Counted' = Counted
        BY Zenon, <1>0, <1>3, <2>1, <2>2, <3>1 DEF Counted, CountedPlaces, TypeOK
      <4> QED
        BY Zenon, <4>1
    <3>2. CASE ~closed
      <4>1. /\ at[Acceptor] \in CountedPlaces /\ x \notin CountedPlaces
            /\ at[got] \notin CountedPlaces /\ y \in CountedPlaces
        BY Zenon, <2>1, <2>2, <3>2 DEF CountedPlaces
      <4> QED
        BY Zenon, <1>0, <1>3, <2>1, <4>1, CountHanded
    <3> QED
      BY Zenon, <3>1, <3>2
  <2>4. TypeOK' /\ BackoffOK'
    BY Zenon, <1>0, <2>1, <2>2 DEF TypeOK, closing, backoff, Places, CountedPlaces
  <2>5. NoHandlerAfterWait' /\ ClosedIsDead' /\ CloserOK'
    BY Zenon, <1>0, <2>1, <2>2 DEF IInv, TypeOK, closing, CloserOK, NoHandlerAfterWait, ClosedIsDead
  <2>6. at'[Acceptor] \notin {"add", "load"}
    BY Zenon, <1>0, <1>3, <2>1 DEF TypeOK
  <2> QED
    BY Zenon, <1>0, <2>2, <2>3, <2>4, <2>5, <2>6 DEF IInv, HandlersCounted
<1>4. CASE AcceptReturns
  <2>1. PICK x \in {"returned", "accept"} : at' = [at EXCEPT ![Acceptor] = x]
    BY Zenon, <1>4 DEF AcceptReturns, Goes
  <2>2. at[Acceptor] \in CountedPlaces /\ x \notin CountedPlaces /\ x \in Places
    BY Zenon, <1>4 DEF AcceptReturns, CountedPlaces, Places
  <2>3. Cardinality(Counted') = Cardinality(Counted) - 1
    BY Zenon, <1>0, <2>1, <2>2, CountDown
  <2>4. count' = Cardinality(Counted') /\ count' \in Nat
    BY Zenon, <1>0, <1>4, <2>3, CountedFiniteNext DEF AcceptReturns, Removed
  <2>5. at'[Acceptor] \notin {"add", "load"}
    BY Zenon, <1>0, <2>1 DEF TypeOK
  <2> QED
    BY Zenon, <1>0, <1>4, <2>1, <2>2, <2>4, <2>5, MoveInv DEF AcceptReturns
<1> QED
  BY Zenon, <1>1, <1>2, <1>3, <1>4 DEF AcceptLoop

\* A handler keeps it: it establishes only while Close still waits for it.
LEMMA HandlerInv ==
  ASSUME IInv, NEW c \in Offered, Handler(c)
  PROVE  IInv'
<1>0. /\ c \in Goroutines /\ c # Acceptor /\ Acceptor \in Goroutines
      /\ TypeOK /\ count = Cardinality(Counted) /\ count \in Nat
      /\ status \in [Peers -> {"dead", "alive"}]
      /\ UNCHANGED backoff => BackoffOK'
      /\ got \in Offered \cup {None} /\ (got # None => got \in Goroutines)
      /\ closer \in {"closing", "returned"} => \A q \in Peers \ open : status[q] = "dead"
      /\ closer \in {"closing", "returned"} => at[c] # "establish"
      /\ (at[Acceptor] \in {"add", "load"} /\ got # None) => at[got] = "none"
  BY Zenon, PoolAssumption DEF IInv, TypeOK, HandlersCounted, ClosedIsDead, NoHandlerAfterWait, Goroutines,
                        BackoffOK, backoff
<1>1. PICK x \in {"leave", "done"} : at' = [at EXCEPT ![c] = x]
  BY Zenon DEF Handler, Handle, HandlerReturns, Goes
<1>2. at[c] # "none" /\ got' = got /\ UNCHANGED <<closing, backoff>> /\ x \in Places
  BY Zenon DEF Handler, Handle, HandlerReturns, Places, CountedPlaces
<1>3. at'[Acceptor] \in {"add", "load"} /\ got' # None => at'[got'] = "none"
  BY Zenon, <1>0, <1>1, <1>2 DEF TypeOK
<1>4. CASE Handle(c)
  <2>1. at' = [at EXCEPT ![c] = "leave"] /\ at[c] = "establish"
    BY Zenon, <1>4 DEF Handle, Goes
  <2>2. at[c] \in CountedPlaces /\ "leave" \in CountedPlaces /\ "leave" \in Places
    BY Zenon, <2>1 DEF CountedPlaces, Places
  <2>3. Counted' = Counted
    BY Zenon, <1>0, <2>1, <2>2, CountSame
  <2>4. status' \in [Peers -> {"dead", "alive"}] /\ closer \notin {"closing", "returned"}
    BY Zenon, <1>0, <1>4, <2>1 DEF Handle, Establish
  <2> QED
    BY Zenon, <1>0, <1>2, <1>3, <1>4, <2>1, <2>2, <2>3, <2>4, MoveInv DEF Handle
<1>5. CASE HandlerReturns(c)
  <2>1. at' = [at EXCEPT ![c] = "done"] /\ at[c] = "leave"
    BY Zenon, <1>5 DEF HandlerReturns, Goes
  <2>2. at[c] \in CountedPlaces /\ "done" \notin CountedPlaces /\ "done" \in Places
    BY Zenon, <2>1 DEF CountedPlaces, Places
  <2>3. Cardinality(Counted') = Cardinality(Counted) - 1
    BY Zenon, <1>0, <2>1, <2>2, CountDown
  <2>4. count' = Cardinality(Counted') /\ count' \in Nat
    BY Zenon, <1>0, <1>5, <2>3, CountedFiniteNext DEF HandlerReturns, Removed
  <2> QED
    BY Zenon, <1>0, <1>2, <1>3, <1>5, <2>1, <2>2, <2>4, MoveInv DEF HandlerReturns
<1> QED
  BY Zenon, <1>4, <1>5 DEF Handler

\* Close keeps it: it goes on only when nobody is counted.
LEMMA CloseInv ==
  ASSUME IInv, CloseBegins \/ Close \/ \E p \in Peers : Lose(p)
  PROVE  IInv'
<1>1. UNCHANGED others
  BY Zenon DEF CloseBegins, Close, Cancel, CloseListener, CloseConnection, CloseReturns, Lose
<1>2. Counted' = Counted
  BY Zenon, <1>1 DEF Counted, others
<1>3. TypeOK' /\ CloserOK' /\ BackoffOK'
  BY Zenon DEF IInv, TypeOK, CloserOK, BackoffOK, backoff, CloseBegins, Close, Cancel, CloseListener, CloseConnection, CloseReturns,
         Lose, closing, others
<1>4. NoHandlerAfterWait'
  <2>1. CASE CloseListener
    <3>1. Counted = {}
      BY Zenon, <2>1, CountedFinite DEF CloseListener, Waited, IInv, HandlersCounted
    <3> QED
      BY Zenon, <1>1, <3>1 DEF NoHandlerAfterWait, Counted, CountedPlaces, others
  <2>2. CASE closer' = closer \/ closer' \in {"stored", "waiting"} \/ CloseReturns
    BY Zenon, <1>1, <2>2 DEF IInv, NoHandlerAfterWait, CloseReturns, others
  <2> QED
    BY Zenon, <2>1, <2>2 DEF CloseBegins, Close, Cancel, CloseConnection, Lose, closing
<1>5. ClosedIsDead'
  BY Zenon DEF IInv, TypeOK, CloserOK, ClosedIsDead, CloseBegins, Close, Cancel, CloseListener, CloseConnection,
         CloseReturns, Lose, closing, others
<1> QED
  BY Zenon, <1>1, <1>2, <1>3, <1>4, <1>5 DEF IInv, HandlersCounted, others

-----------------------------------------------------------------------------
\* The invariant holds for any finite sets of peers and offered connections.
THEOREM PoolInvariant == Spec => []IInv
<1>1. Init => IInv
  <2> SUFFICES ASSUME Init PROVE IInv
    OBVIOUS
  <2>1. Counted = {}
    BY Zenon DEF Init, Counted, CountedPlaces
  <2>2. HandlersCounted
    BY Zenon, <2>1, FS_EmptySet DEF Init, HandlersCounted
  <2>3. BackoffOK
    BY BackoffAssumption DEF Init, BackoffOK
  <2>4. TypeOK
    <3>1. timer \in [Peers -> {"nil", "running", "drained"}]
      BY Zenon, <2>3 DEF BackoffOK
    <3>2. attempt \in [Peers -> 0 .. 1] /\ val \in [Peers -> Int]
      BY <2>3, BackoffAssumption DEF BackoffOK
    <3>3. at \in [Goroutines -> Places]
      BY Zenon DEF Init, Places
    <3>4. /\ got \in Offered \cup {None} /\ count \in Nat
          /\ closed \in BOOLEAN /\ cancelled \in BOOLEAN
          /\ closer \in {"idle", "stored", "waiting", "closing", "returned"}
          /\ open \subseteq Peers
          /\ status \in [Peers -> {"dead", "alive"}]
      BY Zenon DEF Init
    <3> QED
      BY Zenon, <3>1, <3>2, <3>3, <3>4 DEF TypeOK
  <2> QED
    BY Zenon, <2>2, <2>3, <2>4 DEF Init, IInv, CloserOK, NoHandlerAfterWait, ClosedIsDead
<1>2. IInv /\ [Next]_vars => IInv'
  <2> SUFFICES ASSUME IInv, [Next]_vars PROVE IInv'
    OBVIOUS
  <2>1. CASE UNCHANGED vars
    BY Zenon, <2>1 DEF vars, IInv, TypeOK, CloserOK, HandlersCounted, Counted, NoHandlerAfterWait, ClosedIsDead,
              BackoffOK
  <2>2. CASE Next
    BY Zenon, <2>2, DialLoopInv, AcceptInv, AcceptLoopInv, HandlerInv, CloseInv DEF Next
  <2> QED
    BY Zenon, <2>1, <2>2
<1> QED
  BY <1>1, <1>2, PTL DEF Spec

\* activeConnectionHandlers is the number of running connection handlers.
THEOREM HandlersCountedHolds == Spec => []HandlersCounted
<1>1. IInv => HandlersCounted
  BY Zenon DEF IInv
<1> QED
  BY <1>1, PoolInvariant, PTL

\* When Close has waited, no handler is dialing or establishing, nor will be.
THEOREM NoHandlerAfterWaitHolds == Spec => []NoHandlerAfterWait
<1>1. IInv => NoHandlerAfterWait
  BY Zenon DEF IInv
<1> QED
  BY <1>1, PoolInvariant, PTL

\* What Close has closed stays closed.
THEOREM ClosedIsDeadHolds == Spec => []ClosedIsDead
<1>1. IInv => ClosedIsDead
  BY Zenon DEF IInv
<1> QED
  BY <1>1, PoolInvariant, PTL

\* No sequence of failed and successful dials brings a pause above Max, or below
\* Initial, for every configuration that passes the validation.
THEOREM DurationInRangeHolds == Spec => []DurationInRange
<1>1. IInv => DurationInRange
  BY Zenon DEF IInv, BackoffOK, DurationInRange
<1> QED
  BY <1>1, PoolInvariant, PTL

\* The pauses of a dial loop do not shrink until a dial succeeds, for every
\* configuration whose factor with its least jitter is at least one.
THEOREM NeverShrinksHolds == Growing => (Spec => NeverShrinks)
<1> SUFFICES ASSUME Growing PROVE Spec => NeverShrinks
  OBVIOUS
<1> DEFINE Longer == \A p \in Peers : (attempt[p] = 1 /\ attempt'[p] = 1) => val'[p] >= val[p]
<1>1. IInv /\ [Next]_vars => Longer
  <2> SUFFICES ASSUME IInv, [Next]_vars, NEW p \in Peers, attempt[p] = 1, attempt'[p] = 1
               PROVE  val'[p] >= val[p]
    OBVIOUS
  <2>1. BackoffOK /\ val[p] \in Initial .. Max /\ val[p] \in Int
    BY BackoffAssumption DEF IInv, BackoffOK
  <2>2. CASE UNCHANGED val
    BY <2>1, <2>2
  <2>3. CASE \E q \in Peers : Pause(q)
    <3>1. PICK q \in Peers : Pause(q)
      BY Zenon, <2>3
    <3>2. CASE \E jt \in Jitters : val' = [val EXCEPT ![q] = NextDuration(@, jt)]
      <4>1. PICK jt \in Jitters : val' = [val EXCEPT ![q] = NextDuration(val[q], jt)]
        BY Zenon, <3>2
      <4>2. NextDuration(val[p], jt) >= val[p]
        BY Zenon, <2>1, NextGrows
      <4> QED
        BY <2>1, <4>1, <4>2 DEF BackoffOK
    <3> QED
      BY Zenon, <2>2, <3>1, <3>2 DEF Pause
  <2>4. CASE \E q \in Peers : Reset(q)
    <3>1. PICK q \in Peers : Reset(q)
      BY Zenon, <2>4
    <3>2. q # p
      BY <2>1, <3>1 DEF Reset, BackoffOK
    <3> QED
      BY <2>1, <3>1, <3>2 DEF Reset, BackoffOK
  <2> QED
    BY Zenon, <2>2, <2>3, <2>4
       DEF Next, DialLoop, Check, Tick, Add, DialLoad, Dial, DialReturns, Fire, Lose, Accept, Handler,
           Handle, HandlerReturns, AcceptFails, AcceptLoop, AcceptLoad, AcceptReturns, CloseBegins,
           Close, Cancel, CloseListener, CloseConnection, CloseReturns, others, backoff, vars
<1>2. IInv /\ [Next]_vars => [Longer]_vars
  BY Zenon, <1>1
<1> QED
  BY <1>2, PoolInvariant, PTL DEF Spec, NeverShrinks
==============================================================================
