---------------------------- MODULE RouterProofs ----------------------------
(***************************************************************************)
(* Safety of the router for any number of members and callers and any of   *)
(* the strategies: the load counters, the hint, the balance of round_robin *)
(* and the refinement of Failover.                                         *)
(*                                                                         *)
(* The balance of the picks is the hard one: a caller reads the counters   *)
(* one by one, and counts its own pick only when its attempt is over.  The *)
(* invariant counts the callers that hold a licence to raise a counter     *)
(* which is already ahead: those that read it before it got there.         *)
(***************************************************************************)
EXTENDS Router, FiniteSetTheorems, WellFoundedInduction, TLAPS

\* Of the locals x of a call: how far it has got.  The members tried and those
\* left to try are together no more than there are.
Located(x) ==
    /\ x.pc \in {"idle", "scan", "hint"} => x.lastErr = FALSE
    /\ x.pc \in {"scan", "hint"} => x.attempts = 0
    /\ x.pc = "hint" => x.next \in Members
    /\ x.pc = "score" => /\ x.healthy # {} /\ x.unseen \subseteq x.healthy
                         /\ x.attempts + Cardinality(x.healthy) <= N
    /\ x.pc \in {"running", "counted"} =>
          /\ x.chosen \in x.healthy
          /\ x.attempts + Cardinality(x.healthy) <= N + 1

\* A circuit is open for a cooldown from now at most.
EndsBounded ==
    \A m \in Members : until[m] # NoInstant => until[m] <= now + OpenFor

\* Of the locals x of a call: the hint is no later than the ends it is made of.
Hinted(x) ==
    /\ x.soonest = NoInstant => x.hinted = {}
    /\ x.soonest # NoInstant =>
          /\ x.soonest <= now + OpenFor
          /\ \A m \in x.hinted : Cooling(m) => x.soonest <= until[m] + MaxLag

SafetyInv ==
    /\ TypeOK
    /\ \A c \in Callers : Located(call[c])
    /\ InFlightBalance

RoundRobin == strategy.signal = "picks" /\ strategy.sample >= N /\ calm

\* While no member was skipped and none failed over, every member is a
\* candidate, and what was read of its counter is not ahead of it.
Undisturbed(x) ==
    /\ x.pc # "hint"
    /\ x.pc = "scan" => x.healthy = 1..(x.next - 1)
    /\ x.pc \in {"score", "running", "counted"} => x.healthy = Members
    /\ x.pc = "score" => \A m \in Members \ x.unseen : x.seen[m] <= picks[m]

\* A call that is going to count m, or may choose m because it read no more
\* than v of its counter.
Licensed(x, m, v) ==
    \/ x.pc = "running" /\ x.chosen = m
    \/ x.pc = "score" /\ m \notin x.unseen /\ x.seen[m] <= v

Licences(m, v) == {c \in Callers : Licensed(call[c], m, v)}

\* A counter past v, where some other is not, has been raised past v by callers
\* that read at most v of it, and so will it be by those that hold a licence.
PicksAccounted ==
    \A m, n \in Members : \A v \in Nat :
        picks[n] <= v /\ v < picks[m] =>
            picks[m] + Cardinality(Licences(m, v)) <= v + Cardinality(Callers)

BalanceInv ==
    RoundRobin => /\ \A c \in Callers : Undisturbed(call[c])
                  /\ PicksAccounted

-----------------------------------------------------------------------------
(* Members and candidates.                                                  *)

LEMMA MembersFinite ==
    /\ Members \subseteq Nat /\ 0 \notin Members
    /\ IsFiniteSet(Members) /\ Cardinality(Members) = N
<1>1. N \in Nat \ {0}
  BY RouterAssumption
<1>2. 1 \in Int /\ N \in Int /\ ~(1 > N)
  BY <1>1
<1>3. IsFiniteSet(1..N) /\ Cardinality(1..N) = N - 1 + 1
  BY <1>2, FS_Interval
<1> QED
  BY <1>1, <1>3 DEF Members

\* The candidates are no more than the members, and one less without the one
\* that was tried.
LEMMA CandidatesCount ==
    ASSUME NEW S \in SUBSET Members
    PROVE  /\ IsFiniteSet(S) /\ Cardinality(S) \in 0..N
           /\ Cardinality(S) = N => S = Members
           /\ S # {} => Cardinality(S) >= 1
           /\ \A m \in S : Cardinality(S \ {m}) = Cardinality(S) - 1
<1>1. IsFiniteSet(S) /\ Cardinality(S) <= N /\ (Cardinality(S) = N => S = Members)
  BY MembersFinite, FS_Subset
<1>2. Cardinality(S) \in Nat /\ (Cardinality(S) = 0 <=> S = {})
  BY <1>1, FS_CardinalityType, FS_EmptySet
<1>3. \A m \in S : Cardinality(S \ {m}) = Cardinality(S) - 1
  BY <1>1, FS_RemoveElement
<1>4. N \in Nat
  BY RouterAssumption
<1> QED
  BY <1>1, <1>2, <1>3, <1>4

\* The least of some members, which is what a candidate is picked by.
LEMMA LeastMember ==
    ASSUME NEW S \in SUBSET Members, S # {}
    PROVE  \E x \in S : \A y \in S : x <= y
<1>1. S \subseteq Nat
  BY MembersFinite
<1>2. PICK x \in S : \A y \in S : ~(<<y, x>> \in OpToRel(<, Nat))
  BY <1>1, NatLessThanWellFounded, WFMin
<1>3. \A y \in S : ~(y < x)
  BY <1>1, <1>2 DEF OpToRel
<1> QED
  BY <1>1, <1>3

\* What is sampled are candidates: all of them where the sample covers them.
LEMMA SampledCandidates ==
    ASSUME strategy \in Strategies, NEW H \in SUBSET Members,
           NEW sampled \in Samples(H)
    PROVE  /\ sampled \subseteq H
           /\ strategy.sample >= N => sampled = H
<1>1. /\ IsFiniteSet(H) /\ Cardinality(H) \in Nat /\ Cardinality(H) <= N
      /\ N \in Nat
  BY CandidatesCount, RouterAssumption
<1>2. strategy.sample \in Nat
  BY RouterAssumption DEF Strategy
<1>3. /\ sampled \in SUBSET H
      /\ Cardinality(sampled) = IF strategy.sample < Cardinality(H)
                                THEN strategy.sample ELSE Cardinality(H)
  BY DEF Samples, kSubset
<1>4. strategy.sample >= N => Cardinality(sampled) = Cardinality(H)
  BY <1>1, <1>2, <1>3
<1>5. Cardinality(sampled) = Cardinality(H) => sampled = H
  BY <1>1, <1>3, FS_Subset
<1> QED
  BY <1>3, <1>4, <1>5

-----------------------------------------------------------------------------
(* The locals of a call, and whom it holds.                                 *)

LEMMA IdleType == Idle \in Call /\ Located(Idle) /\ Hinted(Idle)
<1>1. 1 \in 1..(N + 1) /\ 0 \in 0..N
  BY RouterAssumption
<1>2. [m \in Members |-> 0] \in [Members -> Nat]
  OBVIOUS
<1> QED
  BY <1>1, <1>2 DEF Idle, Call, PCs, Answers, Located, Hinted

\* A step of one call leaves the locals of the others.
LEMMA OneCall ==
    ASSUME TypeOK, NEW c \in Callers, NEW y \in Call,
           call' = [call EXCEPT ![c] = y]
    PROVE  /\ call' \in [Callers -> Call]
           /\ call'[c] = y /\ \A d \in Callers \ {c} : call'[d] = call[d]
  BY DEF TypeOK

Holds(x, m) == x.pc \in {"running", "counted"} /\ x.chosen = m

LEMMA HoldersStep ==
    ASSUME TypeOK, NEW c \in Callers, NEW y \in Call,
           call' = [call EXCEPT ![c] = y], NEW m \in Members
    PROVE  /\ Holds(y, m) => Holders(m)' = Holders(m) \cup {c}
           /\ ~Holds(y, m) => Holders(m)' = Holders(m) \ {c}
           /\ c \in Holders(m) <=> Holds(call[c], m)
           /\ IsFiniteSet(Holders(m))
<1>1. /\ call'[c] = y /\ \A d \in Callers \ {c} : call'[d] = call[d]
  BY OneCall
<1>2. IsFiniteSet(Holders(m))
  BY RouterAssumption, FS_Subset DEF Holders
<1> QED
  BY <1>1, <1>2 DEF Holders, Holds

\* A step in which a call neither takes nor releases a member.
LEMMA LoadKept ==
    ASSUME TypeOK, InFlightBalance, NEW c \in Callers, NEW y \in Call,
           call' = [call EXCEPT ![c] = y], UNCHANGED inFlight,
           \A m \in Members : Holds(y, m) <=> Holds(call[c], m)
    PROVE  InFlightBalance'
<1> SUFFICES ASSUME NEW m \in Members
             PROVE  inFlight'[m] = Cardinality(Holders(m)')
  BY DEF InFlightBalance
<1>1. /\ Holds(y, m) => Holders(m)' = Holders(m) \cup {c}
      /\ ~Holds(y, m) => Holders(m)' = Holders(m) \ {c}
      /\ c \in Holders(m) <=> Holds(call[c], m)
  BY HoldersStep
<1>2. Holds(y, m) <=> Holds(call[c], m)
  OBVIOUS
<1>3. Holders(m)' = Holders(m)
  BY <1>1, <1>2
<1> QED
  BY <1>3 DEF InFlightBalance

\* InFlightGuard::acquire.
LEMMA LoadTaken ==
    ASSUME TypeOK, InFlightBalance, NEW c \in Callers, NEW y \in Call,
           NEW n \in Members,
           call' = [call EXCEPT ![c] = y],
           inFlight' = [inFlight EXCEPT ![n] = @ + 1],
           \A m \in Members : ~Holds(call[c], m) /\ (Holds(y, m) <=> m = n)
    PROVE  InFlightBalance' /\ inFlight' \in [Members -> Nat]
<1>1. ASSUME NEW m \in Members
      PROVE  inFlight'[m] = Cardinality(Holders(m)')
  <2>0. /\ Holds(y, m) => Holders(m)' = Holders(m) \cup {c}
        /\ ~Holds(y, m) => Holders(m)' = Holders(m) \ {c}
        /\ c \notin Holders(m) /\ IsFiniteSet(Holders(m))
    BY HoldersStep
  <2>1. /\ m = n => Holders(m)' = Holders(m) \cup {c}
        /\ m # n => Holders(m)' = Holders(m)
        /\ c \notin Holders(m) /\ IsFiniteSet(Holders(m))
    BY <2>0
  <2>2. Cardinality(Holders(m) \cup {c}) = Cardinality(Holders(m)) + 1
    BY <2>1, FS_AddElement
  <2>3. inFlight'[m] = IF m = n THEN inFlight[m] + 1 ELSE inFlight[m]
    BY DEF TypeOK
  <2> QED
    BY <2>1, <2>2, <2>3 DEF InFlightBalance
<1>2. inFlight' \in [Members -> Nat]
  BY DEF TypeOK
<1> QED
  BY <1>1, <1>2 DEF InFlightBalance

\* The drop of the guard: there is something to subtract.
LEMMA LoadReleased ==
    ASSUME TypeOK, InFlightBalance, NEW c \in Callers, NEW y \in Call,
           call[c].chosen \in Members,
           Holds(call[c], call[c].chosen),
           call' = [call EXCEPT ![c] = y], Released(c),
           \A m \in Members : ~Holds(y, m)
    PROVE  InFlightBalance' /\ inFlight' \in [Members -> Nat]
<1> DEFINE n == call[c].chosen
<1>1. ASSUME NEW m \in Members
      PROVE  /\ m = n => inFlight[m] - 1 = Cardinality(Holders(m)')
             /\ m # n => inFlight[m] = Cardinality(Holders(m)')
             /\ m = n => inFlight[m] - 1 \in Nat
  <2>1. /\ Holders(m)' = Holders(m) \ {c}
        /\ c \in Holders(m) <=> m = n
        /\ IsFiniteSet(Holders(m))
    BY HoldersStep DEF Holds
  <2>2. c \in Holders(m) =>
           Cardinality(Holders(m) \ {c}) = Cardinality(Holders(m)) - 1
    BY <2>1, FS_RemoveElement
  <2>3. Cardinality(Holders(m) \ {c}) \in Nat
    BY <2>1, FS_RemoveElement, FS_CardinalityType, FS_Difference
  <2>4. m # n => Holders(m) \ {c} = Holders(m)
    BY <2>1
  <2> QED
    BY <2>1, <2>2, <2>3, <2>4 DEF InFlightBalance
<1>2. inFlight' \in [Members -> Nat]
  BY <1>1 DEF TypeOK, Released
<1>3. \A m \in Members :
         inFlight'[m] = IF m = n THEN inFlight[m] - 1 ELSE inFlight[m]
  BY DEF TypeOK, Released
<1> QED
  BY <1>1, <1>2, <1>3 DEF InFlightBalance

-----------------------------------------------------------------------------
(* Safety: every step of a call leaves locals that make sense.              *)

IInv ==
    /\ SafetyInv
    /\ EndsBounded
    /\ \A c \in Callers : Hinted(call[c])

LEMMA FinishedLocals ==
    ASSUME IInv, NEW c \in Callers, NEW kind \in Answers, Finished(c, kind)
    PROVE  \E y \in Call :
              /\ call' = [call EXCEPT ![c] = y]
              /\ Located(y) /\ Hinted(y) /\ y.pc = "idle"
<1> DEFINE y == [Idle EXCEPT !.answer = kind,
                             !.attempts = IF kind = "Served"
                                          THEN call[c].attempts ELSE 0]
<1>1. call' = [call EXCEPT ![c] = y]
  BY DEF Finished
<1>2. call[c].attempts \in 0..N /\ 0 \in 0..N
  BY RouterAssumption DEF IInv, SafetyInv, TypeOK, Call
<1>3. /\ y.pc = Idle.pc /\ y.lastErr = Idle.lastErr
      /\ y.soonest = Idle.soonest /\ y.hinted = Idle.hinted
  BY DEF Idle
<1>4. y \in Call /\ Located(y) /\ Hinted(y)
  <2>1. y \in Call
    BY <1>2, IdleType DEF Call
  <2>2. Located(y) /\ Hinted(y)
    BY <1>3, IdleType DEF Located, Hinted, Idle
  <2> QED
    BY <2>1, <2>2
<1>5. y.pc = "idle"
  BY DEF Idle
<1> QED
  BY <1>1, <1>4, <1>5

\* The scan: a call that serves nobody yet, before and after.
LEMMA ScanLocals ==
    ASSUME IInv, NEW c \in Callers,
           Begin(c) \/ ScanState(c) \/ ScanHint(c) \/ EndScan(c)
    PROVE  \E y \in Call :
              /\ call' = [call EXCEPT ![c] = y]
              /\ Located(y) /\ Hinted(y)
              /\ y.pc \in {"idle", "scan", "hint", "score"}
<1> DEFINE w == call[c]
<1>0. /\ w \in Call /\ Located(w) /\ Hinted(w)
      /\ N \in Nat /\ OpenFor \in Nat /\ MaxLag \in Nat /\ NoInstant \notin Nat
      /\ now \in Nat /\ until \in [Members -> Nat \cup {NoInstant}]
      /\ EndsBounded /\ call \in [Callers -> Call]
  BY RouterAssumption DEF IInv, SafetyInv, TypeOK
<1>1. CASE Begin(c)
  <2> DEFINE y == [Idle EXCEPT !.pc = "scan"]
  <2>1. call' = [call EXCEPT ![c] = y]
    BY <1>1 DEF Begin
  <2>2. y \in Call
    BY IdleType DEF Call, PCs
  <2>3. Located(y) /\ Hinted(y) /\ y.pc = "scan"
    BY IdleType DEF Located, Hinted, Idle
  <2> QED
    BY <2>1, <2>2, <2>3
<1>2. CASE ScanState(c) /\ Cooling(w.next)
  <2> DEFINE y == [w EXCEPT !.pc = "hint"]
  <2>1. call' = [call EXCEPT ![c] = y]
    BY <1>2 DEF ScanState
  <2>2. y \in Call
    BY <1>0 DEF Call, PCs
  <2>3. Located(y) /\ Hinted(y) /\ y.pc = "hint"
    BY <1>0, <1>2 DEF Located, Hinted, Call, ScanState, At
  <2> QED
    BY <2>1, <2>2, <2>3
<1>3. CASE ScanState(c) /\ ~Cooling(w.next)
  <2> DEFINE y == [w EXCEPT !.next = w.next + 1,
                            !.healthy = w.healthy \cup {w.next}]
  <2>1. call' = [call EXCEPT ![c] = y] /\ w.pc = "scan" /\ w.next \in Members
    BY <1>3 DEF ScanState, At
  <2>2. w.next + 1 \in 1..(N + 1)
    BY <1>0, <2>1 DEF Members
  <2>3. y \in Call
    BY <1>0, <2>1, <2>2 DEF Call
  <2>4. Located(y) /\ Hinted(y) /\ y.pc = "scan"
    BY <1>0, <2>1 DEF Located, Hinted, Call
  <2> QED
    BY <2>1, <2>3, <2>4
<1>4. CASE ScanHint(c)
  <2> DEFINE m == w.next
             y == [w EXCEPT !.pc = "scan", !.next = m + 1,
                            !.soonest = IF Cooling(m) THEN Sooner(@, m) ELSE @,
                            !.hinted = IF Cooling(m) THEN @ \cup {m} ELSE @]
  <2>1. w.pc = "hint" /\ m \in Members
    BY <1>0, <1>4 DEF ScanHint, At, Located
  <2>2. call' = [call EXCEPT ![c] = y]
    BY <1>4 DEF ScanHint
  <2>3. m + 1 \in 1..(N + 1)
    BY <1>0, <2>1 DEF Members
  <2>4. Cooling(m) => /\ until[m] \in Nat /\ until[m] <= now + OpenFor
                      /\ Sooner(w.soonest, m) \in Nat
                      /\ Sooner(w.soonest, m) <= until[m]
                      /\ Sooner(w.soonest, m) <= now + OpenFor
                      /\ w.soonest # NoInstant =>
                            /\ w.soonest \in Nat
                            /\ Sooner(w.soonest, m) <= w.soonest
    <3>1. Cooling(m) => until[m] \in Nat /\ until[m] <= now + OpenFor
      BY <1>0, <2>1 DEF Cooling, EndsBounded
    <3>2. w.soonest # NoInstant => w.soonest \in Nat
      BY <1>0 DEF Call
    <3>3. Cooling(m) =>
             /\ Sooner(w.soonest, m) \in {w.soonest, until[m]}
             /\ Sooner(w.soonest, m) \in Nat
             /\ Sooner(w.soonest, m) <= until[m]
      BY <1>0, <3>1, <3>2 DEF Sooner
    <3>4. Cooling(m) /\ w.soonest # NoInstant =>
             Sooner(w.soonest, m) <= w.soonest
      BY <3>1, <3>2 DEF Sooner
    <3> QED
      BY <1>0, <3>1, <3>2, <3>3, <3>4
  <2>5. y \in Call
    BY <1>0, <2>1, <2>3, <2>4 DEF Call, PCs
  <2>6. Located(y) /\ y.pc = "scan"
    BY <1>0, <2>1 DEF Located, Call
  <2>7. Hinted(y)
    <3>1. CASE Cooling(m)
      <4>1. y.soonest = Sooner(w.soonest, m) /\ y.hinted = w.hinted \cup {m}
        BY <1>0, <3>1 DEF Call
      <4>2. y.soonest # NoInstant /\ y.soonest <= now + OpenFor
        BY <1>0, <2>4, <3>1, <4>1
      <4>3. ASSUME NEW n \in y.hinted, Cooling(n)
            PROVE  y.soonest <= until[n] + MaxLag
        <5>1. CASE n = m
          BY <1>0, <2>4, <3>1, <4>1, <5>1
        <5>2. CASE n \in w.hinted
          <6>1. w.soonest # NoInstant /\ w.soonest <= until[n] + MaxLag
            BY <1>0, <4>3, <5>2 DEF Hinted
          <6>2. until[n] \in Nat
            BY <1>0, <4>3, <5>2 DEF Call, Cooling
          <6> QED
            BY <1>0, <2>4, <3>1, <4>1, <6>1, <6>2
        <5> QED
          BY <4>1, <5>1, <5>2
      <4> QED
        BY <4>2, <4>3 DEF Hinted
    <3>2. CASE ~Cooling(m)
      BY <1>0, <3>2 DEF Hinted, Call
    <3> QED
      BY <3>1, <3>2
  <2> QED
    BY <2>2, <2>5, <2>6, <2>7
<1>5. CASE EndScan(c) /\ w.healthy = {}
  <2>1. Finished(c, "AllUnavailable") /\ "AllUnavailable" \in Answers
    BY <1>5 DEF EndScan, Answers
  <2> QED
    BY <2>1, FinishedLocals
<1>6. CASE EndScan(c) /\ w.healthy # {}
  <2> DEFINE y == [w EXCEPT !.pc = "score", !.unseen = w.healthy]
  <2>1. call' = [call EXCEPT ![c] = y] /\ w.pc = "scan"
    BY <1>6 DEF EndScan, At
  <2>2. y \in Call
    BY <1>0 DEF Call, PCs
  <2>3. w.attempts = 0 /\ Cardinality(w.healthy) \in 0..N
    BY <1>0, <2>1, CandidatesCount DEF Located, Call
  <2>4. /\ y.pc = "score" /\ y.healthy = w.healthy /\ y.unseen = w.healthy
        /\ y.attempts = 0 /\ y.soonest = w.soonest /\ y.hinted = w.hinted
    BY <1>0, <2>3 DEF Call
  <2>5. Located(y) /\ Hinted(y)
    BY <1>0, <1>6, <2>3, <2>4 DEF Located, Hinted
  <2> QED
    BY <2>1, <2>2, <2>4, <2>5
<1> QED
  BY <1>1, <1>2, <1>3, <1>4, <1>5, <1>6

\* The counter of one candidate is read.
LEMMA LoadOne ==
    ASSUME TypeOK, NEW c \in Callers, Load(c)
    PROVE  \E k \in call[c].unseen :
              call' = [call EXCEPT ![c].seen[k] = Signal(k),
                                   ![c].unseen = @ \ {k}]
<1>1. PICK k : /\ k = CHOOSE x \in call[c].unseen :
                           \A n \in call[c].unseen : x <= n
               /\ call' = [call EXCEPT ![c].seen[k] = Signal(k),
                                       ![c].unseen = @ \ {k}]
  BY DEF Load
<1>2. call[c].unseen \in SUBSET Members /\ call[c].unseen # {}
  BY DEF TypeOK, Call, Load
<1>3. k \in call[c].unseen
  BY <1>1, <1>2, LeastMember
<1> QED
  BY <1>1, <1>3

\* The choice, up to the acquisition of the guard.
LEMMA LoadLocals ==
    ASSUME IInv, NEW c \in Callers, Load(c)
    PROVE  \E y \in Call :
              /\ call' = [call EXCEPT ![c] = y]
              /\ Located(y) /\ Hinted(y) /\ y.pc = "score"
<1> DEFINE w == call[c]
<1>0. /\ w \in Call /\ Located(w) /\ Hinted(w) /\ w.pc = "score"
      /\ call \in [Callers -> Call] /\ TypeOK
  BY DEF IInv, SafetyInv, TypeOK, Load, At
<1>1. PICK k \in w.unseen :
         call' = [call EXCEPT ![c].seen[k] = Signal(k),
                              ![c].unseen = @ \ {k}]
  BY <1>0, LoadOne
<1> DEFINE seen == [w.seen EXCEPT ![k] = Signal(k)]
           y == [w EXCEPT !.seen = seen, !.unseen = @ \ {k}]
<1>2. call' = [call EXCEPT ![c] = y]
  BY <1>0, <1>1 DEF Call
<1>3. k \in Members
  BY <1>0 DEF Call
<1>4. Signal(k) \in Nat
  BY <1>3, MembersFinite DEF Signal, IInv, SafetyInv, TypeOK
<1>5. seen \in [Members -> Nat]
  BY <1>0, <1>4 DEF Call
<1>6. y \in Call
  BY <1>0, <1>5 DEF Call
<1>7. /\ y.pc = "score" /\ y.healthy = w.healthy /\ y.unseen \subseteq w.unseen
      /\ y.attempts = w.attempts /\ y.soonest = w.soonest /\ y.hinted = w.hinted
  BY <1>0 DEF Call
<1>8. Located(y) /\ Hinted(y)
  BY <1>0, <1>7 DEF Located, Hinted
<1> QED
  BY <1>2, <1>6, <1>7, <1>8

LEMMA DispatchLocals ==
    ASSUME IInv, NEW c \in Callers, Dispatch(c)
    PROVE  \E y \in Call :
              /\ call' = [call EXCEPT ![c] = y]
              /\ Located(y) /\ Hinted(y)
              /\ y.pc = "running" /\ y.chosen \in Members
              /\ inFlight' = [inFlight EXCEPT ![y.chosen] = @ + 1]
<1> DEFINE w == call[c]
<1>0. /\ w \in Call /\ Located(w) /\ Hinted(w) /\ w.pc = "score"
      /\ call \in [Callers -> Call] /\ strategy \in Strategies
      /\ w.healthy \in SUBSET Members /\ w.attempts \in 0..N
  BY DEF IInv, SafetyInv, TypeOK, Dispatch, Scored, At, Call
<1>1. PICK sampled \in Samples(w.healthy) : \E m \in sampled :
          /\ inFlight' = [inFlight EXCEPT ![m] = @ + 1]
          /\ call' = [call EXCEPT ![c].pc = "running",
                                  ![c].chosen = m,
                                  ![c].attempts = @ + 1,
                                  ![c].seen = Idle.seen]
  BY DEF Dispatch
<1>2. PICK m \in sampled :
          /\ inFlight' = [inFlight EXCEPT ![m] = @ + 1]
          /\ call' = [call EXCEPT ![c].pc = "running",
                                  ![c].chosen = m,
                                  ![c].attempts = @ + 1,
                                  ![c].seen = Idle.seen]
  BY <1>1
<1> DEFINE y == [w EXCEPT !.pc = "running", !.chosen = m,
                          !.attempts = @ + 1, !.seen = Idle.seen]
<1>3. call' = [call EXCEPT ![c] = y]
  BY <1>2
<1>4. m \in w.healthy /\ m \in Members
  BY <1>0, <1>1, SampledCandidates
<1>5. /\ Cardinality(w.healthy) >= 1 /\ w.attempts + Cardinality(w.healthy) <= N
      /\ Cardinality(w.healthy) \in Nat /\ N \in Nat
  BY <1>0, <1>4, CandidatesCount, RouterAssumption DEF Located
<1>6. m \in 0..N /\ w.attempts + 1 \in 0..N
  BY <1>0, <1>4, <1>5 DEF Members
<1>7. Idle.seen \in [Members -> Nat]
  BY IdleType DEF Call
<1>8. y \in Call
  BY <1>0, <1>6, <1>7 DEF Call, PCs
<1>9. /\ y.pc = "running" /\ y.chosen = m /\ y.healthy = w.healthy
      /\ y.attempts = w.attempts + 1
      /\ y.soonest = w.soonest /\ y.hinted = w.hinted
  BY <1>0 DEF Call
<1>10. Located(y)
  BY <1>0, <1>4, <1>5, <1>9 DEF Located
<1>11. Hinted(y)
  BY <1>0, <1>9 DEF Hinted
<1> QED
  BY <1>2, <1>3, <1>4, <1>8, <1>9, <1>10, <1>11

\* record_attempt: the guard is held on.
LEMMA CompletedLocals ==
    ASSUME IInv, NEW c \in Callers, Completed(c)
    PROVE  \E y \in Call :
              /\ call' = [call EXCEPT ![c] = y]
              /\ Located(y) /\ Hinted(y)
              /\ y.pc = "counted" /\ y.chosen = call[c].chosen
<1> DEFINE w == call[c]
           y == [w EXCEPT !.pc = "counted"]
<1>0. /\ w \in Call /\ Located(w) /\ Hinted(w) /\ w.pc = "running"
      /\ call \in [Callers -> Call]
  BY DEF IInv, SafetyInv, TypeOK, Completed, At
<1>1. call' = [call EXCEPT ![c] = y]
  BY DEF Completed
<1>2. y \in Call
  BY <1>0 DEF Call, PCs
<1>3. /\ y.pc = "counted" /\ y.chosen = w.chosen /\ y.healthy = w.healthy
      /\ y.attempts = w.attempts /\ y.soonest = w.soonest /\ y.hinted = w.hinted
  BY <1>0 DEF Call
<1>4. Located(y) /\ Hinted(y)
  BY <1>0, <1>3 DEF Located, Hinted
<1> QED
  BY <1>1, <1>2, <1>3, <1>4

\* The call that serves a member is at one of its candidates.
LEMMA Serving ==
    ASSUME IInv, NEW c \in Callers, call[c].pc \in {"running", "counted"}
    PROVE  /\ call[c].chosen \in call[c].healthy /\ call[c].chosen \in Members
           /\ call[c].healthy \in SUBSET Members
  BY DEF IInv, SafetyInv, TypeOK, Call, Located

\* The end of an attempt, kept or given up: the guard is dropped.
LEMMA ReleaseLocals ==
    ASSUME IInv, NEW c \in Callers, Resolve(c) \/ Advance(c) \/ Drop(c)
    PROVE  \E y \in Call :
              /\ call' = [call EXCEPT ![c] = y]
              /\ Located(y) /\ Hinted(y) /\ y.pc \in {"idle", "score"}
<1> DEFINE w == call[c]

<1>0. /\ w \in Call /\ Located(w) /\ Hinted(w)
      /\ w.pc \in {"running", "counted"}
      /\ call \in [Callers -> Call] /\ N \in Nat
  BY RouterAssumption
     DEF IInv, SafetyInv, TypeOK, Resolve, Advance, Drop, At
<1>1. CASE \E kind \in Answers : Finished(c, kind)
  BY <1>1, FinishedLocals
<1>2. CASE /\ Advance(c)
           /\ \E error \in BOOLEAN :
                 /\ Left(c) # {}
                 /\ call' = [call EXCEPT ![c].pc = "score",
                                         ![c].healthy = Left(c),
                                         ![c].unseen = Left(c),
                                         ![c].chosen = 0,
                                         ![c].lastErr = error]
  <2>1. PICK error \in BOOLEAN :
                 /\ Left(c) # {}
                 /\ call' = [call EXCEPT ![c].pc = "score",
                                         ![c].healthy = Left(c),
                                         ![c].unseen = Left(c),
                                         ![c].chosen = 0,
                                         ![c].lastErr = error]
    BY <1>2
  <2> DEFINE y == [w EXCEPT !.pc = "score", !.healthy = Left(c),
                            !.unseen = Left(c), !.chosen = 0,
                            !.lastErr = error]
  <2>2. call' = [call EXCEPT ![c] = y]
    BY <2>1
  <2>3. y \in Call
    <3>1. Left(c) \in SUBSET Members /\ 0 \in 0..N
      BY <1>0 DEF Left, Call
    <3> QED
      BY <1>0, <3>1 DEF Call, PCs
  <2>4. /\ y.pc = "score" /\ y.healthy = Left(c) /\ y.unseen = Left(c)
        /\ y.attempts = w.attempts
        /\ y.soonest = w.soonest /\ y.hinted = w.hinted
    BY <1>0 DEF Call
  <2>5. /\ w.chosen \in w.healthy /\ w.healthy \in SUBSET Members
        /\ Cardinality(w.healthy) \in Nat /\ w.attempts \in Nat
        /\ Cardinality(Left(c)) = Cardinality(w.healthy) - 1
    BY <1>0, Serving, CandidatesCount DEF Call, Left
  <2>6. y.attempts + Cardinality(y.healthy) <= N
    BY <1>0, <2>4, <2>5 DEF Located
  <2>7. Located(y) /\ Hinted(y)
    BY <1>0, <2>1, <2>4, <2>6 DEF Located, Hinted
  <2> QED
    BY <2>2, <2>3, <2>4, <2>7
<1>3. Resolve(c) \/ Drop(c) => \E kind \in Answers : Finished(c, kind)
  BY DEF Resolve, Drop, Answers
<1>4. ASSUME Advance(c)
      PROVE  \/ \E kind \in Answers : Finished(c, kind)
             \/ \E error \in BOOLEAN :
                 /\ Left(c) # {}
                 /\ call' = [call EXCEPT ![c].pc = "score",
                                         ![c].healthy = Left(c),
                                         ![c].unseen = Left(c),
                                         ![c].chosen = 0,
                                         ![c].lastErr = error]
  <2>1. w.lastErr \in BOOLEAN
    BY <1>0 DEF Call
  <2> QED
    BY <1>4, <2>1 DEF Advance, Left, Answers
<1> QED
  BY <1>1, <1>2, <1>3, <1>4

LEMMA InitIInv == Init => IInv
<1> SUFFICES ASSUME Init PROVE IInv
  OBVIOUS
<1>0. now = 0 /\ calls = 0 /\ OpenFor \in Nat
  BY RouterAssumption DEF Init
<1>1. TypeOK
  BY <1>0, IdleType DEF Init, TypeOK
<1>2. \A c \in Callers : call[c] = Idle
  BY DEF Init
<1>3. \A c \in Callers : Located(call[c]) /\ Hinted(call[c])
  BY <1>2, IdleType
<1>4. InFlightBalance
  <2>1. \A m \in Members : Holders(m) = {}
    BY <1>2 DEF Holders, Idle
  <2> QED
    BY <2>1, FS_EmptySet DEF InFlightBalance, Init
<1>5. EndsBounded
  BY DEF Init, EndsBounded
<1> QED
  BY <1>1, <1>3, <1>4, <1>5 DEF IInv, SafetyInv

\* A step of a call: its locals, the load of the members and the pick counters.
LEMMA CallKeeps ==
    ASSUME IInv, NEW c \in Callers, Begin(c) \/ Step(c) \/ Drop(c)
    PROVE  IInv'
<1> DEFINE w == call[c]
<1> USE DEF Step
<1>0. /\ TypeOK /\ InFlightBalance /\ EndsBounded
      /\ UNCHANGED <<strategy, now, until>> /\ calm' \in BOOLEAN
  BY DEF IInv, SafetyInv, TypeOK, Begin, ScanState, ScanHint, EndScan, Load,
         Dispatch, Misscore, Completed, Resolve, Advance, Drop, shared
<1>1. picks' \in [Members -> Nat] /\ calls' \in Nat
  <2>1. CASE Completed(c)
    <3>1. w.chosen \in Members
      BY <2>1, Serving DEF Completed, At
    <3>2. /\ picks' = [picks EXCEPT ![w.chosen] = @ + 1] /\ UNCHANGED calls
          /\ picks \in [Members -> Nat] /\ calls \in Nat
      BY <1>0, <2>1 DEF Completed, TypeOK
    <3> QED
      BY <3>1, <3>2
  <2>2. CASE ~Completed(c)
    <3>1. CASE Begin(c)
      BY <1>0, <3>1 DEF TypeOK, Begin, shared
    <3>2. CASE ScanState(c) \/ ScanHint(c) \/ EndScan(c) \/ Load(c) \/ Misscore(c)
      BY <1>0, <3>2
         DEF TypeOK, ScanState, ScanHint, EndScan, Load, Misscore, shared
    <3>3. CASE Dispatch(c) \/ Resolve(c) \/ Advance(c) \/ Drop(c)
      BY <1>0, <3>3 DEF TypeOK, Dispatch, Resolve, Advance, Drop
    <3> QED
      BY <2>2, <3>1, <3>2, <3>3
  <2> QED
    BY <2>1, <2>2
<1>2. \E y \in Call :
         /\ call' = [call EXCEPT ![c] = y]
         /\ Located(y) /\ Hinted(y)
         /\ InFlightBalance' /\ inFlight' \in [Members -> Nat]
  <2>1. CASE Begin(c) \/ ScanState(c) \/ ScanHint(c) \/ EndScan(c)
    <3>1. PICK y \in Call :
              /\ call' = [call EXCEPT ![c] = y]
              /\ Located(y) /\ Hinted(y)
              /\ y.pc \in {"idle", "scan", "hint", "score"}
      BY <2>1, ScanLocals
    <3>2. UNCHANGED inFlight /\ w.pc \in {"idle", "scan", "hint"}
      BY <2>1 DEF Begin, ScanState, ScanHint, EndScan, At, shared
    <3>3. \A m \in Members : ~Holds(y, m) /\ ~Holds(w, m)
      BY <3>1, <3>2 DEF Holds
    <3> QED
      BY <1>0, <3>1, <3>2, <3>3, LoadKept DEF TypeOK
  <2>2. CASE Load(c)
    <3>1. PICK y \in Call :
              /\ call' = [call EXCEPT ![c] = y]
              /\ Located(y) /\ Hinted(y) /\ y.pc = "score"
      BY <2>2, LoadLocals
    <3>2. UNCHANGED inFlight /\ w.pc = "score"
      BY <2>2 DEF Load, At, shared
    <3>3. \A m \in Members : ~Holds(y, m) /\ ~Holds(w, m)
      BY <3>1, <3>2 DEF Holds
    <3> QED
      BY <1>0, <3>1, <3>2, <3>3, LoadKept DEF TypeOK
  <2>3. CASE Dispatch(c)
    <3>1. PICK y \in Call :
              /\ call' = [call EXCEPT ![c] = y]
              /\ Located(y) /\ Hinted(y)
              /\ y.pc = "running" /\ y.chosen \in Members
              /\ inFlight' = [inFlight EXCEPT ![y.chosen] = @ + 1]
      BY <2>3, DispatchLocals
    <3>2. w.pc = "score"
      BY <2>3 DEF Dispatch, Scored, At
    <3>3. \A m \in Members : ~Holds(w, m) /\ (Holds(y, m) <=> m = y.chosen)
      BY <3>1, <3>2 DEF Holds
    <3> QED
      BY <1>0, <3>1, <3>3, LoadTaken
  <2>4. CASE Misscore(c)
    <3>1. PICK y \in Call :
              /\ call' = [call EXCEPT ![c] = y]
              /\ Located(y) /\ Hinted(y) /\ y.pc = "idle"
      BY <2>4, FinishedLocals DEF Misscore, Answers
    <3>2. UNCHANGED inFlight /\ w.pc = "score"
      BY <2>4 DEF Misscore, Scored, At, shared
    <3>3. \A m \in Members : ~Holds(y, m) /\ ~Holds(w, m)
      BY <3>1, <3>2 DEF Holds
    <3> QED
      BY <1>0, <3>1, <3>2, <3>3, LoadKept DEF TypeOK
  <2>5. CASE Completed(c)
    <3>1. PICK y \in Call :
              /\ call' = [call EXCEPT ![c] = y]
              /\ Located(y) /\ Hinted(y)
              /\ y.pc = "counted" /\ y.chosen = w.chosen
      BY <2>5, CompletedLocals
    <3>2. UNCHANGED inFlight /\ w.pc = "running"
      BY <2>5 DEF Completed, At
    <3>3. \A m \in Members : Holds(y, m) <=> Holds(w, m)
      BY <3>1, <3>2 DEF Holds
    <3> QED
      BY <1>0, <3>1, <3>2, <3>3, LoadKept DEF TypeOK
  <2>6. CASE Resolve(c) \/ Advance(c) \/ Drop(c)
    <3>1. PICK y \in Call :
              /\ call' = [call EXCEPT ![c] = y]
              /\ Located(y) /\ Hinted(y) /\ y.pc \in {"idle", "score"}
      BY <2>6, ReleaseLocals
    <3>2. Released(c) /\ w.pc \in {"running", "counted"}
      BY <2>6 DEF Resolve, Advance, Drop, At
    <3>3. w.chosen \in Members /\ Holds(w, w.chosen)
      BY <3>2, Serving DEF Holds
    <3>4. \A m \in Members : ~Holds(y, m)
      BY <3>1 DEF Holds
    <3> QED
      BY <1>0, <3>1, <3>2, <3>3, <3>4, LoadReleased
  <2> QED
    BY <2>1, <2>2, <2>3, <2>4, <2>5, <2>6
<1>3. PICK y \in Call :
         /\ call' = [call EXCEPT ![c] = y]
         /\ Located(y) /\ Hinted(y)
         /\ InFlightBalance' /\ inFlight' \in [Members -> Nat]
  BY <1>2
<1>4. /\ call' \in [Callers -> Call]
      /\ call'[c] = y /\ \A d \in Callers \ {c} : call'[d] = call[d]
  BY <1>0, <1>3, OneCall
<1>5. TypeOK'
  BY <1>0, <1>1, <1>3, <1>4 DEF TypeOK
<1>6. \A d \in Callers : Located(call'[d]) /\ Hinted(call'[d])
  BY <1>3, <1>4 DEF IInv, SafetyInv
<1>7. (\A d \in Callers : Located(call[d]))'
  BY <1>6 DEF Located
<1>8. (\A d \in Callers : Hinted(call[d]))' /\ EndsBounded'
  BY <1>0, <1>6 DEF Hinted, Cooling, EndsBounded
<1> QED
  BY <1>3, <1>5, <1>7, <1>8 DEF IInv, SafetyInv

LEMMA TripKeeps ==
    ASSUME IInv, NEW n \in Members, Trip(n)
    PROVE  IInv'
<1>0. /\ TypeOK /\ UNCHANGED <<strategy, now, inFlight, picks, call, calls, calm>>
      /\ now \in Nat /\ OpenFor \in Nat /\ MaxLag \in Nat /\ NoInstant \notin Nat
      /\ until \in [Members -> Nat \cup {NoInstant}]
  BY RouterAssumption DEF IInv, SafetyInv, TypeOK, Trip
<1>1. PICK lag \in 0..MaxLag :
          /\ lag <= now
          /\ until' = [until EXCEPT ![n] = now - lag + OpenFor]
  BY DEF Trip
<1>2. /\ now - lag + OpenFor \in Nat /\ now - lag + OpenFor <= now + OpenFor
      /\ now + OpenFor <= now - lag + OpenFor + MaxLag
  BY <1>0, <1>1
<1>3. \A m \in Members : until'[m] = IF m = n THEN now - lag + OpenFor ELSE until[m]
  BY <1>0, <1>1
<1>4. TypeOK'
  <2>1. until' \in [Members -> Nat \cup {NoInstant}]
    BY <1>0, <1>1, <1>2
  <2> QED
    BY <1>0, <2>1 DEF TypeOK
<1>5. (\A c \in Callers : Located(call[c]))' /\ InFlightBalance'
  BY <1>0 DEF IInv, SafetyInv, Located, InFlightBalance, Holders
<1>6. EndsBounded'
  BY <1>0, <1>2, <1>3 DEF IInv, EndsBounded
<1>7. ASSUME NEW c \in Callers
      PROVE  Hinted(call[c])'
  <2>0. /\ Hinted(call[c]) /\ call[c].hinted \subseteq Members
        /\ call[c].soonest \in Nat \cup {NoInstant}
    BY <1>0 DEF IInv, TypeOK, Call
  <2>1. ASSUME NEW m \in call[c].hinted, call[c].soonest # NoInstant, Cooling(m)'
        PROVE  call[c].soonest <= until'[m] + MaxLag
    <3>1. CASE m = n
      BY <1>0, <1>2, <1>3, <2>0, <2>1, <3>1 DEF Hinted
    <3>2. CASE m # n
      BY <1>0, <1>3, <2>0, <2>1, <3>2 DEF Hinted, Cooling
    <3> QED
      BY <3>1, <3>2
  <2> QED
    BY <1>0, <2>0, <2>1 DEF Hinted
<1> QED
  BY <1>4, <1>5, <1>6, <1>7 DEF IInv, SafetyInv

LEMMA TickKeeps ==
    ASSUME IInv, Tick
    PROVE  IInv'
<1>0. /\ TypeOK /\ UNCHANGED <<strategy, shared, call, calls, calm>>
      /\ now \in Nat /\ OpenFor \in Nat /\ MaxLag \in Nat /\ NoInstant \notin Nat
      /\ until \in [Members -> Nat \cup {NoInstant}] /\ now' = now + 1
  BY RouterAssumption DEF IInv, SafetyInv, TypeOK, Tick
<1>1. TypeOK'
  BY <1>0 DEF TypeOK, shared
<1>2. (\A c \in Callers : Located(call[c]))' /\ InFlightBalance'
  BY <1>0 DEF IInv, SafetyInv, Located, InFlightBalance, Holders, shared
<1>3. EndsBounded'
  BY <1>0 DEF IInv, EndsBounded, shared
<1>4. ASSUME NEW c \in Callers
      PROVE  Hinted(call[c])'
  <2>0. /\ Hinted(call[c]) /\ call[c].hinted \subseteq Members
        /\ call[c].soonest \in Nat \cup {NoInstant} /\ UNCHANGED until
    BY <1>0 DEF IInv, TypeOK, Call, shared
  <2>1. \A m \in Members : Cooling(m)' => Cooling(m)
    BY <1>0, <2>0 DEF Cooling
  <2> QED
    BY <1>0, <2>0, <2>1 DEF Hinted
<1> QED
  BY <1>1, <1>2, <1>3, <1>4 DEF IInv, SafetyInv

LEMMA NextIInv == IInv /\ [Next]_vars => IInv'
<1> SUFFICES ASSUME IInv, [Next]_vars PROVE IInv'
  OBVIOUS
<1>1. CASE \E c \in Callers : Begin(c) \/ Step(c) \/ Drop(c)
  BY <1>1, CallKeeps
<1>2. CASE \E m \in Members : Trip(m)
  BY <1>2, TripKeeps
<1>3. CASE Tick
  BY <1>3, TickKeeps
<1>4. CASE UNCHANGED vars
  BY <1>4 DEF vars, shared, IInv, SafetyInv, TypeOK, Located, InFlightBalance,
              Holders, EndsBounded, Hinted, Cooling
<1> QED
  BY <1>1, <1>2, <1>3, <1>4 DEF Next

\* Every reachable state of the router satisfies the inductive invariant.
THEOREM Invariance == Spec => []IInv
  BY InitIInv, NextIInv, PTL DEF Spec

\* Type correctness: the locals of run make sense at each of its awaits and
\* loads, and no counter of MemberState is decremented below zero.
THEOREM RouterTypeOK == Spec => []TypeOK
<1>1. IInv => TypeOK
  BY DEF IInv, SafetyInv
<1> QED
  BY <1>1, Invariance, PTL

\* For any number of callers: in_flight of a member is the number of calls it
\* serves, whichever way those before ended (InFlightGuard).
THEOREM InFlightBalanceHolds == Spec => []InFlightBalance
<1>1. IInv => InFlightBalance
  BY DEF IInv, SafetyInv
<1> QED
  BY <1>1, Invariance, PTL

\* For any number of members, any cooldown and any lag of a vote:
\* next_available_at parks the caller for a cooldown at most, and not past the
\* return of a member it was computed from.
THEOREM HintIsSoonestHolds == Spec => []HintIsSoonest
<1>1. IInv => HintIsSoonest
  BY DEF IInv, HintIsSoonest, Hinted
<1> QED
  BY <1>1, Invariance, PTL

-----------------------------------------------------------------------------
(* The router is a failover.                                                *)

\* What the abstract variables are after a step of one call.
LEMMA MappedStep ==
    ASSUME TypeOK, NEW c \in Callers, NEW y \in Call,
           call' = [call EXCEPT ![c] = y]
    PROVE  /\ Phases' = [Phases EXCEPT ![c] = PhaseOf(y)]
           /\ Candidates' = [Candidates EXCEPT ![c] = Worth(y)]
           /\ Trials' = [Trials EXCEPT ![c] = OnTrial(y)]
           /\ Tries' = [Tries EXCEPT ![c] = y.attempts]
           /\ Failures' = [Failures EXCEPT ![c] = y.lastErr]
           /\ Given' = [Given EXCEPT ![c] = y.answer]
<1>1. call'[c] = y /\ \A d \in Callers \ {c} : call'[d] = call[d]
  BY OneCall
<1>2. /\ Phases' = [d \in Callers |-> PhaseOf(call'[d])]
      /\ Candidates' = [d \in Callers |-> Worth(call'[d])]
      /\ Trials' = [d \in Callers |-> OnTrial(call'[d])]
      /\ Tries' = [d \in Callers |-> call'[d].attempts]
      /\ Failures' = [d \in Callers |-> call'[d].lastErr]
      /\ Given' = [d \in Callers |-> call'[d].answer]
  BY DEF Phases, Candidates, Trials, Tries, Failures, Given, PhaseOf, Worth,
         OnTrial
<1>3. /\ Phases = [d \in Callers |-> PhaseOf(call[d])]
      /\ Candidates = [d \in Callers |-> Worth(call[d])]
      /\ Trials = [d \in Callers |-> OnTrial(call[d])]
      /\ Tries = [d \in Callers |-> call[d].attempts]
      /\ Failures = [d \in Callers |-> call[d].lastErr]
      /\ Given = [d \in Callers |-> call[d].answer]
  BY DEF Phases, Candidates, Trials, Tries, Failures, Given
<1>4. Phases' = [Phases EXCEPT ![c] = PhaseOf(y)]
  BY <1>1, <1>2, <1>3
<1>5. Candidates' = [Candidates EXCEPT ![c] = Worth(y)]
  BY <1>1, <1>2, <1>3
<1>6. Trials' = [Trials EXCEPT ![c] = OnTrial(y)]
  BY <1>1, <1>2, <1>3
<1>7. Tries' = [Tries EXCEPT ![c] = y.attempts]
  BY <1>1, <1>2, <1>3
<1>8. Failures' = [Failures EXCEPT ![c] = y.lastErr]
  BY <1>1, <1>2, <1>3
<1>9. Given' = [Given EXCEPT ![c] = y.answer]
  BY <1>1, <1>2, <1>3
<1> QED
  BY <1>4, <1>5, <1>6, <1>7, <1>8, <1>9

\* The abstract variables at a call.
LEMMA Mapped ==
    ASSUME NEW c \in Callers
    PROVE  /\ Phases[c] = PhaseOf(call[c])
           /\ Candidates = [Candidates EXCEPT ![c] = Worth(call[c])]
           /\ Candidates[c] = Worth(call[c])
           /\ Trials = [Trials EXCEPT ![c] = OnTrial(call[c])]
           /\ Trials[c] = OnTrial(call[c])
           /\ Tries = [Tries EXCEPT ![c] = call[c].attempts]
           /\ Tries[c] = call[c].attempts
           /\ Failures = [Failures EXCEPT ![c] = call[c].lastErr]
           /\ Failures[c] = call[c].lastErr
           /\ Given = [Given EXCEPT ![c] = call[c].answer]
           /\ Phases = [Phases EXCEPT ![c] = PhaseOf(call[c])]
<1>1. Phases = [Phases EXCEPT ![c] = PhaseOf(call[c])] /\ Phases[c] = PhaseOf(call[c])
  BY DEF Phases
<1>2. /\ Candidates = [Candidates EXCEPT ![c] = Worth(call[c])]
      /\ Candidates[c] = Worth(call[c])
  BY DEF Candidates
<1>3. /\ Trials = [Trials EXCEPT ![c] = OnTrial(call[c])]
      /\ Trials[c] = OnTrial(call[c])
  BY DEF Trials
<1>4. /\ Tries = [Tries EXCEPT ![c] = call[c].attempts]
      /\ Tries[c] = call[c].attempts
  BY DEF Tries
<1>5. /\ Failures = [Failures EXCEPT ![c] = call[c].lastErr]
      /\ Failures[c] = call[c].lastErr
  BY DEF Failures
<1>6. Given = [Given EXCEPT ![c] = call[c].answer]
  BY DEF Given
<1> QED
  BY <1>1, <1>2, <1>3, <1>4, <1>5, <1>6

\* A step that changes nothing the abstract call has.
LEMMA Hidden ==
    ASSUME TypeOK, NEW c \in Callers, NEW y \in Call,
           call' = [call EXCEPT ![c] = y],
           PhaseOf(y) = PhaseOf(call[c]), Worth(y) = Worth(call[c]),
           OnTrial(y) = OnTrial(call[c]), y.attempts = call[c].attempts,
           y.lastErr = call[c].lastErr, y.answer = call[c].answer
    PROVE  UNCHANGED Abstract!vars
<1>1. /\ Phases' = [Phases EXCEPT ![c] = PhaseOf(y)]
      /\ Candidates' = [Candidates EXCEPT ![c] = Worth(y)]
      /\ Trials' = [Trials EXCEPT ![c] = OnTrial(y)]
      /\ Tries' = [Tries EXCEPT ![c] = y.attempts]
      /\ Failures' = [Failures EXCEPT ![c] = y.lastErr]
      /\ Given' = [Given EXCEPT ![c] = y.answer]
  BY MappedStep
<1>2. /\ Phases = [Phases EXCEPT ![c] = PhaseOf(call[c])]
      /\ Candidates = [Candidates EXCEPT ![c] = Worth(call[c])]
      /\ Trials = [Trials EXCEPT ![c] = OnTrial(call[c])]
      /\ Tries = [Tries EXCEPT ![c] = call[c].attempts]
      /\ Failures = [Failures EXCEPT ![c] = call[c].lastErr]
      /\ Given = [Given EXCEPT ![c] = call[c].answer]
  BY Mapped
<1> QED
  BY <1>1, <1>2 DEF Abstract!vars

LEMMA FinishedEnds ==
    ASSUME IInv, NEW c \in Callers, NEW kind \in Answers, Finished(c, kind)
    PROVE  Abstract!End(c, kind)
<1> DEFINE y == [Idle EXCEPT !.answer = kind,
                             !.attempts = IF kind = "Served"
                                          THEN call[c].attempts ELSE 0]
<1>1. call' = [call EXCEPT ![c] = y]
  BY DEF Finished
<1>2. call[c].attempts \in 0..N /\ 0 \in 0..N
  BY RouterAssumption DEF IInv, SafetyInv, TypeOK, Call
<1>3. y \in Call
  BY <1>2, IdleType DEF Call
<1>4. /\ PhaseOf(y) = "out" /\ Worth(y) = {} /\ OnTrial(y) = 0
      /\ y.lastErr = FALSE /\ y.answer = kind
      /\ y.attempts = IF kind = "Served" THEN call[c].attempts ELSE 0
  BY DEF Idle, PhaseOf, Worth, OnTrial
<1>5. TypeOK
  BY DEF IInv, SafetyInv
<1>6. /\ Phases' = [Phases EXCEPT ![c] = "out"]
      /\ Candidates' = [Candidates EXCEPT ![c] = {}]
      /\ Trials' = [Trials EXCEPT ![c] = 0]
      /\ Tries' = [Tries EXCEPT ![c] = IF kind = "Served" THEN call[c].attempts
                                        ELSE 0]
      /\ Failures' = [Failures EXCEPT ![c] = FALSE]
      /\ Given' = [Given EXCEPT ![c] = kind]
  <2> HIDE DEF y
  <2>1. /\ Phases' = [Phases EXCEPT ![c] = PhaseOf(y)]
        /\ Candidates' = [Candidates EXCEPT ![c] = Worth(y)]
        /\ Trials' = [Trials EXCEPT ![c] = OnTrial(y)]
        /\ Tries' = [Tries EXCEPT ![c] = y.attempts]
        /\ Failures' = [Failures EXCEPT ![c] = y.lastErr]
        /\ Given' = [Given EXCEPT ![c] = y.answer]
    BY <1>1, <1>3, <1>5, MappedStep
  <2> QED
    BY <1>4, <2>1
<1>7. Tries[c] = call[c].attempts
  BY Mapped
<1> QED
  BY <1>6, <1>7 DEF Abstract!End, Abstract!Goto

\* The scan, but for its end, and the count of a pick are not seen.
LEMMA HiddenSteps ==
    ASSUME IInv, NEW c \in Callers,
           ScanState(c) \/ ScanHint(c) \/ Completed(c)
    PROVE  UNCHANGED Abstract!vars
<1> DEFINE w == call[c]
<1>0. TypeOK /\ w \in Call /\ call \in [Callers -> Call]
  BY DEF IInv, SafetyInv, TypeOK
<1>1. \E y \in Call : call' = [call EXCEPT ![c] = y]
  BY ScanLocals, CompletedLocals
<1>2. PICK y \in Call : call' = [call EXCEPT ![c] = y]
  BY <1>1
<1>3. y = call'[c]
  BY <1>0, <1>2
<1>4. y.attempts = w.attempts /\ y.lastErr = w.lastErr /\ y.answer = w.answer
  <2>1. CASE ScanState(c) \/ ScanHint(c)
    BY <1>0, <1>3, <2>1 DEF ScanState, ScanHint, Call
  <2>2. CASE Completed(c)
    BY <1>0, <1>3, <2>2 DEF Completed, Call
  <2> QED
    BY <2>1, <2>2
<1>5. /\ PhaseOf(y) = PhaseOf(w) /\ Worth(y) = Worth(w)
      /\ OnTrial(y) = OnTrial(w)
  <2>1. CASE ScanState(c) \/ ScanHint(c)
    <3>1. w.pc \in {"scan", "hint"} /\ y.pc \in {"scan", "hint"}
      BY <1>0, <1>3, <2>1 DEF ScanState, ScanHint, Call, At
    <3> QED
      BY <3>1 DEF PhaseOf, Worth, OnTrial
  <2>2. CASE Completed(c)
    <3>1. /\ w.pc = "running" /\ y.pc = "counted"
          /\ y.healthy = w.healthy /\ y.chosen = w.chosen
      BY <1>0, <1>3, <2>2 DEF Completed, Call, At
    <3> QED
      BY <3>1 DEF PhaseOf, Worth, OnTrial
  <2> QED
    BY <2>1, <2>2
<1> QED
  BY <1>0, <1>2, <1>4, <1>5, Hidden

\* Neither is the reading of the counters.
LEMMA LoadHidden ==
    ASSUME IInv, NEW c \in Callers, Load(c)
    PROVE  UNCHANGED Abstract!vars
<1> DEFINE w == call[c]
<1>0. /\ TypeOK /\ w \in Call /\ call \in [Callers -> Call] /\ w.pc = "score"
  BY DEF IInv, SafetyInv, TypeOK, Load, At
<1>1. PICK y \in Call : call' = [call EXCEPT ![c] = y]
  BY LoadLocals
<1>2. y = call'[c]
  BY <1>0, <1>1
<1>3. PICK k \in w.unseen :
         call' = [call EXCEPT ![c].seen[k] = Signal(k),
                              ![c].unseen = @ \ {k}]
  BY <1>0, LoadOne
<1>4. /\ y.pc = "score" /\ y.healthy = w.healthy /\ y.attempts = w.attempts
      /\ y.lastErr = w.lastErr /\ y.answer = w.answer
  BY <1>0, <1>2, <1>3 DEF Call
<1>5. /\ PhaseOf(y) = PhaseOf(w) /\ Worth(y) = Worth(w)
      /\ OnTrial(y) = OnTrial(w)
  BY <1>0, <1>4 DEF PhaseOf, Worth, OnTrial
<1> QED
  BY <1>0, <1>1, <1>4, <1>5, Hidden

LEMMA BeginImplements ==
    ASSUME IInv, NEW c \in Callers, Begin(c)
    PROVE  Abstract!Begin(c)
<1> DEFINE w == call[c]
           y == [Idle EXCEPT !.pc = "scan"]
<1>1. TypeOK /\ call' = [call EXCEPT ![c] = y]
  BY DEF Begin, IInv, SafetyInv
<1>2. y \in Call
  BY IdleType DEF Call, PCs
<1>3. /\ PhaseOf(y) = "looking" /\ Worth(y) = {} /\ OnTrial(y) = 0
      /\ y.attempts = 0 /\ y.lastErr = FALSE /\ y.answer = "none"
  BY DEF Idle, PhaseOf, Worth, OnTrial
<1>4. /\ PhaseOf(w) = "out" /\ Worth(w) = {} /\ OnTrial(w) = 0
      /\ w.lastErr = FALSE
  BY DEF Begin, At, IInv, SafetyInv, Located, PhaseOf, Worth, OnTrial
<1> HIDE DEF y
<1>5. /\ Phases' = [Phases EXCEPT ![c] = "looking"]
      /\ Candidates' = [Candidates EXCEPT ![c] = {}]
      /\ Trials' = [Trials EXCEPT ![c] = 0]
      /\ Tries' = [Tries EXCEPT ![c] = 0]
      /\ Failures' = [Failures EXCEPT ![c] = FALSE]
      /\ Given' = [Given EXCEPT ![c] = "none"]
  <2>1. /\ Phases' = [Phases EXCEPT ![c] = PhaseOf(y)]
        /\ Candidates' = [Candidates EXCEPT ![c] = Worth(y)]
        /\ Trials' = [Trials EXCEPT ![c] = OnTrial(y)]
        /\ Tries' = [Tries EXCEPT ![c] = y.attempts]
        /\ Failures' = [Failures EXCEPT ![c] = y.lastErr]
        /\ Given' = [Given EXCEPT ![c] = y.answer]
    BY <1>1, <1>2, MappedStep
  <2> QED
    BY <1>3, <2>1
<1>6. /\ Phases[c] = "out"
      /\ Candidates = [Candidates EXCEPT ![c] = {}]
      /\ Trials = [Trials EXCEPT ![c] = 0]
      /\ Failures = [Failures EXCEPT ![c] = FALSE]
  BY <1>4, Mapped
<1> QED
  BY <1>5, <1>6 DEF Abstract!Begin, Abstract!Goto

LEMMA FindImplements ==
    ASSUME IInv, NEW c \in Callers, EndScan(c)
    PROVE  Abstract!Find(c)
<1> DEFINE w == call[c]
<1>0. TypeOK /\ w \in Call /\ call \in [Callers -> Call] /\ w.pc = "scan"
  BY DEF IInv, SafetyInv, TypeOK, EndScan, At
<1>1. /\ PhaseOf(w) = "looking" /\ Worth(w) = {} /\ OnTrial(w) = 0
  BY <1>0 DEF PhaseOf, Worth, OnTrial
<1>2. Phases[c] = "looking"
  BY <1>1, Mapped
<1>3. CASE w.healthy = {}
  <2>1. Abstract!End(c, "AllUnavailable")
    BY <1>3, FinishedEnds DEF EndScan, Answers
  <2> QED
    BY <1>2, <2>1 DEF Abstract!Find
<1>4. CASE w.healthy # {}
  <2> DEFINE y == [w EXCEPT !.pc = "score", !.unseen = w.healthy]
  <2>1. call' = [call EXCEPT ![c] = y]
    BY <1>4 DEF EndScan
  <2>2. y \in Call
    BY <1>0 DEF Call, PCs
  <2>3. /\ y.pc = "score" /\ y.healthy = w.healthy /\ y.attempts = w.attempts
        /\ y.lastErr = w.lastErr /\ y.answer = w.answer
    BY <1>0 DEF Call
  <2>4. /\ PhaseOf(y) = "choosing" /\ Worth(y) = w.healthy /\ OnTrial(y) = 0
    BY <2>3 DEF PhaseOf, Worth, OnTrial
  <2> HIDE DEF y
  <2>5. /\ Phases' = [Phases EXCEPT ![c] = "choosing"]
        /\ Candidates' = [Candidates EXCEPT ![c] = w.healthy]
        /\ Trials' = [Trials EXCEPT ![c] = 0]
        /\ Tries' = [Tries EXCEPT ![c] = w.attempts]
        /\ Failures' = [Failures EXCEPT ![c] = w.lastErr]
        /\ Given' = [Given EXCEPT ![c] = w.answer]
    <3>1. /\ Phases' = [Phases EXCEPT ![c] = PhaseOf(y)]
          /\ Candidates' = [Candidates EXCEPT ![c] = Worth(y)]
          /\ Trials' = [Trials EXCEPT ![c] = OnTrial(y)]
          /\ Tries' = [Tries EXCEPT ![c] = y.attempts]
          /\ Failures' = [Failures EXCEPT ![c] = y.lastErr]
          /\ Given' = [Given EXCEPT ![c] = y.answer]
      BY <1>0, <2>1, <2>2, MappedStep
    <3> QED
      BY <2>3, <2>4, <3>1
  <2>6. /\ Trials = [Trials EXCEPT ![c] = 0]
        /\ Tries = [Tries EXCEPT ![c] = w.attempts]
        /\ Failures = [Failures EXCEPT ![c] = w.lastErr]
        /\ Given = [Given EXCEPT ![c] = w.answer]
    BY <1>1, Mapped
  <2>7. UNCHANGED <<Trials, Tries, Failures, Given>>
    BY <2>5, <2>6
  <2>8. w.healthy \in (SUBSET Members) \ {{}}
    <3>1. w.healthy \in SUBSET Members
      BY <1>0 DEF Call
    <3> QED
      BY <1>4, <3>1
  <2> QED
    BY <1>2, <2>5, <2>7, <2>8 DEF Abstract!Find, Abstract!Goto
<1> QED
  BY <1>3, <1>4

LEMMA TryImplements ==
    ASSUME IInv, NEW c \in Callers, Dispatch(c)
    PROVE  Abstract!Try(c)
<1> DEFINE w == call[c]
<1>0. /\ TypeOK /\ w \in Call /\ call \in [Callers -> Call] /\ w.pc = "score"
      /\ Located(w) /\ strategy \in Strategies
  BY DEF IInv, SafetyInv, TypeOK, Dispatch, Scored, At
<1>1. /\ PhaseOf(w) = "choosing" /\ Worth(w) = w.healthy /\ OnTrial(w) = 0
  BY <1>0 DEF PhaseOf, Worth, OnTrial
<1>2. PICK y \in Call :
         /\ call' = [call EXCEPT ![c] = y]
         /\ Located(y) /\ Hinted(y)
         /\ y.pc = "running" /\ y.chosen \in Members
  BY DispatchLocals
<1>3. y = call'[c]
  BY <1>0, <1>2
<1>4. /\ y.healthy = w.healthy /\ y.attempts = w.attempts + 1
      /\ y.lastErr = w.lastErr /\ y.answer = w.answer
  BY <1>0, <1>3 DEF Dispatch, Call
<1>5. /\ PhaseOf(y) = "trying" /\ Worth(y) = w.healthy /\ OnTrial(y) = y.chosen
      /\ y.chosen \in w.healthy
  BY <1>2, <1>4 DEF PhaseOf, Worth, OnTrial, Located
<1>6. /\ Phases' = [Phases EXCEPT ![c] = "trying"]
      /\ Candidates' = [Candidates EXCEPT ![c] = w.healthy]
      /\ Trials' = [Trials EXCEPT ![c] = y.chosen]
      /\ Tries' = [Tries EXCEPT ![c] = w.attempts + 1]
      /\ Failures' = [Failures EXCEPT ![c] = w.lastErr]
      /\ Given' = [Given EXCEPT ![c] = w.answer]
  <2>1. /\ Phases' = [Phases EXCEPT ![c] = PhaseOf(y)]
        /\ Candidates' = [Candidates EXCEPT ![c] = Worth(y)]
        /\ Trials' = [Trials EXCEPT ![c] = OnTrial(y)]
        /\ Tries' = [Tries EXCEPT ![c] = y.attempts]
        /\ Failures' = [Failures EXCEPT ![c] = y.lastErr]
        /\ Given' = [Given EXCEPT ![c] = y.answer]
    BY <1>0, <1>2, MappedStep
  <2> QED
    BY <1>4, <1>5, <2>1
<1>7. /\ Phases[c] = "choosing"
      /\ Candidates = [Candidates EXCEPT ![c] = w.healthy]
      /\ Candidates[c] = w.healthy
      /\ Tries[c] = w.attempts
      /\ Failures = [Failures EXCEPT ![c] = w.lastErr]
      /\ Given = [Given EXCEPT ![c] = w.answer]
  BY <1>1, Mapped
<1>8. UNCHANGED <<Candidates, Failures, Given>>
  BY <1>6, <1>7
<1> QED
  BY <1>5, <1>6, <1>7, <1>8 DEF Abstract!Try, Abstract!Goto

\* What the abstract call has of one that serves a member.
LEMMA MappedServing ==
    ASSUME IInv, NEW c \in Callers, call[c].pc \in {"running", "counted"}
    PROVE  /\ Phases[c] = "trying" /\ Candidates[c] = call[c].healthy
           /\ Trials[c] = call[c].chosen /\ Failures[c] = call[c].lastErr
<1>1. /\ PhaseOf(call[c]) = "trying" /\ Worth(call[c]) = call[c].healthy
      /\ OnTrial(call[c]) = call[c].chosen
  BY DEF PhaseOf, Worth, OnTrial
<1> QED
  BY <1>1, Mapped

\* The call breaks off: success, an error to be kept, a score, the drop.
LEMMA EndImplements ==
    ASSUME IInv, NEW c \in Callers, Resolve(c) \/ Misscore(c) \/ Drop(c)
    PROVE  Abstract!Next
<1>1. CASE Resolve(c)
  <2>1. Phases[c] = "trying"
    BY <1>1, MappedServing DEF Resolve, At
  <2>2. PICK kind \in {"Served", "Exhausted"} : Finished(c, kind)
    BY <1>1 DEF Resolve
  <2>3. Abstract!End(c, kind)
    BY <2>2, FinishedEnds DEF Answers
  <2> QED
    BY <2>1, <2>3 DEF Abstract!Resolve, Abstract!Next
<1>2. CASE Misscore(c)
  <2>1. PhaseOf(call[c]) = "choosing"
    BY <1>2 DEF Misscore, Scored, At, PhaseOf
  <2>2. Phases[c] = "choosing"
    BY <2>1, Mapped
  <2>3. Abstract!End(c, "Score")
    BY <1>2, FinishedEnds DEF Misscore, Answers
  <2> QED
    BY <2>2, <2>3 DEF Abstract!Misscore, Abstract!Next
<1>3. CASE Drop(c)
  <2>1. Phases[c] = "trying"
    BY <1>3, MappedServing DEF Drop, At
  <2>2. Abstract!End(c, "none")
    BY <1>3, FinishedEnds DEF Drop, Answers
  <2> QED
    BY <2>1, <2>2 DEF Abstract!Drop, Abstract!Next
<1> QED
  BY <1>1, <1>2, <1>3

LEMMA AdvanceImplements ==
    ASSUME IInv, NEW c \in Callers, Advance(c)
    PROVE  Abstract!Advance(c)
<1> DEFINE w == call[c]
<1>0. /\ TypeOK /\ w \in Call /\ call \in [Callers -> Call] /\ w.pc = "counted"
  BY DEF IInv, SafetyInv, TypeOK, Advance, At
<1>1. /\ Phases[c] = "trying" /\ Candidates[c] = w.healthy
      /\ Trials[c] = w.chosen /\ Failures[c] = w.lastErr
      /\ Tries = [Tries EXCEPT ![c] = w.attempts]
      /\ Given = [Given EXCEPT ![c] = w.answer]
  <2>1. /\ Tries = [Tries EXCEPT ![c] = w.attempts]
        /\ Given = [Given EXCEPT ![c] = w.answer]
    BY Mapped
  <2> QED
    BY <1>0, <2>1, MappedServing
<1>2. w.chosen \in w.healthy
  BY <1>0, Serving
<1>3. PICK outcome \in Outcomes \cap {"transient", "other"} :
          LET error == w.lastErr \/ outcome = "transient"
          IN IF Left(c) = {}
             THEN Finished(c, IF error THEN "Exhausted" ELSE "AllUnavailable")
             ELSE call' = [call EXCEPT ![c].pc = "score",
                                       ![c].healthy = Left(c),
                                       ![c].unseen = Left(c),
                                       ![c].chosen = 0,
                                       ![c].lastErr = error]
  BY DEF Advance
<1> DEFINE failure == outcome = "transient"
           error == w.lastErr \/ failure
           kind == IF error THEN "Exhausted" ELSE "AllUnavailable"
<1>4. failure \in BOOLEAN
  OBVIOUS
<1>5. CASE Left(c) = {}
  <2>1. w.healthy = {w.chosen}
    BY <1>2, <1>5 DEF Left
  <2>2. Finished(c, kind) /\ kind \in Answers
    BY <1>3, <1>5 DEF Answers
  <2>3. Abstract!End(c, kind)
    BY <2>2, FinishedEnds
  <2> QED
    BY <1>1, <1>4, <2>1, <2>3 DEF Abstract!Advance
<1>6. CASE Left(c) # {}
  <2> DEFINE y == [w EXCEPT !.pc = "score", !.healthy = Left(c),
                            !.unseen = Left(c), !.chosen = 0,
                            !.lastErr = error]
  <2>1. call' = [call EXCEPT ![c] = y]
    BY <1>3, <1>6
  <2>2. Left(c) \in SUBSET Members /\ 0 \in 0..N /\ error \in BOOLEAN
    BY <1>0, RouterAssumption DEF Left, Call
  <2>3. y \in Call
    BY <1>0, <2>2 DEF Call, PCs
  <2>4. /\ y.pc = "score" /\ y.healthy = Left(c) /\ y.attempts = w.attempts
        /\ y.lastErr = error /\ y.answer = w.answer
    BY <1>0 DEF Call
  <2>5. /\ PhaseOf(y) = "choosing" /\ Worth(y) = Left(c) /\ OnTrial(y) = 0
    BY <2>4 DEF PhaseOf, Worth, OnTrial
  <2> HIDE DEF y
  <2>6. /\ Phases' = [Phases EXCEPT ![c] = "choosing"]
        /\ Candidates' = [Candidates EXCEPT ![c] = Left(c)]
        /\ Trials' = [Trials EXCEPT ![c] = 0]
        /\ Tries' = [Tries EXCEPT ![c] = w.attempts]
        /\ Failures' = [Failures EXCEPT ![c] = error]
        /\ Given' = [Given EXCEPT ![c] = w.answer]
    <3>1. /\ Phases' = [Phases EXCEPT ![c] = PhaseOf(y)]
          /\ Candidates' = [Candidates EXCEPT ![c] = Worth(y)]
          /\ Trials' = [Trials EXCEPT ![c] = OnTrial(y)]
          /\ Tries' = [Tries EXCEPT ![c] = y.attempts]
          /\ Failures' = [Failures EXCEPT ![c] = y.lastErr]
          /\ Given' = [Given EXCEPT ![c] = y.answer]
      BY <1>0, <2>1, <2>3, MappedStep
    <3> QED
      BY <2>4, <2>5, <3>1
  <2>7. UNCHANGED <<Tries, Given>>
    BY <1>1, <2>6
  <2>8. Candidates' = [Candidates EXCEPT ![c] = @ \ {Trials[c]}]
    BY <1>1, <2>6 DEF Left
  <2>9. Failures' = [Failures EXCEPT ![c] = Failures[c] \/ failure]
    BY <1>1, <2>6
  <2>10. Candidates[c] # {Trials[c]}
    BY <1>1, <1>6 DEF Left
  <2> QED
    BY <1>1, <1>4, <2>6, <2>7, <2>8, <2>9, <2>10
       DEF Abstract!Advance, Abstract!Goto
<1> QED
  BY <1>5, <1>6

LEMMA StepImplements ==
    ASSUME IInv, [Next]_vars
    PROVE  [Abstract!Next]_(Abstract!vars)
<1>1. ASSUME NEW c \in Callers, Begin(c) \/ Step(c) \/ Drop(c)
      PROVE  [Abstract!Next]_(Abstract!vars)
  <2>1. CASE ScanState(c) \/ ScanHint(c) \/ Load(c) \/ Completed(c)
    BY <2>1, HiddenSteps, LoadHidden
  <2>2. CASE Resolve(c) \/ Misscore(c) \/ Drop(c)
    BY <2>2, EndImplements
  <2>3. CASE Begin(c)
    BY <2>3, BeginImplements DEF Abstract!Next
  <2>4. CASE EndScan(c)
    BY <2>4, FindImplements DEF Abstract!Next
  <2>5. CASE Dispatch(c)
    BY <2>5, TryImplements DEF Abstract!Next
  <2>6. CASE Advance(c)
    BY <2>6, AdvanceImplements DEF Abstract!Next
  <2> QED
    BY <1>1, <2>1, <2>2, <2>3, <2>4, <2>5, <2>6 DEF Step
<1>2. ASSUME UNCHANGED call
      PROVE  UNCHANGED Abstract!vars
  <2>1. UNCHANGED <<Phases, Candidates, Trials>>
    BY <1>2 DEF Phases, Candidates, Trials, PhaseOf, Worth, OnTrial
  <2>2. UNCHANGED <<Tries, Failures, Given>>
    BY <1>2 DEF Tries, Failures, Given
  <2> QED
    BY <2>1, <2>2 DEF Abstract!vars
<1>3. (\E m \in Members : Trip(m)) \/ Tick \/ UNCHANGED vars => UNCHANGED call
  BY DEF Trip, Tick, vars
<1> QED
  BY <1>1, <1>2, <1>3 DEF Next

\* For any number of members and callers, of the members worth trying each is
\* tried at most once and one at a time, and the caller is answered by the first
\* success or permanent error, or by what became of all: run implements Failover.
THEOREM Refinement == Spec => ImplementsFailover
<1>1. Init => Abstract!Init
  <2> SUFFICES ASSUME Init PROVE Abstract!Init
    OBVIOUS
  <2>1. \A c \in Callers : call[c] = Idle
    BY DEF Init
  <2>2. /\ PhaseOf(Idle) = "out" /\ Worth(Idle) = {} /\ OnTrial(Idle) = 0
        /\ Idle.attempts = 0 /\ Idle.lastErr = FALSE /\ Idle.answer = "none"
    BY DEF Idle, PhaseOf, Worth, OnTrial
  <2>3. /\ Phases = [c \in Callers |-> "out"]
        /\ Candidates = [c \in Callers |-> {}]
        /\ Trials = [c \in Callers |-> 0]
    BY <2>1, <2>2 DEF Phases, Candidates, Trials
  <2>4. /\ Tries = [c \in Callers |-> 0]
        /\ Failures = [c \in Callers |-> FALSE]
        /\ Given = [c \in Callers |-> "none"]
    BY <2>1, <2>2 DEF Tries, Failures, Given
  <2> QED
    BY <2>3, <2>4 DEF Abstract!Init
<1>2. IInv /\ [Next]_vars => [Abstract!Next]_(Abstract!vars)
  BY StepImplements
<1> QED
  BY <1>1, <1>2, Invariance, PTL DEF Spec, ImplementsFailover, Abstract!Spec

-----------------------------------------------------------------------------
(* The balance of round_robin.                                              *)

Becomes(c, y) == call' = [call EXCEPT ![c] = y]

LEMMA LicencesStep ==
    ASSUME TypeOK, NEW c \in Callers, NEW y \in Call,
           call' = [call EXCEPT ![c] = y], NEW m \in Members, NEW v \in Nat
    PROVE  /\ Licensed(y, m, v) => Licences(m, v)' = Licences(m, v) \cup {c}
           /\ ~Licensed(y, m, v) => Licences(m, v)' = Licences(m, v) \ {c}
           /\ c \in Licences(m, v) <=> Licensed(call[c], m, v)
<1>1. call'[c] = y /\ \A d \in Callers \ {c} : call'[d] = call[d]
  BY OneCall
<1>2. Licences(m, v)' = {d \in Callers : Licensed(call'[d], m, v)}
  BY DEF Licences, Licensed
<1>3. Licences(m, v) = {d \in Callers : Licensed(call[d], m, v)}
  BY DEF Licences
<1> QED
  BY <1>1, <1>2, <1>3

LEMMA LicencesFinite ==
    ASSUME NEW S \in SUBSET Callers
    PROVE  /\ IsFiniteSet(S) /\ Cardinality(S) \in Nat
           /\ Cardinality(Callers) \in Nat
           /\ \A c \in S : Cardinality(S \ {c}) = Cardinality(S) - 1
           /\ \A c \in Callers \ S : Cardinality(S) <= Cardinality(Callers) - 1
<1>1. IsFiniteSet(Callers) /\ IsFiniteSet(S)
  BY RouterAssumption, FS_Subset
<1>2. Cardinality(Callers) \in Nat /\ Cardinality(S) \in Nat
  BY <1>1, FS_CardinalityType
<1>3. \A c \in S : Cardinality(S \ {c}) = Cardinality(S) - 1
  BY <1>1, FS_RemoveElement
<1>4. ASSUME NEW c \in Callers \ S
      PROVE  Cardinality(S) <= Cardinality(Callers) - 1
  <2>1. /\ IsFiniteSet(Callers \ {c})
        /\ Cardinality(Callers \ {c}) = Cardinality(Callers) - 1
    BY <1>1, FS_RemoveElement
  <2>2. S \subseteq Callers \ {c}
    OBVIOUS
  <2>3. Cardinality(S) <= Cardinality(Callers \ {c})
    BY <2>1, <2>2, FS_Subset
  <2> QED
    BY <2>1, <2>3
<1> QED
  BY <1>1, <1>2, <1>3, <1>4

\* What a step of a call does to the number of licences.
LEMMA LicencesCount ==
    ASSUME TypeOK, NEW c \in Callers, NEW y \in Call,
           Becomes(c, y), NEW m \in Members, NEW v \in Nat
    PROVE  /\ Cardinality(Licences(m, v)) \in Nat
           /\ Cardinality(Licences(m, v)') \in Nat
           /\ Cardinality(Callers) \in Nat
           /\ (Licensed(y, m, v) => Licensed(call[c], m, v)) =>
                 Cardinality(Licences(m, v)') <= Cardinality(Licences(m, v))
           /\ ~Licensed(y, m, v) =>
                 Cardinality(Licences(m, v)') <= Cardinality(Callers) - 1
           /\ ~Licensed(y, m, v) /\ Licensed(call[c], m, v) =>
                 Cardinality(Licences(m, v)') = Cardinality(Licences(m, v)) - 1
<1>1. PICK K, L \in SUBSET Callers :
         /\ K = Licences(m, v)' /\ L = Licences(m, v)
         /\ Licensed(y, m, v) => K = L \cup {c}
         /\ ~Licensed(y, m, v) => K = L \ {c}
         /\ c \in L <=> Licensed(call[c], m, v)
  <2>1. Licences(m, v)' \in SUBSET Callers /\ Licences(m, v) \in SUBSET Callers
    BY DEF Licences
  <2> QED
    BY <2>1, LicencesStep DEF Becomes
<1>2. /\ Cardinality(L) \in Nat /\ Cardinality(K) \in Nat
      /\ Cardinality(Callers) \in Nat
      /\ c \in L => Cardinality(L \ {c}) = Cardinality(L) - 1
      /\ c \notin K => Cardinality(K) <= Cardinality(Callers) - 1
  BY LicencesFinite
<1>3. ASSUME Licensed(y, m, v) => Licensed(call[c], m, v)
      PROVE  Cardinality(K) <= Cardinality(L)
  <2>1. K = L \/ (c \in L /\ K = L \ {c})
    BY <1>1, <1>3
  <2> QED
    BY <1>2, <2>1
<1>4. ASSUME ~Licensed(y, m, v)
      PROVE  /\ Cardinality(K) <= Cardinality(Callers) - 1
             /\ Licensed(call[c], m, v) => Cardinality(K) = Cardinality(L) - 1
  BY <1>1, <1>2, <1>4
<1> QED
  BY <1>1, <1>2, <1>3, <1>4

\* A step that counts no pick and grants no licence for a counter ahead.
LEMMA AccountKept ==
    ASSUME TypeOK, PicksAccounted, UNCHANGED picks,
           NEW c \in Callers, NEW y \in Call, call' = [call EXCEPT ![c] = y],
           \A m, n \in Members : \A v \in Nat :
              picks[n] <= v /\ v < picks[m] /\ Licensed(y, m, v)
                  => Licensed(call[c], m, v)
    PROVE  PicksAccounted'
<1> SUFFICES ASSUME NEW m \in Members, NEW n \in Members, NEW v \in Nat,
                    picks'[n] <= v, v < picks'[m]
             PROVE  picks'[m] + Cardinality(Licences(m, v)')
                        <= v + Cardinality(Callers)
  BY DEF PicksAccounted
<1>1. Licensed(y, m, v) => Licensed(call[c], m, v)
  OBVIOUS
<1>2. /\ Cardinality(Licences(m, v)) \in Nat
      /\ Cardinality(Licences(m, v)') \in Nat
      /\ Cardinality(Callers) \in Nat
      /\ Cardinality(Licences(m, v)') <= Cardinality(Licences(m, v))
  <2>1. Becomes(c, y)
    BY DEF Becomes
  <2> QED
    BY <1>1, <2>1, LicencesCount
<1>3. picks[m] + Cardinality(Licences(m, v)) <= v + Cardinality(Callers)
  BY DEF PicksAccounted
<1>4. picks'[m] = picks[m] /\ picks[m] \in Nat
  BY DEF TypeOK
<1> QED
  BY <1>2, <1>3, <1>4

\* record_attempt: the caller spends the licence it has held since it read the
\* counter; past a value the counter just leaves, all others may still hold one.
LEMMA AccountCounted ==
    ASSUME TypeOK, PicksAccounted, NEW c \in Callers, NEW y \in Call,
           NEW k \in Members,
           call' = [call EXCEPT ![c] = y], y.pc = "counted",
           call[c].pc = "running", call[c].chosen = k,
           picks' = [picks EXCEPT ![k] = @ + 1]
    PROVE  PicksAccounted'
<1> SUFFICES ASSUME NEW m \in Members, NEW n \in Members, NEW v \in Nat,
                    picks'[n] <= v, v < picks'[m]
             PROVE  picks'[m] + Cardinality(Licences(m, v)')
                        <= v + Cardinality(Callers)
  BY DEF PicksAccounted
<1>1. ~Licensed(y, m, v) /\ (m = k => Licensed(call[c], m, v))
  BY DEF Licensed
<1>2. /\ Cardinality(Licences(m, v)) \in Nat
      /\ Cardinality(Licences(m, v)') \in Nat
      /\ Cardinality(Callers) \in Nat
      /\ Cardinality(Licences(m, v)') <= Cardinality(Licences(m, v))
      /\ Cardinality(Licences(m, v)') <= Cardinality(Callers) - 1
      /\ m = k => Cardinality(Licences(m, v)') = Cardinality(Licences(m, v)) - 1
  <2>1. /\ Cardinality(Licences(m, v)) \in Nat
        /\ Cardinality(Licences(m, v)') \in Nat
        /\ Cardinality(Callers) \in Nat
        /\ (Licensed(y, m, v) => Licensed(call[c], m, v)) =>
              Cardinality(Licences(m, v)') <= Cardinality(Licences(m, v))
        /\ ~Licensed(y, m, v) =>
              Cardinality(Licences(m, v)') <= Cardinality(Callers) - 1
        /\ ~Licensed(y, m, v) /\ Licensed(call[c], m, v) =>
              Cardinality(Licences(m, v)') = Cardinality(Licences(m, v)) - 1
    <3>1. Becomes(c, y)
      BY DEF Becomes
    <3> QED
      BY <3>1, LicencesCount
  <2> QED
    BY <1>1, <2>1
<1>3. /\ picks[m] \in Nat /\ picks[n] \in Nat
      /\ picks'[m] = IF m = k THEN picks[m] + 1 ELSE picks[m]
      /\ picks[n] <= picks'[n]
  BY DEF TypeOK
<1>4. picks[n] <= v
  <2>1. picks'[n] \in Nat
    BY DEF TypeOK
  <2> QED
    BY <1>3, <2>1
<1>5. v < picks[m] =>
         picks[m] + Cardinality(Licences(m, v)) <= v + Cardinality(Callers)
  BY <1>4 DEF PicksAccounted
<1>6. CASE m = k /\ v < picks[m]
  BY <1>2, <1>3, <1>5, <1>6
<1>7. CASE m = k /\ v = picks[m]
  BY <1>2, <1>3, <1>7
<1>8. CASE m # k
  BY <1>2, <1>3, <1>5, <1>8
<1> QED
  BY <1>3, <1>6, <1>7, <1>8

Balanced == (\A c \in Callers : Undisturbed(call[c])) /\ PicksAccounted

\* A call whose locals hold no licence for a counter ahead, in a step that counts
\* no pick.
LEMMA BalanceKept ==
    ASSUME IInv, Balanced, UNCHANGED picks,
           NEW c \in Callers, NEW y \in Call, call' = [call EXCEPT ![c] = y],
           Undisturbed(y),
           \A m, n \in Members : \A v \in Nat :
              picks[n] <= v /\ v < picks[m] /\ Licensed(y, m, v)
                  => Licensed(call[c], m, v)
    PROVE  Balanced'
<1>1. TypeOK /\ PicksAccounted
  BY DEF IInv, SafetyInv, Balanced
<1>2. PicksAccounted'
  BY <1>1, AccountKept
<1>3. call'[c] = y /\ \A d \in Callers \ {c} : call'[d] = call[d]
  BY <1>1, OneCall
<1>4. \A d \in Callers : Undisturbed(call'[d])
  BY <1>3 DEF Balanced
<1>5. (\A d \in Callers : Undisturbed(call[d]))'
  BY <1>4 DEF Undisturbed
<1> QED
  BY <1>2, <1>5 DEF Balanced

LEMMA FinishedBalance ==
    ASSUME IInv, Balanced, UNCHANGED picks,
           NEW c \in Callers, NEW kind \in Answers, Finished(c, kind)
    PROVE  Balanced'
<1>1. PICK y \in Call :
         call' = [call EXCEPT ![c] = y] /\ y.pc = "idle"
  BY FinishedLocals
<1>2. Undisturbed(y) /\ \A m \in Members : \A v \in Nat : ~Licensed(y, m, v)
  BY <1>1 DEF Undisturbed, Licensed
<1> QED
  BY <1>1, <1>2, BalanceKept

\* The scan skips no member, so it finds them all.
LEMMA ScanBalance ==
    ASSUME IInv, Balanced, RoundRobin', NEW c \in Callers,
           Begin(c) \/ ScanState(c) \/ ScanHint(c) \/ EndScan(c)
    PROVE  Balanced'
<1> DEFINE w == call[c]
<1>0. /\ TypeOK /\ w \in Call /\ call \in [Callers -> Call] /\ N \in Nat \ {0}
      /\ Undisturbed(w) /\ UNCHANGED picks /\ calm'
  BY RouterAssumption
     DEF IInv, SafetyInv, TypeOK, Balanced, RoundRobin, Begin, ScanState,
         ScanHint, EndScan, shared
<1>1. PICK y \in Call :
         /\ call' = [call EXCEPT ![c] = y]
         /\ y.pc \in {"idle", "scan", "hint", "score"}
  BY ScanLocals
<1>2. y = call'[c]
  BY <1>0, <1>1
<1>3. CASE Begin(c)
  <2>1. y.pc = "scan" /\ y.healthy = {} /\ y.next = 1
    BY <1>0, <1>2, <1>3 DEF Begin, Idle
  <2>2. Undisturbed(y)
    BY <2>1 DEF Undisturbed
  <2>3. \A m \in Members : \A v \in Nat : ~Licensed(y, m, v)
    BY <2>1 DEF Licensed
  <2> QED
    BY <1>0, <1>1, <2>2, <2>3, BalanceKept
<1>4. CASE ScanState(c)
  <2>1. /\ w.pc = "scan" /\ w.next \in 1..N /\ ~Cooling(w.next)
        /\ w.healthy = 1..(w.next - 1)
    BY <1>0, <1>4 DEF ScanState, Undisturbed, At, Members
  <2>2. /\ y.pc = "scan" /\ y.next = w.next + 1
        /\ y.healthy = w.healthy \cup {w.next}
    BY <1>0, <1>2, <1>4, <2>1 DEF ScanState, Call
  <2>3. y.healthy = 1..(y.next - 1)
    BY <2>1, <2>2
  <2>4. Undisturbed(y)
    BY <2>2, <2>3 DEF Undisturbed
  <2>5. \A m \in Members : \A v \in Nat : ~Licensed(y, m, v)
    BY <2>2 DEF Licensed
  <2> QED
    BY <1>0, <1>1, <2>4, <2>5, BalanceKept
<1>5. CASE ScanHint(c)
  BY <1>0, <1>5 DEF ScanHint, Undisturbed, At
<1>6. CASE EndScan(c)
  <2>1. w.pc = "scan" /\ w.next = N + 1 /\ w.healthy = Members
    <3>1. w.pc = "scan" /\ w.next = N + 1 /\ w.healthy = 1..(w.next - 1)
      BY <1>0, <1>6 DEF EndScan, Undisturbed, At
    <3>2. w.next - 1 = N
      BY <1>0, <3>1
    <3> QED
      BY <3>1, <3>2 DEF Members
  <2>2. w.healthy # {}
    <3>1. 1 \in Members
      BY <1>0 DEF Members
    <3> QED
      BY <2>1, <3>1
  <2>3. y.pc = "score" /\ y.healthy = Members /\ y.unseen = Members
    BY <1>0, <1>2, <1>6, <2>1, <2>2 DEF EndScan, Call
  <2>4. Undisturbed(y)
    BY <2>3 DEF Undisturbed
  <2>5. \A m \in Members : \A v \in Nat : ~Licensed(y, m, v)
    BY <2>3 DEF Licensed
  <2> QED
    BY <1>0, <1>1, <2>4, <2>5, BalanceKept
<1> QED
  BY <1>3, <1>4, <1>5, <1>6

\* What is read of a counter that is past v is past v.
LEMMA LoadBalance ==
    ASSUME IInv, Balanced, RoundRobin, NEW c \in Callers, Load(c)
    PROVE  Balanced'
<1> DEFINE w == call[c]
<1>0. /\ TypeOK /\ w \in Call /\ call \in [Callers -> Call] /\ w.pc = "score"
      /\ Undisturbed(w) /\ UNCHANGED picks /\ picks \in [Members -> Nat]
      /\ w.unseen \in SUBSET Members /\ w.unseen # {}
  BY DEF IInv, SafetyInv, TypeOK, Balanced, Load, shared, At, Call
<1>1. PICK y \in Call : call' = [call EXCEPT ![c] = y]
  BY LoadLocals
<1>2. y = call'[c]
  BY <1>0, <1>1
<1>3. PICK k \in w.unseen :
         call' = [call EXCEPT ![c].seen[k] = Signal(k),
                              ![c].unseen = @ \ {k}]
  BY <1>0, LoadOne
<1>4. k \in w.unseen /\ k \in Members
  BY <1>0
<1>5. /\ y.pc = "score" /\ y.healthy = w.healthy /\ y.unseen = w.unseen \ {k}
      /\ y.seen = [w.seen EXCEPT ![k] = Signal(k)]
  BY <1>0, <1>2, <1>3 DEF Call
<1>6. Signal(k) = picks[k]
  BY DEF Signal, RoundRobin
<1>7. \A m \in Members : y.seen[m] = IF m = k THEN picks[k] ELSE w.seen[m]
  <2>1. w.seen \in [Members -> Nat]
    BY <1>0 DEF Call
  <2> QED
    BY <1>4, <1>5, <1>6, <2>1
<1>8. Undisturbed(y)
  <2>1. /\ w.healthy = Members
        /\ \A m \in Members \ w.unseen : w.seen[m] <= picks[m]
    BY <1>0 DEF Undisturbed
  <2>2. \A m \in Members \ y.unseen : y.seen[m] <= picks[m]
    BY <1>0, <1>4, <1>5, <1>7, <2>1
  <2> QED
    BY <1>5, <2>1, <2>2 DEF Undisturbed
<1>9. ASSUME NEW m \in Members, NEW v \in Nat, v < picks[m], Licensed(y, m, v)
      PROVE  Licensed(w, m, v)
  <2>1. m \notin y.unseen /\ y.seen[m] <= v
    BY <1>5, <1>9 DEF Licensed
  <2>2. m # k
    BY <1>0, <1>4, <1>7, <1>9, <2>1
  <2> QED
    BY <1>0, <1>5, <1>7, <2>1, <2>2 DEF Licensed
<1> QED
  BY <1>0, <1>1, <1>8, <1>9, BalanceKept

\* The best score is read of every member: it is chosen for a counter past v
\* only by a caller that read at most v of it.
LEMMA DispatchBalance ==
    ASSUME IInv, Balanced, RoundRobin, NEW c \in Callers, Dispatch(c)
    PROVE  Balanced'
<1> DEFINE w == call[c]
<1>0. /\ TypeOK /\ w \in Call /\ call \in [Callers -> Call]
      /\ w.pc = "score" /\ w.unseen = {} /\ w.healthy = Members
      /\ w.seen \in [Members -> Nat]
      /\ \A m \in Members : w.seen[m] <= picks[m]
      /\ UNCHANGED picks /\ picks \in [Members -> Nat]
      /\ strategy \in Strategies
  BY DEF IInv, SafetyInv, TypeOK, Balanced, Dispatch, Scored, At, Call,
         Undisturbed
<1>1. PICK y \in Call :
         /\ call' = [call EXCEPT ![c] = y]
         /\ y.pc = "running" /\ y.chosen \in Members
  BY DispatchLocals
<1>2. y = call'[c]
  BY <1>0, <1>1
<1>3. PICK sampled \in Samples(w.healthy) : \E m \in sampled :
          /\ IsBest(m, sampled, w.seen)
          /\ call' = [call EXCEPT ![c].pc = "running",
                                  ![c].chosen = m,
                                  ![c].attempts = @ + 1,
                                  ![c].seen = Idle.seen]
  BY DEF Dispatch
<1>4. sampled = Members
  BY <1>0, <1>3, SampledCandidates DEF RoundRobin
<1>5. PICK k \in Members :
          /\ IsBest(k, Members, w.seen)
          /\ call' = [call EXCEPT ![c].pc = "running",
                                  ![c].chosen = k,
                                  ![c].attempts = @ + 1,
                                  ![c].seen = Idle.seen]
  BY <1>3, <1>4
<1>6. y.chosen = k /\ y.healthy = Members
  BY <1>0, <1>2, <1>5 DEF Call
<1>7. \A n \in Members : w.seen[k] <= w.seen[n]
  BY <1>0, <1>5 DEF IsBest, RoundRobin
<1>8. Undisturbed(y)
  BY <1>1, <1>6 DEF Undisturbed
<1>9. ASSUME NEW m \in Members, NEW n \in Members, NEW v \in Nat,
             picks[n] <= v, Licensed(y, m, v)
      PROVE  Licensed(w, m, v)
  <2>1. m = k
    BY <1>1, <1>6, <1>9 DEF Licensed
  <2>2. w.seen[k] <= w.seen[n] /\ w.seen[n] <= picks[n]
    BY <1>0, <1>7
  <2>3. w.seen[m] <= v
    BY <1>0, <1>9, <2>1, <2>2
  <2> QED
    BY <1>0, <2>3 DEF Licensed
<1> QED
  BY <1>0, <1>1, <1>8, <1>9, BalanceKept

LEMMA CompletedBalance ==
    ASSUME IInv, Balanced, NEW c \in Callers, Completed(c)
    PROVE  Balanced'
<1> DEFINE w == call[c]
<1>0. /\ TypeOK /\ w \in Call /\ call \in [Callers -> Call] /\ w.pc = "running"
      /\ Undisturbed(w) /\ picks \in [Members -> Nat]
      /\ picks' = [picks EXCEPT ![w.chosen] = @ + 1]
  BY DEF IInv, SafetyInv, TypeOK, Balanced, Completed, At
<1>1. PICK y \in Call :
         /\ call' = [call EXCEPT ![c] = y] /\ y.pc = "counted"
  BY CompletedLocals
<1>2. y = call'[c]
  BY <1>0, <1>1
<1>3. y.healthy = Members
  BY <1>0, <1>2 DEF Completed, Call, Undisturbed
<1>4. w.chosen \in Members
  BY <1>0, Serving
<1>5. PicksAccounted'
  BY <1>0, <1>1, <1>4, AccountCounted DEF Balanced
<1>6. \A m \in Members : picks[m] \in Nat /\ picks'[m] \in Nat /\ picks[m] <= picks'[m]
  BY <1>0, <1>4
<1>7. \A d \in Callers \ {c} : call'[d] = call[d] /\ call[d] \in Call
  BY <1>0, <1>1, OneCall
<1>8. ASSUME NEW d \in Callers
      PROVE  Undisturbed(call[d])'
  <2>1. CASE d = c
    BY <1>1, <1>2, <1>3, <2>1 DEF Undisturbed
  <2>2. CASE d # c
    <3>1. Undisturbed(call[d]) /\ call[d].seen \in [Members -> Nat]
      BY <1>7, <2>2 DEF Balanced, Call
    <3>2. call'[d] = call[d]
      BY <1>7, <2>2
    <3>3. call[d].pc = "score" =>
             \A m \in Members \ call[d].unseen : call[d].seen[m] <= picks'[m]
      BY <1>6, <3>1 DEF Undisturbed
    <3> QED
      BY <3>1, <3>2, <3>3 DEF Undisturbed
  <2> QED
    BY <2>1, <2>2
<1> QED
  BY <1>5, <1>8 DEF Balanced

LEMMA InitBalance == Init => BalanceInv
<1> SUFFICES ASSUME Init PROVE BalanceInv
  OBVIOUS
<1>1. \A c \in Callers : Undisturbed(call[c])
  BY DEF Init, Idle, Undisturbed
<1>2. PicksAccounted
  BY DEF Init, PicksAccounted
<1> QED
  BY <1>1, <1>2 DEF BalanceInv

LEMMA NextBalance == IInv /\ BalanceInv /\ [Next]_vars => BalanceInv'
<1> SUFFICES ASSUME IInv, BalanceInv, [Next]_vars, RoundRobin'
             PROVE  Balanced'
  BY DEF BalanceInv, Balanced
<1>1. UNCHANGED strategy /\ (calm' => calm)
  <2>1. ASSUME NEW c \in Callers, Begin(c) \/ ScanState(c) \/ ScanHint(c)
      PROVE  UNCHANGED strategy /\ (calm' => calm)
    BY <2>1 DEF Begin, ScanState, ScanHint
  <2>2. ASSUME NEW c \in Callers, EndScan(c) \/ Load(c) \/ Misscore(c) \/ Drop(c)
      PROVE  UNCHANGED strategy /\ (calm' => calm)
    BY <2>2 DEF EndScan, Load, Misscore, Drop
  <2>3. ASSUME NEW c \in Callers,
               Dispatch(c) \/ Completed(c) \/ Resolve(c) \/ Advance(c)
      PROVE  UNCHANGED strategy /\ (calm' => calm)
    <3>1. Dispatch(c) => UNCHANGED <<strategy, calm>>
      BY DEF Dispatch
    <3>2. Completed(c) => UNCHANGED <<strategy, calm>>
      BY DEF Completed
    <3>3. Resolve(c) => UNCHANGED <<strategy, calm>>
      BY DEF Resolve
    <3>4. Advance(c) => UNCHANGED strategy /\ ~calm'
      BY DEF Advance
    <3> QED
      BY <2>3, <3>1, <3>2, <3>3, <3>4
  <2>4. (\E m \in Members : Trip(m)) \/ Tick \/ UNCHANGED vars
           => UNCHANGED strategy /\ (calm' => calm)
    BY DEF Trip, Tick, vars
  <2> QED
    BY <2>1, <2>2, <2>3, <2>4 DEF Next, Step
<1>2. RoundRobin /\ Balanced
  BY <1>1 DEF RoundRobin, BalanceInv, Balanced
<1>3. ASSUME NEW c \in Callers, Begin(c) \/ Step(c) \/ Drop(c)
      PROVE  Balanced'
  <2>1. CASE Begin(c) \/ ScanState(c) \/ ScanHint(c) \/ EndScan(c)
    BY <1>2, <2>1, ScanBalance
  <2>2. CASE Load(c)
    BY <1>2, <2>2, LoadBalance
  <2>3. CASE Dispatch(c)
    BY <1>2, <2>3, DispatchBalance
  <2>4. CASE Completed(c)
    BY <1>2, <2>4, CompletedBalance
  <2>5. CASE Misscore(c) \/ Resolve(c) \/ Drop(c)
    <3>1. UNCHANGED picks /\ \E kind \in Answers : Finished(c, kind)
      BY <2>5 DEF Misscore, Resolve, Drop, Answers, shared
    <3> QED
      BY <1>2, <3>1, FinishedBalance
  <2>6. CASE Advance(c)
    BY <2>6 DEF Advance, RoundRobin
  <2> QED
    BY <1>3, <2>1, <2>2, <2>3, <2>4, <2>5, <2>6 DEF Step
<1>4. ASSUME UNCHANGED <<call, picks>>
      PROVE  Balanced'
  <2>1. (\A c \in Callers : Undisturbed(call[c]))'
    BY <1>2, <1>4 DEF Balanced, Undisturbed
  <2>2. \A m \in Members : \A v \in Nat : Licences(m, v)' = Licences(m, v)
    BY <1>4 DEF Licences, Licensed
  <2>3. PicksAccounted'
    BY <1>2, <1>4, <2>2 DEF Balanced, PicksAccounted
  <2> QED
    BY <2>1, <2>3 DEF Balanced
<1>5. (\E m \in Members : Trip(m)) \/ Tick \/ UNCHANGED vars
         => UNCHANGED <<call, picks>>
  BY DEF Trip, Tick, vars, shared
<1> QED
  BY <1>3, <1>4, <1>5 DEF Next

\* For any number of members and callers: round_robin leaves no member behind
\* another by more picks than there are callers, while none is skipped or failed
\* over, although a pick counts at its end and counters are read one by one.
THEOREM PicksBalancedHolds == Spec => []PicksBalanced
<1>1. IInv /\ BalanceInv => PicksBalanced
  <2> SUFFICES ASSUME IInv, BalanceInv, RoundRobin,
                      NEW m \in Members, NEW n \in Members
               PROVE  picks[m] <= picks[n] + Cardinality(Callers)
    BY DEF PicksBalanced, RoundRobin
  <2>1. /\ picks[m] \in Nat /\ picks[n] \in Nat
        /\ Cardinality(Callers) \in Nat
        /\ Cardinality(Licences(m, picks[n])) \in Nat
    <3>1. Licences(m, picks[n]) \in SUBSET Callers
      BY DEF Licences
    <3> QED
      BY <3>1, LicencesFinite DEF IInv, SafetyInv, TypeOK
  <2>2. picks[n] < picks[m] =>
           picks[m] + Cardinality(Licences(m, picks[n]))
              <= picks[n] + Cardinality(Callers)
    <3>1. PicksAccounted
      BY DEF BalanceInv
    <3> QED
      BY <2>1, <3>1 DEF PicksAccounted
  <2> QED
    BY <2>1, <2>2
<1> QED
  BY <1>1, Invariance, InitBalance, NextBalance, PTL DEF Spec
=============================================================================
