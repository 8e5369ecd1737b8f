-------------------------- MODULE GateLimiter_proofs --------------------------
(***************************************************************************)
(* Proofs about GateLimiter, for any attempts, gates, policies and clocks. *)
(* All rest on one fact: although callers pass old samples and the clock   *)
(* may be set back, the starts recorded at a gate never go back in time,   *)
(* because the interval, even when it is 0, is measured from the last one. *)
(***************************************************************************)
EXTENDS GateLimiter, FiniteSetTheorems, TLAPS

\* A reservation is made at most once, and then the attempt has a start.
StartedOnce == \A a \in Attempts : gates[a] = "waiting" <=> startedAt[a] = NoTime

\* last_started_at is not before any start at the gate.
LastIsLatest == \A x \in Keys : \A b \in Started(x) : startedAt[b] <= last[x]

\* The row's cooldown covers every answer that was recorded.
CooldownCovers == \A b \in Attempts : told[b] <= cooldown[ProviderOf[b]]

GateInv ==
    /\ TypeOK
    /\ StartedOnce
    /\ LastIsLatest
    /\ CooldownCovers
    /\ SpacingKept
    /\ WindowKept

-------------------------------------------------------------------------------
\* The limits of an attempt at a gate are natural numbers.
LEMMA LimitTypes ==
    ASSUME NEW a \in Attempts, NEW x \in Keys
    PROVE  /\ Limit(Interval, a, x) \in Nat
           /\ Limit(Window, a, x) \in Nat
           /\ Limit(PerWindow, a, x) \in Nat
  <1>1. PolicyOf[a] \in Policies
    BY DEF Policies
  <1> QED
    BY <1>1, GateLimiterAssumption DEF GateLimiterAssumption, Limit

\* A provider's gate is one of the gates.
LEMMA ProviderIsKey ==
    ASSUME NEW a \in Attempts
    PROVE  ProviderOf[a] \in Keys
  BY GateLimiterAssumption DEF GateLimiterAssumption, Keys

\* The attempts that started at a gate are finitely many.
LEMMA StartsFinite ==
    ASSUME NEW x, NEW S, S \subseteq Started(x)
    PROVE  IsFiniteSet(S)
  <1>1. IsFiniteSet(Attempts) /\ S \subseteq Attempts
    BY GateLimiterAssumption DEF GateLimiterAssumption, Started
  <1> QED
    BY <1>1, FS_Subset

-------------------------------------------------------------------------------
\* Every step keeps the types.
LEMMA TypeStep == TypeOK /\ [Next]_vars => TypeOK'
  <1> SUFFICES ASSUME TypeOK, [Next]_vars PROVE TypeOK'
    OBVIOUS
  <1> USE DEF TypeOK, Times, NoTime
  <1>1. CASE Tick
    BY <1>1 DEF Tick
  <1>2. CASE SetBack
    <2>1. clock' \in Nat
      BY <1>2, GateLimiterAssumption DEF SetBack, GateLimiterAssumption
    <2> QED
      BY <1>2, <2>1 DEF SetBack
  <1>3. CASE RecoverGates
    BY <1>3 DEF RecoverGates, time
  <1>4. ASSUME NEW a \in Attempts, Sample(a) PROVE TypeOK'
    BY <1>4 DEF Sample, time
  <1>5. ASSUME NEW a \in Attempts, AcquireGates(a) PROVE TypeOK'
    BY <1>5 DEF AcquireGates, time
  <1>6. ASSUME NEW a \in Attempts, ReleaseGates(a) PROVE TypeOK'
    BY <1>6 DEF ReleaseGates, time
  <1>7. ASSUME NEW a \in Attempts, RecordRetryAfter(a) PROVE TypeOK'
    <2>1. PICK seconds \in RetryAfters :
              /\ gates' = [gates EXCEPT ![a] = "released"]
              /\ ProlongCooldown(ProviderOf[a], sample[a] + seconds)
              /\ told' = [told EXCEPT ![a] = sample[a] + seconds]
              /\ UNCHANGED <<time, sample, startedAt, last>>
      BY <1>7 DEF RecordRetryAfter
    <2>2. sample[a] + seconds \in Nat
      BY GateLimiterAssumption DEF GateLimiterAssumption
    <2>3. cooldown' \in [Keys -> Times]
      BY <2>1, <2>2 DEF ProlongCooldown
    <2> QED
      BY <2>1, <2>2, <2>3 DEF time
  <1>8. ASSUME NEW a \in Attempts, CancelRequest(a) PROVE TypeOK'
    BY <1>8 DEF CancelRequest, time
  <1>9. CASE UNCHANGED vars
    BY <1>9 DEF vars
  <1> QED
    BY <1>1, <1>2, <1>3, <1>4, <1>5, <1>6, <1>7, <1>8, <1>9 DEF Next

\* Rows hold values of their types: the gate tables of the repository, for every
\* number of attempts, gates and policies.
THEOREM TypeCorrect == Spec => []TypeOK
  <1>1. Init => TypeOK
    BY DEF Init, TypeOK, Times, NoTime
  <1> QED
    BY <1>1, TypeStep, PTL DEF Spec

-------------------------------------------------------------------------------
(* What acquire_gates establishes.                                          *)

\* An open gate lies at or after every start recorded there, by the interval of
\* the attempt that passes.
LEMMA OpenIsLater ==
    ASSUME GateInv, NEW c \in Attempts, AcquireGates(c), NEW x \in KeysOf[c],
           NEW b \in Started(x)
    PROVE  /\ b # c
           /\ sample[c] >= startedAt[b] + Limit(Interval, c, x)
           /\ sample[c] >= startedAt[b]
  <1>1. x \in Keys
    BY DEF Keys
  <1>2. startedAt[b] \in Nat /\ last[x] \in Times /\ startedAt[b] <= last[x]
    BY <1>1 DEF GateInv, TypeOK, Times, NoTime, LastIsLatest, Started
  <1>3. last[x] # NoTime
    BY <1>2 DEF NoTime, Times
  <1>4. sample[c] >= last[x] + Limit(Interval, c, x)
    BY <1>3 DEF AcquireGates, Open, IntervalPassed
  <1>5. Limit(Interval, c, x) \in Nat /\ sample[c] \in Nat
    BY <1>1, LimitTypes DEF GateInv, TypeOK
  <1>6. b # c
    BY DEF AcquireGates, GateInv, StartedOnce, Started
  <1> QED
    BY <1>2, <1>3, <1>4, <1>5, <1>6 DEF Times, NoTime

\* The starts at a gate after the step: c's own is added at the gates it passes.
LEMMA StartedAfter ==
    ASSUME GateInv, NEW c \in Attempts, AcquireGates(c), NEW x \in Keys
    PROVE  /\ Started(x)' = Started(x) \cup (IF x \in KeysOf[c] THEN {c} ELSE {})
           /\ startedAt'[c] = sample[c]
           /\ \A b \in Attempts \ {c} : startedAt'[b] = startedAt[b]
           /\ c \notin Started(x)
  <1>1. startedAt \in [Attempts -> Times] /\ sample[c] \in Nat
    BY DEF GateInv, TypeOK
  <1>2. startedAt'[c] = sample[c] /\ \A b \in Attempts \ {c} : startedAt'[b] = startedAt[b]
    BY <1>1 DEF AcquireGates
  <1>3. startedAt[c] = NoTime
    BY DEF AcquireGates, GateInv, StartedOnce
  <1> QED
    BY <1>1, <1>2, <1>3 DEF Started, NoTime

LEMMA AcquireKeepsSpacing ==
    ASSUME GateInv, NEW c \in Attempts, AcquireGates(c)
    PROVE  SpacingKept'
  <1> SUFFICES ASSUME NEW x \in Keys, NEW a \in Started(x)', NEW b \in Started(x)', a # b
               PROVE  \/ startedAt'[b] >= startedAt'[a] + Limit(Interval, b, x)
                      \/ startedAt'[a] >= startedAt'[b] + Limit(Interval, a, x)
    BY DEF SpacingKept, Limit
  <1>0. a \in Attempts /\ b \in Attempts
    BY DEF Started
  <1>1. CASE a = c
    <2>1. x \in KeysOf[c] /\ b \in Started(x)
      BY <1>1, StartedAfter
    <2> QED
      BY <1>0, <1>1, <2>1, OpenIsLater, StartedAfter
  <1>2. CASE b = c
    <2>1. x \in KeysOf[c] /\ a \in Started(x)
      BY <1>2, StartedAfter
    <2> QED
      BY <1>0, <1>2, <2>1, OpenIsLater, StartedAfter
  <1>3. CASE a # c /\ b # c
    <2>1. a \in Started(x) /\ b \in Started(x)
      BY <1>3, StartedAfter
    <2> QED
      BY <1>0, <1>3, <2>1, StartedAfter DEF GateInv, SpacingKept
  <1> QED
    BY <1>1, <1>2, <1>3

\* A window that ends at an earlier start does not hold the new one; one that ends at
\* the new start, or at an older start of the same time and policy, had room for it.
LEMMA AcquireKeepsWindow ==
    ASSUME GateInv, NEW c \in Attempts, AcquireGates(c)
    PROVE  WindowKept'
  <1> SUFFICES ASSUME NEW x \in Keys, NEW a \in Started(x)'
               PROVE  Cardinality(Limited(a, x)') <= Limit(PerWindow, a, x)
    BY DEF WindowKept, Limit
  <1>0. /\ a \in Attempts
        /\ \A b \in Started(x) : b \in Attempts /\ startedAt[b] \in Nat
        /\ sample[c] \in Nat
    BY DEF Started, GateInv, TypeOK, Times, NoTime
  <1>a. \A b : b \in Limited(a, x)' <=>
               /\ b \in Started(x)'
               /\ startedAt'[b] > startedAt'[a] - Limit(Window, a, x)
               /\ \/ startedAt'[b] < startedAt'[a]
                  \/ startedAt'[b] = startedAt'[a] /\ PolicyOf[b] = PolicyOf[a]
    BY DEF Limited, Limit
  <1>1. CASE a # c /\ ~(x \in KeysOf[c] /\ PolicyOf[c] = PolicyOf[a] /\ startedAt[a] = sample[c])
    <2>1. a \in Started(x) /\ startedAt'[a] = startedAt[a]
      BY <1>0, <1>1, StartedAfter
    <2>2. c \notin Limited(a, x)'
      <3> SUFFICES ASSUME c \in Limited(a, x)' PROVE FALSE
        OBVIOUS
      <3>1. /\ x \in KeysOf[c]
            /\ sample[c] < startedAt[a] \/ (sample[c] = startedAt[a] /\ PolicyOf[c] = PolicyOf[a])
        BY <1>a, <2>1, StartedAfter
      <3>2. sample[c] >= startedAt[a]
        BY <3>1, <2>1, OpenIsLater
      <3> QED
        BY <1>0, <1>1, <2>1, <3>1, <3>2
    <2>3. Limited(a, x)' = Limited(a, x)
      <3>1. \A b : b \in Limited(a, x)' <=> b \in Limited(a, x)
        <4> SUFFICES ASSUME NEW b, b # c PROVE b \in Limited(a, x)' <=> b \in Limited(a, x)
          BY <2>2, StartedAfter DEF Limited
        <4>1. /\ b \in Started(x)' <=> b \in Started(x)
              /\ b \in Started(x) => startedAt'[b] = startedAt[b]
          BY <1>0, StartedAfter
        <4> QED
          BY <1>a, <2>1, <4>1 DEF Limited
      <3>2. \A S, T : (\A b : b \in S <=> b \in T) => S = T
        OBVIOUS
      <3> QED
        BY <3>1, <3>2
    <2> QED
      BY <2>1, <2>3 DEF GateInv, WindowKept
  <1>2. CASE x \in KeysOf[c] /\ PolicyOf[c] = PolicyOf[a] /\ startedAt'[a] = sample[c]
    <2>1. Limit(Window, a, x) = Limit(Window, c, x) /\ Limit(PerWindow, a, x) = Limit(PerWindow, c, x)
      BY <1>2 DEF Limit
    <2>2. Limited(a, x)' \subseteq InWindow(c, x) \cup {c}
      <3> SUFFICES ASSUME NEW b \in Limited(a, x)', b # c PROVE b \in InWindow(c, x)
        OBVIOUS
      <3>1. b \in Started(x) /\ startedAt'[b] = startedAt[b]
        BY <1>0, <1>a, StartedAfter
      <3> QED
        BY <1>2, <1>a, <2>1, <3>1 DEF InWindow
    <2>3. InWindow(c, x) \subseteq Started(x)
      BY DEF InWindow
    <2>4. IsFiniteSet(InWindow(c, x)) /\ Cardinality(InWindow(c, x)) \in Nat
      BY <2>3, StartsFinite, FS_CardinalityType
    <2>5. Cardinality(InWindow(c, x)) < Limit(PerWindow, c, x)
      BY <1>2 DEF AcquireGates, Open
    <2>6. /\ IsFiniteSet(InWindow(c, x) \cup {c})
          /\ Cardinality(InWindow(c, x) \cup {c}) <= Cardinality(InWindow(c, x)) + 1
      <3> DEFINE S == InWindow(c, x)
      <3> HIDE DEF S
      <3>1. IsFiniteSet(S) /\ Cardinality(S) \in Nat
        BY <2>4 DEF S
      <3>2. /\ IsFiniteSet(S \cup {c})
            /\ Cardinality(S \cup {c}) = IF c \in S THEN Cardinality(S) ELSE Cardinality(S) + 1
        BY <3>1, FS_AddElement
      <3>3. Cardinality(S \cup {c}) <= Cardinality(S) + 1
        BY <3>1, <3>2
      <3> QED
        BY <3>2, <3>3 DEF S
    <2>7. Cardinality(Limited(a, x)') <= Cardinality(InWindow(c, x) \cup {c})
      BY <2>2, <2>6, FS_Subset
    <2>8. Cardinality(Limited(a, x)') \in Nat /\ Cardinality(InWindow(c, x) \cup {c}) \in Nat
      BY <2>2, <2>6, FS_Subset, FS_CardinalityType
    <2> QED
      BY <2>1, <2>4, <2>5, <2>6, <2>7, <2>8, LimitTypes
  <1>3. a = c => x \in KeysOf[c] /\ startedAt'[a] = sample[c]
    BY StartedAfter
  <1>4. a # c => startedAt'[a] = startedAt[a]
    BY <1>0, StartedAfter
  <1> QED
    BY <1>1, <1>2, <1>3, <1>4

-------------------------------------------------------------------------------
\* The starts and the limits are out of reach of every step but AcquireGates.
LEMMA SameStarts ==
    ASSUME GateInv, UNCHANGED startedAt
    PROVE  SpacingKept' /\ WindowKept'
  <1>1. \A x : Started(x)' = Started(x)
    BY DEF Started
  <1>2. \A a, x : Limited(a, x)' = Limited(a, x)
    BY <1>1 DEF Limited, Limit
  <1> QED
    BY <1>1, <1>2 DEF GateInv, SpacingKept, WindowKept, Limit

LEMMA GateInvStep == GateInv /\ [Next]_vars => GateInv'
  <1> SUFFICES ASSUME GateInv, [Next]_vars PROVE GateInv'
    OBVIOUS
  <1>0. TypeOK /\ TypeOK'
    BY TypeStep DEF GateInv
  <1>1. ASSUME UNCHANGED <<startedAt, last>>,
               \A a \in Attempts : gates'[a] = "waiting" <=> gates[a] = "waiting"
        PROVE  StartedOnce' /\ LastIsLatest' /\ SpacingKept' /\ WindowKept'
    BY <1>1, SameStarts DEF GateInv, StartedOnce, LastIsLatest, Started
  <1>2. CASE Tick \/ SetBack \/ UNCHANGED vars
    <2>1. UNCHANGED <<gates, startedAt, last, cooldown, told>>
      BY <1>2 DEF Tick, SetBack, vars
    <2>2. CooldownCovers'
      BY <2>1 DEF GateInv, CooldownCovers
    <2> QED
      BY <1>0, <1>1, <2>1, <2>2 DEF GateInv
  <1>3. CASE RecoverGates
    <2>1. /\ UNCHANGED <<startedAt, last, cooldown, told>>
          /\ \A a \in Attempts : gates'[a] = "waiting" <=> gates[a] = "waiting"
      BY <1>0, <1>3 DEF RecoverGates
    <2>2. CooldownCovers'
      BY <2>1 DEF GateInv, CooldownCovers
    <2> QED
      BY <1>0, <1>1, <2>1, <2>2 DEF GateInv
  <1>4. ASSUME NEW a \in Attempts, Sample(a) \/ ReleaseGates(a) \/ CancelRequest(a)
        PROVE  GateInv'
    <2>1. /\ UNCHANGED <<startedAt, last, cooldown, told>>
          /\ \A b \in Attempts : gates'[b] = "waiting" <=> gates[b] = "waiting"
      BY <1>0, <1>4 DEF Sample, ReleaseGates, CancelRequest, TypeOK
    <2>2. CooldownCovers'
      BY <2>1 DEF GateInv, CooldownCovers
    <2> QED
      BY <1>0, <1>1, <2>1, <2>2 DEF GateInv
  <1>5. ASSUME NEW c \in Attempts, AcquireGates(c) PROVE GateInv'
    <2>1. StartedOnce'
      <3>1. /\ gates' = [gates EXCEPT ![c] = "held"]
            /\ startedAt' = [startedAt EXCEPT ![c] = sample[c]]
            /\ sample[c] # NoTime
        BY <1>0, <1>5 DEF AcquireGates, TypeOK, NoTime
      <3> QED
        BY <1>0, <3>1 DEF GateInv, StartedOnce, TypeOK
    <2>2. LastIsLatest'
      <3> SUFFICES ASSUME NEW x \in Keys, NEW b \in Started(x)'
                   PROVE  startedAt'[b] <= last'[x]
        BY DEF LastIsLatest
      <3>1. b \in Attempts
        BY DEF Started
      <3>2. last'[x] = IF x \in KeysOf[c] THEN sample[c] ELSE last[x]
        BY <1>5 DEF AcquireGates
      <3>3. CASE b = c
        BY <1>0, <1>5, <3>2, <3>3, StartedAfter DEF TypeOK
      <3>4. CASE b # c /\ x \in KeysOf[c]
        <4>1. b \in Started(x) /\ startedAt'[b] = startedAt[b]
          BY <1>5, <3>1, <3>4, StartedAfter
        <4> QED
          BY <1>5, <3>2, <3>4, <4>1, OpenIsLater
      <3>5. CASE b # c /\ x \notin KeysOf[c]
        <4>1. b \in Started(x) /\ startedAt'[b] = startedAt[b]
          BY <1>5, <3>1, <3>5, StartedAfter
        <4> QED
          BY <3>2, <3>5, <4>1 DEF GateInv, LastIsLatest
      <3> QED
        BY <3>3, <3>4, <3>5
    <2>3. CooldownCovers'
      BY <1>5 DEF AcquireGates, GateInv, CooldownCovers
    <2> QED
      BY <1>0, <1>5, <2>1, <2>2, <2>3, AcquireKeepsSpacing, AcquireKeepsWindow DEF GateInv
  <1>6. ASSUME NEW a \in Attempts, RecordRetryAfter(a) PROVE GateInv'
    <2>1. PICK seconds \in RetryAfters :
              /\ gates[a] = "held"
              /\ gates' = [gates EXCEPT ![a] = "released"]
              /\ ProlongCooldown(ProviderOf[a], sample[a] + seconds)
              /\ told' = [told EXCEPT ![a] = sample[a] + seconds]
              /\ UNCHANGED <<time, sample, startedAt, last>>
      BY <1>6 DEF RecordRetryAfter
    <2> DEFINE deadline == sample[a] + seconds
    <2>2. deadline \in Nat
      BY <1>0, GateLimiterAssumption DEF GateLimiterAssumption, TypeOK
    <2>3. \A b \in Attempts : gates'[b] = "waiting" <=> gates[b] = "waiting"
      BY <1>0, <2>1 DEF TypeOK
    <2>4. CooldownCovers'
      <3> SUFFICES ASSUME NEW b \in Attempts PROVE told'[b] <= cooldown'[ProviderOf[b]]
        BY DEF CooldownCovers
      <3> DEFINE x == ProviderOf[b]
      <3>1. x \in Keys /\ cooldown[x] \in Times /\ told[b] \in Times /\ told[b] <= cooldown[x]
        BY <1>0, ProviderIsKey DEF TypeOK, GateInv, CooldownCovers
      <3>2. cooldown'[x] = IF x = ProviderOf[a] /\ cooldown[x] < deadline THEN deadline ELSE cooldown[x]
        BY <1>0, <2>1, <3>1 DEF ProlongCooldown, TypeOK
      <3>3. told'[b] = IF b = a THEN deadline ELSE told[b]
        BY <1>0, <2>1 DEF TypeOK
      <3> QED
        BY <2>2, <3>1, <3>2, <3>3 DEF Times, NoTime
    <2> QED
      BY <1>0, <1>1, <2>1, <2>3, <2>4 DEF GateInv
  <1> QED
    BY <1>2, <1>3, <1>4, <1>5, <1>6 DEF Next

LEMMA GateInvariance == Spec => []GateInv
  <1>1. Init => GateInv
    <2> SUFFICES ASSUME Init PROVE GateInv
      OBVIOUS
    <2>1. TypeOK /\ StartedOnce /\ CooldownCovers
      BY ProviderIsKey DEF Init, TypeOK, Times, NoTime, StartedOnce, CooldownCovers
    <2>2. \A x : Started(x) = {}
      BY DEF Init, Started
    <2> QED
      BY <2>1, <2>2 DEF GateInv, LastIsLatest, SpacingKept, WindowKept
  <1> QED
    BY <1>1, GateInvStep, PTL DEF Spec

\* Of any two reservations at a gate the later one keeps the interval of its own policy,
\* with stale samples, clock rollbacks, cancellations and recoveries (acquire_gates).
THEOREM ReservationsSpaced == Spec => []SpacingKept
  <1>1. GateInv => SpacingKept
    BY DEF GateInv
  <1> QED
    BY <1>1, GateInvariance, PTL

\* No window that ends with a reservation comes to hold more, of all policies, than that
\* reservation's policy allows, although acquire_gates only counts what it finds.
THEOREM WindowBounded == Spec => []WindowKept
  <1>1. GateInv => WindowKept
    BY DEF GateInv
  <1> QED
    BY <1>1, GateInvariance, PTL

\* Every recorded Retry-After is waited out by every later reservation at the provider.
THEOREM CooldownWaitedOut == Spec => CooldownKept
  <1>1. ASSUME GateInv, [Next]_vars, NEW a \in Attempts,
               gates[a] = "waiting", gates'[a] = "held",
               NEW b \in Attempts, ProviderOf[b] \in KeysOf[a]
        PROVE  startedAt'[a] >= told[b]
    <2>0. TypeOK
      BY <1>1 DEF GateInv
    <2>1. AcquireGates(a)
      <3>1. ASSUME NEW c \in Attempts, AcquireGates(c) PROVE c = a
        BY <1>1, <2>0, <3>1 DEF AcquireGates, TypeOK
      <3>2. ~(Tick \/ SetBack \/ RecoverGates \/ UNCHANGED vars)
        BY <1>1, <2>0 DEF Tick, SetBack, RecoverGates, vars, TypeOK
      <3>3. ASSUME NEW c \in Attempts,
                   Sample(c) \/ ReleaseGates(c) \/ RecordRetryAfter(c) \/ CancelRequest(c)
            PROVE  FALSE
        BY <1>1, <2>0, <3>3 DEF Sample, ReleaseGates, RecordRetryAfter, CancelRequest, TypeOK
      <3> QED
        BY <1>1, <3>1, <3>2, <3>3 DEF Next
    <2>2. sample[a] >= cooldown[ProviderOf[b]] /\ startedAt'[a] = sample[a]
      BY <1>1, <2>0, <2>1 DEF AcquireGates, Open, TypeOK
    <2>3. /\ told[b] \in Times /\ cooldown[ProviderOf[b]] \in Times /\ sample[a] \in Nat
          /\ told[b] <= cooldown[ProviderOf[b]]
      BY <1>1, <2>0, ProviderIsKey DEF GateInv, TypeOK, CooldownCovers
    <2> QED
      BY <2>2, <2>3 DEF Times, NoTime
  <1>2. GateInv /\ [Next]_vars =>
          [\A a \in Attempts : gates[a] = "waiting" /\ gates'[a] = "held" =>
              \A b \in Attempts : ProviderOf[b] \in KeysOf[a] => startedAt'[a] >= told[b]]_vars
    BY <1>1
  <1> QED
    BY <1>2, GateInvariance, PTL DEF Spec, CooldownKept
===============================================================================
