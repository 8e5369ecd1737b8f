------------------------------ MODULE GateLimiter ------------------------------
(***************************************************************************)
(* The time limits of the provider gates: minimum interval, rolling window *)
(* and cooldown, as acquire_gates checks them and _finish_gate_reservation *)
(* records them.  Gates are rows every source shares; the limits are not:  *)
(* each source passes its own policy to acquire_gates.                     *)
(*                                                                         *)
(* A caller samples its clock before it calls, so a call may carry an old  *)
(* time, and the wall clock may be set back between two samples.  The lease *)
(* fence, which makes some of these calls fail, is left out: the limits    *)
(* must hold without it.  Occupancy is the set of held reservations, which *)
(* RequestLedger shows active_count to be.                                 *)
(***************************************************************************)
EXTENDS Integers, FiniteSets

CONSTANTS
    Attempts,       \* physical attempts; each reserves gates at most once
    KeysOf,         \* KeysOf[a]: the gate keys attempt a has to pass
    ProviderOf,     \* ProviderOf[a]: the one of scope "provider"
    PolicyOf,       \* PolicyOf[a]: the gate policy its source passes
    Concurrency,    \* GateLimit.max_concurrency, of a policy at a key
    Interval,       \* GateLimit.min_interval_seconds
    PerWindow,      \* GateLimit.requests_per_window
    Window,         \* GateLimit.window_seconds
    RetryAfters,    \* Retry-After values a provider may answer with
    MaxClock,       \* bound: last value of the wall clock
    MaxRollbacks    \* bound: how often the wall clock is set back

Keys == UNION {KeysOf[a] : a \in Attempts}
Policies == {PolicyOf[a] : a \in Attempts}
NoTime == -1

ASSUME GateLimiterAssumption ==
    /\ IsFiniteSet(Attempts)
    /\ \A a \in Attempts : ProviderOf[a] \in KeysOf[a]
    /\ \A p \in Policies, x \in Keys :
          /\ Concurrency[p][x] \in Nat \ {0} /\ Interval[p][x] \in Nat
          /\ PerWindow[p][x] \in Nat \ {0} /\ Window[p][x] \in Nat \ {0}
    /\ RetryAfters \subseteq Nat
    /\ MaxClock \in Nat /\ MaxRollbacks \in Nat

VARIABLES
    clock,      \* wall clock of the host
    rollbacks,  \* how often it has been set back
    sample,     \* sample[a]: the clock value a's caller passes next
    gates,      \* gates[a]: "waiting", "held", "released", "freed"
    startedAt,  \* gate_starts.started_at of a's reservation
    last,       \* gate_state.last_started_at
    cooldown,   \* gate_state.cooldown_until
    told        \* told[a]: the end of the cooldown that a's answer asked for

vars == <<clock, rollbacks, sample, gates, startedAt, last, cooldown, told>>
time == <<clock, rollbacks>>

Limit(f, a, x) == f[PolicyOf[a]][x]

-------------------------------------------------------------------------------
Init ==
    /\ clock = 0
    /\ rollbacks = 0
    /\ sample = [a \in Attempts |-> 0]
    /\ gates = [a \in Attempts |-> "waiting"]
    /\ startedAt = [a \in Attempts |-> NoTime]
    /\ last = [x \in Keys |-> NoTime]
    /\ cooldown = [x \in Keys |-> NoTime]
    /\ told = [a \in Attempts |-> NoTime]

Tick ==
    /\ clock < MaxClock
    /\ clock' = clock + 1
    /\ UNCHANGED <<rollbacks, sample, gates, startedAt, last, cooldown, told>>

SetBack ==
    /\ rollbacks < MaxRollbacks
    /\ rollbacks' = rollbacks + 1
    /\ \E t \in 0 .. MaxClock : t < clock /\ clock' = t
    /\ UNCHANGED <<sample, gates, startedAt, last, cooldown, told>>

\* started_at before acquire_gates, completed_at before the release.
Sample(a) ==
    /\ gates[a] \in {"waiting", "held"}
    /\ sample' = [sample EXCEPT ![a] = clock]
    /\ UNCHANGED <<time, gates, startedAt, last, cooldown, told>>

-------------------------------------------------------------------------------
(* acquire_gates                                                            *)

Started(x) == {b \in Attempts : x \in KeysOf[b] /\ startedAt[b] # NoTime}
Held(x) == {b \in Attempts : x \in KeysOf[b] /\ gates[b] = "held"}

\* Faulty: leaves the starts that are not yet released out of the window.
CountReleased(a, x) ==
    {b \in Started(x) : startedAt[b] > sample[a] - Limit(Window, a, x) /\ gates[b] # "held"}

\* SELECT COUNT(*) FROM gate_starts ... started_at > cutoff
InWindow(a, x) == {b \in Started(x) : startedAt[b] > sample[a] - Limit(Window, a, x)}

\* Faulty: the interval in both directions, so that an old sample slips in before.
IntervalPassedEitherWay(a, x) ==
    last[x] # NoTime => \/ sample[a] >= last[x] + Limit(Interval, a, x)
                        \/ sample[a] + Limit(Interval, a, x) <= last[x]

IntervalPassed(a, x) == last[x] # NoTime => sample[a] >= last[x] + Limit(Interval, a, x)

Open(a, x) ==
    /\ sample[a] >= cooldown[x]
    /\ Cardinality(Held(x)) < Limit(Concurrency, a, x)
    /\ IntervalPassed(a, x)
    /\ Cardinality(InWindow(a, x)) < Limit(PerWindow, a, x)

\* All gates at once or none; a blocked caller gives up or samples again.
AcquireGates(a) ==
    /\ gates[a] = "waiting"
    /\ \A x \in KeysOf[a] : Open(a, x)
    /\ gates' = [gates EXCEPT ![a] = "held"]
    /\ startedAt' = [startedAt EXCEPT ![a] = sample[a]]
    /\ last' = [x \in Keys |-> IF x \in KeysOf[a] THEN sample[a] ELSE last[x]]
    /\ UNCHANGED <<time, sample, cooldown, told>>

-------------------------------------------------------------------------------
(* The end of a reservation.                                                *)

\* release_gates and record_unknown_outcome
ReleaseGates(a) ==
    /\ gates[a] = "held"
    /\ gates' = [gates EXCEPT ![a] = "released"]
    /\ UNCHANGED <<time, sample, startedAt, last, cooldown, told>>

\* Faulty: the latest answer decides.
OverwriteCooldown(x, deadline) == cooldown' = [cooldown EXCEPT ![x] = deadline]

\* A cooldown is only ever prolonged.
ProlongCooldown(x, deadline) ==
    cooldown' = [cooldown EXCEPT ![x] = IF @ < deadline THEN deadline ELSE @]

RecordRetryAfter(a) ==
    \E seconds \in RetryAfters :
        LET deadline == sample[a] + seconds
        IN  /\ gates[a] = "held"
            /\ gates' = [gates EXCEPT ![a] = "released"]
            /\ ProlongCooldown(ProviderOf[a], deadline)
            /\ told' = [told EXCEPT ![a] = deadline]
            /\ UNCHANGED <<time, sample, startedAt, last>>

\* Cancellation of the request frees its gates; its caller's release then fails.
CancelRequest(a) ==
    /\ gates[a] = "held"
    /\ gates' = [gates EXCEPT ![a] = "freed"]
    /\ UNCHANGED <<time, sample, startedAt, last, cooldown, told>>

\* So does the recovery of the lease, for all reservations.
RecoverGates ==
    /\ gates' = [a \in Attempts |-> IF gates[a] = "held" THEN "freed" ELSE gates[a]]
    /\ UNCHANGED <<time, sample, startedAt, last, cooldown, told>>

-------------------------------------------------------------------------------
Next ==
    \/ Tick
    \/ SetBack
    \/ RecoverGates
    \/ \E a \in Attempts :
          \/ Sample(a) \/ AcquireGates(a)
          \/ ReleaseGates(a) \/ RecordRetryAfter(a) \/ CancelRequest(a)

Spec == Init /\ [][Next]_vars

-------------------------------------------------------------------------------
(* Properties.                                                              *)

Times == Nat \cup {NoTime}

\* Times are absent or not negative, and the rows are those of the keys and attempts.
TypeOK ==
    /\ clock \in Nat /\ rollbacks \in Nat
    /\ sample \in [Attempts -> Nat]
    /\ gates \in [Attempts -> {"waiting", "held", "released", "freed"}]
    /\ startedAt \in [Attempts -> Times]
    /\ last \in [Keys -> Times]
    /\ cooldown \in [Keys -> Times]
    /\ told \in [Attempts -> Times]

\* Of two reservations at one gate, whoever made them, the later one is dated its own
\* policy's minimum interval after the earlier, with old samples, with a clock that was
\* set back, and across recoveries and cancellations.
SpacingKept ==
    \A x \in Keys : \A a, b \in Started(x) :
        a # b => \/ startedAt[b] >= startedAt[a] + Limit(Interval, b, x)
                 \/ startedAt[a] >= startedAt[b] + Limit(Interval, a, x)

\* What a's policy limits at a gate: the reservations dated in the window that ends with
\* a's own, made under whatever policy. Of those dated alike only the ones under the same
\* policy: another source may come last with a limit that leaves more room.
Limited(a, x) ==
    {b \in Started(x) : /\ startedAt[b] > startedAt[a] - Limit(Window, a, x)
                        /\ \/ startedAt[b] < startedAt[a]
                           \/ startedAt[b] = startedAt[a] /\ PolicyOf[b] = PolicyOf[a]}

\* No window that ends with a reservation ever comes to hold more than the policy of
\* that reservation allows, wherever later calls date theirs.
WindowKept ==
    \A x \in Keys : \A a \in Started(x) : Cardinality(Limited(a, x)) <= Limit(PerWindow, a, x)

\* Whatever Retry-After answers were recorded, in whatever order they came, no later
\* reservation at that provider is dated before the end of the longest of them.
CooldownKept ==
    [][\A a \in Attempts : gates[a] = "waiting" /\ gates'[a] = "held" =>
          \A b \in Attempts : ProviderOf[b] \in KeysOf[a] => startedAt'[a] >= told[b]]_vars
===============================================================================
