----------------------------- MODULE RuntimeLease -----------------------------
(***************************************************************************)
(* The fenced lease of the production request runtime: the single row of   *)
(* table runtime_lease and the RuntimeLease objects the processes hold.    *)
(*                                                                         *)
(* Every repository call is one SQLite transaction (BEGIN IMMEDIATE), so   *)
(* it is one action.  A caller samples its clock first and passes the      *)
(* value as "now"; other processes may run between the sample and the      *)
(* transaction, which is why sampling is an action of its own.  A process  *)
(* may keep several RuntimeLease objects of one generation: heartbeat_lease*)
(* returns a new object, and the Yahoo port renews a copy of its own while *)
(* the code that built the port keeps the one it acquired.  A crash needs  *)
(* no action: the process takes no further step.                           *)
(***************************************************************************)
EXTENDS Naturals, FiniteSets

CONSTANTS
    Processes,      \* processes that open the runtime database
    TokenOf,        \* owner_token each process passes (some callers use a fixed one)
    Duration,       \* lease_duration_seconds of the policy
    MaxClock,       \* bound: last value of the wall clock
    MaxGeneration,  \* bound: number of leases ever granted
    MaxRollbacks    \* bound: how often the wall clock is set back

ASSUME RuntimeLeaseAssumption ==
    /\ Duration \in Nat \ {0}
    /\ MaxClock \in Nat
    /\ MaxGeneration \in Nat
    /\ MaxRollbacks \in Nat

VARIABLES
    row,        \* the runtime_lease row; generation 0 stands for the empty table
    clock,      \* UTC wall clock of the host
    rollbacks,  \* how often it has been set back
    now,        \* now[p]: the clock value process p sampled for its next call
    leases,     \* every RuntimeLease object handed out so far
    released,   \* generations released by release_lease
    writes      \* fenced durable mutations: who made them under which generation

vars == <<row, clock, rollbacks, now, leases, released, writes>>

Times == 0 .. MaxClock
Generations == 1 .. MaxGeneration
Tokens == {TokenOf[p] : p \in Processes}

\* RuntimeLease as its holder keeps it (acquired_at is never read again).
Lease == [holder : Processes, generation : Nat, heartbeat : Nat, expires : Nat]
Write == [holder : Processes, generation : Nat]

-------------------------------------------------------------------------------
(* Faulty variants, used only to show that the properties can fail; none is *)
(* part of Next.                                                            *)

\* A fence that trusts the owner token alone.
FenceWithoutGeneration(l) ==
    /\ row.active
    /\ row.owner = TokenOf[l.holder]
    /\ row.heartbeat <= now[l.holder]
    /\ now[l.holder] < row.expires

\* A grant that forgets to advance the generation.
GrantSameGeneration(p, generation) ==
    /\ generation <= MaxGeneration
    /\ row' = [generation |-> row.generation, owner |-> TokenOf[p], active |-> TRUE,
               heartbeat |-> now[p], expires |-> now[p] + Duration]
    /\ leases' = leases \cup {[holder |-> p, generation |-> row.generation,
                               heartbeat |-> now[p], expires |-> now[p] + Duration]}

\* A takeover that does not wait for expires_at.
RecoverWithoutExpiry(p) ==
    /\ row.active
    /\ row.heartbeat <= now[p]
    /\ row' = [generation |-> row.generation + 1, owner |-> TokenOf[p], active |-> TRUE,
               heartbeat |-> now[p], expires |-> now[p] + Duration]
    /\ leases' = leases \cup {[holder |-> p, generation |-> row.generation + 1,
                               heartbeat |-> now[p], expires |-> now[p] + Duration]}
    /\ UNCHANGED <<clock, rollbacks, now, released, writes>>

-------------------------------------------------------------------------------
\* _assert_fence: token and generation are those of the active row, and the
\* sampled time lies in [heartbeat_at, expires_at).
FencePasses(l) ==
    /\ row.active
    /\ row.owner = TokenOf[l.holder]
    /\ row.generation = l.generation
    /\ row.heartbeat <= now[l.holder]
    /\ now[l.holder] < row.expires

\* The WHERE clause of heartbeat_lease and release_lease: no time check on the row.
OwnsRow(l) ==
    /\ row.active
    /\ row.owner = TokenOf[l.holder]
    /\ row.generation = l.generation

\* heartbeat_lease and release_lease compare now with the caller's own object.
CopyUnexpired(l) == l.heartbeat <= now[l.holder] /\ now[l.holder] < l.expires

\* The row and the returned object of acquire_lease and recover_expired_lease.
Grant(p, generation) ==
    /\ generation <= MaxGeneration
    /\ row' = [generation |-> generation, owner |-> TokenOf[p], active |-> TRUE,
               heartbeat |-> now[p], expires |-> now[p] + Duration]
    /\ leases' = leases \cup {[holder |-> p, generation |-> generation,
                               heartbeat |-> now[p], expires |-> now[p] + Duration]}

Init ==
    /\ row \in {[generation |-> 0, owner |-> t, active |-> FALSE,
                 heartbeat |-> 0, expires |-> 0] : t \in Tokens}
    /\ clock = 0
    /\ rollbacks = 0
    /\ now = [p \in Processes |-> 0]
    /\ leases = {}
    /\ released = {}
    /\ writes = {}

Tick ==
    /\ clock < MaxClock
    /\ clock' = clock + 1
    /\ UNCHANGED <<row, rollbacks, now, leases, released, writes>>

\* The host's wall clock is set back (the docs require this to be detected).
SetBack ==
    /\ rollbacks < MaxRollbacks
    /\ rollbacks' = rollbacks + 1
    /\ \E t \in Times : t < clock /\ clock' = t
    /\ UNCHANGED <<row, now, leases, released, writes>>

Sample(p) ==
    /\ now' = [now EXCEPT ![p] = clock]
    /\ UNCHANGED <<row, clock, rollbacks, leases, released, writes>>

\* acquire_lease: refused while a row is active, expired or not.
AcquireLease(p) ==
    /\ ~row.active
    /\ Grant(p, row.generation + 1)
    /\ UNCHANGED <<clock, rollbacks, now, released, writes>>

\* recover_expired_lease: only once now has reached expires_at of an active row.
RecoverExpiredLease(p) ==
    /\ row.active
    /\ row.heartbeat <= now[p]
    /\ row.expires <= now[p]
    /\ Grant(p, row.generation + 1)
    /\ UNCHANGED <<clock, rollbacks, now, released, writes>>

HeartbeatLease(l) ==
    /\ CopyUnexpired(l)
    /\ OwnsRow(l)
    /\ row' = [row EXCEPT !.heartbeat = now[l.holder], !.expires = now[l.holder] + Duration]
    /\ leases' = leases \cup {[l EXCEPT !.heartbeat = now[l.holder],
                                        !.expires = now[l.holder] + Duration]}
    /\ UNCHANGED <<clock, rollbacks, now, released, writes>>

ReleaseLease(l) ==
    /\ CopyUnexpired(l)
    /\ OwnsRow(l)
    /\ row' = [row EXCEPT !.active = FALSE]
    /\ released' = released \cup {l.generation}
    /\ UNCHANGED <<clock, rollbacks, now, leases, writes>>

\* Any fenced repository mutation.
FencedMutation(l) ==
    /\ FencePasses(l)
    /\ writes' = writes \cup {[holder |-> l.holder, generation |-> l.generation]}
    /\ UNCHANGED <<row, clock, rollbacks, now, leases, released>>

Next ==
    \/ Tick
    \/ SetBack
    \/ \E p \in Processes : Sample(p) \/ AcquireLease(p) \/ RecoverExpiredLease(p)
    \/ \E l \in leases : HeartbeatLease(l) \/ ReleaseLease(l) \/ FencedMutation(l)

Spec == Init /\ [][Next]_vars

-------------------------------------------------------------------------------
\* Types of the row, the clocks and the objects handed out.
TypeOK ==
    /\ row \in [generation : Nat, owner : Tokens, active : BOOLEAN,
                heartbeat : Nat, expires : Nat]
    /\ clock \in Nat
    /\ rollbacks \in Nat
    /\ now \in [Processes -> Nat]
    /\ leases \subseteq Lease
    /\ released \subseteq Nat
    /\ writes \subseteq Write

\* A generation is a fencing token: no two processes ever hold lease objects of
\* one generation, even when both pass the same owner_token, and a durable
\* mutation recorded under a generation was made by the process it was granted to.
OneHolderPerGeneration ==
    /\ \A l, m \in leases : l.generation = m.generation => l.holder = m.holder
    /\ \A w \in writes : \E l \in leases : l.generation = w.generation /\ l.holder = w.holder

\* Once a newer generation has been granted, no fenced mutation of an older one
\* commits any more, however late its caller resumes and whatever its clock said.
StaleHolderNeverWrites ==
    [][\A w \in writes' \ writes : \A l \in leases : l.generation <= w.generation]_vars

\* A process that trusts any lease object of its own up to its expires_at is
\* right to: unless that generation was released, it is not displaced before, as
\* long as the wall clock has not been set back.
HolderNotDisplacedEarly ==
    rollbacks = 0 => \A l \in leases :
        (l.generation \notin released /\ clock < l.expires)
            => (row.active /\ row.generation = l.generation)
===============================================================================
