------------------------------ MODULE Runtime_proofs ------------------------------
(***************************************************************************)
(* Proofs about the two modules of the runtime database's own rules.       *)
(* RuntimeLease: the fencing properties, for every set of processes, every *)
(* assignment of owner tokens (distinct or not), every lease duration and  *)
(* every bound; the exclusivity of a live lease under the hypothesis it    *)
(* needs, that the wall clock is never set back.  RuntimeStorage: for any  *)
(* processes, consumers and first versions, whoever has the database open  *)
(* finds the present schema, and delivered results keep their owners.      *)
(***************************************************************************)
EXTENDS RuntimeLease, RuntimeStorage, TLAPS

\* No lease object is newer than the row: generations only grow.
LeasesGranted == \A l \in leases : 1 <= l.generation /\ l.generation <= row.generation

\* The inductive invariant behind fencing.
FencingInv == TypeOK /\ LeasesGranted /\ OneHolderPerGeneration

LEMMA GrantType ==
    ASSUME TypeOK, NEW p \in Processes, NEW g \in Nat, Grant(p, g)
    PROVE  /\ row' \in [generation : Nat, owner : Tokens, active : BOOLEAN,
                        heartbeat : Nat, expires : Nat]
           /\ leases' \subseteq Lease
BY RuntimeLeaseAssumption DEF TypeOK, Grant, Lease, Tokens

\* Every reachable state is well typed: each action of the lease keeps the row,
\* the sampled clocks and the handed-out objects in their types.
THEOREM TypeCorrect == Spec => []TypeOK
<1>1. Init => TypeOK
  <2> SUFFICES ASSUME Init
               PROVE  TypeOK
    OBVIOUS
  <2>1. PICK t \in Tokens : row = [generation |-> 0, owner |-> t, active |-> FALSE,
                                   heartbeat |-> 0, expires |-> 0]
    BY DEF Init
  <2>2. row \in [generation : Nat, owner : Tokens, active : BOOLEAN,
                 heartbeat : Nat, expires : Nat]
    BY <2>1
  <2> QED
    BY <2>2 DEF Init, TypeOK
<1>2. TypeOK /\ [Next]_vars => TypeOK'
  <2> SUFFICES ASSUME TypeOK, [Next]_vars
               PROVE  TypeOK'
    OBVIOUS
  <2> USE RuntimeLeaseAssumption DEF TypeOK
  <2>1. CASE Tick
    BY <2>1 DEF Tick
  <2>2. CASE SetBack
    BY <2>2 DEF SetBack, Times
  <2>3. ASSUME NEW p \in Processes, Sample(p)
        PROVE  TypeOK'
    BY <2>3 DEF Sample
  <2>4. ASSUME NEW p \in Processes, AcquireLease(p)
        PROVE  TypeOK'
    <3>1. row.generation + 1 \in Nat
      OBVIOUS
    <3>2. QED
      BY <2>4, <3>1, GrantType DEF AcquireLease
  <2>5. ASSUME NEW p \in Processes, RecoverExpiredLease(p)
        PROVE  TypeOK'
    <3>1. row.generation + 1 \in Nat
      OBVIOUS
    <3>2. QED
      BY <2>5, <3>1, GrantType DEF RecoverExpiredLease
  <2>6. ASSUME NEW l \in leases, HeartbeatLease(l)
        PROVE  TypeOK'
    <3>1. l \in Lease /\ now[l.holder] \in Nat /\ now[l.holder] + Duration \in Nat
      BY DEF Lease
    <3>2. row' \in [generation : Nat, owner : Tokens, active : BOOLEAN,
                    heartbeat : Nat, expires : Nat]
      BY <2>6, <3>1 DEF HeartbeatLease
    <3>3. leases' \subseteq Lease
      BY <2>6, <3>1 DEF HeartbeatLease, Lease
    <3> QED
      BY <2>6, <3>2, <3>3 DEF HeartbeatLease
  <2>7. ASSUME NEW l \in leases, ReleaseLease(l)
        PROVE  TypeOK'
    BY <2>7 DEF ReleaseLease, Lease
  <2>8. ASSUME NEW l \in leases, FencedMutation(l)
        PROVE  TypeOK'
    BY <2>8 DEF FencedMutation, Lease, Write
  <2>9. CASE UNCHANGED vars
    BY <2>9 DEF vars
  <2> QED
    BY <2>1, <2>2, <2>3, <2>4, <2>5, <2>6, <2>7, <2>8, <2>9 DEF Next
<1> QED
  BY <1>1, <1>2, PTL DEF Spec

-------------------------------------------------------------------------------
\* A grant under a generation no object carries yet keeps holders unique.
LEMMA GrantFresh ==
    ASSUME FencingInv, NEW p \in Processes, Grant(p, row.generation + 1),
           UNCHANGED writes
    PROVE  LeasesGranted' /\ OneHolderPerGeneration'
<1> DEFINE new == [holder |-> p, generation |-> row.generation + 1,
                   heartbeat |-> now[p], expires |-> now[p] + Duration]
<1>1. row.generation \in Nat /\ row'.generation = row.generation + 1
  BY DEF FencingInv, TypeOK, Grant
<1>2. leases' = leases \cup {new}
  BY DEF Grant
<1>3. \A l \in leases : l.generation \in Nat /\ l.generation < row.generation + 1
  BY <1>1 DEF FencingInv, TypeOK, Lease, LeasesGranted
<1>4. LeasesGranted'
  BY <1>1, <1>2, <1>3 DEF FencingInv, LeasesGranted
<1>5. ASSUME NEW l \in leases', NEW m \in leases', l.generation = m.generation
      PROVE  l.holder = m.holder
  <2>1. CASE l \in leases /\ m \in leases
    BY <1>5, <2>1 DEF FencingInv, OneHolderPerGeneration
  <2>2. CASE l = new /\ m = new
    BY <2>2
  <2>3. CASE l \in leases /\ m = new
    BY <1>3, <1>1, <1>5, <2>3
  <2>4. CASE l = new /\ m \in leases
    BY <1>3, <1>1, <1>5, <2>4
  <2> QED
    BY <1>2, <2>1, <2>2, <2>3, <2>4
<1> QED
  BY <1>2, <1>4, <1>5 DEF FencingInv, OneHolderPerGeneration

LEMMA FencingStep == FencingInv /\ TypeOK' /\ [Next]_vars => FencingInv'
<1> SUFFICES ASSUME FencingInv, TypeOK', [Next]_vars
             PROVE  LeasesGranted' /\ OneHolderPerGeneration'
  BY DEF FencingInv
<1>1. CASE Tick \/ SetBack \/ (\E p \in Processes : Sample(p))
  BY <1>1 DEF Tick, SetBack, Sample, FencingInv, LeasesGranted, OneHolderPerGeneration
<1>2. ASSUME NEW p \in Processes, AcquireLease(p)
      PROVE  LeasesGranted' /\ OneHolderPerGeneration'
  BY <1>2, GrantFresh DEF AcquireLease
<1>3. ASSUME NEW p \in Processes, RecoverExpiredLease(p)
      PROVE  LeasesGranted' /\ OneHolderPerGeneration'
  BY <1>3, GrantFresh DEF RecoverExpiredLease
<1>4. ASSUME NEW l \in leases, HeartbeatLease(l)
      PROVE  LeasesGranted' /\ OneHolderPerGeneration'
  <2> DEFINE renewed == [l EXCEPT !.heartbeat = now[l.holder],
                                  !.expires = now[l.holder] + Duration]
  <2>1. l \in Lease /\ leases \subseteq Lease
    BY DEF FencingInv, TypeOK
  <2>2. renewed.holder = l.holder /\ renewed.generation = l.generation
    BY <2>1 DEF Lease
  <2>3. row'.generation = row.generation /\ leases' = leases \cup {renewed} /\ writes' = writes
    BY <1>4 DEF HeartbeatLease, FencingInv, TypeOK
  <2>4. LeasesGranted'
    BY <2>2, <2>3 DEF FencingInv, LeasesGranted
  <2>5. \A m \in leases' : \E k \in leases : k.generation = m.generation /\ k.holder = m.holder
    BY <2>2, <2>3
  <2>6. \A k, m \in leases' : k.generation = m.generation => k.holder = m.holder
    BY <2>5 DEF FencingInv, OneHolderPerGeneration
  <2>7. OneHolderPerGeneration'
    BY <2>3, <2>6 DEF FencingInv, OneHolderPerGeneration
  <2> QED
    BY <2>4, <2>7
<1>5. ASSUME NEW l \in leases, ReleaseLease(l)
      PROVE  LeasesGranted' /\ OneHolderPerGeneration'
  BY <1>5 DEF ReleaseLease, FencingInv, TypeOK, LeasesGranted, OneHolderPerGeneration
<1>6. ASSUME NEW l \in leases, FencedMutation(l)
      PROVE  LeasesGranted' /\ OneHolderPerGeneration'
  BY <1>6 DEF FencedMutation, FencingInv, LeasesGranted, OneHolderPerGeneration
<1>7. CASE UNCHANGED vars
  BY <1>7 DEF vars, FencingInv, LeasesGranted, OneHolderPerGeneration
<1> QED
  BY <1>1, <1>2, <1>3, <1>4, <1>5, <1>6, <1>7 DEF Next

LEMMA FencingInvariant == Spec => []FencingInv
<1>1. Init => LeasesGranted /\ OneHolderPerGeneration
  BY DEF Init, LeasesGranted, OneHolderPerGeneration
<1>2. LeasesGranted /\ OneHolderPerGeneration /\ TypeOK /\ TypeOK' /\ [Next]_vars
        => (LeasesGranted /\ OneHolderPerGeneration)'
  BY FencingStep DEF FencingInv
<1>3. LeasesGranted /\ OneHolderPerGeneration /\ TypeOK => FencingInv
  BY DEF FencingInv
<1> QED
  BY <1>1, <1>2, <1>3, TypeCorrect, PTL DEF Spec

\* A lease generation identifies its holder for good, even between processes that
\* pass one owner_token: acquire_lease and recover_expired_lease always move past
\* every generation handed out before, and a renewal keeps generation and holder.
THEOREM GenerationIdentifiesHolder == Spec => []OneHolderPerGeneration
BY FencingInvariant, PTL DEF FencingInv

\* _assert_fence rejects every mutation of a superseded generation, whatever the
\* clocks of the processes showed when they sampled them.
THEOREM FencedWrites == Spec => StaleHolderNeverWrites
<1> DEFINE A == \A w \in writes' \ writes : \A l \in leases : l.generation <= w.generation
<1>1. FencingInv /\ [Next]_vars => [A]_vars
  <2> SUFFICES ASSUME FencingInv, Next
               PROVE  A
    OBVIOUS
  <2>1. ASSUME NEW m \in leases, FencedMutation(m)
        PROVE  A
    <3>1. m.generation = row.generation
      BY <2>1 DEF FencedMutation, FencePasses
    <3>2. \A w \in writes' \ writes : w.generation = row.generation
      BY <2>1, <3>1 DEF FencedMutation
    <3> QED
      BY <3>2 DEF FencingInv, LeasesGranted
  <2>2. CASE writes' = writes
    BY <2>2
  <2> QED
    BY <2>1, <2>2 DEF Next, Tick, SetBack, Sample, AcquireLease, RecoverExpiredLease,
                      HeartbeatLease, ReleaseLease
<1> QED
  BY <1>1, FencingInvariant, PTL DEF Spec, StaleHolderNeverWrites

-------------------------------------------------------------------------------
(* Exclusivity of a live lease as long as the clock is not set back.        *)

\* No caller's sample lies in the future.
SamplesPast == \A p \in Processes : now[p] <= clock

\* Each object of the row's generation was copied from an earlier or the present
\* row, and its holder has sampled the clock at least as late as the row's heartbeat.
CopiesBehindRow ==
    \A l \in leases : l.generation = row.generation
        => /\ l.expires <= row.expires
           /\ row.heartbeat <= now[l.holder]

\* The row never outlives its heartbeat by more than the policy's duration.
RowDuration == row.generation # 0 => row.expires = row.heartbeat + Duration

\* active = 0 exactly when the generation of the row has been released.
ReleaseRecorded ==
    /\ \A g \in released : g <= row.generation
    /\ row.active => row.generation \notin released
    /\ (~row.active /\ row.generation # 0) => row.generation \in released

\* A superseded generation was released or had run out.
SupersededExpired ==
    \A l \in leases : (l.generation # row.generation /\ l.generation \notin released)
        => l.expires <= clock

ExclusiveInv ==
    /\ SamplesPast
    /\ CopiesBehindRow
    /\ RowDuration
    /\ ReleaseRecorded
    /\ SupersededExpired

LEMMA GrantExclusive ==
    ASSUME FencingInv, ExclusiveInv, NEW p \in Processes, Grant(p, row.generation + 1),
           row.active => row.expires <= now[p],
           UNCHANGED <<clock, now, released>>
    PROVE  ExclusiveInv'
<1> DEFINE new == [holder |-> p, generation |-> row.generation + 1,
                   heartbeat |-> now[p], expires |-> now[p] + Duration]
<1> USE RuntimeLeaseAssumption
<1>1. /\ row.generation \in Nat /\ row.expires \in Nat /\ row.active \in BOOLEAN
      /\ now[p] \in Nat /\ clock \in Nat
      /\ \A l \in leases : l.generation \in Nat /\ l.expires \in Nat
  BY DEF FencingInv, TypeOK, Lease
<1>2. /\ row'.generation = row.generation + 1
      /\ row'.active = TRUE
      /\ row'.heartbeat = now[p]
      /\ row'.expires = now[p] + Duration
      /\ leases' = leases \cup {new}
  BY DEF Grant
<1>3. \A l \in leases : 1 <= l.generation /\ l.generation <= row.generation
  BY DEF FencingInv, LeasesGranted
<1>4. SamplesPast'
  BY DEF ExclusiveInv, SamplesPast
<1>5. CopiesBehindRow'
  <2> SUFFICES ASSUME NEW l \in leases', l.generation = row'.generation
               PROVE  l.expires <= row'.expires /\ row'.heartbeat <= now[l.holder]
    BY DEF CopiesBehindRow
  <2>1. l = new
    BY <1>1, <1>2, <1>3
  <2> QED
    BY <1>1, <1>2, <2>1
<1>6. RowDuration'
  BY <1>2 DEF RowDuration
<1>7. ReleaseRecorded'
  <2>1. \A g \in released : g \in Nat /\ g <= row.generation
    BY DEF ExclusiveInv, ReleaseRecorded, FencingInv, TypeOK
  <2> QED
    BY <1>1, <1>2, <2>1 DEF ReleaseRecorded
<1>8. SupersededExpired'
  <2> SUFFICES ASSUME NEW l \in leases', l.generation # row'.generation,
                      l.generation \notin released
               PROVE  l.expires <= clock
    BY DEF SupersededExpired
  <2>1. l \in leases
    BY <1>2
  <2>2. CASE l.generation # row.generation
    BY <2>1, <2>2 DEF ExclusiveInv, SupersededExpired
  <2>3. CASE l.generation = row.generation
    <3>1. row.generation # 0
      BY <1>1, <1>3, <2>1, <2>3
    <3>2. row.active
      BY <1>1, <3>1, <2>3 DEF ExclusiveInv, ReleaseRecorded
    <3>3. l.expires <= row.expires
      BY <2>1, <2>3 DEF ExclusiveInv, CopiesBehindRow
    <3>4. row.expires <= now[p] /\ now[p] <= clock
      BY <3>2 DEF ExclusiveInv, SamplesPast
    <3> QED
      BY <1>1, <2>1, <3>3, <3>4
  <2> QED
    BY <2>2, <2>3
<1> QED
  BY <1>4, <1>5, <1>6, <1>7, <1>8 DEF ExclusiveInv

LEMMA HeartbeatExclusive ==
    ASSUME FencingInv, ExclusiveInv, NEW l \in leases, HeartbeatLease(l)
    PROVE  ExclusiveInv'
<1> DEFINE t == now[l.holder]
<1> DEFINE renewed == [l EXCEPT !.heartbeat = t, !.expires = t + Duration]
<1> USE RuntimeLeaseAssumption
<1>1. /\ l \in Lease /\ t \in Nat /\ clock \in Nat
      /\ row \in [generation : Nat, owner : Tokens, active : BOOLEAN,
                  heartbeat : Nat, expires : Nat]
      /\ \A m \in leases : m.holder \in Processes /\ m.generation \in Nat /\ m.expires \in Nat
      /\ \A p \in Processes : now[p] \in Nat
  BY DEF FencingInv, TypeOK, Lease
<1>2. /\ row' = [row EXCEPT !.heartbeat = t, !.expires = t + Duration]
      /\ leases' = leases \cup {renewed}
      /\ UNCHANGED <<clock, now, released>>
      /\ row.active /\ row.generation = l.generation
  BY DEF HeartbeatLease, OwnsRow
<1>3. /\ row'.generation = row.generation /\ row'.active = row.active
      /\ row'.heartbeat = t /\ row'.expires = t + Duration
  BY <1>1, <1>2
<1>4. /\ renewed.holder = l.holder /\ renewed.generation = l.generation
      /\ renewed.expires = t + Duration
  BY <1>1 DEF Lease
<1>5. row.expires <= t + Duration
  <2>1. row.generation # 0
    BY <1>1, <1>2 DEF FencingInv, LeasesGranted
  <2>2. row.expires = row.heartbeat + Duration /\ row.heartbeat <= t
    BY <1>2, <2>1 DEF ExclusiveInv, RowDuration, CopiesBehindRow
  <2> QED
    BY <1>1, <2>2
<1>6. SamplesPast'
  BY <1>2 DEF ExclusiveInv, SamplesPast
<1>7. CopiesBehindRow'
  <2> SUFFICES ASSUME NEW m \in leases', m.generation = row'.generation
               PROVE  m.expires <= row'.expires /\ row'.heartbeat <= now[m.holder]
    BY <1>2 DEF CopiesBehindRow
  <2>1. CASE m = renewed
    BY <1>1, <1>3, <1>4, <2>1
  <2>2. CASE m \in leases
    <3>1. m.holder = l.holder
      BY <1>2, <1>3, <2>2 DEF FencingInv, OneHolderPerGeneration
    <3>2. m.expires <= row.expires
      BY <1>3, <2>2 DEF ExclusiveInv, CopiesBehindRow
    <3> QED
      BY <1>1, <1>3, <1>5, <2>2, <3>1, <3>2
  <2> QED
    BY <1>2, <2>1, <2>2
<1>8. RowDuration'
  BY <1>3 DEF RowDuration
<1>9. ReleaseRecorded'
  BY <1>2, <1>3 DEF ExclusiveInv, ReleaseRecorded
<1>10. SupersededExpired'
  BY <1>2, <1>3, <1>4 DEF ExclusiveInv, SupersededExpired
<1> QED
  BY <1>6, <1>7, <1>8, <1>9, <1>10 DEF ExclusiveInv

LEMMA ExclusiveStep ==
    FencingInv /\ ExclusiveInv /\ [Next]_vars /\ rollbacks' = 0 => ExclusiveInv'
<1> SUFFICES ASSUME FencingInv, ExclusiveInv, [Next]_vars, rollbacks' = 0
             PROVE  ExclusiveInv'
  OBVIOUS
<1>0. /\ clock \in Nat /\ now \in [Processes -> Nat] /\ row.heartbeat \in Nat
      /\ row.generation \in Nat /\ row.active \in BOOLEAN
      /\ \A l \in leases : l.holder \in Processes /\ l.generation \in Nat /\ l.expires \in Nat
  BY DEF FencingInv, TypeOK, Lease
<1>1. CASE Tick
  <2>1. clock' = clock + 1 /\ UNCHANGED <<row, now, leases, released>>
    BY <1>1 DEF Tick
  <2>2. SamplesPast'
    BY <1>0, <2>1 DEF ExclusiveInv, SamplesPast
  <2>3. SupersededExpired'
    BY <1>0, <2>1 DEF ExclusiveInv, SupersededExpired
  <2> QED
    BY <2>1, <2>2, <2>3 DEF ExclusiveInv, CopiesBehindRow, RowDuration, ReleaseRecorded
<1>2. CASE SetBack
  BY <1>2 DEF SetBack, ExclusiveInv, FencingInv, TypeOK
<1>3. ASSUME NEW p \in Processes, Sample(p)
      PROVE  ExclusiveInv'
  <2>1. now' = [now EXCEPT ![p] = clock] /\ UNCHANGED <<row, clock, leases, released>>
    BY <1>3 DEF Sample
  <2>2. \A q \in Processes : now[q] <= now'[q] /\ now'[q] <= clock
    BY <1>0, <2>1 DEF ExclusiveInv, SamplesPast
  <2>3. SamplesPast'
    BY <2>1, <2>2 DEF SamplesPast
  <2>4. CopiesBehindRow'
    <3> SUFFICES ASSUME NEW l \in leases, l.generation = row.generation
                 PROVE  l.expires <= row.expires /\ row.heartbeat <= now'[l.holder]
      BY <2>1 DEF CopiesBehindRow
    <3>1. l.expires <= row.expires /\ row.heartbeat <= now[l.holder]
      BY DEF ExclusiveInv, CopiesBehindRow
    <3>2. now[l.holder] \in Nat /\ now'[l.holder] \in Nat /\ now[l.holder] <= now'[l.holder]
      BY <1>0, <2>1, <2>2
    <3> QED
      BY <1>0, <3>1, <3>2
  <2> QED
    BY <2>1, <2>3, <2>4 DEF ExclusiveInv, RowDuration, ReleaseRecorded, SupersededExpired
<1>4. ASSUME NEW p \in Processes, AcquireLease(p)
      PROVE  ExclusiveInv'
  BY <1>4, GrantExclusive DEF AcquireLease
<1>5. ASSUME NEW p \in Processes, RecoverExpiredLease(p)
      PROVE  ExclusiveInv'
  BY <1>5, GrantExclusive DEF RecoverExpiredLease
<1>6. ASSUME NEW l \in leases, HeartbeatLease(l)
      PROVE  ExclusiveInv'
  BY <1>6, HeartbeatExclusive
<1>7. ASSUME NEW l \in leases, ReleaseLease(l)
      PROVE  ExclusiveInv'
  <2>1. /\ row'.generation = row.generation /\ row'.heartbeat = row.heartbeat
        /\ row'.expires = row.expires /\ row'.active = FALSE
        /\ released' = released \cup {row.generation}
        /\ UNCHANGED <<clock, now, leases>>
    BY <1>7 DEF ReleaseLease, OwnsRow, FencingInv, TypeOK
  <2>2. ReleaseRecorded'
    BY <1>0, <2>1 DEF ExclusiveInv, ReleaseRecorded
  <2> QED
    BY <2>1, <2>2 DEF ExclusiveInv, SamplesPast, CopiesBehindRow, RowDuration, SupersededExpired
<1>8. CASE (\E l \in leases : FencedMutation(l)) \/ UNCHANGED vars
  BY <1>8 DEF FencedMutation, vars, ExclusiveInv, SamplesPast, CopiesBehindRow, RowDuration,
              ReleaseRecorded, SupersededExpired
<1> QED
  BY <1>1, <1>2, <1>3, <1>4, <1>5, <1>6, <1>7, <1>8 DEF Next

LEMMA ExclusiveImplies == FencingInv /\ ExclusiveInv => HolderNotDisplacedEarly
<1> SUFFICES ASSUME FencingInv, ExclusiveInv, NEW l \in leases,
                    l.generation \notin released, clock < l.expires
             PROVE  row.active /\ row.generation = l.generation
  BY DEF HolderNotDisplacedEarly
<1>1. clock \in Nat /\ l.expires \in Nat /\ l.generation \in Nat /\ row.active \in BOOLEAN
  BY DEF FencingInv, TypeOK, Lease
<1>2. row.generation = l.generation
  BY <1>1 DEF ExclusiveInv, SupersededExpired
<1>3. row.generation # 0
  BY <1>1, <1>2 DEF FencingInv, LeasesGranted
<1> QED
  BY <1>1, <1>2, <1>3 DEF ExclusiveInv, ReleaseRecorded

LEMMA RollbacksStay == FencingInv /\ [Next]_vars /\ rollbacks' = 0 => rollbacks = 0
<1> SUFFICES ASSUME FencingInv, [Next]_vars, rollbacks' = 0
             PROVE  rollbacks = 0
  OBVIOUS
<1>1. rollbacks \in Nat
  BY DEF FencingInv, TypeOK
<1>2. rollbacks' = rollbacks \/ rollbacks' = rollbacks + 1
  BY DEF Next, vars, Tick, SetBack, Sample, AcquireLease,
         RecoverExpiredLease, HeartbeatLease, ReleaseLease, FencedMutation
<1> QED
  BY <1>1, <1>2

\* As long as the host's clock has not been set back, a process may trust any lease
\* object it holds until that object's expires_at: recover_expired_lease cannot displace
\* it earlier, because renewals only ever move the row's expiry forward.
THEOREM LiveLeaseIsExclusive == Spec => []HolderNotDisplacedEarly
<1> DEFINE I == FencingInv /\ (rollbacks = 0 => ExclusiveInv)
<1>1. Init => ExclusiveInv
  <2> SUFFICES ASSUME Init
               PROVE  ExclusiveInv
    OBVIOUS
  <2>1. row.generation = 0 /\ ~row.active
    BY DEF Init
  <2> QED
    BY <2>1 DEF Init, ExclusiveInv, SamplesPast, CopiesBehindRow, RowDuration,
                ReleaseRecorded, SupersededExpired
<1>2. I /\ FencingInv' /\ [Next]_vars => I'
  BY ExclusiveStep, RollbacksStay
<1>3. I => HolderNotDisplacedEarly
  BY ExclusiveImplies DEF HolderNotDisplacedEarly
<1> QED
  BY <1>1, <1>2, <1>3, FencingInvariant, PTL DEF Spec

-------------------------------------------------------------------------------
(* RuntimeStorage.                                                            *)

Places == {"stopped", "connecting", "restricting", "checking", "reading", "creating",
           "migrating", "scripting", "committing", "verifying", "opened"}
PastMode == {"reading", "creating", "migrating", "scripting", "committing", "verifying", "opened"}

Types ==
    /\ file \in [exists : BOOLEAN, private : BOOLEAN, version : 0 .. 8, metadata : 0 .. 8,
                 holds : SUBSET Through(8)]
    /\ at \in [Process -> Places]
    /\ existed \in [Process -> BOOLEAN]
    /\ seen \in [Process -> 0 .. 8]
    /\ consumers \in [Consumer -> {"none", "active", "completed", "unattributed"}]

\* The two versions agree, and the tables are those of the version, except for the
\* column that the first statement of version 1's migration has committed.
FileOfItsVersion ==
    /\ file.metadata = file.version
    /\ \/ file.holds = Through(file.version)
       \/ file.version = 1 /\ file.holds = Adds[2]
    /\ ~file.exists => file.version = 0 /\ \A p \in Process : at[p] \in {"stopped", "connecting"}

PrivateOnceChecked == \A p \in Process : at[p] \in PastMode => file.exists /\ file.private

\* A process never saw a later version than the file's.
SeenEarlier == \A p \in Process : at[p] \in {"migrating", "scripting"} =>
                                     seen[p] \in 1 .. 7 /\ seen[p] <= file.version

\* Between the two commits of version 1's migration the file waits for one process.
OneCommitting ==
    /\ \A p \in Process : at[p] = "committing" => file.version = 1 /\ file.holds = Adds[2]
    /\ \A p, q \in Process : at[p] = "committing" /\ at[q] = "committing" => p = q

OpenedAtLast == \A p \in Process : at[p] = "opened" => file.version = 8

StorageInv ==
    Types /\ FileOfItsVersion /\ PrivateOnceChecked /\ SeenEarlier /\ OneCommitting /\ OpenedAtLast

-------------------------------------------------------------------------------
(* What the versions add.                                                     *)

LEMMA PresentFile ==
    FileOf(SCHEMA_VERSION) = [exists |-> TRUE, private |-> TRUE, version |-> 8, metadata |-> 8,
                              holds |-> Through(8)]
  <1>1. SCHEMA_VERSION = 8 /\ 8 # 0
    BY DEF SCHEMA_VERSION
  <1> QED
    BY <1>1 DEF FileOf

LEMMA PresentFileOf ==
    ASSUME NEW b \in BOOLEAN
    PROVE  [FileOf(SCHEMA_VERSION) EXCEPT !.private = b]
             = [exists |-> TRUE, private |-> b, version |-> 8, metadata |-> 8, holds |-> Through(8)]
  <1> DEFINE H == Through(8)
             F == FileOf(SCHEMA_VERSION)
  <1>1. F = [exists |-> TRUE, private |-> TRUE, version |-> 8, metadata |-> 8, holds |-> H]
    BY PresentFile
  <1> HIDE DEF F, H
  <1>2. [F EXCEPT !.private = b]
          = [exists |-> TRUE, private |-> b, version |-> 8, metadata |-> 8, holds |-> H]
    <2> DEFINE R == [exists : BOOLEAN, private : BOOLEAN, version : {8}, metadata : {8}, holds : {H}]
    <2>1. F \in R /\ F.exists
      BY <1>1
    <2>2. /\ [F EXCEPT !.private = b] \in R
          /\ [F EXCEPT !.private = b].exists /\ [F EXCEPT !.private = b].private = b
      BY <2>1
    <2>3. ASSUME NEW r \in R, r.exists, r.private = b
          PROVE  r = [exists |-> TRUE, private |-> b, version |-> 8, metadata |-> 8, holds |-> H]
      BY <2>3
    <2> HIDE DEF R
    <2> QED
      BY <2>2, <2>3
  <1> QED
    BY <1>2 DEF F, H

LEMMA EachAdds == \A v \in 2 .. 8 : Adds[v] # {}
  <1>1. Adds[2] # {} /\ Adds[3] # {} /\ Adds[4] # {}
    BY DEF Adds, SCHEMA_VERSION
  <1>2. Adds[5] # {} /\ Adds[6] # {} /\ Adds[7] # {} /\ Adds[8] # {}
    BY DEF Adds, SCHEMA_VERSION
  <1> QED
    BY <1>1, <1>2

LEMMA FirstAdds == Adds[2] = {"active"}
  BY DEF Adds, SCHEMA_VERSION

LEMMA NothingBeforeTwo == Through(0) = {} /\ Through(1) = {}
  BY DEF Through

LEMMA NextThrough == \A v \in 2 .. 8 : Through(v) = Through(v - 1) \cup Adds[v]
  <1> SUFFICES ASSUME NEW v \in 2 .. 8 PROVE Through(v) = Through(v - 1) \cup Adds[v]
    OBVIOUS
  <1>1. 2 .. v = (2 .. v - 1) \cup {v}
    OBVIOUS
  <1> QED
    BY <1>1 DEF Through

LEMMA ThroughGrows == \A v, w \in 0 .. 8 : v <= w => Through(v) \subseteq Through(w)
  BY DEF Through

LEMMA AddsIncluded == \A v \in 2 .. 8, w \in 0 .. 8 : v <= w => Adds[v] \subseteq Through(w)
  BY DEF Through

\* A script that is run on a later version fails, except that of version 8.
LEMMA LateScriptFails ==
    ASSUME NEW v \in 2 .. 7, v <= file.version, FileOfItsVersion, Types
    PROVE  ~Accepts(v)
  <1>1. Adds[v] \subseteq file.holds
    BY AddsIncluded DEF FileOfItsVersion, Types
  <1> QED
    BY <1>1, EachAdds DEF Accepts

\* A script that is accepted leaves a file of its version.
LEMMA ScriptMigrates ==
    ASSUME Types, FileOfItsVersion, NEW s \in 2 .. 7, s <= file.version, Accepts(s + 1)
    PROVE  /\ Migrated(s + 1) \in [exists : BOOLEAN, private : BOOLEAN, version : 0 .. 8,
                                   metadata : 0 .. 8, holds : SUBSET Through(8)]
           /\ Migrated(s + 1).version = s + 1 /\ Migrated(s + 1).metadata = s + 1
           /\ Migrated(s + 1).holds = Through(s + 1)
           /\ Migrated(s + 1).exists = file.exists /\ Migrated(s + 1).private = file.private
           /\ file.version \in {s, s + 1} /\ file.version <= s + 1
  <1>1. file.version \in {s, s + 1}
    <2>1. CASE s = 7
      BY <2>1 DEF Types
    <2>2. CASE s # 7
      <3>1. ~(s + 1 <= file.version)
        BY <2>2, LateScriptFails
      <3> QED
        BY <3>1 DEF Types
    <2> QED
      BY <2>1, <2>2
  <1>2. file.holds \cup Adds[s + 1] = Through(s + 1)
    <2>1. file.holds = Through(file.version)
      BY DEF FileOfItsVersion, Types
    <2>2. CASE file.version = s
      BY <2>1, <2>2, NextThrough
    <2>3. CASE file.version = s + 1
      BY <2>1, <2>3, AddsIncluded
    <2> QED
      BY <1>1, <2>2, <2>3
  <1>3. Through(s + 1) \subseteq Through(8)
    BY ThroughGrows
  <1>4. Migrated(s + 1) = [exists |-> file.exists, private |-> file.private, version |-> s + 1,
                           metadata |-> s + 1, holds |-> Through(s + 1)]
    <2> DEFINE M == Migrated(s + 1)
    <2>1. M = [file EXCEPT !.version = s + 1, !.metadata = s + 1, !.holds = Through(s + 1)]
      BY <1>2 DEF Migrated
    <2> QED
      BY <2>1 DEF Types
  <1>5. file.exists \in BOOLEAN /\ file.private \in BOOLEAN /\ s + 1 \in 0 .. 8
    BY DEF Types
  <1>6. file.version <= s + 1
    BY <1>1
  <1> QED
    BY <1>1, <1>3, <1>4, <1>5, <1>6

-------------------------------------------------------------------------------
(* The invariant, action by action.                                           *)

LEMMA InitStorage == StorageInit => StorageInv
  <1> SUFFICES ASSUME StorageInit PROVE StorageInv
    OBVIOUS
  <1>1. PICK v \in FirstVersions : file = FileOf(v) /\ consumers \in [Consumer -> ConsumerStates(v)]
    BY DEF StorageInit
  <1>2. v \in 0 .. 8
    BY StorageAssumption DEF SCHEMA_VERSION
  <1>3. file \in [exists : BOOLEAN, private : BOOLEAN, version : 0 .. 8, metadata : 0 .. 8,
                  holds : SUBSET Through(8)]
    BY <1>1, <1>2, ThroughGrows DEF FileOf, NoFile
  <1>4. consumers \in [Consumer -> {"none", "active", "completed", "unattributed"}]
    <2>1. ConsumerStates(v) \subseteq {"none", "active", "completed", "unattributed"}
      BY DEF ConsumerStates
    <2> QED
      BY <1>1, <2>1
  <1>5. file.metadata = file.version /\ file.holds = Through(file.version)
        /\ (~file.exists => file.version = 0)
    BY <1>1, <1>2, NothingBeforeTwo DEF FileOf, NoFile
  <1>6. \A q \in Process : at[q] = "stopped"
    BY DEF StorageInit
  <1> QED
    BY <1>3, <1>4, <1>5, <1>6
       DEF StorageInit, StorageInv, Types, Places, FileOfItsVersion, PrivateOnceChecked, SeenEarlier,
           OneCommitting, OpenedAtLast, PastMode

\* A step that leaves the file alone.
LEMMA FileUntouched ==
    ASSUME StorageInv, Types', UNCHANGED file, NEW p \in Process,
           \A q \in Process \ {p} : at'[q] = at[q] /\ seen'[q] = seen[q],
           ~file.exists => at'[p] \in {"stopped", "connecting"},
           at'[p] \in PastMode => file.exists /\ file.private,
           at'[p] \in {"migrating", "scripting"} => seen'[p] \in 1 .. 7 /\ seen'[p] <= file.version,
           at'[p] = "committing" => at[p] = "committing",
           at'[p] = "opened" => file.version = 8
    PROVE  StorageInv'
  <1>1. FileOfItsVersion'
    BY DEF StorageInv, FileOfItsVersion
  <1>2. PrivateOnceChecked'
    BY DEF StorageInv, PrivateOnceChecked
  <1>3. SeenEarlier'
    BY DEF StorageInv, SeenEarlier
  <1>4. OneCommitting'
    BY DEF StorageInv, OneCommitting
  <1>5. OpenedAtLast'
    BY DEF StorageInv, OpenedAtLast
  <1> QED
    BY <1>1, <1>2, <1>3, <1>4, <1>5 DEF StorageInv

LEMMA QuietStep ==
    ASSUME StorageInv, NEW p \in Process,
           \/ Start(p) \/ CheckMode(p) \/ ReadVersion(p) \/ ReadMetadata(p) \/ VerifySchema(p)
           \/ Close(p) \/ Crash(p)
    PROVE  StorageInv'
  <1>1. CASE Start(p)
    <2>1. Types'
      BY <1>1 DEF StorageInv, Types, Start, Goes, Places
    <2> QED
      BY <1>1, <2>1, FileUntouched DEF StorageInv, Types, Start, Goes, PastMode
  <1>2. CASE CheckMode(p)
    <2>1. Types'
      BY <1>2 DEF StorageInv, Types, CheckMode, Goes, Places
    <2>2. file.exists
      BY <1>2 DEF StorageInv, FileOfItsVersion, CheckMode, Goes
    <2> QED
      BY <1>2, <2>1, <2>2, FileUntouched DEF StorageInv, Types, CheckMode, Goes, PastMode
  <1>3. CASE ReadVersion(p)
    <2>1. file.version \in 0 .. 8
      BY DEF StorageInv, Types
    <2>2. PICK l \in {"creating", "migrating", "verifying"} :
            /\ at' = [at EXCEPT ![p] = l]
            /\ l = "migrating" => file.version \in 1 .. 7
      <3>1. CASE file.version = 0
        <4>1. file.version = 0 /\ file.version \notin 1 .. SCHEMA_VERSION - 1 /\ file.version # SCHEMA_VERSION
          BY <3>1 DEF SCHEMA_VERSION
        <4>2. at' = [at EXCEPT ![p] = "creating"]
          BY <1>3, <4>1 DEF ReadVersion, Goes
        <4> QED
          BY <4>2
      <3>2. CASE file.version \in 1 .. 7
        <4>1. file.version # 0 /\ file.version \in 1 .. SCHEMA_VERSION - 1 /\ file.version # SCHEMA_VERSION
          BY <3>2 DEF SCHEMA_VERSION
        <4>2. at' = [at EXCEPT ![p] = "migrating"]
          BY <1>3, <4>1 DEF ReadVersion, Goes
        <4> QED
          BY <3>2, <4>2
      <3>3. CASE file.version = 8
        <4>1. file.version # 0 /\ file.version \notin 1 .. SCHEMA_VERSION - 1 /\ file.version = SCHEMA_VERSION
          BY <3>3 DEF SCHEMA_VERSION
        <4>2. at' = [at EXCEPT ![p] = "verifying"]
          BY <1>3, <4>1 DEF ReadVersion, Goes
        <4> QED
          BY <4>2
      <3> QED
        BY <2>1, <3>1, <3>2, <3>3
    <2>3. at[p] = "reading" /\ file.exists /\ file.private
      BY <1>3 DEF ReadVersion, Goes, StorageInv, PrivateOnceChecked, PastMode
    <2>4. Types'
      BY <1>3, <2>1, <2>2 DEF StorageInv, Types, ReadVersion, Places
    <2> QED
      BY <1>3, <2>1, <2>2, <2>3, <2>4, FileUntouched DEF StorageInv, Types, ReadVersion
  <1>4. CASE ReadMetadata(p)
    <2>1. Types'
      BY <1>4 DEF StorageInv, Types, ReadMetadata, Goes, Places
    <2>2. file.exists /\ file.private /\ seen[p] \in 1 .. 7 /\ seen[p] <= file.version
      BY <1>4 DEF StorageInv, PrivateOnceChecked, SeenEarlier, ReadMetadata, Goes, PastMode
    <2> QED
      BY <1>4, <2>1, <2>2, FileUntouched DEF StorageInv, Types, ReadMetadata, Goes
  <1>5. CASE VerifySchema(p)
    <2>1. Types'
      BY <1>5 DEF StorageInv, Types, VerifySchema, Goes, Places
    <2>2. file.exists /\ file.private
      BY <1>5 DEF StorageInv, PrivateOnceChecked, VerifySchema, Goes, PastMode
    <2> QED
      BY <1>5, <2>1, <2>2, FileUntouched DEF StorageInv, Types, VerifySchema, Goes, SCHEMA_VERSION
  <1>6. CASE Close(p) \/ Crash(p)
    <2>1. Types'
      BY <1>6 DEF StorageInv, Types, Close, Crash, Goes, Places
    <2> QED
      BY <1>6, <2>1, FileUntouched DEF StorageInv, Types, Close, Crash, Goes, PastMode
  <1> QED
    BY <1>1, <1>2, <1>3, <1>4, <1>5, <1>6

\* The file is made, or found, before anybody is past its making.
LEMMA ConnectStep ==
    ASSUME StorageInv, NEW p \in Process, Connect(p) PROVE StorageInv'
  <1>1. CASE file.exists
    <2>1. Types'
      BY <1>1 DEF StorageInv, Types, Connect, Goes, Places
    <2> QED
      BY <1>1, <2>1, FileUntouched DEF StorageInv, Types, Connect, Goes, PastMode
  <1>2. CASE ~file.exists
    <2>1. PICK private \in BOOLEAN : file' = [file EXCEPT !.exists = TRUE, !.private = private]
      BY <1>2 DEF Connect
    <2>2. Types' /\ file'.exists /\ file'.version = file.version /\ file'.metadata = file.metadata
          /\ file'.holds = file.holds
      BY <2>1 DEF StorageInv, Types, Connect, Goes, Places
    <2>3. \A q \in Process : at'[q] \in {"stopped", "connecting", "restricting", "checking"}
      BY <1>2 DEF StorageInv, Types, FileOfItsVersion, Connect, Goes
    <2> QED
      BY <2>2, <2>3 DEF StorageInv, FileOfItsVersion, PrivateOnceChecked, SeenEarlier, OneCommitting,
                        OpenedAtLast, PastMode
  <1> QED
    BY <1>1, <1>2

LEMMA RestrictStep ==
    ASSUME StorageInv, NEW p \in Process, RestrictMode(p) PROVE StorageInv'
  <1>1. file.exists /\ at' = [at EXCEPT ![p] = "checking"] /\ file' = [file EXCEPT !.private = TRUE]
        /\ UNCHANGED <<existed, seen, consumers>>
    BY DEF StorageInv, FileOfItsVersion, RestrictMode, Goes
  <1>2. Types' /\ file'.exists /\ file'.private /\ file'.version = file.version
        /\ file'.metadata = file.metadata /\ file'.holds = file.holds
    BY <1>1 DEF StorageInv, Types, Places
  <1> QED
    BY <1>1, <1>2 DEF StorageInv, Types, FileOfItsVersion, PrivateOnceChecked, SeenEarlier,
                      OneCommitting, OpenedAtLast, PastMode

\* Only a file of version 0 is given a schema, and nobody migrates such a file.
LEMMA CreateStep ==
    ASSUME StorageInv, NEW p \in Process, CreateSchema(p) PROVE StorageInv'
  <1>1. at[p] = "creating" /\ file.exists /\ file.private
    BY DEF StorageInv, PrivateOnceChecked, CreateSchema, Goes, PastMode
  <1>2. CASE file.metadata # 0
    <2>1. Types'
      BY <1>2 DEF StorageInv, Types, CreateSchema, Goes, Places
    <2> QED
      BY <1>1, <1>2, <2>1, FileUntouched DEF StorageInv, Types, CreateSchema, Goes, PastMode
  <1>3. CASE file.metadata = 0
    <2>1. at' = [at EXCEPT ![p] = "verifying"] /\ UNCHANGED <<existed, seen, consumers>>
          /\ file' = [FileOf(SCHEMA_VERSION) EXCEPT !.private = file.private]
      BY <1>3 DEF CreateSchema, Goes
    <2>2. file' = [exists |-> TRUE, private |-> file.private, version |-> 8, metadata |-> 8,
                   holds |-> Through(8)]
      BY <2>1, PresentFileOf DEF StorageInv, Types
    <2>3. Types'
      <3>1. file' \in [exists : BOOLEAN, private : BOOLEAN, version : 0 .. 8, metadata : 0 .. 8,
                       holds : SUBSET Through(8)]
        BY <2>2 DEF StorageInv, Types
      <3>2. at' \in [Process -> Places]
        BY <2>1 DEF StorageInv, Types, Places
      <3> QED
        BY <2>1, <3>1, <3>2 DEF StorageInv, Types
    <2>4. \A q \in Process : at[q] \notin {"migrating", "scripting", "committing"}
      BY <1>3 DEF StorageInv, Types, FileOfItsVersion, SeenEarlier, OneCommitting
    <2> QED
      BY <1>1, <2>1, <2>2, <2>3, <2>4
         DEF StorageInv, Types, FileOfItsVersion, PrivateOnceChecked, SeenEarlier, OneCommitting,
             OpenedAtLast, PastMode
  <1> QED
    BY <1>2, <1>3

\* The column is added to a file of version 1 only, and once.
LEMMA AddStep ==
    ASSUME StorageInv, NEW p \in Process, AddActive(p) PROVE StorageInv'
  <1>1. at[p] = "scripting" /\ seen[p] = 1 /\ file.exists /\ file.private /\ 1 <= file.version
    BY DEF StorageInv, PrivateOnceChecked, SeenEarlier, AddActive, PastMode
  <1>2. CASE "active" \in file.holds
    <2>1. Types'
      BY <1>2 DEF StorageInv, Types, AddActive, Goes, Places
    <2> QED
      BY <1>1, <1>2, <2>1, FileUntouched DEF StorageInv, Types, AddActive, Goes, PastMode
  <1>3. CASE "active" \notin file.holds
    <2>1. file.version = 1 /\ file.holds = {}
      <3>1. ~(2 <= file.version) \/ file.holds # Through(file.version)
        BY <1>3, AddsIncluded, FirstAdds DEF StorageInv, Types
      <3> QED
        BY <1>1, <1>3, <3>1, FirstAdds, NothingBeforeTwo DEF StorageInv, Types, FileOfItsVersion
    <2>2. at' = [at EXCEPT ![p] = "committing"] /\ UNCHANGED <<existed, seen, consumers>>
          /\ file' = [file EXCEPT !.holds = @ \cup Adds[2]]
      BY <1>3 DEF AddActive, Goes
    <2>3. file'.holds = Adds[2] /\ file'.version = 1 /\ file'.metadata = 1
          /\ file'.exists /\ file'.private
      BY <1>1, <2>1, <2>2 DEF StorageInv, Types, FileOfItsVersion
    <2>4. Adds[2] \subseteq Through(8)
      BY AddsIncluded
    <2>5. Types'
      BY <2>1, <2>2, <2>4 DEF StorageInv, Types, Places
    <2>6. \A q \in Process : at[q] # "committing"
      BY <1>3, FirstAdds DEF StorageInv, OneCommitting
    <2> QED
      BY <1>1, <2>1, <2>2, <2>3, <2>5, <2>6
         DEF StorageInv, Types, FileOfItsVersion, PrivateOnceChecked, SeenEarlier, OneCommitting,
             OpenedAtLast, PastMode
  <1> QED
    BY <1>2, <1>3

LEMMA CommitStep ==
    ASSUME StorageInv, NEW p \in Process, CommitVersionTwo(p) PROVE StorageInv'
  <1>1. at[p] = "committing" /\ file.version = 1 /\ file.holds = Adds[2] /\ file.exists /\ file.private
    BY DEF StorageInv, OneCommitting, PrivateOnceChecked, CommitVersionTwo, Goes, PastMode
  <1>2. at' = [at EXCEPT ![p] = "migrating"] /\ seen' = [seen EXCEPT ![p] = 2]
        /\ file' = [file EXCEPT !.version = 2, !.metadata = 2] /\ UNCHANGED <<existed, consumers>>
    BY DEF CommitVersionTwo, Goes
  <1>0. Through(2) = Adds[2]
    <2>1. Through(2) = Through(2 - 1) \cup Adds[2]
      BY NextThrough
    <2> QED
      BY <2>1, NothingBeforeTwo
  <1>3. file'.version = 2 /\ file'.metadata = 2 /\ file'.holds = Through(2)
        /\ file'.exists /\ file'.private
    BY <1>1, <1>2, <1>0 DEF StorageInv, Types
  <1>4. Types'
    <2>1. at' \in [Process -> Places] /\ seen' \in [Process -> 0 .. 8]
      BY <1>2 DEF StorageInv, Types, Places
    <2>2. file' \in [exists : BOOLEAN, private : BOOLEAN, version : 0 .. 8, metadata : 0 .. 8,
                     holds : SUBSET Through(8)]
      <3> DEFINE H == Through(8)
      <3>1. file \in [exists : BOOLEAN, private : BOOLEAN, version : 0 .. 8, metadata : 0 .. 8,
                      holds : SUBSET H]
        BY DEF StorageInv, Types
      <3> HIDE DEF H
      <3>2. file' \in [exists : BOOLEAN, private : BOOLEAN, version : 0 .. 8, metadata : 0 .. 8,
                       holds : SUBSET H]
        <4>1. file' = [[file EXCEPT !.version = 2] EXCEPT !.metadata = 2]
          BY <1>2
        <4>2. [file EXCEPT !.version = 2] \in [exists : BOOLEAN, private : BOOLEAN, version : 0 .. 8,
                                               metadata : 0 .. 8, holds : SUBSET H]
          BY <3>1
        <4> QED
          BY <4>1, <4>2
      <3> QED
        BY <3>2 DEF H
    <2> QED
      BY <1>2, <2>1, <2>2 DEF StorageInv, Types
  <1>5. \A q \in Process \ {p} : at'[q] # "committing"
    BY <1>1, <1>2 DEF StorageInv, Types, OneCommitting
  <1>6. \A q \in Process : at[q] # "opened"
    BY <1>1 DEF StorageInv, OpenedAtLast
  <1> QED
    BY <1>1, <1>2, <1>3, <1>4, <1>5, <1>6
       DEF StorageInv, Types, FileOfItsVersion, PrivateOnceChecked, SeenEarlier, OneCommitting,
           OpenedAtLast, PastMode

\* A slower process's script fails, or (version 8) finds its own version and leaves it.
LEMMA ScriptStep ==
    ASSUME StorageInv, NEW p \in Process, RunScript(p) PROVE StorageInv'
  <1>1. at[p] = "scripting" /\ seen[p] \in 2 .. 7 /\ seen[p] <= file.version
        /\ file.exists /\ file.private
    BY DEF StorageInv, PrivateOnceChecked, SeenEarlier, RunScript, PastMode
  <1>2. CASE ~Accepts(seen[p] + 1)
    <2>1. Types'
      BY <1>2 DEF StorageInv, Types, RunScript, Goes, Places
    <2>2. at' = [at EXCEPT ![p] = "stopped"] /\ UNCHANGED <<file, seen, existed>>
      BY <1>2 DEF RunScript, Goes
    <2> QED
      BY <2>1, <2>2, FileUntouched DEF StorageInv, Types, PastMode
  <1>3. CASE Accepts(seen[p] + 1)
    <2> DEFINE v == seen[p] + 1
    <2>1. /\ at' = [at EXCEPT ![p] = IF v = 8 THEN "verifying" ELSE "migrating"]
          /\ file' = Migrated(v) /\ seen' = [seen EXCEPT ![p] = v] /\ consumers' = Copied(v)
          /\ UNCHANGED existed
      BY <1>3 DEF RunScript, Goes, SCHEMA_VERSION
    <2>2. /\ file' \in [exists : BOOLEAN, private : BOOLEAN, version : 0 .. 8, metadata : 0 .. 8,
                         holds : SUBSET Through(8)]
          /\ file'.version = v /\ file'.metadata = v /\ file'.holds = Through(v)
          /\ file'.exists /\ file'.private /\ file.version <= v
      BY <1>1, <1>3, <2>1, ScriptMigrates DEF StorageInv
    <2>3. consumers' \in [Consumer -> {"none", "active", "completed", "unattributed"}]
      BY <2>1 DEF StorageInv, Types, Copied
    <2>4. v \in 3 .. 8
      BY <1>1
    <2> HIDE DEF v
    <2>5. Types'
      BY <2>1, <2>2, <2>3, <2>4 DEF StorageInv, Types, Places
    <2>6. \A q \in Process : at[q] # "committing"
      BY <1>1 DEF StorageInv, OneCommitting
    <2>7. \A q \in Process : at'[q] # "committing" /\ (at'[q] = "opened" => at[q] = "opened")
      BY <2>1, <2>6 DEF StorageInv, Types
    <2>8. SeenEarlier'
      BY <2>1, <2>2, <2>4 DEF StorageInv, Types, SeenEarlier
    <2>9. OpenedAtLast'
      BY <2>2, <2>4, <2>7 DEF StorageInv, OpenedAtLast
    <2> QED
      BY <2>2, <2>5, <2>7, <2>8, <2>9
         DEF StorageInv, FileOfItsVersion, PrivateOnceChecked, OneCommitting
  <1> QED
    BY <1>2, <1>3

LEMMA UseStep ==
    ASSUME StorageInv, NEW p \in Process, NEW c \in Consumer, Attach(p, c) \/ Complete(p, c)
    PROVE  StorageInv'
  BY DEF Attach, Complete, StorageInv, Types, FileOfItsVersion, PrivateOnceChecked, SeenEarlier,
         OneCommitting, OpenedAtLast

LEMMA StorageStep == StorageInv /\ [StorageNext]_storageVars => StorageInv'
  <1> SUFFICES ASSUME StorageInv, [StorageNext]_storageVars PROVE StorageInv'
    OBVIOUS
  <1>1. CASE UNCHANGED storageVars
    BY <1>1 DEF storageVars, StorageInv, Types, FileOfItsVersion, PrivateOnceChecked, SeenEarlier,
                OneCommitting, OpenedAtLast
  <1>2. ASSUME NEW p \in Process, Initialize(p) PROVE StorageInv'
    BY <1>2, QuietStep, ConnectStep, RestrictStep, CreateStep, AddStep, CommitStep, ScriptStep
       DEF Initialize
  <1>3. ASSUME NEW p \in Process, Close(p) \/ Crash(p) PROVE StorageInv'
    BY <1>3, QuietStep
  <1> QED
    BY <1>1, <1>2, <1>3, UseStep DEF StorageNext

\* The tables, the modes and what each process knows fit together in every state.
LEMMA StorageHolds == StorageSpec => []StorageInv
  BY InitStorage, StorageStep, PTL DEF StorageSpec

-------------------------------------------------------------------------------
\* Whoever has the database open finds the whole present schema in a private file,
\* whatever the others are in the middle of (initialize_runtime_storage).
THEOREM OpenedFindsSchema == StorageSpec => []OpenedIsCurrent
  <1>1. StorageInv => OpenedIsCurrent
    <2> SUFFICES ASSUME StorageInv, NEW p \in Process, at[p] = "opened"
                 PROVE  file = [FileOf(SCHEMA_VERSION) EXCEPT !.private = TRUE]
      BY DEF OpenedIsCurrent
    <2>1. file.version = 8 /\ file.exists /\ file.private
      BY DEF StorageInv, OpenedAtLast, PrivateOnceChecked, PastMode
    <2>2. file.metadata = 8 /\ file.holds = Through(8)
      BY <2>1 DEF StorageInv, FileOfItsVersion
    <2>3. file = [exists |-> TRUE, private |-> TRUE, version |-> 8, metadata |-> 8, holds |-> Through(8)]
      BY <2>1, <2>2 DEF StorageInv, Types
    <2> QED
      BY <2>3, PresentFileOf
  <1> QED
    BY <1>1, StorageHolds, PTL

\* No migration, however often and by whomever it is run, takes the owner from a
\* delivered result (_migrate_v7_to_v8).
THEOREM ResultsKeepOwners == StorageSpec => ResultsKept
  <1>1. StorageInv /\ [StorageNext]_storageVars =>
          [\A c \in Consumer : consumers[c] = "completed" => consumers'[c] = "completed"]_storageVars
    <2> SUFFICES ASSUME StorageInv, StorageNext, NEW c \in Consumer, consumers[c] = "completed"
                 PROVE  consumers'[c] = "completed"
      OBVIOUS
    <2>1. CASE \E p \in Process : RunScript(p)
      <3>1. PICK p \in Process : RunScript(p)
        BY <2>1
      <3> QED
        BY <3>1 DEF RunScript, Accepts, Copied
    <2>2. CASE \E p \in Process : Attach(p, c) \/ Complete(p, c)
      BY <2>2 DEF Attach, Complete
    <2>3. ASSUME NEW p \in Process, NEW d \in Consumer, d # c, Attach(p, d) \/ Complete(p, d)
          PROVE  consumers'[c] = "completed"
      BY <2>3 DEF Attach, Complete, StorageInv, Types
    <2>4. CASE \E p \in Process : \/ Start(p) \/ Connect(p) \/ RestrictMode(p) \/ CheckMode(p)
                                 \/ ReadVersion(p) \/ CreateSchema(p) \/ ReadMetadata(p)
                                 \/ AddActive(p) \/ CommitVersionTwo(p) \/ VerifySchema(p)
                                 \/ Close(p) \/ Crash(p)
      BY <2>4 DEF Start, Connect, RestrictMode, CheckMode, ReadVersion, CreateSchema, ReadMetadata,
                  AddActive, CommitVersionTwo, VerifySchema, Close, Crash
    <2> QED
      BY <2>1, <2>2, <2>3, <2>4 DEF StorageNext, Initialize
  <1> QED
    BY <1>1, StorageHolds, PTL DEF StorageSpec, ResultsKept
===============================================================================
