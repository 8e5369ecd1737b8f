------------------------- MODULE RawPublication_proofs -------------------------
(* For any publications and lease generations: what is settled stays, what is     *)
(* committed is whole, and reconciliation is never refused.                       *)
EXTENDS RawPublication, TLAPS

Places == {"ready", "crashed"} \cup Publishing \cup Reconciling

Types ==
    /\ current \in Nat /\ lingers \in BOOLEAN
    /\ row \in [Publications -> {"none", "committed", "failed"} \cup Uncertain]
    /\ staging \in [Publications -> Contents]
    /\ bundle \in [Publications -> Contents]
    /\ at \in [Processes -> Places]
    /\ work \in [Processes -> Publications]
    /\ todo \in [Processes -> SUBSET Publications]

\* A bundle is there once it was renamed, and whoever found it may rely on that.
Exposed == \A p \in Processes : at[p] \in {"renamed", "synced", "repairing"} => bundle[work[p]] # "none"
CommittedIsThere == \A u \in Publications : row[u] = "committed" => bundle[u] # "none"

PublicationInv == Types /\ Exposed /\ CommittedIsThere

\* As long as displaced owners stop.
Fresh == \A p \in Processes : current < p => at[p] = "ready"
ValidIsWhole == \A p \in Processes : current = p /\ at[p] = "valid" => staging[work[p]] = "whole"
OnePlace ==
    \A u \in Publications : bundle[u] \in {"none", "whole"} /\ (staging[u] = "none" \/ bundle[u] = "none")

DirectoryInv == ~lingers => Fresh /\ ValidIsWhole /\ OnePlace

-------------------------------------------------------------------------------
LEMMA FirstInv == Init => PublicationInv /\ DirectoryInv
  <1> SUFFICES ASSUME Init PROVE PublicationInv /\ DirectoryInv
    OBVIOUS
  <1>1. Types
    BY DEF Init, Types, Contents, Places
  <1>2. Exposed /\ CommittedIsThere
    BY DEF Init, Exposed, CommittedIsThere
  <1>3. DirectoryInv
    BY DEF Init, DirectoryInv, Fresh, ValidIsWhole, OnePlace
  <1> QED
    BY <1>1, <1>2, <1>3 DEF PublicationInv

\* No step takes a committed directory away.
LEMMA BundleStays ==
    ASSUME Types, Next, NEW u \in Publications, bundle[u] # "none"
    PROVE  bundle'[u] = bundle[u]
  <1>1. \A p \in Processes : RenameBundle(p) => bundle'[u] = bundle[u]
    BY DEF RenameBundle, Types, directories
  <1>2. \A p \in Processes : PublishStep(p) => RenameBundle(p) \/ bundle' = bundle
    BY DEF PublishStep, StageBundle, WriteBundle, ValidateBundle, SyncBundle, CommitRawPublication,
           MarkReconciliationRequired, RejectBundle, CleanUp, directories
  <1>3. \A p \in Processes : ReconcileStep(p) => bundle' = bundle
    BY DEF ReconcileStep, ListUncertain, LookAtDirectories, DiscardFiles, DiscardDirectory,
           RepairForward, RejectRecord, directories
  <1>4. \A p \in Processes : TakeLease(p) \/ Crash(p) \/ (\E v \in Publications : BeginRawPublication(p, v))
            => bundle' = bundle
    BY DEF TakeLease, Crash, BeginRawPublication, directories
  <1> QED
    BY <1>1, <1>2, <1>3, <1>4 DEF Next

LEMMA TypesStep == Types /\ [Next]_vars => Types'
  <1> SUFFICES ASSUME Types, [Next]_vars PROVE Types'
    OBVIOUS
  <1> USE DEF Types, Places, Publishing, Reconciling, Contents, Uncertain, lease, directories, Goto
  <1>1. CASE UNCHANGED vars
    BY <1>1 DEF vars
  <1>2. ASSUME NEW p \in Processes, TakeLease(p) PROVE Types'
    BY <1>2 DEF TakeLease, Processes
  <1>3. ASSUME NEW p \in Processes, Crash(p) PROVE Types'
    BY <1>3 DEF Crash
  <1>4. ASSUME NEW p \in Processes, NEW u \in Publications, BeginRawPublication(p, u) PROVE Types'
    BY <1>4 DEF BeginRawPublication
  <1>5. ASSUME NEW p \in Processes, PublishStep(p) PROVE Types'
    <2>1. CASE StageBundle(p)
      BY <2>1 DEF StageBundle
    <2>2. CASE WriteBundle(p)
      BY <2>2 DEF WriteBundle
    <2>3. CASE ValidateBundle(p) \/ SyncBundle(p)
      BY <2>3 DEF ValidateBundle, SyncBundle
    <2>4. CASE RenameBundle(p)
      BY <2>4 DEF RenameBundle
    <2>5. CASE CommitRawPublication(p) \/ MarkReconciliationRequired(p)
      BY <2>5 DEF CommitRawPublication, MarkReconciliationRequired
    <2>6. CASE RejectBundle(p)
      BY <2>6 DEF RejectBundle, FailRawPublication
    <2>7. CASE CleanUp(p)
      BY <2>7 DEF CleanUp
    <2> QED
      BY <1>5, <2>1, <2>2, <2>3, <2>4, <2>5, <2>6, <2>7 DEF PublishStep
  <1>6. ASSUME NEW p \in Processes, ReconcileStep(p) PROVE Types'
    <2>1. CASE ListUncertain(p)
      BY <2>1 DEF ListUncertain
    <2>2. CASE LookAtDirectories(p)
      BY <2>2 DEF LookAtDirectories, Remedy, Abort
    <2>3. CASE DiscardFiles(p) \/ DiscardDirectory(p)
      BY <2>3 DEF DiscardFiles, DiscardDirectory, Abort
    <2>4. CASE RepairForward(p)
      BY <2>4 DEF RepairForward, Proceed, Abort
    <2>5. CASE RejectRecord(p)
      BY <2>5 DEF RejectRecord, FailRawPublication, Proceed, Abort
    <2> QED
      BY <1>6, <2>1, <2>2, <2>3, <2>4, <2>5 DEF ReconcileStep
  <1> QED
    BY <1>1, <1>2, <1>3, <1>4, <1>5, <1>6 DEF Next

-------------------------------------------------------------------------------
(* Settled rows.                                                            *)

\* Where a process arrives at a place that relies on the bundle, it is there.
LEMMA ExposedStep ==
    ASSUME PublicationInv, Next
    PROVE  Exposed'
  <1> USE DEF PublicationInv, Types, Goto
  <1> SUFFICES ASSUME NEW p \in Processes, at'[p] \in {"renamed", "synced", "repairing"}
               PROVE  bundle'[work'[p]] # "none"
    BY DEF Exposed
  <1>1. CASE at'[p] = at[p] /\ work'[p] = work[p]
    <2>1. bundle[work[p]] # "none" /\ work[p] \in Publications
      BY <1>1 DEF Exposed
    <2> QED
      BY <1>1, <2>1, BundleStays
  <1>2. ASSUME NEW q \in Processes, TakeLease(q)
        PROVE  at'[p] = at[p] /\ work'[p] = work[p]
    BY <1>2 DEF TakeLease
  <1>3. ASSUME NEW q \in Processes, Crash(q) \/ \E u \in Publications : BeginRawPublication(q, u)
        PROVE  at'[p] = at[p] /\ work'[p] = work[p]
    BY <1>3 DEF Crash, BeginRawPublication
  <1>4. ASSUME NEW q \in Processes, PublishStep(q)
        PROVE  (at'[p] = at[p] /\ work'[p] = work[p]) \/ bundle'[work'[p]] # "none"
    <2>1. CASE RenameBundle(q)
      <3>1. CASE p = q
        <4>1. CASE at'[p] = "renamed"
          BY <2>1, <3>1, <4>1 DEF RenameBundle
        <4>2. CASE at'[p] # "renamed"
          BY <2>1, <3>1, <4>2 DEF RenameBundle
        <4> QED
          BY <4>1, <4>2
      <3>2. CASE p # q
        BY <2>1, <3>2 DEF RenameBundle
      <3> QED
        BY <3>1, <3>2
    <2>2. CASE SyncBundle(q)
      <3>1. bundle' = bundle /\ work' = work /\ at[q] = "renamed"
        BY <2>2 DEF SyncBundle, directories
      <3>2. CASE p = q
        BY <3>1, <3>2 DEF Exposed
      <3>3. CASE p # q
        BY <2>2, <3>3 DEF SyncBundle
      <3> QED
        BY <3>2, <3>3
    <2>3. CASE \/ StageBundle(q) \/ WriteBundle(q) \/ ValidateBundle(q) \/ CommitRawPublication(q)
               \/ MarkReconciliationRequired(q) \/ RejectBundle(q) \/ CleanUp(q)
      BY <2>3 DEF StageBundle, WriteBundle, ValidateBundle, CommitRawPublication,
                  MarkReconciliationRequired, RejectBundle, CleanUp
    <2> QED
      BY <1>4, <2>1, <2>2, <2>3 DEF PublishStep
  <1>5. ASSUME NEW q \in Processes, ReconcileStep(q)
        PROVE  (at'[p] = at[p] /\ work'[p] = work[p]) \/ bundle'[work'[p]] # "none"
    <2>1. CASE LookAtDirectories(q)
      <3>1. PICK u \in Publications :
                /\ work' = [work EXCEPT ![q] = u]
                /\ at' = [at EXCEPT ![q] = IF Remedy(u) = "conflict" THEN "ready" ELSE Remedy(u)]
                /\ bundle' = bundle
        BY <2>1 DEF LookAtDirectories, Abort, directories
      <3>2. CASE p = q
        BY <3>1, <3>2 DEF Remedy
      <3>3. CASE p # q
        BY <3>1, <3>3
      <3> QED
        BY <3>2, <3>3
    <2>2. CASE \/ ListUncertain(q) \/ DiscardFiles(q) \/ DiscardDirectory(q)
               \/ RepairForward(q) \/ RejectRecord(q)
      BY <2>2 DEF ListUncertain, DiscardFiles, DiscardDirectory, RepairForward, RejectRecord,
                  Proceed, Abort
    <2> QED
      BY <1>5, <2>1, <2>2 DEF ReconcileStep
  <1> QED
    BY <1>1, <1>2, <1>3, <1>4, <1>5 DEF Next

\* Only commit and repair-forward commit a row, both where the bundle is exposed; no
\* step changes a row that is committed or failed.
LEMMA RowsSettle ==
    ASSUME PublicationInv, Next, NEW u \in Publications
    PROVE  /\ row'[u] = "committed" => row[u] = "committed" \/ bundle[u] # "none"
           /\ row[u] \in {"committed", "failed"} => row'[u] = row[u]
  <1> USE DEF PublicationInv, Types, Exposed, Uncertain
  <1>1. ASSUME NEW p \in Processes, TakeLease(p) \/ Crash(p)
        PROVE  row' = row
    BY <1>1 DEF TakeLease, Crash
  <1>2. ASSUME NEW p \in Processes, NEW v \in Publications, BeginRawPublication(p, v)
        PROVE  row[v] = "none" /\ row' = [row EXCEPT ![v] = "staging"]
    BY <1>2 DEF BeginRawPublication
  <1>3. ASSUME NEW p \in Processes, CommitRawPublication(p) \/ RepairForward(p)
        PROVE  \/ row' = row
               \/ /\ row[work[p]] \in Uncertain /\ bundle[work[p]] # "none"
                  /\ row' = [row EXCEPT ![work[p]] = "committed"]
    BY <1>3 DEF CommitRawPublication, RepairForward
  <1>4. ASSUME NEW p \in Processes, MarkReconciliationRequired(p) \/ RejectBundle(p) \/ RejectRecord(p)
        PROVE  \/ row' = row
               \/ /\ row[work[p]] \in Uncertain
                  /\ \E s \in {"failed", "reconciliation_required"} :
                         row' = [row EXCEPT ![work[p]] = s]
    BY <1>4 DEF MarkReconciliationRequired, RejectBundle, RejectRecord, FailRawPublication
  <1>5. ASSUME NEW p \in Processes,
               PublishStep(p) \/ ReconcileStep(p),
               ~(CommitRawPublication(p) \/ RepairForward(p)),
               ~(MarkReconciliationRequired(p) \/ RejectBundle(p) \/ RejectRecord(p))
        PROVE  row' = row
    BY <1>5 DEF PublishStep, ReconcileStep, StageBundle, WriteBundle, ValidateBundle, RenameBundle,
                SyncBundle, CleanUp, ListUncertain, LookAtDirectories, DiscardFiles, DiscardDirectory
  <1>6. \A p \in Processes : work[p] \in Publications
    OBVIOUS
  <1> QED
    BY <1>1, <1>2, <1>3, <1>4, <1>5, <1>6 DEF Next

LEMMA PublicationStep == PublicationInv /\ [Next]_vars => PublicationInv'
  <1> SUFFICES ASSUME PublicationInv, [Next]_vars PROVE PublicationInv'
    OBVIOUS
  <1>1. CASE UNCHANGED vars
    BY <1>1, TypesStep DEF PublicationInv, vars, Exposed, CommittedIsThere
  <1>2. CASE Next
    <2>1. Types' /\ Exposed'
      BY <1>2, TypesStep, ExposedStep DEF PublicationInv
    <2>2. ASSUME NEW u \in Publications, row'[u] = "committed"
          PROVE  bundle'[u] # "none"
      <3>1. bundle[u] # "none"
        BY <1>2, <2>2, RowsSettle DEF PublicationInv, CommittedIsThere
      <3> QED
        BY <1>2, <3>1, BundleStays DEF PublicationInv
    <2> QED
      BY <2>1, <2>2 DEF PublicationInv, CommittedIsThere
  <1> QED
    BY <1>1, <1>2

LEMMA PublicationHolds == Spec => []PublicationInv
  BY FirstInv, PublicationStep, PTL DEF Spec

\* A committed bundle is never written over and its row never changes, and a failed
\* row is never revived, also when displaced owners run on beside the present one.
THEOREM SettledStays == Spec => SettledIsFinal
  <1>1. PublicationInv /\ [Next]_vars =>
            [\A u \in Publications :
                /\ row[u] = "committed" => row'[u] = "committed" /\ bundle'[u] = bundle[u]
                /\ row[u] = "failed" => row'[u] = "failed"]_vars
    <2> SUFFICES ASSUME PublicationInv, Next, NEW u \in Publications
                 PROVE  /\ row[u] = "committed" => row'[u] = "committed" /\ bundle'[u] = bundle[u]
                        /\ row[u] = "failed" => row'[u] = "failed"
      OBVIOUS
    <2>1. bundle[u] # "none" => bundle'[u] = bundle[u]
      BY BundleStays DEF PublicationInv
    <2> QED
      BY <2>1, RowsSettle DEF PublicationInv, CommittedIsThere
  <1> QED
    BY <1>1, PublicationHolds, PTL DEF Spec, SettledIsFinal

-------------------------------------------------------------------------------
(* Directories, when displaced owners stop.                                 *)

LEMMA FreshStep ==
    ASSUME Types, ~lingers, Fresh, Next
    PROVE  Fresh'
  <1> USE DEF Types, Goto, Abort, Runs
  <1> SUFFICES ASSUME NEW p \in Processes, current' < p
               PROVE  at'[p] = "ready"
    BY DEF Fresh
  <1>1. ASSUME NEW q \in Processes, TakeLease(q)
        PROVE  at'[p] = "ready"
    BY <1>1 DEF TakeLease, Fresh, Processes
  <1>2. ASSUME NEW q \in Processes, current = q, current' = current,
               \A o \in Processes : o # q => at'[o] = at[o]
        PROVE  at'[p] = "ready"
    BY <1>2 DEF Fresh, Processes
  <1>3. ASSUME NEW q \in Processes,
               \/ Crash(q) \/ PublishStep(q) \/ ReconcileStep(q)
               \/ \E u \in Publications : BeginRawPublication(q, u)
        PROVE  current = q /\ current' = current
    BY <1>3 DEF Crash, BeginRawPublication, PublishStep, ReconcileStep, StageBundle, WriteBundle,
                ValidateBundle, RenameBundle, SyncBundle, CommitRawPublication,
                MarkReconciliationRequired, RejectBundle, CleanUp, ListUncertain, LookAtDirectories,
                DiscardFiles, DiscardDirectory, RepairForward, RejectRecord, lease
  <1>4. ASSUME NEW q \in Processes,
               Crash(q) \/ PublishStep(q) \/ \E u \in Publications : BeginRawPublication(q, u)
        PROVE  \A o \in Processes : o # q => at'[o] = at[o]
    BY <1>4 DEF Crash, BeginRawPublication, PublishStep, StageBundle, WriteBundle, ValidateBundle,
                RenameBundle, SyncBundle, CommitRawPublication, MarkReconciliationRequired,
                RejectBundle, CleanUp
  <1>5. ASSUME NEW q \in Processes, ReconcileStep(q)
        PROVE  \A o \in Processes : o # q => at'[o] = at[o]
    BY <1>5 DEF ReconcileStep, ListUncertain, LookAtDirectories, DiscardFiles, DiscardDirectory,
                RepairForward, RejectRecord, Proceed
  <1> QED
    BY <1>1, <1>2, <1>3, <1>4, <1>5 DEF Next

\* One rename of a whole bundle is all that ever puts something in the committed place,
\* and nothing is staged beside it.
LEMMA DirectoriesStep ==
    ASSUME Types, ~lingers, Fresh, ValidIsWhole, OnePlace, Next
    PROVE  ValidIsWhole' /\ OnePlace'
  <1> USE DEF Types, Goto, Abort, Runs, Contents
  <1>1. ASSUME NEW p \in Processes, TakeLease(p)
        PROVE  ValidIsWhole' /\ OnePlace'
    BY <1>1 DEF TakeLease, Fresh, ValidIsWhole, OnePlace, directories, Processes
  <1>2. ASSUME NEW p \in Processes, Crash(p) \/ \E u \in Publications : BeginRawPublication(p, u)
        PROVE  ValidIsWhole' /\ OnePlace'
    BY <1>2 DEF Crash, BeginRawPublication, ValidIsWhole, OnePlace, lease, directories
  <1>3. ASSUME NEW p \in Processes, PublishStep(p)
        PROVE  ValidIsWhole' /\ OnePlace'
    <2>1. CASE StageBundle(p)
      BY <2>1 DEF StageBundle, ValidIsWhole, OnePlace, lease
    <2>2. CASE WriteBundle(p)
      BY <2>2 DEF WriteBundle, ValidIsWhole, OnePlace, lease
    <2>3. CASE ValidateBundle(p)
      BY <2>3 DEF ValidateBundle, ValidIsWhole, OnePlace, lease, directories
    <2>4. CASE RenameBundle(p)
      <3>1. current' = current /\ current = p /\ at[p] = "valid" /\ at'[p] # "valid"
        BY <2>4 DEF RenameBundle, lease
      <3>2. ValidIsWhole'
        BY <3>1 DEF ValidIsWhole
      <3>3. staging[work[p]] = "whole"
        BY <3>1 DEF ValidIsWhole
      <3>4. OnePlace'
        BY <2>4, <3>3 DEF RenameBundle, OnePlace, directories
      <3> QED
        BY <3>2, <3>4
    <2>5. CASE SyncBundle(p) \/ CommitRawPublication(p) \/ MarkReconciliationRequired(p) \/ RejectBundle(p)
      BY <2>5 DEF SyncBundle, CommitRawPublication, MarkReconciliationRequired, RejectBundle,
                  ValidIsWhole, OnePlace, lease, directories
    <2>6. CASE CleanUp(p)
      BY <2>6 DEF CleanUp, ValidIsWhole, OnePlace, lease
    <2> QED
      BY <1>3, <2>1, <2>2, <2>3, <2>4, <2>5, <2>6 DEF PublishStep
  <1>4. ASSUME NEW p \in Processes, ReconcileStep(p)
        PROVE  ValidIsWhole' /\ OnePlace'
    <2>1. CASE ListUncertain(p)
      BY <2>1 DEF ListUncertain, ValidIsWhole, OnePlace, lease, directories
    <2>2. CASE LookAtDirectories(p)
      BY <2>2 DEF LookAtDirectories, Remedy, ValidIsWhole, OnePlace, lease, directories
    <2>3. CASE DiscardFiles(p)
      BY <2>3 DEF DiscardFiles, ValidIsWhole, OnePlace, lease
    <2>4. CASE DiscardDirectory(p)
      BY <2>4 DEF DiscardDirectory, ValidIsWhole, OnePlace, lease
    <2>5. CASE RepairForward(p) \/ RejectRecord(p)
      BY <2>5 DEF RepairForward, RejectRecord, Proceed, ValidIsWhole, OnePlace, lease, directories
    <2> QED
      BY <1>4, <2>1, <2>2, <2>3, <2>4, <2>5 DEF ReconcileStep
  <1> QED
    BY <1>1, <1>2, <1>3, <1>4 DEF Next

LEMMA LingersFixed == Next => lingers' = lingers
  BY DEF Next, PublishStep, ReconcileStep, TakeLease, Crash, BeginRawPublication, StageBundle,
         WriteBundle, ValidateBundle, RenameBundle, SyncBundle, CommitRawPublication,
         MarkReconciliationRequired, RejectBundle, CleanUp, ListUncertain, LookAtDirectories,
         DiscardFiles, DiscardDirectory, RepairForward, RejectRecord, lease

LEMMA DirectoryStep == PublicationInv /\ DirectoryInv /\ [Next]_vars => DirectoryInv'
  <1>1. PublicationInv /\ DirectoryInv /\ Next => DirectoryInv'
    BY LingersFixed, FreshStep, DirectoriesStep DEF PublicationInv, DirectoryInv
  <1>2. DirectoryInv /\ UNCHANGED vars => DirectoryInv'
    BY DEF DirectoryInv, vars, Fresh, ValidIsWhole, OnePlace
  <1> QED
    BY <1>1, <1>2

LEMMA DirectoryHolds == Spec => []DirectoryInv
  BY FirstInv, DirectoryStep, PublicationHolds, PTL DEF Spec

\* A committed row names a bundle with every file in it, wherever publish and reconcile
\* of any number of owners were cut off, provided displaced owners stop.
THEOREM CommittedWhole == Spec => []CommittedIsWhole
  <1>1. PublicationInv /\ DirectoryInv => CommittedIsWhole
    BY DEF PublicationInv, DirectoryInv, CommittedIsThere, OnePlace, CommittedIsWhole
  <1> QED
    BY <1>1, PublicationHolds, DirectoryHolds, PTL

\* Reconcile is never refused, under the same proviso: what is left of a publication is
\* either staged or renamed whole, never both and never torn in the committed place.
THEOREM ReconcileAccepted == Spec => []ReconcileNeverRefused
  <1>1. DirectoryInv => ReconcileNeverRefused
    BY DEF DirectoryInv, OnePlace, ReconcileNeverRefused, Remedy
  <1> QED
    BY <1>1, DirectoryHolds, PTL

===============================================================================
