----------------------------- MODULE RawPublication -----------------------------
(***************************************************************************)
(* Publication of raw acquisition bundles: RawArtifactPublisher.publish    *)
(* and reconcile, with their row in table raw_publications and the two     *)
(* directories they use, the staging directory and the committed one.      *)
(*                                                                         *)
(* The row changes in SQLite transactions fenced by the lease; the         *)
(* directories change in system calls nobody fences.  Process p is the     *)
(* owner of lease generation p.  It may crash anywhere, and any call may   *)
(* fail (OSError, sqlite3.Error); a commit may even take effect and then   *)
(* be reported as failed.  A process that lost its lease either has stopped *)
(* by then or, in behaviours with lingers, runs on until a fence stops it. *)
(***************************************************************************)
EXTENDS Naturals

CONSTANTS
    Publications,   \* publication_id's in the order reconcile reads them, one attempt each
    MaxGeneration   \* bound: lease generations

ASSUME RawPublicationAssumption ==
    /\ Publications \subseteq Nat
    /\ MaxGeneration \in Nat

Processes == 1 .. MaxGeneration

VARIABLES
    current,    \* generation of the active lease
    lingers,    \* does a process run on after it lost its lease?  (fixed in a behaviour)
    row,        \* raw_publications.state, "none" when there is no row
    staging,    \* .staging/acquisitions/<attempt>: see Contents
    bundle,     \* acquisitions/<request>/<attempt>
    at,         \* at[p]: where process p is in publish or reconcile
    work,       \* work[p]: the publication it is busy with
    todo        \* todo[p]: the records reconcile read at its start and has not settled

vars == <<current, lingers, row, staging, bundle, at, work, todo>>
lease == <<current, lingers>>
directories == <<staging, bundle>>

\* No directory; files still to be written; all files, verified or verifiable; some
\* file removed that nobody writes again.
Contents == {"none", "partial", "whole", "torn"}

Uncertain == {"staging", "reconciliation_required"}
Publishing == {"begun", "writing", "written", "valid", "failing", "cleaning",
               "renamed", "synced", "unsure"}
Reconciling == {"reconciling", "repairing", "discarding", "emptied", "rejecting"}

-------------------------------------------------------------------------------
\* p takes steps: it is the lease holder, or one that does not know it no longer is.
Runs(p) == at[p] # "crashed" /\ (current = p \/ (lingers /\ p < current))
Fence(p) == current = p

Goto(p, place) == at' = [at EXCEPT ![p] = place]

Init ==
    /\ current = 0
    /\ lingers \in BOOLEAN
    /\ row = [u \in Publications |-> "none"]
    /\ staging = [u \in Publications |-> "none"]
    /\ bundle = [u \in Publications |-> "none"]
    /\ at = [p \in Processes |-> "ready"]
    /\ work \in {[p \in Processes |-> u] : u \in Publications}
    /\ todo = [p \in Processes |-> {}]

\* The lease passes on, by release or by expiry.
TakeLease(p) ==
    /\ p = current + 1
    /\ current' = p
    /\ UNCHANGED <<lingers, row, directories, at, work, todo>>

Crash(p) ==
    /\ Runs(p) /\ at[p] # "ready"
    /\ Goto(p, "crashed")
    /\ UNCHANGED <<lease, row, directories, work, todo>>

-------------------------------------------------------------------------------
(* publish                                                                  *)

\* begin_raw_publication: one row per publication, ever.
BeginRawPublication(p, u) ==
    /\ Runs(p) /\ at[p] = "ready"
    /\ Fence(p) /\ row[u] = "none"
    /\ row' = [row EXCEPT ![u] = "staging"]
    /\ work' = [work EXCEPT ![p] = u]
    /\ Goto(p, "begun")
    /\ UNCHANGED <<lease, directories, todo>>

\* Creating the directories; an error here leaves the row as it is.
StageBundle(p) ==
    LET u == work[p]
    IN  /\ Runs(p) /\ at[p] = "begun"
        /\ \/ /\ staging[u] = "none" /\ bundle[u] = "none"
              /\ staging' = [staging EXCEPT ![u] = "partial"]
              /\ Goto(p, "writing")
           \/ staging' = staging /\ Goto(p, "ready")
        /\ UNCHANGED <<lease, row, bundle, work, todo>>

WriteBundle(p) ==
    LET u == work[p]
    IN  /\ Runs(p) /\ at[p] = "writing"
        /\ \/ /\ staging[u] # "none"
              /\ staging' = [staging EXCEPT ![u] = IF @ = "partial" THEN "whole" ELSE @]
              /\ Goto(p, "written")
           \/ staging' = staging /\ Goto(p, "failing")
        /\ UNCHANGED <<lease, row, bundle, work, todo>>

\* source_validator and _verify_staged_bundle read the staged files back.
ValidateBundle(p) ==
    /\ Runs(p) /\ at[p] = "written"
    /\ \/ staging[work[p]] = "whole" /\ Goto(p, "valid")
       \/ Goto(p, "failing")
    /\ UNCHANGED <<lease, row, directories, work, todo>>

\* Faulty: copies the bundle and leaves the staging directory to a later cleaning.
CopyBundle(p) ==
    /\ Runs(p) /\ at[p] = "valid"
    /\ bundle' = [bundle EXCEPT ![work[p]] = staging[work[p]]]
    /\ Goto(p, "renamed")
    /\ UNCHANGED <<lease, row, staging, work, todo>>

\* os.rename exposes whatever the staging directory holds by now.
RenameBundle(p) ==
    LET u == work[p]
    IN  /\ Runs(p) /\ at[p] = "valid"
        /\ \/ /\ staging[u] # "none" /\ bundle[u] = "none"
              /\ bundle' = [bundle EXCEPT ![u] = staging[u]]
              /\ staging' = [staging EXCEPT ![u] = "none"]
              /\ Goto(p, "renamed")
           \/ UNCHANGED directories /\ Goto(p, "failing")
        /\ UNCHANGED <<lease, row, work, todo>>

SyncBundle(p) ==
    /\ Runs(p) /\ at[p] = "renamed"
    /\ Goto(p, "synced") \/ Goto(p, "unsure")
    /\ UNCHANGED <<lease, row, directories, work, todo>>

\* commit_raw_publication; the caller learns of an error, not of a lost answer.
CommitRawPublication(p) ==
    LET u == work[p]
    IN  /\ Runs(p) /\ at[p] = "synced"
        /\ \/ /\ Fence(p) /\ row[u] \in Uncertain
              /\ row' = [row EXCEPT ![u] = "committed"]
              /\ Goto(p, "ready") \/ Goto(p, "unsure")
           \/ row' = row /\ Goto(p, "unsure")
        /\ UNCHANGED <<lease, directories, work, todo>>

\* _mark_reconciliation_required suppresses its own failure.
MarkReconciliationRequired(p) ==
    LET u == work[p]
    IN  /\ Runs(p) /\ at[p] = "unsure"
        /\ \/ /\ Fence(p) /\ row[u] = "staging"
              /\ row' = [row EXCEPT ![u] = "reconciliation_required"]
           \/ row' = row
        /\ Goto(p, "ready")
        /\ UNCHANGED <<lease, directories, work, todo>>

\* Faulty: fails the row whatever its state.
FailAnyRow(p, u) == row' = [row EXCEPT ![u] = "failed"]

\* fail_raw_publication
FailRawPublication(p, u) ==
    /\ Fence(p) /\ row[u] \in Uncertain
    /\ row' = [row EXCEPT ![u] = "failed"]

\* Before the rename an error fails the row, then the staging directory goes, even
\* if the row could not be failed.
RejectBundle(p) ==
    LET u == work[p]
    IN  /\ Runs(p) /\ at[p] = "failing"
        /\ FailRawPublication(p, u) \/ row' = row
        /\ Goto(p, "cleaning")
        /\ UNCHANGED <<lease, directories, work, todo>>

CleanUp(p) ==
    /\ Runs(p) /\ at[p] = "cleaning"
    /\ \E left \in {"none", staging[work[p]], "torn"} :
          /\ left = "torn" => staging[work[p]] # "none"
          /\ staging' = [staging EXCEPT ![work[p]] = left]
    /\ Goto(p, "ready")
    /\ UNCHANGED <<lease, row, bundle, work, todo>>

-------------------------------------------------------------------------------
(* reconcile: one pass over the uncertain records; an error ends the pass.  *)

Abort(p) == Goto(p, "ready")

\* The list is read once; directories and rows may change while it is worked off.
ListUncertain(p) ==
    /\ Runs(p) /\ at[p] = "ready"
    /\ todo' = [todo EXCEPT ![p] = {u \in Publications : row[u] \in Uncertain}]
    /\ todo'[p] # {}
    /\ Goto(p, "reconciling")
    /\ UNCHANGED <<lease, row, directories, work>>

\* Faulty: takes what is not staged for renamed.
RemedyUnverified(u) == IF staging[u] = "none" THEN "repairing" ELSE "discarding"

\* What the directories of u call for, and "conflict" where reconcile gives up.
Remedy(u) ==
    IF staging[u] = "none"
    THEN IF bundle[u] = "none" THEN "rejecting"
         ELSE IF bundle[u] = "whole" THEN "repairing" ELSE "conflict"
    ELSE IF bundle[u] = "none" THEN "discarding" ELSE "conflict"

LookAtDirectories(p) ==
    \E u \in todo[p] :
        /\ Runs(p) /\ at[p] = "reconciling"
        /\ \A v \in todo[p] : u <= v
        /\ work' = [work EXCEPT ![p] = u]
        /\ IF Remedy(u) = "conflict" THEN Abort(p) ELSE Goto(p, Remedy(u))
        /\ UNCHANGED <<lease, row, directories, todo>>

\* _remove_bundle: the files, then the directory.
DiscardFiles(p) ==
    LET u == work[p]
    IN  /\ Runs(p) /\ at[p] = "discarding"
        /\ IF staging[u] = "none"
           THEN staging' = staging /\ Abort(p)
           ELSE /\ staging' = [staging EXCEPT ![u] = IF @ = "whole" THEN "torn" ELSE @]
                /\ Goto(p, "emptied")
        /\ UNCHANGED <<lease, row, bundle, work, todo>>

\* Removing the directory fails when it is gone or no longer empty.
DiscardDirectory(p) ==
    LET u == work[p]
    IN  /\ Runs(p) /\ at[p] = "emptied"
        /\ \/ /\ staging[u] # "none" /\ staging[u] # "whole"
              /\ staging' = [staging EXCEPT ![u] = "none"]
              /\ Goto(p, "rejecting")
           \/ staging' = staging /\ Abort(p)
        /\ UNCHANGED <<lease, row, bundle, work, todo>>

Proceed(p) ==
    /\ todo' = [todo EXCEPT ![p] = @ \ {work[p]}]
    /\ IF todo'[p] = {} THEN Goto(p, "ready") ELSE Goto(p, "reconciling")

RepairForward(p) ==
    LET u == work[p]
    IN  /\ Runs(p) /\ at[p] = "repairing"
        /\ \/ /\ Fence(p) /\ row[u] \in Uncertain
              /\ row' = [row EXCEPT ![u] = "committed"]
              /\ Proceed(p)
           \/ UNCHANGED <<row, todo>> /\ Abort(p)
        /\ UNCHANGED <<lease, directories, work>>

RejectRecord(p) ==
    LET u == work[p]
    IN  /\ Runs(p) /\ at[p] = "rejecting"
        /\ \/ FailRawPublication(p, u) /\ Proceed(p)
           \/ UNCHANGED <<row, todo>> /\ Abort(p)
        /\ UNCHANGED <<lease, directories, work>>

-------------------------------------------------------------------------------
PublishStep(p) ==
    \/ StageBundle(p) \/ WriteBundle(p) \/ ValidateBundle(p) \/ RenameBundle(p)
    \/ SyncBundle(p) \/ CommitRawPublication(p) \/ MarkReconciliationRequired(p)
    \/ RejectBundle(p) \/ CleanUp(p)
ReconcileStep(p) ==
    \/ ListUncertain(p) \/ LookAtDirectories(p) \/ DiscardFiles(p) \/ DiscardDirectory(p)
    \/ RepairForward(p) \/ RejectRecord(p)

Next ==
    \E p \in Processes :
        \/ TakeLease(p)
        \/ Crash(p)
        \/ \E u \in Publications : BeginRawPublication(p, u)
        \/ PublishStep(p)
        \/ ReconcileStep(p)

Spec == Init /\ [][Next]_vars

-------------------------------------------------------------------------------
(* Properties.                                                              *)

\* "Publish only when exact bytes and metadata agree": a committed row refers to a
\* bundle that is there with every file, wherever publish and reconcile were cut off.
\* It needs displaced owners to stop: what reconcile does to a directory is not fenced.
CommittedIsWhole ==
    ~lingers => \A u \in Publications :
                    row[u] = "committed" => bundle[u] = "whole" /\ staging[u] = "none"

\* A committed bundle is never overwritten and its row is final, even if displaced owners
\* run on; a failed row is never revived, so its bytes are never taken for evidence.
SettledIsFinal ==
    [][\A u \in Publications :
          /\ row[u] = "committed" => row'[u] = "committed" /\ bundle'[u] = bundle[u]
          /\ row[u] = "failed" => row'[u] = "failed"]_vars

\* Reconciliation ends in committed or in failed: a crash or an error anywhere in
\* publish or in reconcile leaves the directories so that the next pass is not refused,
\* hence no record blocks the records after it.  It, too, needs displaced owners to stop.
ReconcileNeverRefused ==
    ~lingers => \A u \in Publications :
                    row[u] \in Uncertain => Remedy(u) # "conflict"
===============================================================================
