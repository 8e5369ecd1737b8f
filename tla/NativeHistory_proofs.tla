------------------------- MODULE NativeHistory_proofs --------------------------
(***************************************************************************)
(* Proofs about NativeHistory, for any workers, intervals and bounds. The  *)
(* host's clock may lose time but never gains any, so elapsed - clock does *)
(* not decrease: a deadline kept in the clock's time never falls before    *)
(* the real time it stands for.                                            *)
(***************************************************************************)
EXTENDS NativeHistory, TLAPS

\* Only the holder of provider.lock is at work.
OneAtWork == \A p \in Workers : pc[p] # "idle" => locked = p

\* What is owed is at most the long interval, counted from an end in the past.
OwedBounded == lastEnd <= elapsed /\ lastWait <= FailureCooldown

\* The deadline on disk covers what is owed, in real time.
DeadlineCovers ==
    /\ state.file = "none" => lastEnd = 0 /\ lastWait = 0 /\ ~state.running
    /\ state.file = "whole" /\ ~state.running =>
          lastEnd + lastWait <= state.next + (elapsed - clock)

\* Until the save after the call is moved the file says that a call is running, at a
\* time not after the one that save records.
RunningOnDisk ==
    \A p \in Workers :
        pc[p] \in {"call", "calling", "end"} /\ saving[p] # "moved" =>
            state.file = "whole" /\ state.running /\ state.recorded <= sampled[p]

\* Only a worker that saves is in a save; when it has written, the pending file is its
\* own, and when it has moved it, the state file is.
SavesInOrder ==
    \A p \in Workers :
        /\ saving[p] # "no" => Saving(p)
        /\ saving[p] = "written" => pending = ToSave(p)
        /\ saving[p] = "moved" => state = ToSave(p)

\* An admitted worker starts when nothing is owed, and its sample is not older than the file.
AdmittedWhenFree ==
    \A p \in Workers :
        /\ pc[p] \in {"begin", "call", "calling"} => elapsed >= lastEnd + lastWait
        /\ pc[p] \in {"begin", "cool"} /\ state.file = "whole" => sampled[p] >= state.recorded
        /\ pc[p] = "cool" => lastEnd <= sampled[p] + (elapsed - clock)
        /\ pc[p] = "cool" => state.file = "whole"

\* The save after the call records a time not before the call's end, with the interval
\* that end is owed.
OutcomeOwed ==
    \A p \in Workers :
        /\ pc[p] = "end" =>
              /\ lastWait = IF outcome[p] = "ok" THEN MinInterval ELSE FailureCooldown
              /\ saving[p] # "no" => lastEnd <= sampled[p] + (elapsed - clock)
        /\ pc[p] # "end" => outcome[p] = "none"

ThrottleInv ==
    /\ TypeOK
    /\ OneAtWork
    /\ OwedBounded
    /\ DeadlineCovers
    /\ RunningOnDisk
    /\ SavesInOrder
    /\ AdmittedWhenFree
    /\ OutcomeOwed
    /\ StateIsWhole

-------------------------------------------------------------------------------
\* The state of an unused provider directory is covered.
LEMMA InitThrottle == Init => ThrottleInv
  BY NativeHistoryAssumption
     DEF Init, ThrottleInv, TypeOK, Files, OneAtWork, OwedBounded, DeadlineCovers, RunningOnDisk,
         SavesInOrder, AdmittedWhenFree, OutcomeOwed, StateIsWhole, NoState

\* What a save has written is a whole record, not older than the one on disk, and it
\* covers what is owed unless it announces a call.
LEMMA WrittenRecord ==
    ASSUME ThrottleInv, NEW p \in Workers, Saving(p)
    PROVE  /\ ToSave(p) \in [file : {"whole"}, recorded : Nat, next : Nat, running : BOOLEAN]
           /\ ToSave(p).running <=> pc[p] = "begin"
           /\ ToSave(p).recorded = sampled[p]
           /\ saving[p] = "written" /\ state.file = "whole" => ToSave(p).recorded >= state.recorded
           /\ saving[p] # "no" /\ pc[p] # "begin" =>
                 lastEnd + lastWait <= ToSave(p).next + (elapsed - clock)
  <1> USE NativeHistoryAssumption
      DEF NativeHistoryAssumption, ThrottleInv, TypeOK, Files, Record
  <1> DEFINE wait == IF outcome[p] = "ok" THEN MinInterval ELSE FailureCooldown
  <1>1. wait \in Nat
    OBVIOUS
  <1>2. ToSave(p) = [file |-> "whole", recorded |-> sampled[p], next |-> sampled[p] + wait,
                     running |-> pc[p] = "begin"]
    BY DEF ToSave
  <1>3. saving[p] = "written" /\ state.file = "whole" => sampled[p] >= state.recorded
    BY DEF Saving, AdmittedWhenFree, RunningOnDisk
  <1>4. saving[p] # "no" /\ pc[p] # "begin" =>
            lastEnd <= sampled[p] + (elapsed - clock) /\ lastWait <= wait
    <2>1. CASE pc[p] = "cool"
      BY <2>1 DEF AdmittedWhenFree, OwedBounded, OutcomeOwed
    <2>2. CASE pc[p] = "end"
      BY <2>2 DEF OutcomeOwed
    <2> QED
      BY <2>1, <2>2 DEF Saving
  <1>5. lastEnd \in Nat /\ lastWait \in Nat /\ sampled[p] \in Nat /\ elapsed \in Nat /\ clock \in Nat
    OBVIOUS
  <1> HIDE DEF wait
  <1>6. /\ ToSave(p).file = "whole" /\ ToSave(p).recorded = sampled[p]
        /\ ToSave(p).next = sampled[p] + wait /\ ToSave(p).running = (pc[p] = "begin")
    BY <1>2
  <1>7. ToSave(p) \in [file : {"whole"}, recorded : Nat, next : Nat, running : BOOLEAN]
    BY <1>1, <1>2, <1>5
  <1> QED
    BY <1>1, <1>3, <1>4, <1>5, <1>6, <1>7

\* Every step keeps the invariant and never moves the record back.
LEMMA ThrottleStep ==
    ASSUME ThrottleInv, [Next]_vars
    PROVE  /\ ThrottleInv'
           /\ state.file = "whole" => state'.file # "none" /\ state'.recorded >= state.recorded
  <1> USE NativeHistoryAssumption, NoWorkerAssumption
      DEF NativeHistoryAssumption, ThrottleInv, TypeOK, Files, StateIsWhole, saveVars, fileVars, callVars
  <1> DEFINE Kept == /\ ThrottleInv'
                     /\ state.file = "whole" =>
                           state'.file # "none" /\ state'.recorded >= state.recorded
  <1>1. ASSUME NEW p \in Workers, Lock(p) PROVE Kept
    BY <1>1 DEF Lock, Goto, OneAtWork, OwedBounded, DeadlineCovers, RunningOnDisk, SavesInOrder,
                Saving, ToSave, AdmittedWhenFree, OutcomeOwed
  <1>2. ASSUME NEW p \in Workers, Admit(p) PROVE Kept
    BY <1>2 DEF Admit, Due, Interrupted, Goto, OneAtWork, OwedBounded, DeadlineCovers,
                RunningOnDisk, SavesInOrder, Saving, ToSave, AdmittedWhenFree, OutcomeOwed
  <1>3. ASSUME NEW p \in Workers, Refuse(p) PROVE Kept
    BY <1>3 DEF Refuse, Leave, Goto, OneAtWork, OwedBounded, DeadlineCovers,
                RunningOnDisk, SavesInOrder, Saving, ToSave, AdmittedWhenFree, OutcomeOwed
  <1>4. ASSUME NEW p \in Workers, CallLibrary(p) PROVE Kept
    BY <1>4 DEF CallLibrary, Goto, OneAtWork, OwedBounded, DeadlineCovers,
                RunningOnDisk, SavesInOrder, Saving, ToSave, AdmittedWhenFree, OutcomeOwed
  <1>5. ASSUME NEW p \in Workers, Return(p) PROVE Kept
    BY <1>5 DEF Return, Goto, OneAtWork, OwedBounded, DeadlineCovers,
                RunningOnDisk, SavesInOrder, Saving, ToSave, AdmittedWhenFree, OutcomeOwed
  <1>6. ASSUME NEW p \in Workers, Kill(p) PROVE Kept
    BY <1>6 DEF Kill, Leave, Goto, OneAtWork, OwedBounded, DeadlineCovers,
                RunningOnDisk, SavesInOrder, Saving, ToSave, AdmittedWhenFree, OutcomeOwed
  <1>7. ASSUME NEW p \in Workers, TruncatePending(p) PROVE Kept
    <2>1. /\ Recording(p) \in Nat /\ Recording(p) >= sampled[p]
          /\ pc[p] = "end" => Recording(p) >= clock
          /\ pc[p] # "end" => Recording(p) = sampled[p]
      BY DEF Recording, Closing, Later
    <2>2. /\ Saving(p) /\ saving[p] = "no"
          /\ sampled' = [sampled EXCEPT ![p] = Recording(p)]
          /\ saving' = [saving EXCEPT ![p] = "open"]
          /\ pending' = Unfinished
          /\ UNCHANGED <<clock, elapsed, locked, pc, state, outcome, calls, lastEnd, lastWait>>
      BY <1>7 DEF TruncatePending
    <2>3. \A q \in Workers : q # p => pc[q] = "idle" /\ saving[q] = "no"
      BY <2>2 DEF OneAtWork, SavesInOrder, Saving
    <2>4. TypeOK' /\ OneAtWork' /\ OwedBounded' /\ DeadlineCovers'
      BY <2>1, <2>2 DEF OneAtWork, OwedBounded, DeadlineCovers, Unfinished, NoState
    <2>5. RunningOnDisk' /\ AdmittedWhenFree'
      BY <2>1, <2>2, <2>3 DEF RunningOnDisk, AdmittedWhenFree, Saving
    <2>6. SavesInOrder'
      BY <2>2, <2>3 DEF SavesInOrder, Saving
    <2>7. OutcomeOwed'
      BY <2>1, <2>2, <2>3 DEF OutcomeOwed, OwedBounded
    <2> QED
      BY <2>2, <2>4, <2>5, <2>6, <2>7
  <1>8. ASSUME NEW p \in Workers, WritePending(p) PROVE Kept
    <2>1. ToSave(p) \in Files /\ Saving(p)
      BY <1>8, WrittenRecord DEF WritePending
    <2> QED
      BY <1>8, <2>1 DEF WritePending, OneAtWork, OwedBounded, DeadlineCovers,
                RunningOnDisk, SavesInOrder, Saving, ToSave, AdmittedWhenFree, OutcomeOwed
  <1>9. ASSUME NEW p \in Workers, ReplaceState(p) PROVE Kept
    <2>1. /\ Saving(p) /\ saving[p] = "written"
          /\ saving' = [saving EXCEPT ![p] = "moved"] /\ pending' = NoState
          /\ state' = ToSave(p)
          /\ UNCHANGED <<clock, elapsed, locked, pc, sampled, outcome, calls, lastEnd, lastWait>>
      BY <1>9 DEF ReplaceState, SavesInOrder
    <2>2. /\ state' \in [file : {"whole"}, recorded : Nat, next : Nat, running : BOOLEAN]
          /\ state'.running <=> pc[p] = "begin"
          /\ state'.recorded = sampled[p]
          /\ state.file = "whole" => state'.recorded >= state.recorded
          /\ pc[p] # "begin" => lastEnd + lastWait <= state'.next + (elapsed - clock)
      BY <2>1, WrittenRecord
    <2>3. state' \in Files /\ state'.file = "whole" /\ NoState \in Files
      BY <2>2 DEF NoState
    <2>4. \A q \in Workers : q # p => pc[q] = "idle"
      BY <2>1 DEF OneAtWork, Saving
    <2>5. ToSave(p)' = ToSave(p)
      BY <2>1 DEF ToSave
    <2>6. TypeOK' /\ OneAtWork' /\ OwedBounded' /\ OutcomeOwed'
      BY <2>1, <2>3 DEF OneAtWork, OwedBounded, OutcomeOwed
    <2>7. SavesInOrder'
      BY <2>1, <2>4, <2>5 DEF SavesInOrder, Saving
    <2>8. DeadlineCovers' /\ RunningOnDisk' /\ AdmittedWhenFree'
      BY <2>1, <2>2, <2>3, <2>4 DEF DeadlineCovers, RunningOnDisk, AdmittedWhenFree, Saving
    <2> QED
      BY <2>2, <2>3, <2>6, <2>7, <2>8
  <1>10. ASSUME NEW p \in Workers, SyncDirectory(p) PROVE Kept
    <2>1. /\ Saving(p) /\ saving[p] = "moved" /\ state = ToSave(p)
          /\ UNCHANGED <<clock, elapsed, pending, state, calls, lastEnd, lastWait>>
      BY <1>10 DEF SyncDirectory, SavesInOrder
    <2>2. CASE pc[p] = "begin"
      <3>1. state.file = "whole" /\ state.running /\ state.recorded = sampled[p]
        BY <2>1, <2>2, WrittenRecord
      <3> QED
        BY <1>10, <2>1, <2>2, <3>1
           DEF SyncDirectory, Goto, OneAtWork, OwedBounded, DeadlineCovers, RunningOnDisk, SavesInOrder,
               Saving, ToSave, AdmittedWhenFree, OutcomeOwed
    <2>3. CASE pc[p] # "begin"
      <3>1. \A q \in Workers : pc'[q] = "idle" /\ saving'[q] = "no" /\ outcome'[q] = "none"
        BY <1>10, <2>1, <2>3
           DEF SyncDirectory, Leave, Goto, OneAtWork, SavesInOrder, OutcomeOwed, Saving
      <3> QED
        BY <1>10, <2>1, <2>3, <3>1
           DEF SyncDirectory, Leave, Goto, OneAtWork, OwedBounded, DeadlineCovers, RunningOnDisk,
               SavesInOrder, Saving, AdmittedWhenFree, OutcomeOwed
    <2> QED
      BY <2>2, <2>3
  <1>11. ASSUME NEW p \in Workers, SaveFails(p) PROVE Kept
    <2>1. \A q \in Workers : pc'[q] = "idle" /\ saving'[q] = "no" /\ outcome'[q] = "none"
      BY <1>11 DEF SaveFails, Leave, Goto, OneAtWork, SavesInOrder, OutcomeOwed, Saving
    <2> QED
      BY <1>11, <2>1 DEF SaveFails, Leave, OneAtWork, OwedBounded, DeadlineCovers,
                        RunningOnDisk, SavesInOrder, Saving, AdmittedWhenFree, OutcomeOwed, Goto
  <1>12. CASE Tick
    BY <1>12 DEF Tick, OneAtWork, OwedBounded, DeadlineCovers, RunningOnDisk,
                 SavesInOrder, Saving, ToSave, AdmittedWhenFree, OutcomeOwed
  <1>13. CASE SetBack
    BY <1>13 DEF SetBack, OneAtWork, OwedBounded, DeadlineCovers, RunningOnDisk,
                 SavesInOrder, Saving, ToSave, AdmittedWhenFree, OutcomeOwed
  <1>14. CASE UNCHANGED vars
    BY <1>14 DEF vars, OneAtWork, OwedBounded, DeadlineCovers, RunningOnDisk,
                 SavesInOrder, Saving, ToSave, AdmittedWhenFree, OutcomeOwed
  <1> QED
    BY <1>1, <1>2, <1>3, <1>4, <1>5, <1>6, <1>7, <1>8, <1>9, <1>10, <1>11, <1>12, <1>13, <1>14
       DEF Next

\* The invariant holds in every state.
LEMMA ThrottleHolds == Spec => []ThrottleInv
  <1>1. ThrottleInv /\ [Next]_vars => ThrottleInv'
    BY ThrottleStep
  <1> QED
    BY <1>1, InitThrottle, PTL DEF Spec

\* Every library call is spaced in real time, and no two overlap.
THEOREM CallsSpaced == Spec => []CallsAreSpaced
  <1>1. ThrottleInv => CallsAreSpaced
    BY DEF ThrottleInv, CallsAreSpaced, AdmittedWhenFree, OneAtWork
  <1> QED
    BY <1>1, ThrottleHolds, PTL

\* No part of a record is ever moved over the state file: whoever is in a save holds the
\* lock, so that the pending file it moves is the one it has finished itself.
THEOREM StateReadable == Spec => []StateIsWhole
  <1>1. ThrottleInv => StateIsWhole
    BY DEF ThrottleInv
  <1> QED
    BY <1>1, ThrottleHolds, PTL

\* The recorded time never goes back.
THEOREM RecordMonotone == Spec => RecordNeverBack
  <1>1. ThrottleInv /\ [Next]_vars =>
          [state.file = "whole" => state'.file # "none" /\ state'.recorded >= state.recorded]_vars
    BY ThrottleStep
  <1> QED
    BY <1>1, ThrottleHolds, PTL DEF Spec, RecordNeverBack
=============================================================================
