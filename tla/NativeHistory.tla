--------------------------- MODULE NativeHistory ---------------------------
(* The throttle of NativeHistoryClient (native_history.py): worker processes  *)
(* share a lock file and a state file with the time of the last record, the   *)
(* earliest next call and whether a call is running. Workers may be killed at *)
(* any point, file operations may fail, and the host's clock may be set back. *)
EXTENDS Integers

CONSTANTS Workers,          \* processes sharing one state root
          MinInterval,      \* MIN_INTERVAL_SECONDS
          FailureCooldown,  \* FAILURE_COOLDOWN_SECONDS
          MaxTime,          \* bound on the clock and on the time that passes
          MaxCalls          \* bound on the calls of the library

ASSUME NativeHistoryAssumption ==
    /\ Workers # {}
    /\ MinInterval \in Nat /\ FailureCooldown \in Nat /\ MinInterval < FailureCooldown
    /\ MaxTime \in Nat /\ MaxCalls \in Nat

NoWorker == 0
ASSUME NoWorkerAssumption == NoWorker \notin Workers

VARIABLES
    clock,      \* time.time() of the host
    elapsed,    \* time that really passed
    locked,     \* the worker that holds provider.lock
    pc,         \* where each worker is
    sampled,    \* the time each worker records: _admit's now, later the time of the end
    saving,     \* how far its _save_deadline is
    pending,    \* provider.pending
    state,      \* provider.json
    outcome,    \* how the call of the lock's holder ended
    calls,      \* number of calls of the library so far
    lastEnd,    \* when the latest call ended or its worker was killed, in real time
    lastWait    \* the interval that call is owed

vars == <<clock, elapsed, locked, pc, sampled, saving, pending, state, outcome, calls, lastEnd, lastWait>>
fileVars == <<pending, state>>
saveVars == <<saving, fileVars>>
callVars == <<calls, lastEnd, lastWait>>

Record(now, interval, running) ==
    [file |-> "whole", recorded |-> now, next |-> now + interval, running |-> running]
NoState == [file |-> "none", recorded |-> 0, next |-> 0, running |-> FALSE]
\* A file that is opened for writing is empty at once and holds any part of its
\* text until the last write: no reader takes it for a record.
Unfinished == [NoState EXCEPT !.file = "partial"]
Later(a, b) == IF a < b THEN b ELSE a
Goto(p, l) == pc' = [pc EXCEPT ![p] = l]

\* The context of _admit is left: the lock and the locals are gone.
Leave(p) ==
    /\ Goto(p, "idle")
    /\ locked' = NoWorker
    /\ sampled' = [sampled EXCEPT ![p] = 0]
    /\ saving' = [saving EXCEPT ![p] = "no"]
    /\ outcome' = [outcome EXCEPT ![p] = "none"]

Init ==
    /\ clock = 0 /\ elapsed = 0
    /\ locked = NoWorker
    /\ pc = [p \in Workers |-> "idle"]
    /\ sampled = [p \in Workers |-> 0]
    /\ saving = [p \in Workers |-> "no"]
    /\ pending = NoState /\ state = NoState
    /\ outcome = [p \in Workers |-> "none"]
    /\ calls = 0 /\ lastEnd = 0 /\ lastWait = 0

\* Faulty: a lock that does not exclude, as LOCK_SH.
LockShared(p) ==
    /\ pc[p] = "idle"
    /\ calls < MaxCalls
    /\ locked' = p
    /\ Goto(p, "read")
    /\ UNCHANGED <<clock, elapsed, sampled, saveVars, outcome, callVars>>

\* flock without waiting: a worker that finds it held reports yfinance_busy.
Lock(p) ==
    /\ pc[p] = "idle" /\ locked = NoWorker
    /\ calls < MaxCalls
    /\ locked' = p
    /\ Goto(p, "read")
    /\ UNCHANGED <<clock, elapsed, sampled, saveVars, outcome, callVars>>

\* Faulty: a record of the future is taken for a state that has run out.
MovedBackOrDue(now) ==
    \/ state.file = "none"
    \/ now < state.recorded
    \/ ~state.running /\ now >= state.next

\* The checks of _admit on a state file that is there, all at one sample of time.
Due(now) ==
    \/ state.file = "none"
    \/ (now >= state.recorded /\ ~state.running /\ now >= state.next)
Interrupted(now) == state.file # "none" /\ now >= state.recorded /\ state.running
Admit(p) ==
    /\ pc[p] = "read" /\ state.file # "partial"
    /\ Due(clock) \/ Interrupted(clock)
    /\ sampled' = [sampled EXCEPT ![p] = clock]
    /\ Goto(p, IF Due(clock) THEN "begin" ELSE "cool")
    /\ UNCHANGED <<clock, elapsed, locked, saveVars, outcome, callVars>>

\* yfinance_clock_moved_backwards, yfinance_cooldown, invalid_yfinance_rate_state
Refuse(p) ==
    /\ pc[p] = "read"
    /\ state.file = "partial" \/ ~(Due(clock) \/ Interrupted(clock))
    /\ Leave(p)
    /\ UNCHANGED <<clock, elapsed, fileVars, callVars>>

(* _save_deadline, called before the call, after it, and instead of it: the   *)
(* pending file is truncated, written and synced, then moved over the state   *)
(* file whatever it holds by then, then the directory is synced.              *)
\* Faulty: the time after the call is taken as it is, also when it went back.
ClosingSample(p) == clock

\* The time that is recorded: after a call it is taken anew, before the file is opened.
Closing(p) == Later(sampled[p], clock)
Recording(p) == IF pc[p] = "end" THEN Closing(p) ELSE sampled[p]

\* An exception of the library has the long interval; the call's start too.
ToSave(p) ==
    Record(sampled[p], IF outcome[p] = "ok" THEN MinInterval ELSE FailureCooldown, pc[p] = "begin")

Saving(p) == pc[p] \in {"begin", "cool", "end"}

TruncatePending(p) ==
    /\ Saving(p) /\ saving[p] = "no"
    /\ sampled' = [sampled EXCEPT ![p] = Recording(p)]
    /\ saving' = [saving EXCEPT ![p] = "open"]
    /\ pending' = Unfinished
    /\ UNCHANGED <<clock, elapsed, locked, pc, state, outcome, callVars>>

\* The last write of json.dump is flushed and synced.
WritePending(p) ==
    /\ Saving(p) /\ saving[p] = "open"
    /\ saving' = [saving EXCEPT ![p] = "written"]
    /\ pending' = ToSave(p)
    /\ UNCHANGED <<clock, elapsed, locked, pc, sampled, state, outcome, callVars>>

\* A file that another worker has moved away meanwhile is not there to be moved.
ReplaceState(p) ==
    /\ Saving(p) /\ saving[p] = "written" /\ pending.file # "none"
    /\ saving' = [saving EXCEPT ![p] = "moved"]
    /\ state' = pending /\ pending' = NoState
    /\ UNCHANGED <<clock, elapsed, locked, pc, sampled, outcome, callVars>>

SyncDirectory(p) ==
    /\ Saving(p) /\ saving[p] = "moved"
    /\ IF pc[p] = "begin"
       THEN Goto(p, "call") /\ saving' = [saving EXCEPT ![p] = "no"] /\ UNCHANGED <<locked, sampled, outcome>>
       ELSE Leave(p)
    /\ UNCHANGED <<clock, elapsed, fileVars, callVars>>

\* An OSError of any step of a save leaves the context and the files as they are by
\* then: before the call without one, after it with the state that says a call is running.
SaveFails(p) ==
    /\ Saving(p)
    /\ Leave(p)
    /\ UNCHANGED <<clock, elapsed, fileVars, callVars>>

CallLibrary(p) ==
    /\ pc[p] = "call"
    /\ Goto(p, "calling")
    /\ calls' = calls + 1
    /\ UNCHANGED <<clock, elapsed, locked, sampled, saveVars, outcome, lastEnd, lastWait>>

\* A frame that passes the checks, or any exception.
Return(p) ==
    /\ pc[p] = "calling"
    /\ \E o \in {"ok", "failed"} :
          /\ outcome' = [outcome EXCEPT ![p] = o]
          /\ lastWait' = IF o = "ok" THEN MinInterval ELSE FailureCooldown
    /\ lastEnd' = elapsed
    /\ Goto(p, "end")
    /\ UNCHANGED <<clock, elapsed, locked, sampled, saveVars, calls>>

\* The kernel drops the lock of a killed worker.
Kill(p) ==
    /\ pc[p] # "idle"
    /\ Leave(p)
    /\ IF pc[p] = "calling" THEN lastEnd' = elapsed /\ lastWait' = FailureCooldown
       ELSE UNCHANGED <<lastEnd, lastWait>>
    /\ UNCHANGED <<clock, elapsed, fileVars, calls>>

Tick ==
    /\ elapsed < MaxTime
    /\ clock' = clock + 1 /\ elapsed' = elapsed + 1
    /\ UNCHANGED <<locked, pc, sampled, saveVars, outcome, callVars>>

SetBack ==
    /\ clock > 0
    /\ clock' \in 0 .. clock - 1
    /\ UNCHANGED <<elapsed, locked, pc, sampled, saveVars, outcome, callVars>>

Next ==
    \/ \E p \in Workers :
          \/ Lock(p) \/ Admit(p) \/ Refuse(p) \/ CallLibrary(p) \/ Return(p) \/ Kill(p)
          \/ TruncatePending(p) \/ WritePending(p) \/ ReplaceState(p) \/ SyncDirectory(p)
          \/ SaveFails(p)
    \/ Tick \/ SetBack

Spec == Init /\ [][Next]_vars

-------------------------------------------------------------------------------
Files == [file : {"none", "partial", "whole"}, recorded : Nat, next : Nat, running : BOOLEAN]
TypeOK ==
    /\ clock \in Nat /\ elapsed \in Nat
    /\ locked \in Workers \cup {NoWorker}
    /\ pc \in [Workers -> {"idle", "read", "begin", "cool", "call", "calling", "end"}]
    /\ sampled \in [Workers -> Nat]
    /\ saving \in [Workers -> {"no", "open", "written", "moved"}]
    /\ pending \in Files /\ state \in Files
    /\ outcome \in [Workers -> {"none", "ok", "failed"}]
    /\ calls \in Nat /\ lastEnd \in Nat /\ lastWait \in Nat

\* The limit is kept in time that really passes: a call starts only when the
\* interval its predecessor is owed is over - the short one after a success, the
\* long one after a failure or the death of a worker - and no two overlap,
\* however the workers are scheduled and killed and the clock is set back.
CallsAreSpaced ==
    /\ \A p \in Workers : pc[p] = "calling" => elapsed >= lastEnd + lastWait
    /\ \A p, q \in Workers : pc[p] = "calling" /\ pc[q] = "calling" => p = q

\* What is moved over the state file is a finished record, although the pending file is
\* one name for all workers, is left behind by those that die in a save and is emptied
\* again by the next: no reader finds a part of one ("invalid_yfinance_rate_state"
\* would close the source for ever).
StateIsWhole == state.file # "partial"

\* The recorded time, by which a clock set back is noticed, never goes back itself.
RecordNeverBack ==
    [][state.file = "whole" => state'.file # "none" /\ state'.recorded >= state.recorded]_vars
=============================================================================
