----------------------------- MODULE YahooExchange -----------------------------
(***************************************************************************)
(* One logical Yahoo request from its claim to its result: the yfinance    *)
(* library asks for pages, CoordinatedSession decides which of them may be *)
(* asked for, ProductionYahooExchangePort and the transport coordinator    *)
(* turn each into one physical attempt, and YfinanceDailyAdapter settles   *)
(* the request when the library call is over.                              *)
(*                                                                         *)
(* The code is one thread, its place is "at"; between any two of its       *)
(* repository calls the lease may expire and another owner may recover.    *)
(* Every repository call may also fail and roll back (MaxFailures times).  *)
(* Of the ledger only the rows of this request are kept; RequestLedger has *)
(* the rest.  Which pages the library asks for, and in which order, is not *)
(* the repository's code: any order is allowed here.                       *)
(***************************************************************************)
EXTENDS Integers, FiniteSets

CONSTANTS
    Auxiliary,      \* pages besides the charts that the library asks for
    MaxAttempts,    \* bound: physical attempts of the request
    MaxWait,        \* gate_wait_timeout_seconds, in polls
    MaxFailures,    \* bound: repository calls that fail for no reason of the protocol
    MaxRollbacks    \* bound: how often the wall clock is set back during a wait

ASSUME YahooExchangeAssumption ==
    /\ Auxiliary \subseteq {"cookie", "crumb", "consent"}
    /\ MaxAttempts \in Nat /\ MaxWait \in Nat \ {0}
    /\ MaxFailures \in Nat /\ MaxRollbacks \in Nat

Sequences == 1 .. MaxAttempts
Charts == {"timezone", "history"}
Basic == {"cookie", "crumb"}                    \* cookie_basic, crumb_basic
Csrf == {"consent"}                             \* consent_* and crumb_csrf
Pages == Charts \cup Auxiliary
Unapproved == {"elsewhere", "altered"}          \* another address; a chart with other parameters
Answers == {"ok", "notfound", "denied", "limited", "redirect"}  \* see Send
Sent == Answers \cup {"invalid", "lost"}        \* response that fails validation, no response

VARIABLES
    at,                         \* where the thread is
    asked,                      \* the page of the active envelope
    waited,                     \* time since the wait for the gates began
    poisoned, pending, usedFallback, strategy, failedStrategy, done,    \* CoordinatedSession
    portPoisoned, uncertain,    \* ProductionYahooExchangePort
    owned, recovered,           \* the lease is still ours; another owner recovered
    result,                     \* logical_results.outcome
    attempt, gate, page, answer, published,     \* of each physical attempt
    failures, rollbacks

sessionVars == <<poisoned, pending, usedFallback, strategy, failedStrategy, done>>
portVars == <<portPoisoned, uncertain>>
leaseVars == <<owned, recovered>>
rowVars == <<result, attempt, gate>>
wireVars == <<page, answer, published>>
boundVars == <<failures, rollbacks>>
vars == <<at, asked, waited, sessionVars, portVars, leaseVars, rowVars, wireVars, boundVars>>

Live == {"reserved", "started"}
Terminal == {"succeeded", "failed", "unknown"}
Outside == {"idle", "over"}

-------------------------------------------------------------------------------
Init ==
    /\ at = "idle" /\ asked = "none" /\ waited = 0
    /\ poisoned = FALSE /\ pending = "none" /\ usedFallback = FALSE
    /\ strategy = "basic" /\ failedStrategy = "none" /\ done = {}
    /\ portPoisoned = FALSE /\ uncertain = FALSE
    /\ owned = TRUE /\ recovered = FALSE
    /\ result = "none"
    /\ attempt = [k \in Sequences |-> "none"]
    /\ gate = [k \in Sequences |-> "none"]
    /\ page = [k \in Sequences |-> "none"]
    /\ answer = [k \in Sequences |-> "none"]
    /\ published = [k \in Sequences |-> FALSE]
    /\ failures = 0 /\ rollbacks = 0

\* The fence lets a repository call through, or it raises and changes nothing; once the
\* clock was set back, a call may find itself earlier than the last heartbeat.
Succeeds == owned /\ UNCHANGED failures
Fails == \/ (~owned \/ rollbacks > 0) /\ UNCHANGED failures
         \/ failures < MaxFailures /\ failures' = failures + 1

\* The attempt in progress is the last one.
NextSequence(k) == \A j \in Sequences : attempt[j] # "none" <=> j < k
Current(k) == attempt[k] # "none" /\ \A j \in Sequences : j > k => attempt[j] = "none"

\* The envelope and the wait end with exchange; an exception also poisons the session.
Leave == at' = "idle" /\ asked' = "none" /\ waited' = 0
Raise == Leave /\ poisoned' = TRUE
Stay == UNCHANGED <<asked, waited, poisoned>>
KeepSession == UNCHANGED <<pending, usedFallback, strategy, failedStrategy, done>>

-------------------------------------------------------------------------------
(* CoordinatedSession.request, before the exchange.                         *)

\* _classify: only the known addresses of the bound symbol.
Classified(w) == w # "elsewhere"

\* _validate_bound_chart: a chart is asked for with the parameters of the intent, or of the
\* one-day chart, and a crumb at most.
BoundChart(w) == w # "altered"

\* _chart_kind: which of the two charts a request is for.
ChartKind(w) == {w} \cap Charts

StrategyOf(w) == IF w \in Basic THEN "basic" ELSE IF w \in Csrf THEN "csrf" ELSE strategy

\* _check_transition: each chart once, and one of them again under the other strategy.
Approved(w) ==
    /\ Classified(w) /\ BoundChart(w)
    /\ \/ ChartKind(w) = {}
       \/ pending = "none" /\ w \notin done
       \/ w = pending /\ ~usedFallback /\ strategy # failedStrategy

AskApproved(w) ==
    /\ at = "idle" /\ ~poisoned
    /\ \E k \in Sequences : NextSequence(k)
    /\ Approved(w)
    /\ strategy' = StrategyOf(w)
    /\ usedFallback' = (usedFallback \/ (ChartKind(w) # {} /\ pending # "none"))
    /\ asked' = w
    /\ at' = "waiting" /\ waited' = 0
    /\ UNCHANGED <<poisoned, pending, failedStrategy, done, portVars, leaseVars, rowVars, wireVars, boundVars>>

AskRejected(w) ==
    /\ at = "idle" /\ ~poisoned
    /\ ~Approved(w)
    /\ poisoned' = TRUE
    /\ KeepSession
    /\ UNCHANGED <<at, asked, waited, portVars, leaseVars, rowVars, wireVars, boundVars>>

-------------------------------------------------------------------------------
(* ProductionYahooExchangePort.exchange: reserve an attempt, wait for gates. *)

\* assert_active_envelope: the request is the one the session is waiting for.
ActiveEnvelope == asked # "none" /\ ~poisoned

\* assert_binding poisons the port if it fails, reserve_next_physical_attempt does not.
Reserve ==
    /\ at = "waiting"
    /\ \/ \E k \in Sequences :
             /\ Succeeds /\ ActiveEnvelope
             /\ NextSequence(k) /\ result = "none"
             /\ {attempt[j] : j \in Sequences} \cap (Live \cup {"unknown"}) = {}
             /\ attempt' = [attempt EXCEPT ![k] = "reserved"]
             /\ page' = [page EXCEPT ![k] = asked]
             /\ at' = "reserved"
             /\ Stay /\ UNCHANGED portPoisoned
       \/ /\ Fails
          /\ portPoisoned' \in {portPoisoned, TRUE}
          /\ Raise
          /\ UNCHANGED <<attempt, page>>
    /\ KeepSession
    /\ UNCHANGED <<uncertain, leaseVars, result, gate, answer, published, rollbacks>>

\* acquire_gates; others may hold the gates at any moment.
AcquireGates ==
    \E k \in Sequences :
        /\ at = "reserved" /\ Current(k)
        /\ \/ Succeeds /\ gate' = [gate EXCEPT ![k] = "active"] /\ at' = "gated"
           \/ Succeeds /\ gate' = gate /\ at' = "blocked"
           \/ Fails /\ gate' = gate /\ at' = "broken"
        /\ UNCHANGED <<asked, waited, sessionVars, portVars, leaseVars, result, attempt, wireVars, rollbacks>>

MarkStarted ==
    \E k \in Sequences :
        /\ at = "gated" /\ Current(k)
        /\ \/ Succeeds /\ attempt' = [attempt EXCEPT ![k] = "started"] /\ at' = "started"
           \/ Fails /\ attempt' = attempt /\ at' = "broken"
        /\ UNCHANGED <<asked, waited, sessionVars, portVars, leaseVars, result, gate, wireVars, rollbacks>>

\* Faulty: gives the gates up without end.
NeverExhausted == FALSE
Exhausted == waited >= MaxWait

\* Any exception of the exchange: an attempt that holds no gates is discarded, and only
\* one that was blocked in time is tried again.
Discard ==
    \E k \in Sequences :
        /\ at \in {"blocked", "broken"} /\ Current(k)
        /\ Succeeds /\ attempt[k] = "reserved" /\ gate[k] = "none"
        /\ attempt' = [attempt EXCEPT ![k] = "none"]
        /\ page' = [page EXCEPT ![k] = "none"]
        /\ IF at = "broken" \/ Exhausted
           THEN portPoisoned' = TRUE /\ Raise
           ELSE at' = "retrying" /\ Stay /\ UNCHANGED portPoisoned
        /\ KeepSession
        /\ UNCHANGED <<uncertain, leaseVars, result, gate, answer, published, rollbacks>>

\* Faulty: a failed discard is taken for an attempt that was not sent.
DiscardRefusedQuietly == portPoisoned' = TRUE /\ UNCHANGED uncertain
DiscardRefused == portPoisoned' = TRUE /\ uncertain' = TRUE

CannotDiscard ==
    \E k \in Sequences :
        /\ at \in {"blocked", "broken"} /\ Current(k)
        /\ \/ Fails
           \/ UNCHANGED failures /\ (attempt[k] # "reserved" \/ gate[k] # "none")
        /\ DiscardRefused
        /\ Raise
        /\ KeepSession
        /\ UNCHANGED <<leaseVars, rowVars, wireVars, rollbacks>>

\* heartbeat_lease, then sleep; a failure here poisons only the session.
Poll ==
    /\ at = "retrying"
    /\ \/ Succeeds /\ at' = "waiting" /\ UNCHANGED <<asked, poisoned>>
          /\ waited' = IF waited < MaxWait THEN waited + 1 ELSE waited
       \/ Fails /\ Raise
    /\ KeepSession
    /\ UNCHANGED <<portVars, leaseVars, rowVars, wireVars, rollbacks>>

-------------------------------------------------------------------------------
(* execute_exchange_with_callback: permit, send, and the record of it.      *)

IssuePermit ==
    /\ at = "started"
    /\ \/ at' = "permitted" /\ UNCHANGED failures
       \/ at' = "unissued" /\ failures < MaxFailures /\ failures' = failures + 1
    /\ UNCHANGED <<asked, waited, sessionVars, portVars, leaseVars, rowVars, wireVars, rollbacks>>

\* The callback asserts the binding once more before it sends.
CheckBinding ==
    /\ at = "permitted"
    /\ \/ Succeeds /\ ActiveEnvelope /\ at' = "cleared" /\ UNCHANGED portPoisoned
       \/ Fails /\ at' = "stopped" /\ portPoisoned' = TRUE
    /\ UNCHANGED <<asked, waited, sessionVars, uncertain, leaseVars, rowVars, wireVars, rollbacks>>

\* _retry_after_seconds: a number, or a date with its zone.
ReadableRetryAfter(header) == header \in {"absent", "seconds", "date"}
Headers == {"absent", "seconds", "date", "unreadable"}

\* _normalize_response: the address, the content type and the encoding are those of the
\* page asked for, and Retry-After can be read; anything else is no valid response.
Normalized(response) ==
    IF response.sound /\ ReadableRetryAfter(response.retryAfter) THEN response.status ELSE "invalid"

\* The backend's request: 2xx, 404 of the cookie page, other 4xx and 5xx, 429 or 3xx,
\* or no response at all.
Send ==
    \E k \in Sequences :
        /\ at = "cleared" /\ Current(k)
        /\ \/ \E response \in [status : Answers, sound : BOOLEAN, retryAfter : Headers] :
                 /\ response.status = "notfound" => page[k] = "cookie"
                 /\ answer' = [answer EXCEPT ![k] = Normalized(response)]
           \/ answer' = [answer EXCEPT ![k] = "lost"]
        /\ at' = "answered"
        /\ UNCHANGED <<asked, waited, sessionVars, portVars, leaseVars, rowVars, page, published, boundVars>>

\* What release_gates, record_retry_after or record_unknown_outcome write.
RecordedState(k) ==
    IF at = "stopped" \/ (at = "answered" /\ answer[k] = "lost") THEN "unknown"
    ELSE IF at = "answered" /\ answer[k] = "ok" THEN "succeeded" ELSE "failed"

Unknowable(k) == RecordedState(k) = "unknown"

\* The record, and what the port makes of it: only a validated response goes on.
RecordOutcome ==
    \E k \in Sequences :
        /\ at \in {"unissued", "stopped", "answered"} /\ Current(k)
        /\ \/ /\ Succeeds
              /\ attempt' = [attempt EXCEPT ![k] = RecordedState(k)]
              /\ gate' = [gate EXCEPT ![k] = "released"]
              /\ uncertain' = (uncertain \/ Unknowable(k))
              /\ IF at = "answered" /\ answer[k] \in Answers
                 THEN at' = "publishing" /\ Stay /\ UNCHANGED portPoisoned
                 ELSE portPoisoned' = TRUE /\ Raise
           \/ /\ Fails
              /\ at' = "broken"
              /\ Stay /\ UNCHANGED <<attempt, gate, portVars>>
        /\ KeepSession
        /\ UNCHANGED <<leaseVars, result, wireVars, rollbacks>>

-------------------------------------------------------------------------------
(* Publication of the raw response, and what the session makes of its status. *)

\* Faulty: a 429 is like any other refusal.
AnomalyButLimits(k) == answer[k] = "redirect"

\* 429 and redirects end the session.
Anomaly(k) == answer[k] \in {"limited", "redirect"}

\* A refusal; that there is no cookie page is none.
Refusal(k) == answer[k] \in {"denied", "limited"}

MayFallBack(k) == page[k] \in Charts /\ ~usedFallback /\ pending = "none"

\* After the receipt: poison, keep the chart as pending fallback, or go on.
Receive(k) ==
    /\ poisoned' = (Anomaly(k) \/ (Refusal(k) /\ ~MayFallBack(k)))
    /\ pending' = IF Anomaly(k) \/ page[k] \notin Charts THEN pending
                  ELSE IF ~Refusal(k) THEN "none"
                  ELSE IF MayFallBack(k) THEN page[k] ELSE pending
    /\ failedStrategy' = IF ~Anomaly(k) /\ Refusal(k) /\ MayFallBack(k) THEN strategy ELSE failedStrategy
    /\ done' = IF Anomaly(k) THEN done ELSE done \cup ChartKind(page[k])
    /\ UNCHANGED <<usedFallback, strategy>>

\* RawArtifactPublisher.publish returns, or fails with the bundle committed or not.
Publish ==
    \E k \in Sequences :
        /\ at = "publishing" /\ Current(k)
        /\ \/ /\ Succeeds
              /\ published' = [published EXCEPT ![k] = TRUE]
              /\ Leave
              /\ Receive(k)
              /\ UNCHANGED portPoisoned
           \/ /\ Fails
              /\ portPoisoned' = TRUE /\ Raise
              /\ KeepSession
              /\ published' = published
        /\ UNCHANGED <<uncertain, leaseVars, rowVars, page, answer, rollbacks>>

-------------------------------------------------------------------------------
(* YfinanceDailyAdapter.download after the library call, the session's and  *)
(* the port's finalize, and finalize_logical_request.                       *)

\* Faulty: forgets that a refused chart is still to be asked for again.
HistoryAsked == "history" \in done /\ ~poisoned
Complete == "history" \in done /\ pending = "none" /\ ~poisoned

\* Faulty: the port takes the adapter's word.
AdaptersOutcome(outcome) == outcome
SettledOutcome(outcome) == IF uncertain THEN "unknown" ELSE outcome

\* _validate_attempt_outcome
Justified(outcome) ==
    LET states == {attempt[k] : k \in Sequences}
    IN  /\ states \cap Live = {}
        /\ outcome = "succeeded" =>
              /\ "unknown" \notin states
              /\ \E k \in Sequences : Current(k) /\ attempt[k] = "succeeded"
        /\ outcome = "unknown" => "unknown" \in states

\* The library may return a table or raise, whatever it was answered before.
Outcomes == {"failed"} \cup (IF Complete THEN {"succeeded"} ELSE {})

Finalize ==
    \E o \in Outcomes :
        LET outcome == SettledOutcome(o)
            accepted == /\ result = "none" /\ Justified(outcome)
                        /\ portPoisoned => outcome # "succeeded"
        IN  /\ at = "idle"
            /\ \/ /\ Succeeds /\ accepted
                  /\ result' = outcome
                  /\ poisoned' = TRUE
               \/ /\ Fails \/ (UNCHANGED failures /\ ~accepted)
                  /\ UNCHANGED <<result, poisoned>>
            /\ at' = "over"
            /\ KeepSession
            /\ UNCHANGED <<asked, waited, portVars, leaseVars, attempt, gate, wireVars, rollbacks>>

-------------------------------------------------------------------------------
(* The rest of the world.                                                   *)

ExpireLease ==
    /\ owned
    /\ owned' = FALSE
    /\ UNCHANGED <<at, asked, waited, sessionVars, portVars, recovered, rowVars, wireVars, boundVars>>

\* recover_expired_lease of the next owner, on the rows of this request.
RecoverLease ==
    LET states == {attempt[k] : k \in Sequences}
    IN  /\ ~owned /\ ~recovered
        /\ recovered' = TRUE
        /\ attempt' = [k \in Sequences |-> IF attempt[k] = "started" THEN "unknown" ELSE attempt[k]]
        /\ gate' = [k \in Sequences |-> IF gate[k] = "active" THEN "recovered" ELSE gate[k]]
        /\ result' = IF result # "none" THEN result
                     ELSE IF states \cap {"started", "unknown"} # {} THEN "unknown"
                     ELSE IF "reserved" \notin states /\ states \cap Terminal # {} THEN "failed"
                     ELSE "none"
        /\ UNCHANGED <<at, asked, waited, sessionVars, portVars, owned, wireVars, boundVars>>

SetBack ==
    /\ at \notin Outside /\ rollbacks < MaxRollbacks
    /\ waited' \in -MaxWait .. (waited - 1)
    /\ rollbacks' = rollbacks + 1
    /\ UNCHANGED <<at, asked, sessionVars, portVars, leaseVars, rowVars, wireVars, failures>>

-------------------------------------------------------------------------------
ExchangeStep ==
    \/ Reserve \/ AcquireGates \/ MarkStarted \/ Discard \/ CannotDiscard \/ Poll
    \/ IssuePermit \/ CheckBinding \/ Send \/ RecordOutcome \/ Publish

Next ==
    \/ \E w \in Pages \cup Unapproved : AskApproved(w) \/ AskRejected(w)
    \/ ExchangeStep
    \/ Finalize
    \/ ExpireLease \/ RecoverLease \/ SetBack

\* An exchange is straight-line code of one thread: its calls return or raise.
Spec == Init /\ [][Next]_vars /\ WF_vars(ExchangeStep)

-------------------------------------------------------------------------------
(* Properties.                                                              *)

\* A send that got no response is never told as a plain failure or a success, whoever
\* settles the request: the port after any failure of its own, or the next owner.
LostIsUnknown ==
    result \in {"succeeded", "failed"} => \A k \in Sequences : answer[k] # "lost" /\ attempt[k] # "unknown"

\* A success stands on a history chart that was answered with 2xx and whose raw bundle
\* is published, and on no send that stayed unanswered.
SuccessIsBacked ==
    result = "succeeded" =>
        \E k \in Sequences : /\ page[k] = "history" /\ answer[k] = "ok"
                             /\ attempt[k] = "succeeded" /\ published[k]

\* When exchange has returned or raised, no attempt of the request is live and no gate is
\* held, so that other requests can go on; else the port says that it is uncertain.
NothingLeftBehind ==
    at \in Outside /\ owned /\ ~uncertain =>
        \A k \in Sequences : attempt[k] \notin Live /\ gate[k] # "active"

\* After a 429, a redirect, an invalid response or none at all, nothing more is sent.
StopsAfterAnomaly ==
    [][answer' # answer =>
          \A k \in Sequences : answer[k] \in {"none", "ok", "notfound", "denied"}]_vars

\* A wait for gates does not last for ever, although the clock that limits it may be
\* set back: every exchange returns or raises.
ExchangeEnds == at \notin Outside ~> at \in Outside
===============================================================================
