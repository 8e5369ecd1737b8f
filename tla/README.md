# A verification development for the request runtime of stock_research_llm_orchestrator

The repository prepares evidence for stock analyses: it asks Yahoo Finance, EDINET, the Bank of
Japan, Dukascopy and JPX for data, keeps the raw answers as artifacts, and derives accepted tables
from them. What decides whether it behaves is the *production request runtime* under
`src/src/stock_research_llm_orchestrator/requests/`: one SQLite database, shared by every process of
a host, that says who may send, what may be sent, when, and what became of it. The models start
there, go on to the commands that use it, and end with the preparation of prices and financial
figures from what they acquired. Paths below are relative to `src/src/stock_research_llm_orchestrator/` unless they start with
`src/`; `storage.py` is `requests/storage.py`.

## 1. Inventory

| Component | State | Operations | Hard behaviour | Correct when |
|---|---|---|---|---|
| Runtime storage schema (`storage.py`) | the database file, its mode, its version in two places, its tables | `initialize_runtime_storage` with creation and seven migrations | several openers, crashes between statements and scripts | who opens it has the whole schema; nothing delivered is altered; an interrupted upgrade is completed |
| Runtime lease and fence (`storage.py`, `requests/production.py`) | one row: generation, owner token, active, heartbeat, expiry; `RuntimeLease` copies in the processes | `acquire_lease`, `heartbeat_lease`, `release_lease`, `recover_expired_lease`, `_assert_fence` before every mutation | several processes, stalls, old clock samples, clock set back, equal owner tokens | a displaced owner changes nothing; a live one is not displaced |
| Request ledger (`storage.py`) | logical requests, results, queue entries, round-robin cursors, single flights and their consumers, physical attempts, gate reservations, gate occupancy | `admit_logical_request`, `cancel_admitted_request`, `claim_next_queued`, `reserve_next_physical_attempt`, `discard_reserved_attempt`, `acquire_gates`, `mark_physical_attempt_started`, `release_gates`, `record_retry_after`, `record_unknown_outcome`, `finalize_logical_request`, recovery | several consumers of one answer, cancellation and owner loss between any two calls | nobody waits for ever; one sender per fingerprint; all get the same, final answer; nothing unknown is resent; recovery is always possible |
| Rate gates (`storage.py`, `sources/*/production_policy.py`) | last start, starts in the window, cooldown, occupancy of each gate key | `acquire_gates`, release, Retry-After, cancellation, recovery | old samples, clock set back, answers in any order, callers with different policies | spacing, window and cooldown are kept |
| Raw publication (`requests/raw_artifacts.py`, `storage.py`) | publication rows; staging and committed directories | `publish`, `reconcile` | crash between file system and database, failing I/O, lost commit answers, displaced owners | a committed row has a whole bundle; nothing uncertain stays uncertain |
| Transport coordinator and permits (`requests/transport.py`) | permits of the process | reserve, acquire, start, exchange, finish | failure of each step, late answers | no send without gates, no gate without release |
| Yahoo exchange (`sources/yfinance/production_port.py`, `coordinated_session.py`, `adapter.py`) | session state (poisoned, uncertain, finalized), its lease copy, the library's shared session | one chart fetch: wait for gates, send, at most one fallback, publish, finalize | waits that outlive the lease, discards that fail, library retries | a poisoned session sends nothing; success only with a committed chart |
| Native history throttle (`sources/yfinance/native_history.py`) | lock file, pending file, state file | one library call: lock, check, save, call, save | killed workers, failing saves, clock set back | calls keep their interval; the state file stays readable |
| Official producers (`preparation/fx_evidence.py`, `dukascopy_fx.py`, `edinet_evidence.py`, `edinet_pair.py`) | one run each, over the shared runtime | admit, claim, attempts, publish, finalise, release; revalidation of a diagnostic | failure, interrupt or death of any step, expiry, what one run leaves to the next | evidence and success rest on committed files; nothing leaves twice; what a run leaves behind can be recovered |
| Preparation store and campaigns (`preparation/storage.py`, `edinet_campaign.py`) | published preparations, marker, durable slots | `publish_preparation`, slot use, continuation | crash before or after the slot | a slot bounds what is sent |
| Price preparation (`preparation/market_*.py`, `price_*.py`, `run_requirements.py`) | bundles and receipts | acquisition, revalidation, acceptance, joins, requirements and slice of a run | days that end at three different times, short calendars, approvals that end | conversions use final data; a ready run lacks nothing |
| Financial preparation (`preparation/financial_*.py`, `edinet_revalidation.py`) | bundles | candidates, review, adoption, comparative periods, pair, run, merge | withdrawals between lists, several facts for one number, corrections | counted periods are sound, adopted numbers unanimous, merged years consistent |
| In-memory coordinator (`requests/coordinator.py`) | gates, budget, cooldowns of one object | `execute`, `wait` | none: offline, one thread | - |
| Contracts (`contracts/`) | none | validation of finished documents | - | - |
| Transports and parsers (`sources/`) | none | one bounded HTTP exchange or parse | what counts as lost, rejected, confirmed | as used by producers and preparation |
| Credentials, configuration, command lines | none | start-up | - | - |

How they interact. A producer (or the Yahoo port) acquires the lease, admits its request, claims it
from the queue, reserves an attempt, passes the gates, marks the attempt started, sends, publishes
the raw answer, finalises the request, and releases the lease. All but sending and the directory
operations are calls of `ProductionRequestRepository`, each one `BEGIN IMMEDIATE` transaction
fenced by the lease, so that the database serialises them; what other processes do comes *between*
the calls. A consumer whose fingerprint is already in flight becomes a follower and gets its result
from the leader's finalisation or from the recovery of the next owner. Preparations are directories,
published by a rename and never changed; the price and financial steps read the bundles before them
and check them again, so that what changes in between is the clock, the calendar at hand, and what
the providers say.

The hazards of this code, each at its line, are listed in `PROJECT.json` with the properties that
watch them, or with a note saying why none does.

## 2. Modules

| Module | Models | Notes |
|---|---|---|
| `RuntimeLease` | lease row, copies, fence | the clock ticks, may be set back `MaxRollbacks` times; sampling the clock is a step of its own |
| `RequestLedger` | all tables but publications and times | one action per repository call; lease abstracted to generation and active flag |
| `FlightPromise` | what those who ask are promised | abstract specification that `RequestLedger` implements, and `Producers` too |
| `GateLimiter` | times of the gates | occupancy taken as the set of held reservations, which `RequestLedger` shows it to be |
| `RawPublication` | `publish` and `reconcile`, statement by statement | process *p* is the owner of lease generation *p* |
| `YahooExchange` | one logical Yahoo request: session, port, transport coordinator, settlement | the ledger's rows of that request only; the library asks for pages in any order |
| `Producers` | the commands that acquire official evidence, as programs over one runtime | composes lease, queue, gates, publication and campaign, each reduced to what a producer sees of it |
| `NativeHistory` | the throttle of the direct library calls | a clock that is set back any number of times |
| `RuntimeStorage` | opening, creation and migration of the database | the use of an opened database only as far as it touches rows a migration copies |
| `PricePreparation` | prices, rates, acceptance, joins, runs | one instant is a third of a Tokyo day |
| `FinancialPreparation` | lists, archives, candidates, adoption, pair, run, merge | documents are records, facts are sets |
| `Runtime_proofs`, `RequestLedger_proofs`, `GateLimiter_proofs`, `RawPublication_proofs`, `YahooExchange_proofs`, `Producers_proofs`, `NativeHistory_proofs`, `Preparation_proofs` | theorems | see section 5; `Runtime_proofs` is about `RuntimeLease` and `RuntimeStorage`, `Preparation_proofs` about `PricePreparation` and `FinancialPreparation` |
| `MC...` | one instance of each for TLC | |

Definitions commented "Faulty" are variants of the action after them with a plausible bug. They are part
of no specification; replacing the action by its variant makes TLC violate the property that
watches it, which shows that the property is about that code.

**RuntimeLease.** `row` is the row of `runtime_lease`; `leases` every `RuntimeLease` object ever
returned (a process may use any copy of its own, as the Yahoo port and its builder do); `now[p]` the
clock value a process will pass to its next call. `writes` records fenced mutations. A crash is a
process that takes no further step. The renewal compares times with the caller's copy and
identity with the row, as the code does.

**RequestLedger.** The variables are the columns the code decides on. The calls are as in the
inventory; `CancelFollower`, `CancelSentLeader`, `CancelLeaderPromote` and `CancelLeaderAlone` are
the branches of `cancel_admitted_request`. Finalisation and recovery deliver to every active
consumer of the flight (`Delivered...`), with every check of `_finish_single_flight` and
`_reconcile_terminal_flights`; a check that fails is a transaction that rolls back, hence a disabled
action. A lease may be taken over at any moment (its time limits are in `RuntimeLease`) and a call of
an old generation has no action (there `StaleHolderNeverWrites` says why). Time limits of gates are
left out: they only make `AcquireGates` fail at some moments, so every behaviour with them is a
behaviour of the model. Repeated identical calls, which the code answers from the row, change
nothing and have no action.

**FlightPromise.** `waiting`, `verdict`, `proof`: a request joins, is rejected, withdraws, or is
settled together with all who wait for the same thing; success needs an answer to one of them. The
mapping is `waiting` = active consumers, `verdict` = the result rows, `proof` = requests with a
succeeded attempt.

**GateLimiter.** Each caller passes its *own* policy for shared gate keys, so limits are indexed by
policy and key. `sample[a]` is the `started_at` (or completion time) its caller passes next, possibly
old. Cancellation and recovery free reservations without a cooldown. The fence is left out, which
only adds behaviours.

**RawPublication.** Directories are abstracted to `none`, `partial`, `whole` and `torn` (a file
removed that nobody writes again). Every step that touches the disk or the database is an action,
may fail, may be followed by a crash, and the commit may succeed and report an error. With
`lingers`, a process that lost its lease runs on until a fence stops it. Power loss (directory
entries that were not synced) is not modelled: the model's crashes are process crashes.

**YahooExchange.** `at` is the place of the one thread that runs the library call: between two
repository calls it may lose the lease, another owner may recover its rows, and the clock may be set
back. A call that the fence stops, or that fails (`MaxFailures` times) or finds its time earlier than
the last heartbeat, raises and changes nothing; what the handlers around it then do is the model.
`poisoned`, `pending`, `usedFallback`, `strategy`, `failedStrategy` and `done` are the session's
fields (`done` is `_chart_sent`), `portPoisoned` and `uncertain` the port's. Charts are `timezone` and
`history`; `cookie` and `consent` stand for the pages of the two strategies. Which pages the library asks
for, and whether it raises in the end or returns a table, is not the repository's code and left
open. A failing call is one that rolls back; a commit reported as failed is in `RawPublication`
only. At this commit the port is built by tests and by nothing under `src/src/`.

**Producers.** A place is a step of the command and the item (key, year or document) it is about; `pc[r]` is
the place of an invocation, `FirstPlace` and `After` are the programs. A step is the whole call the command makes there, with the ledger, gates, raw rows and campaign directory
reduced to what decides the next step (their own modules have the rest, and show for instance that a
finalisation is fenced). `releasable` is `release_allowed`, with the places that set and clear it;
`Raise` is an exception anywhere between acquisition and `finally`, `KeyboardInterrupt` one that the
`except RuntimeError` of the exchange does not see. `Wire` is what may come back, `From...` what each
transport makes of it. Waiting followers stay `joined` and get the leader's result: this reduced ledger
implements the same `FlightPromise` as `RequestLedger`, with a request named by its command, its
invocation and the item it was admitted for, so that the reduction loses nothing of what those who ask
are promised. The operator's `RecoverExpiredLease` makes the row checks of the recovery (`AuditClean`,
`TakeoverDelivers`) and is all or nothing; `released` is the state of a gate row that was given back with a
recorded answer, which is what the audit asks for. Takeover and the operator's release are one step. The three
acquisitions of EDINET's campaigns share one directory per kind, whose slots are never deleted.

**NativeHistory.** `elapsed` is the time that really passes, `clock` what the host shows; the
properties are about the former. The state file is replaced by a rename, so that it is only ever
absent or whole; that is checked, not assumed. A save is four steps, the truncation of `pending`, its writing
(with flush and fsync), the rename of whatever it then holds, and the sync of the directory; each may fail or be the
last, and the pending file, which all workers share, keeps what an interrupted save left. Power loss of the host is
not modelled. The model's clock may be set back but never jumps forward; against a jump forward a
stored deadline is no protection, in the code as in any model.

**RuntimeStorage.** A migration script is one step, because it is one transaction; the first one is
not, and is three. `Accepts` says when a script fails on what it finds, which is how the code keeps a
slower process from migrating twice. `consumers` are the rows that version 8 copies.

**PricePreparation.** The three instants of a day are before 09:00 Tokyo (when the UTC day ends), before
the session's end, and after it, which is as fine as the code's comparisons are. `begun` is the time
sampled at the start of an acquisition, `retrieved` that of its end. At most one thing is odd in an
answer (`Flaws`). `Calendars` are those the operator has at hand, `Sessions` the truth; a calendar may be
short but is not wrong (`CalendarAssumption`): the code checks a calendar's digest and dates against
themselves, never against the exchange. Prices are not numbers: what is modelled is which days get one.

**FinancialPreparation.** `facts` says what the archives contain, chosen once; `withdrawn` is the provider's
present status, `lists` what was shown on acquisition. Bundles keep what they were made from. `Ancestors`
is the chain of parents of a correction. A fact `fit`s when entity, period, unit and scale are those asked
for. Which retained lists go into a bundle is the operator's choice.

## 3. Runs

| Run | Instance | Distinct states | Shows |
|---|---|---|---|
| `LeaseFencing` | 2 processes with one token, duration 2, clock 0..3, 3 generations, 1 setting back | 3.2 M | fencing, and exclusivity while the clock was not set back |
| `LedgerCompeting` | 3 requests (two alike), 2 tasks, 1 attempt each, 2 generations, queue 2/2/1, gate concurrency 1 | 0.86 M | consistency, nobody stranded, single sender, exact occupancy, final results, `FlightPromise` |
| `LedgerRetrying` | 2 requests alike, 2 attempts each, 3 generations | 0.15 M | gates cover sends, recovery never refused, unknown is not resent |
| `PublicationCrash` | two publications, 3 generations | 2.5 M | committed is whole, reconciliation gets through, settled stays |
| `GatesTimed` | 3 Yahoo attempts, 1 BOJ attempt, clock 0..3, 1 setting back | 0.91 M | spacing, window, cooldown |
| `YahooSession` | 2 charts and 2 auxiliary pages, 4 attempts, wait limit 2, 1 failing call, 1 setting back | 0.91 M | what is settled agrees with what was sent, exchanges end and leave nothing behind, nothing follows an anomaly |
| `Producers` | 2 invocations, 6 pairs of commands, 2 years | 0.50 M | evidence is backed, order and number of sends, budget, takeover never refused, `FlightPromise` |
| `NativeHistory` | 2 workers, intervals 1 and 3, time 0..7, 3 calls | 0.57 M | spacing in real time, readable state, record never back |
| `PricePreparation` | 5 days with one holiday, 3 calendars, period of 2 days, one acquisition of each kind, 2 days of clock | 1.6 M | no look-ahead, complete runs, requirements advance |
| `FinancialPreparation` | 4 filings on 2 days, 2 metrics, 4 sets of facts, 1 withdrawal, 2 lists per bundle | 0.43 M | sound counts, unanimous values, consistent merge |
| `StorageOpening` | 2 processes, files of version 0 to 8, 1 consumer, 2 crashes | 15,706 | opened is current, results kept, upgrade completes |
| `LedgerTransfer` | as `LedgerCompeting` | - | the divergence of section 6 |

Why these bounds. Fencing needs an owner, one that displaces it, and a third grant so that the
first comes back; with duration 2 and clock 3 a lease expires inside the run and a late sample is
possible. Two alike requests give leader and follower, promotion and delivery; the third competes
for gate and queue and makes the round robin choose; task limit 1 makes the queue full. A retry
needs two attempts; three generations give a takeover after a takeover. A publication needs a first
owner, one that reconciles and crashes, and one that reconciles what that left. Three attempts of one
policy can violate a window of two, and the BOJ attempt mixes policies at the global gate. The Yahoo
attempts differ in nothing and no property tells them apart, so they are a symmetry set. Registered
policies have concurrency 1; the timed run uses 2 so that two answers of a provider can be
recorded in the wrong order. Four attempts are enough for both charts, an auxiliary page that changes
the strategy, and the fallback; one more chart, or anything after an anomaly, would show as a violation.
A wait limit of 2 leaves room for a blocked attempt, a retry and the last one.

One invocation leaves behind, the next meets it: two are enough for each such pair, and the pairs are
those of one command with itself, with the revalidation or continuation made for it, and of two
commands that share gates and lease but not requests. Two years make a renewal between attempts. To join a
flight takes the same command twice: the first was interrupted or killed and left its flight behind, the second
joins it, and only a takeover can settle both, since nobody returns to finish the flight of another. Three
calls of the library show a call after a failure and one after a death; time 7 lets two long intervals
pass. The price instance starts before the close of one day and ends in the morning two days later, so
that each of the three ends of a day is crossed with an acquisition on either side of it, and both
rechecks fall inside; the calendars are one that suffices, one that ends early and one that begins late.
Each fact set differs in one respect from an agreeing one: a year missing (with a fact that does not
fit), a nil and a second value, a comparative that contradicts, an amendment that contradicts. Two
lists of one day are what a withdrawal can make disagree. Two crashes interrupt an upgrade and its repetition.
The theorems of section 5 need none of these bounds.

Every configuration says `CHECK_DEADLOCK FALSE`: all requests may be settled, all commands ended and all
generations, calls or instants of the instance used up, and then the system rests.

Fairness. `YahooSession` assumes weak fairness of `ExchangeStep`. An exchange is
straight-line code of one thread whose calls return or raise (the transport has timeouts), so that while it
is under way one of its steps is always enabled and, unless the process dies, is taken. Nothing is
assumed about the gates (they may be busy for ever), about the lease, or about the library, which need
not ask again. What `ExchangeEnds` needs besides is that the clock is set back only so many times.
`Producers` assumes no fairness: its commands may stop anywhere, and no code under `src/src/` calls the
recovery, so that after a crash nothing but an operator reopens the runtime. What the code does owe that
operator is a recovery that is not refused, which is a safety property (`TakeoverNeverRefused`).
`StorageOpening` assumes that a process that is starting goes on, and starts again when it failed.

## 4. What the properties are about

* `OneHolderPerGeneration`, `StaleHolderNeverWrites`: the generation, not the token, is the fence.
* `HolderNotDisplacedEarly`: a process that trusts any copy of its lease until the expiry is right
  to, if the clock is not set back. `rollbacks = 0` is needed: after a setting back a renewal may
  shorten the row below an older copy.
* `RowsAgree`: the request row, its result row and its consumer row tell one story (the flight, queue,
  attempt and gate rows are tied to them by the other properties and by the theorem `RowsAlwaysAgree`).
* `NoConsumerStranded`: admission, promotion, delivery and recovery keep a leader in the queue or
  claimed for each flight with consumers.
* `OneSenderPerFingerprint`, `GatesCoverSends`, `OccupancyExact`: single flight, gates held
  around what may be on the wire, and the counters never drift from the reservations.
* `ResultIsFinal`, `UnknownIsNotResent`, `KeepsPromise`: answers do not change and are the leader's, and
  an attempt whose fate is unknown ends the request.
* `RecoveryNeverRefused`: no legal history ends in a ledger that recovery rejects
  (`runtime_recovery_audit_gap`), which would block the runtime for good.
* `CommittedIsWhole`, `ReconcileNeverRefused`, `SettledIsFinal`: row and directory
  agree wherever publish or reconcile was cut off. The first two suppose that displaced owners have
  stopped (`~lingers`): directory operations are not fenced (section 6).
* `SpacingKept`, `WindowKept`, `CooldownKept`: at a gate shared by policies each later caller keeps its own
  limits towards all reservations before it, whoever made them, with old samples and a clock set back.
* `LostIsUnknown`, `SuccessIsBacked`: the adapter decides on an outcome without seeing what the port
  saw; port and repository together keep a send without answer from being told as failed or
  succeeded, and a success from resting on anything but a published history chart.
* `NothingLeftBehind`, `StopsAfterAnomaly`, `ExchangeEnds`: whatever an exchange ran into, no live attempt
  and no gate stays, or the port says it is uncertain; nothing follows a 429, a redirect or a missing answer;
  the wait loop ends.
* `EvidenceIsBacked`, `SendsInOrder`, `SlotsBoundSends`: what is published as evidence or told as success
  rests on committed raw files; an attempt leaves once, and only after its predecessor's file is
  committed; a campaign sends a document at most once over all its invocations, crashes included. A
  slot spent without a send is allowed, a send without a slot is not.
* `KeepsPromise` of the producers: two paths lead to a result, the producer's and the operator's
  recovery; the later one never replaces the earlier (`VerdictIsFinal`, which is stated by a theorem and
  implied by the promise), and one answer settles all who joined the flight, in whichever invocation.
* `TakeoverNeverRefused`: whatever a command left at the place where it failed, was interrupted or was killed,
  also after earlier takeovers, passes the checks of the recovery, which would otherwise refuse it for good.
* `CallsAreSpaced`, `StateIsWhole`, `RecordNeverBack`: the throttle's promise in real time, and the two
  facts about its file that make it last over crashes.
* `OpenedIsCurrent`, `ResultsKept`, `UpgradeCompletes`: two migrators neither spoil the schema nor the rows,
  and an interrupted upgrade of version 2 or later can always be completed. For a file of version 1, or
  one whose creation was interrupted, it cannot (section 6).
* `ConvertedIsFinal`: no conversion uses a close of a session, or a candle of a day, that was not over
  when it was retrieved. For the Bank's rates it rests on the provider's returning no rate before 17:00.
* `ReadyIsComplete`, `RequirementAdvances`: a run that calls itself ready has every session of the truth,
  and what is required never shrinks because evidence is missing.
* `CountedIsSound`, `AcceptedIsUnanimous`, `MergedIsConsistent`: see the hazards of a withdrawn filing, of
  several facts for one number, and of reports that contradict each other.

## 5. Theorems

All proofs are checked by TLAPS for every value of the constants that satisfies the module's
named assumption (types of the bounds; finite sets of requests, keys or attempts; positive limits).

* `Runtime_proofs`, the lease. `FencingInv` adds to the types that no lease object is newer than the row
  (`LeasesGranted`): a grant then takes a generation nobody holds. From it `TypeCorrect`,
  `GenerationIdentifiesHolder` and `FencedWrites`. `ExclusiveInv` relates samples, copies and the row
  while the clock has only moved forward: samples are not in the future, copies are not ahead of
  the row, superseded leases had run out or were released. It is inductive from states with
  `rollbacks = 0`, and since that count never falls, `rollbacks = 0 => ExclusiveInv` is an invariant,
  which gives `LiveLeaseIsExclusive`.
* `Runtime_proofs`, the storage (`StorageSpec`). `StorageInv`: the two version numbers of the file agree and
  its tables are those of the version, but for the column that version 1's first statement commits on its own;
  past the mode check the file exists and is private; and a process that is migrating saw at most the version
  the file has now (`SeenEarlier`). So a script that runs late adds a table that is there and fails, except the
  one for version 8, which drops and refills its own table: it leaves the version it found, and delivered rows
  keep their owners. Results: `OpenedFindsSchema`, `ResultsKeepOwners`.
* `RequestLedger_proofs`. `LedgerInv` = types, `RowsAgree`, `NoConsumerStranded`, and five facts they
  need: an active flight is led by a member of it, an absent request has blank rows, followers
  have no attempts, a live attempt belongs to a claimed request, an active gate row to a live attempt.
  One lemma per action; delivery, which finalisation, acquisition and recovery share, is one
  lemma of its own (`DeliveryInv`), applied to the tables inside the transaction. Results:
  `TypeCorrect`, `RowsAlwaysAgree` (`RowsAgree` with those five facts), `NobodyStranded`, `SingleFlight`, `GatesHeld`. From `LedgerInv` follow
  `ResultsFinal` (every delivery writes to active consumers only, and who has a result is none) and, with
  `UnknownEndsSending` (no attempt is live beside an unknown one), `NothingResent`. `CountsExact` follows the
  cardinality of the active reservations through each step. `RecoveryAlwaysAccepted` takes `AuditInv`: no
  attempt is of a later generation, and an attempt of a waiting request ends with its gates released; with the
  counts and `LedgerInv` each check of `recover_expired_lease` passes. `LedgerKeepsPromise` is the refinement of
  `FlightPromise` under the mapping of `RequestLedger` (who waits: active consumers; proof: requests with a
  successful attempt): each step is a join, a rejection, a withdrawal, an answer, one settlement of whole
  flights, or a stutter.
* `GateLimiter_proofs`. The key fact is that starts recorded at a gate never go back in time, whatever
  the callers' samples: even an interval of 0 is measured from the last start. Hence a new start is
  the latest, only earlier ones can be in its window, and the count the code takes is the count that
  matters, whichever policies the starts had. Results: `TypeCorrect`, `ReservationsSpaced`, `WindowBounded`, `CooldownWaitedOut`.
* `RawPublication_proofs`. `PublicationInv`: who is past the rename or about to repair has a bundle, and so has a
  committed row; nothing removes a bundle (`SettledStays`). `DirectoryInv`, if displaced owners stop: owners to
  come have not begun, what was validated is still whole, and a publication is staged or renamed, never both.
  From it `CommittedWhole` and `ReconcileAccepted`. Where the argument uses the proviso (`FreshStep`, that only the
  present owner runs) is where a displaced owner's clean-up would break it.
* `YahooExchange_proofs`. `ExchangeInv` says what the place of the thread knows of its present attempt, although
  another owner may write `unknown` to it at any moment (`PlaceInv`); that a sure owner holds nothing but that
  attempt (`HeldInv`); that answers are those of attempts that left (`AnswerInv`); that who waits is not
  poisoned, and, until then, the only answer that ends the session is the present one (`SessionInv`,
  `CleanInv`); that a finished history chart, and a success, is backed (`BackedInv`); and that a result with
  anything open is `unknown` (`ResultInv`). The present attempt is the last that is not `none`; that there is one
  (`OneCurrent`) and that a write to it leaves it the present one (`SameCurrent`) is used in nearly every
  step. Results: `TypeCorrect`, `LostAlwaysUnknown`, `SuccessesBacked`, `NothingHeldAfterwards`,
  `AnomalyEndsSession`.
* `Producers_proofs`. `AfterIsOnward` says of every program what a step may lead to: a later step of the same item,
  or an early step of the next one when this one's raw file is published. So how far an invocation is with each item
  (`PastAdmit`, `PastSend`, `PastVerdict`, `PastRaw`) only grows (`StepAdvances`), also over the calls of a campaign and
  its continuation, and `ProducersInv` says what is behind it: raw files committed (`RawInv`), evidence on no
  more than that (`AcceptedInv`), requests there only when admitted and queued only when they lead
  (`RequestInv`), success with everything behind (`SucceededInv`), nothing sent ahead of its step
  (`SendsInv`), slots spent for what was sent, answered or judged (`SlotsInv`), one sender for each slot
  (`OneSender`). The slot file is looked for and made in one step, which is what makes `OneSender` inductive
  among invocations that know nothing of each other. Results: `ProducersHold`, `EvidenceAlwaysBacked`,
  `SendsOrdered`, `SlotsBound`, and the action property `VerdictsFinal`, whose points are that a claim takes a
  queued request (`OldestIsOne`, by the well-foundedness of `<`) and that a takeover settles claimed and joined
  ones only. `ProducersKeepPromise` is the refinement of `FlightPromise`. `PromiseInv` adds that an attempt
  succeeds only past its send and that what is behind a verdict succeeded (`AttemptInv`), that the owner at work on a
  request still has it (`OwnerInv`: nobody else's step and no takeover leaves an owner with a request that another
  has settled), and that of those who ask for one thing one leads and the others joined it (`FlightInv`). A takeover
  is the step that needs most: the `CHOOSE` of a leader is determined because there is one, so that all who wait
  for a thing get one verdict. `TakeoversAccepted` takes `RowsInv` besides: an attempt belongs to a claimed or
  settled request; a live one to a claimed request whose invocation is still in that exchange (`Trying`), so that
  there are never two; an answered one of a claimed request is `released`. For this `OwnerInv` has to say
  that the owner's request is claimed, and results are given only outside an exchange (`RequestChanges`).
* `NativeHistory_proofs`. `ThrottleInv` says that at most one worker is past the lock, that the interval
  owed to the last call is covered by the deadline on disk, by the running flag, or by a save the holder
  has still to make (`DeadlineCovers`), and that the clock is not ahead of the real time, so that a
  deadline by the clock is not early. That last fact is the assumption that the clock may be set back
  but never jumps forward. `SavesInOrder` follows a save through its steps: what is renamed is the record that
  was written and synced, since the lock keeps the others from the shared pending file, and a save that failed
  or died leaves a file that the next save truncates first. `StateReadable` rests on it. Results: `CallsSpaced`,
  `StateReadable`, `RecordMonotone`.
* `Preparation_proofs`, prices. `AtHandInv` says of each bundle, receipt and run at hand what its making
  established: rows are sessions that were over when they were retrieved, rates were received after the day
  they are for, receipts name no later check than the clock's. That the latest of the completed sessions
  exists is proved by the well-foundedness of `<` on the gaps to the cutoff. `CalendarAssumption` is used in
  `RequirementsSound`: a calendar that resolves a period shows each session in it. Results:
  `ConversionIsFinal`, `ReadyRunsComplete`, `RequirementsAdvance`.
* `Preparation_proofs`, financial data (`FinancialSpec`). `FinancialInv`: a list shows filings of its own
  day only (`ListsOfTheirDay`); a bundle has lists that were shown and counts what was counted from them
  (`BundlesSound`), whatever the provider withdraws later; and an adoption, comparison, pair, run or merge has
  exactly the values its making computes from the archives, which do not change (`ReviewUnchanged`). Results: `CountedPeriodsSound`, `AcceptedNumbersUnanimous`, `MergesConsistent`.

Every safety invariant, action property and refinement of the passing runs is stated by one of these theorems. Only
model-checked are the liveness properties `ExchangeEnds` and `UpgradeCompletes`: they rest on
fairness, hence on ENABLED, which is out of the prover's reach. So is induction over data: the chain of corrections
(`Ancestors`, the only recursive definition) enters the proofs as a set of documents, and that it is the chain is
what TLC's run of `FinancialPreparation` shows.

## 6. Where code and text disagree

`LedgerTransfer` is a run that TLC refutes: an unsent attempt that recovery hands to the next owner can
never pass the gates again if it had reserved them before, because its gate row, set to `recovered`, stays
(`PROJECT.json` quotes the lines).

Met while modelling, each reproduced by a behaviour of the model or read from the code:

* A renewal from an older copy of the lease does not notice that the clock was set back behind the
  row's heartbeat (`storage.py:1562`; ADR 0005:70 wants sending to stop).
* Promotion and recovery put rows in the queue without counting (`storage.py:388`, `1447`; ADR 0005:123).
* A *released* lease with a started attempt is acquired without recovery, and the attempt stays
  started (`storage.py:1585`; ADR 0005:81 wants it unknown). An interrupt during an exchange
  (`fx_evidence.py:376`) is one way to get there.
* A displaced owner's reconciliation deletes files of a bundle that another owner committed
  (`raw_artifacts.py:151`).
* The shared gate keys have as many limits as there are callers' policies (`storage.py:637`).
* The migration from version 1 is not in one transaction: a crash after `ALTER TABLE` leaves a column with
  version 1, and each later start fails on it (`storage.py:2271`; ADR 0005:51 calls migrations
  transactional). A crash, or a second process, between the making of the file and its mode leaves or
  meets a file that is refused (`storage.py:2049`).
* A price of the day can not be supplied by `prepare_market_evidence` (255), so that no run is ready between
  15:30 and midnight Tokyo on a session day, as its decision request expects.
* A conflict the operator reported at acceptance is forgotten when a run takes the raw preparation
  (`price_fx_run.py:154`). The acceptance accepts on the day of the recheck (`price_acceptance.py:159`), a
  run does not (`price_fx_run.py:146`). The status "accepted" never occurs.
* An original report is not excluded when the list shows an amendment of it, except in the
  campaigns' selection, where a withdrawn amendment excludes it too. The adoption of the additional report
  names its provenance and is refused in a run of its own.
* A redirect is a lost answer for EDINET and a rejected one for the Bank of Japan and Dukascopy; EDINET's client
  ignores a Retry-After given as a date, and a Yahoo 429 whose Retry-After cannot be read gets no cooldown.
* Evidence is published before its request is finalised, so that recovery can call a request failed whose
  evidence stands (`dukascopy_fx.py:377`).
* `validate_agent_execution_history` adds a run's own id before it looks for the parent
  (`contracts/detailed_analysis/v1/agent_execution.py:226`, `245`), so that a resume may name itself.
* ADR 0005 draws a transition from reconciliation required to failed on mismatch, where `reconcile` raises
  instead; `storage.py:1153` speaks of failing "without retaining raw bytes", which a crash before the
  staging directory is removed does not keep; the Retry-After of an answer that arrives after
  its request was cancelled or recovered is lost.

## 7. Plan

Done: the runtime (`RuntimeStorage`, `RuntimeLease`, `RequestLedger` with `FlightPromise`, `GateLimiter`,
`RawPublication`), its users (`YahooExchange`, `NativeHistory`, `Producers`), and the preparation
(`PricePreparation`, `FinancialPreparation`); the safety theorems of all of them. Left, in this order:

1. Proofs that join the modules: that what one takes of another, such as the occupied gates in `GateLimiter` or
   the fence in `Producers`, is what the other one's theorems say. (That `Producers` and `RequestLedger` keep the
   same promise is proved.)
2. The round robin: a task is passed over at most once per other task (`claim_next_queued`).
3. The copies of the lease that Yahoo's port and adapter hold.
4. The dependency of a financial run on the price preparation (`resolve_price_fx`).

## 8. Not modelled

`add_logical_request`, `add_physical_attempt`, `enqueue_logical_request` and
`complete_logical_request` are called by tests only. `requests/coordinator.py` is used offline by one thread.
The contract validators check one finished document each, and nothing under `src/src/` runs the agents they
describe. JSON and hashing of artifacts, HTTP, parsing, rendering, configuration, `interim_ir.py` (figures
read from a fixed PDF) and logging are I/O or data without order. The Node bridge to Dukascopy converts
data. Power loss (directory entries that were not synced) is left out everywhere: crashes are process crashes.
