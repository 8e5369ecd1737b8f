------------------------------ MODULE Producers ------------------------------
(* The command-line producers of official evidence: acquire_fx_evidence (kind *)
(* "boj") and its offline revalidation ("offline"), acquire_dukascopy_fx      *)
(* ("dukascopy", one attempt per year), acquire_edinet_acceptance for a list  *)
(* and its document ("acceptance") or for an amendment pair ("pair"), and     *)
(* acquire_prior_annual_campaign ("annual", list and document of two years)   *)
(* with its one continuation ("continuation").                                *)
(*                                                                           *)
(* Each invocation is a process that runs its program step by step against   *)
(* one shared runtime: the lease, the request rows, the gates, the raw files  *)
(* and the campaign directories survive it, everything else dies with it.    *)
(* A step may fail, be interrupted from the keyboard, or be the last before   *)
(* the process is killed; an expired lease is taken over by an operator.      *)
EXTENDS Integers, Sequences, FiniteSets

CONSTANTS Runs,        \* invocations, each of one command
          Workloads,   \* the possible assignments of commands to invocations
          Years        \* number of annual files of a Dukascopy period

ASSUME ProducersAssumption ==
    /\ Runs # {} /\ IsFiniteSet(Runs)
    /\ Years \in 1 .. 4

Kinds == {"boj", "offline", "dukascopy", "acceptance", "pair", "annual", "continuation"}
ASSUME WorkloadsAssumption == Workloads \subseteq [Runs -> Kinds]

Items == 1 .. 4
NoRun == 0
ASSUME NoRunAssumption == NoRun \notin Runs

-------------------------------------------------------------------------------
(* The programs. A place is a step with the item it is about; After is the    *)
(* place that follows it.                                                     *)
Place(step, item) == [step |-> step, item |-> item]

\* One item on its way from the ledger through the exchange, the same for every command.
Exchange ==
    [admit |-> "claim", claim |-> "gates", gates |-> "start", start |-> "send", send |-> "record",
     record |-> "verdict", verdict |-> "raw"]

BojProgram == [lease |-> "admit", raw |-> "evidence", evidence |-> "settle", settle |-> "finally"]

OfflineProgram == [inspect |-> "lease", lease |-> "raw", raw |-> "evidence", evidence |-> "finally"]

\* One request for all the years.
DukascopyYear(i) == IF i < Years THEN Place("renew", i + 1) ELSE Place("metadata", i)
DukascopyProgram ==
    [lease |-> "admit", renew |-> "gates", metadata |-> "evidence", evidence |-> "settle",
     settle |-> "finally"]
AfterDukascopy(s, i) == IF s = "raw" THEN DukascopyYear(i) ELSE Place(DukascopyProgram[s], i)

\* A key of EDINET is a request of its own; a call has two keys, the first call of
\* a continuation only the second of them.
EdinetKey == [mark |-> "lease", continue |-> "lease", lease |-> "admit", renew |-> "admit",
              raw |-> "settle", evidence |-> "finally"]
LastOfCall(i) == i \in {2, 4}
EdinetCall(i) == IF LastOfCall(i) THEN Place("evidence", i) ELSE Place("renew", i + 1)
AfterEdinet(s, i) ==
    IF s = "settle" THEN EdinetCall(i)
    ELSE IF s = "finally" THEN Place("lease", i + 1) ELSE Place(EdinetKey[s], i)

\* The annual campaign and its continuation make another call.
CallsAgain(k, i) == k \in {"annual", "continuation"} /\ i = 2

FirstPlace(k) ==
    IF k = "offline" THEN Place("inspect", 1)
    ELSE IF k \in {"pair", "annual"} THEN Place("mark", 1)
    ELSE IF k = "continuation" THEN Place("continue", 2)
    ELSE Place("lease", 1)

After(k, p) ==
    IF p.step \in DOMAIN Exchange THEN Place(Exchange[p.step], p.item)
    ELSE IF k = "boj" THEN Place(BojProgram[p.step], p.item)
    ELSE IF k = "offline" THEN Place(OfflineProgram[p.step], p.item)
    ELSE IF k = "dukascopy" THEN AfterDukascopy(p.step, p.item)
    ELSE AfterEdinet(p.step, p.item)

InCampaign(k) == k \in {"pair", "annual", "continuation"}
IsEdinet(k) == k = "acceptance" \/ InCampaign(k)
ItemsOf(k) ==
    IF k = "dukascopy" THEN 1 .. Years
    ELSE IF k \in {"acceptance", "pair"} THEN 1 .. 2
    ELSE IF k = "annual" THEN 1 .. 4
    ELSE IF k = "continuation" THEN 2 .. 4
    ELSE {1}

-------------------------------------------------------------------------------
VARIABLES
    kind,        \* the command of each invocation
    pc,          \* its place in the program: the next step, the item it is about
    mode,        \* "idle", "running", "raising" (in finally), "returned", "raised", "dead"
    releasable,  \* release_allowed
    target,      \* the invocation an offline revalidation is about
    answer,      \* the answer received by the present exchange
    holder,      \* owner of the active lease row, NoRun when it is free
    expired,     \* the active lease has run out
    request,     \* state and result of each logical request
    admitted,    \* the requests that were queued, in order of admission
    attempt,     \* state of each physical attempt
    gates,       \* attempts that hold the shared gates
    released,    \* attempts whose gates were given back with a recorded answer
    sends,       \* how often each attempt was really sent
    raw,         \* state of each raw publication
    diagnostic,  \* a diagnostic bundle was published
    accepted,    \* items the published evidence rests on (the last one's number)
    marker,      \* campaign directory: "none", "torn", "open", "continued"
    slots        \* slot files of a campaign

procVars == <<pc, mode, releasable, target, answer>>
leaseVars == <<holder, expired>>
requestVars == <<request, admitted>>
fileVars == <<raw, diagnostic, accepted>>
gateVars == <<gates, released>>
campaignVars == <<marker, slots>>
vars == <<kind, procVars, leaseVars, requestVars, attempt, gateVars, sends, fileVars, campaignVars>>

Attempts == Runs \X Items
\* EDINET has a logical request per key, the others one for all their attempts.
RequestOf(r, i) == IF IsEdinet(kind[r]) THEN <<r, i>> ELSE <<r, 1>>
DomainOf(q) == IF IsEdinet(kind[q[1]]) THEN "edinet" ELSE kind[q[1]]
\* The same command for the same period has the same fingerprint.
SameFingerprint(q, p) == kind[q[1]] = kind[p[1]] /\ q[2] = p[2]
Active == {"queued", "claimed"}
Unsettled == Active \cup {"joined"}
Settled == {"succeeded", "failed", "unknown"}
CampaignOf(r) == IF kind[r] = "pair" THEN "pair" ELSE "annual"

At(r, name) == mode[r] = "running" /\ pc[r].step = name
Item(r) == pc[r].item
Mine(r) == RequestOf(r, Item(r))
Tried(r) == <<r, Item(r)>>
\* The attempt a raw publication is of: an offline revalidation publishes another's.
Published(r) == IF kind[r] = "offline" THEN <<target[r], 1>> ELSE Tried(r)

\* _assert_fence: the row is this owner's and has not run out.
Owns(r) == holder = r /\ ~expired

Step(r) == pc' = [pc EXCEPT ![r] = After(kind[r], @)] /\ UNCHANGED mode
RaiseWith(r, allowed) ==
    /\ mode' = [mode EXCEPT ![r] = "raising"]
    /\ releasable' = [releasable EXCEPT ![r] = allowed]
    /\ UNCHANGED pc

-------------------------------------------------------------------------------
Init ==
    /\ kind \in Workloads
    /\ pc = [r \in Runs |-> FirstPlace(kind[r])]
    /\ mode = [r \in Runs |-> "idle"]
    /\ releasable = [r \in Runs |-> FALSE]
    /\ target = [r \in Runs |-> r]
    /\ answer = [r \in Runs |-> "none"]
    /\ holder = NoRun /\ expired = FALSE
    /\ request = [q \in Attempts |-> "absent"] /\ admitted = << >>
    /\ attempt = [a \in Attempts |-> "none"]
    /\ gates = {} /\ released = {} /\ sends = [a \in Attempts |-> 0]
    /\ raw = [a \in Attempts |-> "none"]
    /\ diagnostic = [r \in Runs |-> FALSE]
    /\ accepted = [r \in Runs |-> 0]
    /\ marker = [c \in {"annual", "pair"} |-> "none"]
    /\ slots = [c \in {"annual", "pair"} |-> {}]

Invoke(r) ==
    /\ mode[r] = "idle"
    /\ mode' = [mode EXCEPT ![r] = "running"]
    /\ UNCHANGED <<kind, pc, releasable, target, answer, leaseVars, requestVars, attempt, gateVars,
                   sends, fileVars, campaignVars>>

(* Campaigns. The directory is made, then started.json; both exclusively.     *)
MarkCampaign(r) ==
    LET c == CampaignOf(r)
    IN  /\ At(r, "mark")
        /\ marker[c] = "none"
        /\ \/ marker' = [marker EXCEPT ![c] = "open"] /\ Step(r)
           \/ marker' = [marker EXCEPT ![c] = "torn"]
              /\ mode' = [mode EXCEPT ![r] = "dead"] /\ UNCHANGED pc
        /\ UNCHANGED <<kind, releasable, target, answer, leaseVars, requestVars, attempt, gateVars,
                       sends, fileVars, slots>>

\* continue_prior accepts only the directory an answered but unreadable first
\* list has left: the marker, slot 0 and nothing else.
ContinuePrior(r) ==
    /\ At(r, "continue")
    /\ marker["annual"] = "open" /\ slots["annual"] = {1}
    /\ \E p \in Runs : kind[p] = "annual" /\ diagnostic[p]
    /\ marker' = [marker EXCEPT !["annual"] = "continued"]
    /\ Step(r)
    /\ UNCHANGED <<kind, releasable, target, answer, leaseVars, requestVars, attempt, gateVars,
                   sends, fileVars, slots>>

\* revalidate_fx_diagnostic: a failed result over a succeeded attempt, by its bytes.
Inspect(r) ==
    /\ At(r, "inspect")
    /\ \E p \in Runs :
          /\ kind[p] = "boj" /\ diagnostic[p]
          /\ request[<<p, 1>>] = "failed" /\ attempt[<<p, 1>>] = "succeeded"
          /\ target' = [target EXCEPT ![r] = p]
    /\ Step(r)
    /\ UNCHANGED <<kind, releasable, answer, leaseVars, requestVars, attempt, gateVars, sends,
                   fileVars, campaignVars>>

AcquireLease(r) ==
    /\ At(r, "lease")
    /\ holder = NoRun
    /\ holder' = r /\ expired' = FALSE
    /\ releasable' = [releasable EXCEPT ![r] = kind[r] # "offline"]
    /\ Step(r)
    /\ UNCHANGED <<kind, target, answer, requestVars, attempt, gateVars, sends, fileVars, campaignVars>>

\* What is refused before the try block ends the call at once, lease or none.
Refuse(r) ==
    /\ \E name \in {"mark", "continue", "inspect", "lease"} : At(r, name)
    /\ mode' = [mode EXCEPT ![r] = "raised"]
    /\ UNCHANGED <<kind, pc, releasable, target, answer, leaseVars, requestVars, attempt, gateVars,
                   sends, fileVars, campaignVars>>

-------------------------------------------------------------------------------
(* The request's way through the ledger.                                      *)

\* Faulty: queued without a look at those who ask for the same.
AdmitApart(r) ==
    /\ At(r, "admit") /\ Owns(r)
    /\ request' = [request EXCEPT ![Mine(r)] = "queued"]
    /\ admitted' = Append(admitted, Mine(r))
    /\ Step(r)
    /\ UNCHANGED <<kind, releasable, target, answer, leaseVars, attempt, gateVars, sends, fileVars,
                   campaignVars>>

AdmitLogicalRequest(r) ==
    /\ At(r, "admit") /\ Owns(r)
    /\ IF \E q \in Attempts : request[q] \in Active /\ SameFingerprint(q, Mine(r))
       THEN /\ request' = [request EXCEPT ![Mine(r)] = "joined"]
            /\ UNCHANGED admitted
       ELSE /\ request' = [request EXCEPT ![Mine(r)] = "queued"]
            /\ admitted' = Append(admitted, Mine(r))
    /\ Step(r)
    /\ UNCHANGED <<kind, releasable, target, answer, leaseVars, attempt, gateVars, sends, fileVars,
                   campaignVars>>

\* The oldest queued request of the source, whoever admitted it.
Waiting(d) == {n \in 1 .. Len(admitted) : request[admitted[n]] = "queued" /\ DomainOf(admitted[n]) = d}
Oldest(W) == CHOOSE n \in W : \A m \in W : n <= m
ClaimNextQueued(r) ==
    LET W == Waiting(DomainOf(Mine(r)))
        q == admitted[Oldest(W)]
    IN  /\ At(r, "claim") /\ Owns(r)
        /\ request' = IF W = {} THEN request ELSE [request EXCEPT ![q] = "claimed"]
        /\ IF W # {} /\ q = Mine(r)
           THEN Step(r) /\ UNCHANGED releasable
           ELSE RaiseWith(r, ~IsEdinet(kind[r]))
        /\ UNCHANGED <<kind, target, answer, leaseVars, admitted, attempt, gateVars, sends, fileVars,
                       campaignVars>>

\* The leader's result is also that of every request that joined its flight.
WithResult(req, q, outcome) ==
    [p \in Attempts |->
        IF p = q \/ (req[p] = "joined" /\ SameFingerprint(p, q)) THEN outcome ELSE req[p]]

\* Faulty: without the fence and the check that the request is unfinished.
FinalizeAnyway(r, outcome) == request' = WithResult(request, Mine(r), outcome)

Finalize(r, outcome) ==
    /\ Owns(r)
    /\ request[Mine(r)] \in Active
    /\ request' = WithResult(request, Mine(r), outcome)

AcquireGates(r) ==
    /\ At(r, "gates") /\ Owns(r)
    /\ gates = {}
    /\ gates' = {Tried(r)} /\ UNCHANGED released
    /\ attempt' = [attempt EXCEPT ![Tried(r)] = "reserved"]
    /\ releasable' = [releasable EXCEPT ![r] = ~IsEdinet(kind[r])]
    /\ Step(r)
    /\ UNCHANGED <<kind, target, answer, leaseVars, requestVars, sends, fileVars, campaignVars>>

\* Another attempt holds a gate, or an interval, window or cooldown has not passed.
GatesBlocked(r) ==
    /\ At(r, "gates")
    /\ Finalize(r, "failed")
    /\ RaiseWith(r, TRUE)
    /\ UNCHANGED <<kind, target, answer, leaseVars, admitted, attempt, gateVars, sends, fileVars,
                   campaignVars>>

MarkStarted(r) ==
    /\ At(r, "start") /\ Owns(r)
    /\ attempt' = [attempt EXCEPT ![Tried(r)] = "started"]
    /\ Step(r)
    /\ UNCHANGED <<kind, releasable, target, answer, leaseVars, requestVars, gateVars, sends,
                   fileVars, campaignVars>>

\* Faulty: the slot is left to be recorded after the answer.
SpendLater(r) == slots

\* What comes back on the wire: a 2xx, another status, 429, 3xx, a body of another
\* media type, encoding or host, or a connection that breaks.
Wire == {"ok", "refused", "limited", "redirect", "foreign", "broken"}

\* The anonymous transports know a redirect for a received response ...
FromBoj(w) == IF w = "ok" THEN "body" ELSE IF w = "broken" THEN "lost" ELSE "rejected"
FromDukascopy(w) == IF w = "ok" THEN "body" ELSE IF w = "broken" THEN "lost" ELSE "rejected"
\* ... EDINET's client raises the same error for it as for a broken connection.
FromEdinet(w) ==
    IF w = "ok" THEN "body" ELSE IF w \in {"broken", "redirect"} THEN "lost" ELSE "rejected"
Received(k, w) ==
    IF IsEdinet(k) THEN FromEdinet(w) ELSE IF k = "dukascopy" THEN FromDukascopy(w) ELSE FromBoj(w)

\* An exception before anything was sent; EDINET's also when the key cannot be read.
Unsent(k) == IF IsEdinet(k) THEN "lost" ELSE "rejected"

\* The callback: in a campaign before_send creates the slot's file exclusively,
\* then the request leaves. The lease is not looked at again, so that a displaced
\* owner sends as well.
SlotIsFree(r) == InCampaign(kind[r]) => Item(r) \notin slots[CampaignOf(r)]
Spend(r) ==
    IF InCampaign(kind[r]) THEN [slots EXCEPT ![CampaignOf(r)] = @ \cup {Item(r)}] ELSE slots
Send(r) ==
    /\ At(r, "send")
    /\ SlotIsFree(r)
    /\ slots' = Spend(r)
    /\ sends' = [sends EXCEPT ![Tried(r)] = @ + 1]
    /\ \E w \in Wire : answer' = [answer EXCEPT ![r] = Received(kind[r], w)]
    /\ Step(r)
    /\ UNCHANGED <<kind, releasable, target, leaseVars, requestVars, attempt, gateVars, fileVars,
                   marker>>

\* Nothing is sent: the approval changed since the start, the slot is spent or
\* its file fails. BOJ and Dukascopy report a refused response, EDINET's callback
\* error counts as an outcome nobody knows.
CallbackFails(r) ==
    /\ At(r, "send")
    /\ answer' = [answer EXCEPT ![r] = Unsent(kind[r])]
    /\ slots' \in {slots, Spend(r)}
    /\ Step(r)
    /\ UNCHANGED <<kind, releasable, target, leaseVars, requestVars, attempt, gateVars, sends,
                   fileVars, marker>>

Recorded(a) == IF a = "body" THEN "succeeded" ELSE IF a = "rejected" THEN "failed" ELSE "unknown"

\* Faulty: the gates are given back only when the answer is known.
RecordKeepingGates(r) ==
    /\ At(r, "record") /\ Owns(r)
    /\ attempt' = [attempt EXCEPT ![Tried(r)] = Recorded(answer[r])]
    /\ IF answer[r] = "lost" THEN UNCHANGED gateVars
       ELSE gates' = gates \ {Tried(r)} /\ released' = released \cup {Tried(r)}
    /\ Step(r)
    /\ UNCHANGED <<kind, releasable, target, answer, leaseVars, requestVars, sends, fileVars,
                   campaignVars>>

RecordAnswer(r) ==
    /\ At(r, "record") /\ Owns(r)
    /\ attempt' = [attempt EXCEPT ![Tried(r)] = Recorded(answer[r])]
    /\ gates' = gates \ {Tried(r)} /\ released' = released \cup {Tried(r)}
    /\ Step(r)
    /\ UNCHANGED <<kind, releasable, target, answer, leaseVars, requestVars, sends, fileVars,
                   campaignVars>>

\* Faulty: a failed exchange is tried again.
RetryExchange(r) ==
    /\ At(r, "verdict") /\ attempt[Tried(r)] # "succeeded"
    /\ pc' = [pc EXCEPT ![r] = Place("gates", Item(r))]
    /\ UNCHANGED <<kind, mode, releasable, target, answer, leaseVars, requestVars, attempt, gateVars,
                   sends, fileVars, campaignVars>>

\* A failed or unknown exchange is the request's result, and the end of the call.
FailExchange(r) ==
    /\ At(r, "verdict") /\ attempt[Tried(r)] # "succeeded"
    /\ Finalize(r, attempt[Tried(r)])
    /\ RaiseWith(r, TRUE)
    /\ UNCHANGED <<kind, target, answer, leaseVars, admitted, attempt, gateVars, sends, fileVars,
                   campaignVars>>

\* The source's own parser refuses the body: a diagnostic bundle, if it can be
\* written, after the request was finalized.
RejectBody(r) ==
    /\ At(r, "verdict") /\ attempt[Tried(r)] = "succeeded"
    /\ Finalize(r, "failed")
    /\ \E written \in BOOLEAN :
          /\ diagnostic' = [diagnostic EXCEPT ![r] = written]
          /\ RaiseWith(r, IsEdinet(kind[r]) => written)
    /\ UNCHANGED <<kind, target, answer, leaseVars, admitted, attempt, gateVars, sends, raw, accepted,
                   campaignVars>>

AcceptBody(r) ==
    /\ At(r, "verdict") /\ attempt[Tried(r)] = "succeeded"
    /\ releasable' = [releasable EXCEPT ![r] = FALSE]
    /\ Step(r)
    /\ UNCHANGED <<kind, target, answer, leaseVars, requestVars, attempt, gateVars, sends, fileVars,
                   campaignVars>>

-------------------------------------------------------------------------------
(* Raw publication, evidence and result.                                      *)

\* Faulty: an uncertain publication is left to a later reconciliation.
PublishRawLater(r) ==
    /\ At(r, "raw") /\ Owns(r)
    /\ raw[Published(r)] = "none"
    /\ \E s \in {"committed", "uncertain"} : raw' = [raw EXCEPT ![Published(r)] = s]
    /\ Step(r)
    /\ UNCHANGED <<kind, releasable, target, answer, leaseVars, requestVars, attempt, gateVars, sends,
                   diagnostic, accepted, campaignVars>>

PublishRaw(r) ==
    /\ At(r, "raw") /\ Owns(r)
    /\ raw[Published(r)] = "none"
    /\ \/ /\ raw' = [raw EXCEPT ![Published(r)] = "committed"]
          /\ releasable' = [releasable EXCEPT ![r] = kind[r] = "dukascopy"]
          /\ Step(r)
       \/ /\ \E s \in {"failed", "uncertain"} : raw' = [raw EXCEPT ![Published(r)] = s]
          /\ RaiseWith(r, FALSE)
    /\ UNCHANGED <<kind, target, answer, leaseVars, requestVars, attempt, gateVars, sends, diagnostic,
                   accepted, campaignVars>>

HeartbeatLease(r) ==
    /\ At(r, "renew") /\ Owns(r)
    /\ Step(r)
    /\ UNCHANGED <<kind, releasable, target, answer, leaseVars, requestVars, attempt, gateVars, sends,
                   fileVars, campaignVars>>

CollectMetadata(r) ==
    /\ At(r, "metadata")
    /\ releasable' = [releasable EXCEPT ![r] = FALSE]
    /\ Step(r)
    /\ UNCHANGED <<kind, target, answer, leaseVars, requestVars, attempt, gateVars, sends, fileVars,
                   campaignVars>>

\* publish_preparation is a rename of validated files: no fence, no ledger.
PublishEvidence(r) ==
    /\ At(r, "evidence")
    /\ accepted' = [accepted EXCEPT ![r] = Item(r)]
    /\ releasable' = [releasable EXCEPT ![r] = @ \/ kind[r] = "offline"]
    /\ Step(r)
    /\ UNCHANGED <<kind, target, answer, leaseVars, requestVars, attempt, gateVars, sends, raw,
                   diagnostic, campaignVars>>

SettleRequest(r) ==
    /\ At(r, "settle")
    /\ Finalize(r, "succeeded")
    /\ releasable' = [releasable EXCEPT ![r] = TRUE]
    /\ Step(r)
    /\ UNCHANGED <<kind, target, answer, leaseVars, admitted, attempt, gateVars, sends, fileVars,
                   campaignVars>>

\* release_lease, when allowed and the object has not run out; refused for another's row.
InFinally(r) == At(r, "finally") \/ mode[r] = "raising"
Finally(r) ==
    /\ InFinally(r)
    /\ IF releasable[r] /\ Owns(r) THEN holder' = NoRun ELSE UNCHANGED holder
    /\ IF At(r, "finally") /\ CallsAgain(kind[r], Item(r)) THEN Step(r)
       ELSE /\ mode' = [mode EXCEPT ![r] = IF @ = "raising" THEN "raised" ELSE "returned"]
            /\ UNCHANGED pc
    /\ UNCHANGED <<kind, releasable, target, answer, expired, requestVars, attempt, gateVars, sends,
                   fileVars, campaignVars>>

-------------------------------------------------------------------------------
(* What goes wrong.                                                           *)

\* Any step between the acquisition and finally may raise: a refused or failing
\* transaction, a file, a validation. Inside the exchange a RuntimeError forbids
\* the release; KeyboardInterrupt is none and leaves the flag as it is.
InExchange(r) == \E name \in {"gates", "start", "send", "record"} : At(r, name)
Raise(r) ==
    /\ mode[r] = "running"
    /\ ~\E name \in {"mark", "continue", "inspect", "lease", "finally"} : At(r, name)
    /\ \E allowed \in {releasable[r]} \cup (IF InExchange(r) THEN {FALSE} ELSE {}) : RaiseWith(r, allowed)
    /\ UNCHANGED <<kind, target, answer, leaseVars, requestVars, attempt, gateVars, sends, fileVars,
                   campaignVars>>

\* The process is killed: nothing is released; a slot's file or a publication's
\* row may just have been written.
Crash(r) ==
    /\ mode[r] \in {"running", "raising"}
    /\ mode' = [mode EXCEPT ![r] = "dead"]
    /\ slots' \in {slots} \cup (IF At(r, "send") THEN {Spend(r)} ELSE {})
    /\ raw' \in {raw} \cup
           (IF At(r, "raw") /\ Owns(r) /\ raw[Published(r)] = "none"
            THEN {[raw EXCEPT ![Published(r)] = "uncertain"]} ELSE {})
    /\ UNCHANGED <<kind, pc, releasable, target, answer, leaseVars, requestVars, attempt, gateVars,
                   sends, diagnostic, accepted, marker>>

Expire ==
    /\ holder # NoRun /\ ~expired
    /\ expired' = TRUE
    /\ UNCHANGED <<kind, procVars, holder, requestVars, attempt, gateVars, sends, fileVars, campaignVars>>

(* recover_expired_lease by an operator, who then releases its own lease.     *)
AttemptsOf(q) == {a \in Attempts : attempt[a] # "none" /\ RequestOf(a[1], a[2]) = q}
StatesOf(q) == {attempt[a] : a \in AttemptsOf(q)}
AfterTakeover(q) ==
    IF request[q] \notin Active THEN request[q]
    ELSE IF "started" \in StatesOf(q) THEN "unknown"
    ELSE IF StatesOf(q) = {} THEN "queued"
    ELSE IF "reserved" \in StatesOf(q) THEN request[q]
    ELSE IF "unknown" \in StatesOf(q) THEN "unknown"
    ELSE "failed"
\* A request that joined a flight gets the result of its leader.
LeadersSettled(p) ==
    {q \in Attempts : request[q] \in Active /\ SameFingerprint(p, q) /\ AfterTakeover(q) \in Settled}
AfterLeader(p) ==
    IF LeadersSettled(p) = {} THEN "joined" ELSE AfterTakeover(CHOOSE q \in LeadersSettled(p) : TRUE)

\* _validate_recovery_state: a started attempt belongs to an unfinished request, and
\* an answered one of an unfinished request has given its gates back.
AuditClean ==
    \A a \in Attempts :
        LET unfinished == request[RequestOf(a[1], a[2])] \in Unsettled
        IN  /\ attempt[a] = "started" => unfinished
            /\ attempt[a] \in Settled /\ unfinished => a \in released
\* _reconcile_terminal_flights: who gets a result has no attempt left to make, and
\* who joined it never had one.
TakeoverDelivers ==
    \A q \in Attempts : request[q] \in Active /\ AfterTakeover(q) \in Settled =>
        /\ "reserved" \notin StatesOf(q)
        /\ \A p \in Attempts : request[p] = "joined" /\ SameFingerprint(p, q) => AttemptsOf(p) = {}
TakeoverAccepted == AuditClean /\ TakeoverDelivers

\* Everything or nothing: one row that does not fit refuses the takeover.
RecoverExpiredLease ==
    /\ holder # NoRun /\ expired
    /\ TakeoverAccepted
    /\ holder' = NoRun /\ expired' = FALSE
    /\ request' = [p \in Attempts |-> IF request[p] = "joined" THEN AfterLeader(p) ELSE AfterTakeover(p)]
    /\ attempt' = [a \in Attempts |-> IF attempt[a] = "started" THEN "unknown" ELSE attempt[a]]
    /\ gates' = {} /\ UNCHANGED released
    /\ UNCHANGED <<kind, procVars, admitted, sends, fileVars, campaignVars>>

-------------------------------------------------------------------------------
Prepare(r) == Invoke(r) \/ MarkCampaign(r) \/ ContinuePrior(r) \/ Inspect(r) \/ AcquireLease(r) \/ Refuse(r)
Queueing(r) == AdmitLogicalRequest(r) \/ ClaimNextQueued(r)
Exchanging(r) ==
    \/ AcquireGates(r) \/ GatesBlocked(r) \/ MarkStarted(r)
    \/ Send(r) \/ CallbackFails(r) \/ RecordAnswer(r)
    \/ FailExchange(r) \/ RejectBody(r) \/ AcceptBody(r)
Publishing(r) ==
    \/ PublishRaw(r) \/ HeartbeatLease(r) \/ CollectMetadata(r) \/ PublishEvidence(r)
    \/ SettleRequest(r) \/ Finally(r)
RunStep(r) == Prepare(r) \/ Queueing(r) \/ Exchanging(r) \/ Publishing(r) \/ Raise(r)
Next == (\E r \in Runs : RunStep(r) \/ Crash(r)) \/ Expire \/ RecoverExpiredLease

Spec == Init /\ [][Next]_vars

-------------------------------------------------------------------------------
(* Properties.                                                                *)

\* Evidence and success are never ahead of the raw files: what a producer has
\* published as evidence (publish_preparation) rests only on items whose raw
\* publication is committed, and a request is succeeded only with every one of its
\* files committed and, for the exchange rates, the evidence published first.
EvidenceIsBacked ==
    /\ \A r \in Runs : \A i \in ItemsOf(kind[r]) :
          i <= accepted[r] => raw[IF kind[r] = "offline" THEN <<target[r], 1>> ELSE <<r, i>>] = "committed"
    /\ \A n \in DOMAIN admitted :
          LET q == admitted[n]
          IN  request[q] = "succeeded" =>
                 /\ \A i \in ItemsOf(kind[q[1]]) : RequestOf(q[1], i) = q => raw[<<q[1], i>>] = "committed"
                 /\ ~IsEdinet(kind[q[1]]) => accepted[q[1]] > 0

\* "Send each annual GET once; stop on any failure": no attempt leaves twice, and
\* an item is sent only after the raw file of the one before it is committed,
\* whatever failed, expired or was recovered in between.
SendsInOrder ==
    \A r \in Runs : \A i \in ItemsOf(kind[r]) :
        /\ sends[<<r, i>>] <= 1
        /\ sends[<<r, i>>] = 1 /\ i - 1 \in ItemsOf(kind[r]) => raw[<<r, i - 1>>] = "committed"

\* The budget of a campaign: over all invocations, their crashes and the one
\* continuation, a document is sent at most once, only when its slot is spent and
\* all earlier slots are.
SlotsBoundSends ==
    \A c \in DOMAIN slots : \A i \in Items :
        LET R == {r \in Runs : InCampaign(kind[r]) /\ CampaignOf(r) = c /\ sends[<<r, i>>] > 0}
        IN  Cardinality(R) <= 1 /\ (R # {} => 1 .. i \subseteq slots[c])

\* A result once delivered stays, also against an owner that was displaced and
\* still finalizes, and against an offline revalidation of the same bytes.
VerdictIsFinal ==
    [][\A q \in Attempts : request[q] \in Settled => request'[q] = request[q]]_vars

\* The reduced ledger of the producers keeps the promise that RequestLedger keeps: an
\* answer settles all who wait for the same thing, at once and only once, and a
\* success is told only if one of them got a response. A request is named by its
\* command, its invocation and the item it was admitted for.
RequestsOf(k) == IF IsEdinet(k) THEN ItemsOf(k) ELSE {1}
Askers == UNION {{w[r]} \X {r} \X RequestsOf(w[r]) : w \in Workloads, r \in Runs}
Asked == {n \in Askers : n[1] = kind[n[2]]}
StateOf(n) == request[<<n[2], n[3]>>]
waiting == {n \in Asked : StateOf(n) \in Unsettled}
verdict == [n \in Askers |-> IF n \in Asked /\ StateOf(n) \in Settled THEN StateOf(n) ELSE "none"]
proof == {n \in Asked : "succeeded" \in StatesOf(<<n[2], n[3]>>)}
Promise == INSTANCE FlightPromise WITH Requests <- Askers, FpOf <- [n \in Askers |-> <<n[1], n[3]>>]
KeepsPromise == Promise!Spec

\* Whatever failed, was interrupted, was killed or was left behind by an earlier
\* takeover, the rows of a held runtime are such that recover_expired_lease accepts
\* them once the lease has run out: no producer can close the runtime for good.
TakeoverNeverRefused == holder # NoRun => TakeoverAccepted
=============================================================================
