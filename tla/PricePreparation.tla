-------------------------- MODULE PricePreparation --------------------------
(* From acquired prices and exchange rates to a run's converted closes: the   *)
(* bundles that prepare_market_evidence and the FX producers publish, their   *)
(* revalidation and acceptance (PA-01 to PA-09), the fixed-period join and    *)
(* the per-run slice.  An instant is a third of a Tokyo day: before 09:00,    *)
(* when the UTC day ends, before the session's end at 15:30, and after it.    *)
EXTENDS Integers, FiniteSets

CONSTANTS Sessions,        \* the days on which the exchange really trades
          Calendars,       \* calendars at hand, [from, to, dates]
          Span,            \* days in three_year_start's period
          ProfileFrom,     \* PROFILE_EFFECTIVE_ON
          ProfileTo,       \* PROFILE_RECHECK_ON
          Approval,        \* [source -> [from, due]]: effective_on, recheck_due_on
          StartTime,       \* where the clock begins
          MaxTime,         \* bound on the clock
          MaxAcquired      \* bound on the acquisitions of each kind

Sources == {"jpx", "yfinance", "dukascopy", "boj"}
RunSources == {"jpx", "yfinance", "dukascopy"}      \* SOURCE_VERSIONS of a run

ASSUME PriceAssumption ==
    /\ StartTime \in Nat /\ MaxTime \in Nat /\ MaxAcquired \in Nat /\ Span \in Nat \ {0}
    /\ ProfileFrom \in Int /\ ProfileTo \in Int
    /\ Sessions \subseteq Nat
    /\ \A c \in Calendars : c.from \in Int /\ c.to \in Int /\ c.dates \subseteq c.from .. c.to
    /\ \A s \in Sources : Approval[s].from \in Int /\ Approval[s].due \in Int

\* A calendar may be short, but what it shows is true.
ASSUME CalendarAssumption == \A c \in Calendars : c.dates = Sessions \cap (c.from .. c.to)

VARIABLES
    now,        \* the clock of the host
    prices,     \* the market preparation at hand
    fx,         \* the exchange-rate evidence at hand: kind "dukascopy" or "boj"
    receipt,    \* the latest price acceptance
    output,     \* the latest revalidation, fixed-period conversion or run
    acquired    \* acquisitions of prices and of rates

vars == <<now, prices, fx, receipt, output, acquired>>
None == [kind |-> "none"]
Have(bundle) == bundle.kind # "none"

Day(t) == t \div 3                     \* astimezone(Asia/Tokyo).date()
UtcDay(t) == (t + 2) \div 3 - 1        \* astimezone(UTC).date()
Closed(d) == 3 * d + 2                 \* session_end
NextDay(d) == 3 * (d + 1)
CandleEnd(d) == 3 * (d + 1) + 1        \* interval_end
Lengths == {Span - 1, Span}            \* bound: the periods that are asked for
LastOf(S) == CHOOSE d \in S : \A e \in S : e <= d
Recent(t) == {t, IF t = 0 THEN 0 ELSE t - 1}

Init ==
    /\ now = StartTime
    /\ prices = None /\ fx = None /\ receipt = None /\ output = None
    /\ acquired = [prices |-> 0, fx |-> 0]

Tick == now < MaxTime /\ now' = now + 1
        /\ UNCHANGED <<prices, fx, receipt, output, acquired>>

-----------------------------------------------------------------------------
(* Acquisition.  The provider returns the sessions of the period; at most one *)
(* thing about its answer is odd.                                             *)
Flaws(days) ==
    [what : {"none", "stranger", "dollar"}, on : {-1}]
      \cup [what : {"absent", "noClose", "conflict"}, on : days \cap Sessions]
      \cup [what : {"extra"}, on : days \ Sessions]
Rows(days, flaw) ==
    CASE flaw.what = "absent" -> (days \cap Sessions) \ {flaw.on}
      [] flaw.what = "extra"  -> (days \cap Sessions) \cup {flaw.on}
      [] OTHER                -> days \cap Sessions
Identity(p) == p.flaw.what # "stranger"      \* response_symbol, instrument_type
Currency(p) == p.flaw.what # "dollar"        \* currency, exchange_timezone
NumericIssues(p) == p.flaw.what \in {"noClose", "conflict"}
Priced(p) == IF p.flaw.what = "noClose" THEN p.rows \ {p.flaw.on} ELSE p.rows
PeriodDays(p) == p.start .. (p.end - 1)

\* The period of prepare_market_evidence ends before the Tokyo day it begins on.
RequestComplete(end, begun) == end <= Day(begun)

\* A bundle begun at one instant is stamped with the later retrieval.
PrepareMarket(start, end, begun, flaw) ==
    /\ acquired.prices < MaxAcquired
    /\ start < end /\ RequestComplete(end, begun)
    /\ prices' = [kind |-> "prices", start |-> start, end |-> end, retrieved |-> now,
                  rows |-> Rows(start .. (end - 1), flaw), flaw |-> flaw]
    /\ acquired' = [acquired EXCEPT !.prices = @ + 1]
    /\ UNCHANGED <<now, fx, receipt, output>>

\* parse_daily: a candle is confirmed when it ended before it was received.
Confirmed(f) == {d \in f.rows : CandleEnd(d) <= f.received}

\* The date of the request and of every receipt, in UTC, lie within the approval.
WithinApproval(s, t) == UtcDay(t) \in Approval[s].from .. (Approval[s].due - 1)

Rates(source, start, end, begun, rows) ==
    /\ acquired.fx < MaxAcquired
    /\ start <= end
    /\ \A t \in {begun, now} : WithinApproval(source, t)
    /\ fx' = [kind |-> source, start |-> start, end |-> end, received |-> now, rows |-> rows]
    /\ acquired' = [acquired EXCEPT !.fx = @ + 1]
    /\ UNCHANGED <<now, prices, receipt, output>>

\* urls: UTC days that are over when they are asked for.
DaysOver(start, end, begun) == start <= end /\ end < UtcDay(begun)

\* acquire_dukascopy_fx; the year's file also holds what lies outside the period,
\* the running candle included.
AcquireFx(start, end, begun, missing) ==
    DaysOver(start, end, begun) /\ Rates("dukascopy", start, end, begun, (0 .. UtcDay(now)) \ missing)

\* acquire_fx_evidence asks for whole months, the present one too: the Bank's
\* rates of 17:00 so far, with gaps where it has none.
AcquireBoj(start, end, begun, missing) ==
    Rates("boj", start, end, begun, {d \in 0 .. Day(now) : Closed(d) <= now} \ missing)

\* The days with a rate that a join can use: version 2 leaves the unconfirmed
\* candles out, version 1 has no such mark.
Usable(f) == IF f.kind = "boj" THEN f.rows ELSE Confirmed(f)

-----------------------------------------------------------------------------
(* Revalidation and acceptance of prices.                                     *)
\* The acceptance accepts on the day the recheck is due; a run does not.
ApprovalValid(s, acquiredOn, today) ==
    Approval[s].from <= acquiredOn /\ acquiredOn <= today /\ today <= Approval[s].due

\* Faulty: the acquisition's approval is taken for today's.
ReuseAsAcquired(s, today) == Approval[s].from <= today

ReuseAllowed(s, today) ==
    Approval[s].from <= today /\ today < Approval[s].due

Expected(cal, p) == cal.dates \cap PeriodDays(p)

Covers(cal, p) == cal.from <= p.start /\ cal.to >= p.end - 1

\* The conditions of _evaluate that fail.
Failing(p, cal, conflict, checked) ==
    LET missing == Expected(cal, p) \ p.rows
        unexpected == p.rows \ Expected(cal, p)
        fails == [PA01 |-> ~Identity(p),
                  PA02 |-> \E s \in {"jpx", "yfinance"} :
                               ~ApprovalValid(s, Day(p.retrieved), Day(checked)),
                  PA03 |-> p.rows = {} \/ p.start > p.end - Span \/ ~Covers(cal, p) \/ missing # {},
                  PA04 |-> p.rows = {} \/ ~Covers(cal, p) \/ missing # {} \/ unexpected # {},
                  PA05 |-> p.rows = {} \/ NumericIssues(p),
                  PA06 |-> ~Currency(p),
                  PA09 |-> \/ conflict \/ ~Identity(p) \/ ~Currency(p) \/ NumericIssues(p)
                           \/ p.rows = {} \/ missing # {} \/ unexpected # {}]
    IN  {c \in DOMAIN fails : fails[c]}

\* accept_price_evidence; LIMITATIONS is never empty, so "accepted" never occurs.
AcceptPrices(cal, conflict) ==
    /\ Have(prices) /\ prices.end <= Day(now)
    /\ receipt' = [kind |-> "receipt", prices |-> prices, cal |-> cal, conflict |-> conflict,
                   status |-> IF Failing(prices, cal, conflict, now) = {}
                              THEN "accepted_with_limitations" ELSE "pending"]
    /\ UNCHANGED <<now, prices, fx, output, acquired>>

\* revalidate_market_evidence refuses a calendar shorter than the period.
Revalidate(cal) ==
    /\ Have(prices) /\ Covers(cal, prices)
    /\ output' = [kind |-> "findings", prices |-> prices,
                  missing |-> Expected(cal, prices) \ prices.rows,
                  unexpected |-> prices.rows \ Expected(cal, prices)]
    /\ UNCHANGED <<now, prices, fx, receipt, acquired>>

\* join_price_fx: an accepted receipt and rates of exactly its period.
JoinPriceFx ==
    /\ Have(receipt) /\ receipt.status # "pending" /\ Have(fx)
    /\ LET p == receipt.prices
           days == Expected(receipt.cal, p)
           converted == days \cap Priced(p) \cap Usable(fx)
       IN  /\ p.start = fx.start /\ p.end - 1 = fx.end
           /\ output' = [kind |-> "joined", prices |-> p, fx |-> fx, checked |-> now,
                         converted |-> converted, complete |-> converted = days]
    /\ UNCHANGED <<now, prices, fx, receipt, acquired>>

-----------------------------------------------------------------------------
(* The slice of one run.                                                      *)
\* Before the current session closes, only earlier dates can be required.
Cutoff(checked) == IF checked >= Closed(Day(checked)) THEN Day(checked) ELSE Day(checked) - 1

\* Faulty: what the calendar's last day cannot show is not required.
CalendarReaches(cal, checked) == TRUE

CoversCheck(cal, checked) == cal.to >= Day(checked)

\* resolve_requirements: the last completed session and the period before it.
Requirements(cal, checked) ==
    LET completed == {d \in cal.dates : d <= Cutoff(checked)}
        last == IF completed = {} THEN Day(checked) ELSE LastOf(completed)
        start == last + 1 - Span
        resolved == /\ ProfileFrom <= Day(checked) /\ Day(checked) < ProfileTo
                    /\ CoversCheck(cal, checked)
                    /\ completed # {} /\ cal.from <= start
        days == IF resolved THEN cal.dates \cap (start .. last) ELSE {}
    IN  [resolved |-> resolved, end |-> IF resolved THEN last ELSE -1,
         priceDates |-> days, fxDates |-> {d \in days : d <= UtcDay(checked) - 1}]

\* A close counts when it was retrieved after its session; before the profile
\* took effect the session's hours are unknown and the day itself must be over.
GoodPrices(p, days) ==
    {d \in days \cap Priced(p) :
        p.retrieved >= IF d >= ProfileFrom THEN Closed(d) ELSE NextDay(d)}
\* Faulty: every candle of the file counts.
RatesOfFile(f, days, checked) == days \cap f.rows

GoodRates(f, days, checked) ==
    {d \in days \cap Confirmed(f) : CandleEnd(d) <= checked /\ f.start <= d /\ d <= f.end}

\* The prices a run starts from: a preparation, held against the run's calendar,
\* or a receipt of whatever status, with its own calendar and a conflict it was
\* given.
RunInputs(cal) ==
    (IF Have(prices) THEN {[prices |-> prices, cal |-> cal, conflict |-> FALSE]} ELSE {})
      \cup (IF Have(receipt) THEN {[prices |-> receipt.prices, cal |-> receipt.cal,
                                    conflict |-> receipt.conflict]} ELSE {})

\* prepare_price_fx_run with one of its inputs: the run's calendar says what is
\* required, and only Dukascopy's rates are taken.
PrepareRun(input, cal) ==
    /\ fx.kind = "dukascopy" /\ input.prices.end - 1 <= Cutoff(now)
    /\ LET p == input.prices
           req == Requirements(cal, now)
           allowed(s) == ReuseAllowed(s, Day(now))
           good == GoodPrices(p, req.priceDates)
           rates == GoodRates(fx, req.fxDates, now)
           accepted == /\ req.resolved /\ allowed("jpx") /\ allowed("yfinance")
                       /\ Failing(p, input.cal, input.conflict, now) = {}
                       /\ Priced(p) \cap req.priceDates \subseteq good
           converted == IF accepted /\ allowed("dukascopy") THEN good \cap rates ELSE {}
       IN  output' = [kind |-> "run", prices |-> p, fx |-> fx, checked |-> now,
                   end |-> req.end, converted |-> converted,
                   ready |-> /\ accepted /\ good = req.priceDates
                             /\ allowed("dukascopy") /\ req.fxDates # {} /\ rates = req.fxDates
                             /\ req.fxDates \subseteq converted]
    /\ UNCHANGED <<now, prices, fx, receipt, acquired>>

Next ==
    \/ Tick
    \/ \E end \in 1 .. Day(now) + 1, length \in Lengths, begun \in Recent(now) :
           \E flaw \in Flaws((end - length) .. (end - 1)) : PrepareMarket(end - length, end, begun, flaw)
    \/ \E end \in 0 .. Day(now), begun \in Recent(now) : \E missing \in {{}, {end}} :
           \/ AcquireFx(end + 1 - Span, end, begun, missing)
           \/ AcquireBoj(end + 1 - Span, end, begun, missing)
    \/ \E cal \in Calendars :
           \/ \E conflict \in BOOLEAN : AcceptPrices(cal, conflict)
           \/ Revalidate(cal)
           \/ \E input \in RunInputs(cal) : PrepareRun(input, cal)
    \/ JoinPriceFx

Spec == Init /\ [][Next]_vars

-----------------------------------------------------------------------------
\* No conversion looks ahead: whatever a join or a run converted uses a close
\* that was retrieved after its session and a candle that was over when it was
\* received (price_fx_run._evaluate_run, price_fx_v2._evaluate).
ConvertedIsFinal ==
    output.kind \in {"run", "joined"} =>
        \A d \in output.converted :
            /\ d \in output.prices.rows
            /\ Closed(d) <= output.prices.retrieved /\ output.prices.retrieved <= output.checked
            /\ output.fx.received <= output.checked
            /\ output.fx.received >= IF output.fx.kind = "boj" THEN Closed(d) ELSE CandleEnd(d)

\* A run that is ready holds every session that really was over at its check,
\* back to the start of the period, converted wherever the UTC day is over too,
\* while every source may still be used (_evaluate_run, resolve_requirements).
Ready == output.kind = "run" /\ output.ready
ReadyIsComplete ==
    Ready =>
        /\ \A d \in Sessions : output.end - Span < d /\ Closed(d) <= output.checked =>
               /\ d \in output.prices.rows
               /\ CandleEnd(d) <= output.checked => d \in output.converted
        /\ \A s \in RunSources : Day(output.checked) < Approval[s].due

\* Missing evidence never lowers what a run requires: a later resolved run
\* requires an end at least as late, whatever is at hand (resolve_requirements).
RequirementAdvances ==
    [][output.kind = "run" /\ output'.kind = "run" /\ output'.end # -1 =>
           output'.end >= output.end]_vars
=============================================================================
