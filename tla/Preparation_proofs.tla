---------------------------- MODULE Preparation_proofs ----------------------------
(* Proofs about the two preparations.  PricePreparation, for any sessions,        *)
(* calendars, approvals and periods: nothing that was converted was still         *)
(* running, a ready run lacks no session, and what a run requires never goes      *)
(* back.  FinancialPreparation, for any filings, whatever the archives may say:   *)
(* what is counted, accepted and merged rests on agreeing evidence.               *)
EXTENDS PricePreparation, FinancialPreparation, WellFoundedInduction, FiniteSetTheorems, TLAPS

LEMMA DayBounds == \A t \in Nat : Day(t) \in Nat /\ 3 * Day(t) <= t /\ t < 3 * Day(t) + 3
  BY DEF Day

LEMMA UtcDayBounds ==
    \A t \in Nat : UtcDay(t) \in Int /\ \A d \in Int : CandleEnd(d) <= t <=> d <= UtcDay(t) - 1
  BY DEF UtcDay, CandleEnd

\* The cutoff is the last day whose session can be over, and it only advances.
LEMMA CutoffBounds ==
    \A t \in Nat : /\ Cutoff(t) \in Int /\ Cutoff(t) <= Day(t)
                   /\ \A d \in Int : Closed(d) <= t <=> d <= Cutoff(t)
  <1> SUFFICES ASSUME NEW t \in Nat
               PROVE  /\ Cutoff(t) \in Int /\ Cutoff(t) <= Day(t)
                      /\ \A d \in Int : Closed(d) <= t <=> d <= Cutoff(t)
    OBVIOUS
  <1>1. Day(t) \in Nat /\ 3 * Day(t) <= t /\ t < 3 * Day(t) + 3
    BY DayBounds
  <1>2. CASE t >= Closed(Day(t))
    BY <1>1, <1>2 DEF Cutoff, Closed
  <1>3. CASE ~(t >= Closed(Day(t)))
    BY <1>1, <1>3 DEF Cutoff, Closed
  <1> QED
    BY <1>2, <1>3

LEMMA CutoffAdvances == \A s, t \in Nat : s <= t => Cutoff(s) <= Cutoff(t)
  <1> SUFFICES ASSUME NEW s \in Nat, NEW t \in Nat, s <= t PROVE Cutoff(s) <= Cutoff(t)
    OBVIOUS
  <1>1. Closed(Cutoff(s)) <= s
    BY CutoffBounds
  <1>2. Closed(Cutoff(s)) \in Int
    BY CutoffBounds DEF Closed
  <1> QED
    BY <1>1, <1>2, CutoffBounds

\* A bounded set of days has a last one.
LEMMA LastExists ==
    ASSUME NEW S \in SUBSET Nat, S # {}, NEW n \in Nat, \A d \in S : d <= n
    PROVE  LastOf(S) \in S /\ \A e \in S : e <= LastOf(S)
  <1> DEFINE Gaps == {m \in Nat : n - m \in S}
  <1>1. Gaps # {}
    <2>1. PICK d \in S : TRUE
      OBVIOUS
    <2>2. n - d \in Nat /\ n - (n - d) = d
      OBVIOUS
    <2>3. n - d \in Gaps
      BY <2>1, <2>2
    <2> QED
      BY <2>3
  <1>2. PICK m \in Gaps : \A k \in Gaps : m <= k
    <2>1. PICK m \in Gaps : \A k \in Gaps : <<k, m>> \notin OpToRel(<, Nat)
      BY <1>1, WFMin, NatLessThanWellFounded, Zenon
    <2>2. \A k \in Gaps : ~(k < m)
      BY <2>1, Zenon DEF OpToRel
    <2> QED
      BY <2>2
  <1>3. n - m \in S
    OBVIOUS
  <1>4. \A e \in S : e <= n - m
    <2> SUFFICES ASSUME NEW e \in S PROVE e <= n - m
      OBVIOUS
    <2>1. n - e \in Gaps
      OBVIOUS
    <2>2. m <= n - e
      BY <1>2, <2>1
    <2> QED
      BY <2>2
  <1> QED
    BY <1>3, <1>4 DEF LastOf

-------------------------------------------------------------------------------
(* What is at hand.                                                           *)

\* Prices were retrieved after the last session of their period.
SoundPrices(p) ==
    /\ p.start \in Int /\ p.end \in Int
    /\ p.retrieved \in Nat /\ p.retrieved <= now
    /\ \A d \in Int : d \in PeriodDays(p) => Closed(d) <= p.retrieved

PricesSound == prices.kind \in {"none", "prices"} /\ (prices.kind = "prices" => SoundPrices(prices))
FxSound ==
    /\ fx.kind \in {"none", "dukascopy", "boj"}
    /\ fx.kind # "none" => fx.received \in Nat /\ fx.received <= now
    /\ fx.kind = "boj" => \A d \in fx.rows : Closed(d) <= fx.received
ReceiptSound ==
    /\ receipt.kind \in {"none", "receipt"}
    /\ receipt.kind = "receipt" => SoundPrices(receipt.prices) /\ receipt.cal \in Calendars

\* A run's end is a session that was over at its check.
RunEndSound ==
    output.kind = "run" =>
        /\ output.checked \in Nat /\ output.checked <= now
        /\ output.end = -1 \/ (output.end \in Sessions /\ output.end <= Cutoff(output.checked))

AtHandInv ==
    now \in Nat /\ PricesSound /\ FxSound /\ ReceiptSound /\ RunEndSound
    /\ ConvertedIsFinal /\ ReadyIsComplete

LEMMA InitAtHand == Init => AtHandInv
  BY PriceAssumption DEF Init, None, AtHandInv, PricesSound, FxSound, ReceiptSound, RunEndSound,
                         ConvertedIsFinal, ReadyIsComplete, Ready

LEMMA MarketStep ==
    ASSUME AtHandInv, NEW end \in Int, NEW start \in Int, NEW begun \in Recent(now), NEW flaw,
           PrepareMarket(start, end, begun, flaw)
    PROVE  AtHandInv'
  <1>1. begun \in Nat /\ begun <= now
    BY DEF AtHandInv, Recent
  <1>2. prices'.kind = "prices" /\ prices'.start = start /\ prices'.end = end /\ prices'.retrieved = now
        /\ UNCHANGED <<now, fx, receipt, output>>
    BY DEF PrepareMarket
  <1>3. ASSUME NEW d \in start .. end - 1 PROVE Closed(d) <= now
    <2>1. end <= Day(begun)
      BY DEF PrepareMarket, RequestComplete
    <2> QED
      BY <1>1, <1>3, <2>1, DayBounds DEF Closed, AtHandInv
  <1>4. PricesSound'
    BY <1>2, <1>3 DEF PricesSound, SoundPrices, PeriodDays, AtHandInv
  <1> QED
    BY <1>2, <1>4 DEF AtHandInv, FxSound, ReceiptSound, SoundPrices, RunEndSound, ConvertedIsFinal,
                      ReadyIsComplete, Ready

LEMMA FxStep ==
    ASSUME AtHandInv, NEW start, NEW end, NEW begun, NEW missing,
           AcquireFx(start, end, begun, missing) \/ AcquireBoj(start, end, begun, missing)
    PROVE  AtHandInv'
  <1>1. FxSound' /\ UNCHANGED <<now, prices, receipt, output>>
    <2>1. CASE AcquireFx(start, end, begun, missing)
      BY <2>1 DEF AcquireFx, Rates, FxSound, AtHandInv
    <2>2. CASE AcquireBoj(start, end, begun, missing)
      BY <2>2 DEF AcquireBoj, Rates, FxSound, AtHandInv
    <2> QED
      BY <2>1, <2>2
  <1> QED
    BY <1>1 DEF AtHandInv, PricesSound, ReceiptSound, SoundPrices, RunEndSound, ConvertedIsFinal,
                ReadyIsComplete, Ready

LEMMA AcceptStep ==
    ASSUME AtHandInv, NEW cal \in Calendars, NEW conflict, AcceptPrices(cal, conflict)
    PROVE  AtHandInv'
  <1>1. receipt'.kind = "receipt" /\ receipt'.prices = prices /\ receipt'.cal = cal
        /\ UNCHANGED <<now, prices, fx, output>> /\ prices.kind = "prices"
    BY DEF AcceptPrices, Have, AtHandInv, PricesSound
  <1> QED
    BY <1>1 DEF AtHandInv, PricesSound, FxSound, ReceiptSound, SoundPrices, PeriodDays, RunEndSound,
                ConvertedIsFinal, ReadyIsComplete, Ready

\* The fixed-period join: every day of the period was over when it was retrieved.
LEMMA JoinStep ==
    ASSUME AtHandInv, JoinPriceFx PROVE AtHandInv'
  <1> DEFINE p == receipt.prices
             converted == Expected(receipt.cal, p) \cap Priced(p) \cap Usable(fx)
  <1>1. /\ receipt.kind = "receipt" /\ fx.kind \in {"dukascopy", "boj"}
        /\ output'.kind = "joined" /\ output'.prices = p /\ output'.fx = fx
        /\ output'.checked = now /\ output'.converted = converted
        /\ UNCHANGED <<now, prices, fx, receipt>>
    BY DEF JoinPriceFx, Have, AtHandInv, ReceiptSound, FxSound
  <1>2. SoundPrices(p) /\ receipt.cal \in Calendars
    BY <1>1 DEF AtHandInv, ReceiptSound
  <1>3. ASSUME NEW d \in converted
        PROVE  /\ d \in p.rows
               /\ Closed(d) <= p.retrieved /\ p.retrieved <= now
               /\ fx.received <= now
               /\ fx.received >= IF fx.kind = "boj" THEN Closed(d) ELSE CandleEnd(d)
    <2>1. d \in Int /\ d \in PeriodDays(p) /\ d \in p.rows
      BY <1>2, PriceAssumption DEF Expected, Priced
    <2>2. fx.received \in Nat /\ fx.received <= now
      BY <1>1 DEF AtHandInv, FxSound
    <2>3. fx.kind = "boj" => fx.received >= Closed(d)
      <3> SUFFICES ASSUME fx.kind = "boj" PROVE fx.received >= Closed(d)
        OBVIOUS
      <3>1. d \in fx.rows
        BY DEF Usable
      <3>2. Closed(d) <= fx.received
        BY <3>1 DEF AtHandInv, FxSound
      <3> QED
        BY <2>1, <2>2, <3>2 DEF Closed
    <2>4. fx.kind # "boj" => fx.received >= CandleEnd(d)
      <3> SUFFICES ASSUME fx.kind # "boj" PROVE fx.received >= CandleEnd(d)
        OBVIOUS
      <3>1. CandleEnd(d) <= fx.received
        BY DEF Usable, Confirmed
      <3> QED
        BY <2>1, <2>2, <3>1 DEF CandleEnd
    <2> QED
      BY <1>1, <1>2, <2>1, <2>2, <2>3, <2>4 DEF SoundPrices
  <1> HIDE DEF converted
  <1>4. ConvertedIsFinal'
    BY <1>1, <1>3 DEF ConvertedIsFinal
  <1> QED
    BY <1>1, <1>4 DEF AtHandInv, PricesSound, FxSound, ReceiptSound, SoundPrices, PeriodDays,
                      RunEndSound, ReadyIsComplete, Ready

-------------------------------------------------------------------------------
(* What a run requires.                                                       *)

\* A resolved requirement ends with the last session that is over, and holds every
\* session of the period before it, however short the calendar is.
LEMMA RequirementsSound ==
    ASSUME NEW cal \in Calendars, NEW t \in Nat
    PROVE  LET req == Requirements(cal, t)
           IN  /\ req.priceDates \subseteq cal.dates
               /\ req.fxDates = {d \in req.priceDates : d <= UtcDay(t) - 1}
               /\ ~req.resolved => req.end = -1
               /\ req.resolved =>
                     /\ req.end \in Sessions /\ req.end <= Cutoff(t)
                     /\ \A d \in Sessions : d <= Cutoff(t) => d <= req.end
                     /\ \A d \in Sessions : d <= Cutoff(t) /\ req.end - Span < d => d \in req.priceDates
  <1> DEFINE completed == {d \in cal.dates : d <= Cutoff(t)}
             last == IF completed = {} THEN Day(t) ELSE LastOf(completed)
             start == last + 1 - Span
             resolved == /\ ProfileFrom <= Day(t) /\ Day(t) < ProfileTo
                         /\ CoversCheck(cal, t)
                         /\ completed # {} /\ cal.from <= start
             days == IF resolved THEN cal.dates \cap (start .. last) ELSE {}
             req == Requirements(cal, t)
  <1>1. req = [resolved |-> resolved, end |-> IF resolved THEN last ELSE -1, priceDates |-> days,
               fxDates |-> {d \in days : d <= UtcDay(t) - 1}]
    BY DEF Requirements
  <1>2. req.priceDates = days /\ req.fxDates = {d \in days : d <= UtcDay(t) - 1}
        /\ (req.resolved <=> resolved) /\ req.end = IF resolved THEN last ELSE -1
    BY <1>1
  <1>3. ASSUME resolved
        PROVE  /\ last \in Sessions /\ last <= Cutoff(t)
               /\ \A d \in Sessions : d <= Cutoff(t) => d <= last
               /\ \A d \in Sessions : d <= Cutoff(t) /\ last - Span < d => d \in cal.dates \cap (start .. last)
    <2>1. completed \in SUBSET Nat /\ completed # {} /\ completed \subseteq Sessions
          /\ \A d \in completed : d <= Day(t)
      <3>1. completed # {}
        BY <1>3
      <3>2. cal.dates \subseteq Sessions /\ Sessions \subseteq Nat
        BY PriceAssumption, CalendarAssumption
      <3>3. Cutoff(t) \in Int /\ Cutoff(t) <= Day(t) /\ Day(t) \in Nat
        BY CutoffBounds, DayBounds
      <3>4. ASSUME NEW d \in completed PROVE d <= Day(t)
        <4>1. d \in cal.dates /\ d <= Cutoff(t)
          OBVIOUS
        <4>2. d \in Nat
          BY <3>2, <4>1
        <4> QED
          BY <3>3, <4>1, <4>2
      <3> QED
        BY <3>1, <3>2, <3>4
    <2>2. Day(t) \in Nat /\ Cutoff(t) \in Int /\ Cutoff(t) <= Day(t)
      BY DayBounds, CutoffBounds
    <2>3. last \in completed /\ \A e \in completed : e <= last
      BY <2>1, <2>2, LastExists
    <2>4. last \in Sessions /\ last <= Cutoff(t) /\ last \in Nat
      BY <2>1, <2>3
    <2>5. cal.from \in Int /\ cal.to \in Int /\ cal.dates = Sessions \cap (cal.from .. cal.to)
          /\ cal.from <= last + 1 - Span /\ Day(t) <= cal.to /\ Span \in Nat \ {0}
      BY <1>3, PriceAssumption, CalendarAssumption DEF CoversCheck
    <2> HIDE DEF last
    <2>6. ASSUME NEW d \in Sessions, d <= Cutoff(t) PROVE d <= last
      <3>1. d \in Nat
        BY PriceAssumption
      <3>2. CASE cal.from <= d
        <4>1. d \in completed
          BY <2>2, <2>5, <2>6, <3>1, <3>2
        <4> QED
          BY <2>3, <4>1
      <3>3. CASE ~(cal.from <= d)
        BY <2>4, <2>5, <3>1, <3>3
      <3> QED
        BY <3>2, <3>3
    <2>7. ASSUME NEW d \in Sessions, d <= Cutoff(t), last - Span < d
          PROVE  d \in cal.dates \cap (start .. last)
      <3>1. d \in Nat /\ d <= last
        BY <2>6, <2>7, PriceAssumption
      <3> QED
        BY <2>2, <2>4, <2>5, <2>7, <3>1
    <2> QED
      BY <2>4, <2>6, <2>7
  <1> QED
    BY <1>2, <1>3

\* A run: what it converts was final, and when it is ready it lacks no session.
LEMMA RunOutput ==
    ASSUME AtHandInv, NEW cal \in Calendars, NEW input \in RunInputs(cal), PrepareRun(input, cal)
    PROVE  /\ ConvertedIsFinal' /\ ReadyIsComplete' /\ UNCHANGED <<now, prices, fx, receipt>>
           /\ output'.kind = "run" /\ output'.checked = now
           /\ output'.end = Requirements(cal, now).end
           /\ output'.end = -1 \/ (output'.end \in Sessions /\ output'.end <= Cutoff(now)
                                  /\ \A d \in Sessions : d <= Cutoff(now) => d <= output'.end)
  <1> DEFINE p == input.prices
             req == Requirements(cal, now)
             allowed(s) == ReuseAllowed(s, Day(now))
             good == GoodPrices(p, req.priceDates)
             rates == GoodRates(fx, req.fxDates, now)
             accepted == /\ req.resolved /\ allowed("jpx") /\ allowed("yfinance")
                         /\ Failing(p, input.cal, input.conflict, now) = {}
                         /\ Priced(p) \cap req.priceDates \subseteq good
             converted == IF accepted /\ allowed("dukascopy") THEN good \cap rates ELSE {}
             ready == /\ accepted /\ good = req.priceDates
                      /\ allowed("dukascopy") /\ req.fxDates # {} /\ rates = req.fxDates
                      /\ req.fxDates \subseteq converted
  <1>1. /\ output' = [kind |-> "run", prices |-> p, fx |-> fx, checked |-> now, end |-> req.end,
                      converted |-> converted, ready |-> ready]
        /\ fx.kind = "dukascopy" /\ UNCHANGED <<now, prices, fx, receipt>>
    BY DEF PrepareRun
  <1>2. /\ output'.kind = "run" /\ output'.prices = p /\ output'.fx = fx /\ output'.checked = now
        /\ output'.end = req.end /\ output'.converted = converted /\ output'.ready = ready
    BY <1>1
  <1>3. now \in Nat /\ fx.received \in Nat /\ fx.received <= now /\ SoundPrices(p)
    BY <1>1 DEF AtHandInv, FxSound, PricesSound, ReceiptSound, RunInputs, Have
  <1>4. /\ req.priceDates \subseteq cal.dates
        /\ req.fxDates = {d \in req.priceDates : d <= UtcDay(now) - 1}
        /\ ~req.resolved => req.end = -1
        /\ req.resolved =>
              /\ req.end \in Sessions /\ req.end <= Cutoff(now)
              /\ \A d \in Sessions : d <= Cutoff(now) => d <= req.end
              /\ \A d \in Sessions : d <= Cutoff(now) /\ req.end - Span < d => d \in req.priceDates
    BY <1>3, RequirementsSound
  <1>5. cal.dates \subseteq Nat
    BY PriceAssumption, CalendarAssumption
  <1> HIDE DEF req
  <1>6. ASSUME NEW d \in converted
        PROVE  /\ d \in p.rows /\ Closed(d) <= p.retrieved /\ p.retrieved <= now
               /\ fx.received <= now /\ fx.received >= CandleEnd(d)
    <2>1. d \in good /\ d \in rates
      OBVIOUS
    <2>2. d \in Nat
      BY <1>4, <1>5, <2>1 DEF GoodPrices
    <2>3. d \in p.rows
      BY <2>1 DEF GoodPrices, Priced
    <2>4. CandleEnd(d) <= fx.received
      BY <2>1 DEF GoodRates, Confirmed
    <2>5. p.retrieved >= Closed(d) \/ p.retrieved >= NextDay(d)
      BY <2>1 DEF GoodPrices
    <2>6. Closed(d) <= p.retrieved
      BY <1>3, <2>2, <2>5 DEF SoundPrices, Closed, NextDay
    <2> QED
      BY <1>3, <2>2, <2>3, <2>4, <2>6 DEF SoundPrices, CandleEnd
  <1>7. ConvertedIsFinal'
    <2> HIDE DEF converted
    <2> QED
      BY <1>1, <1>2, <1>6 DEF ConvertedIsFinal
  <1>8. ASSUME ready
        PROVE  /\ \A d \in Sessions : req.end - Span < d /\ Closed(d) <= now =>
                     d \in p.rows /\ (CandleEnd(d) <= now => d \in converted)
               /\ \A s \in RunSources : Day(now) < Approval[s].due
    <2>1. ASSUME NEW d \in Sessions, req.end - Span < d, Closed(d) <= now
          PROVE  d \in p.rows /\ (CandleEnd(d) <= now => d \in converted)
      <3>1. d \in Int /\ d <= Cutoff(now)
        BY <1>3, <2>1, PriceAssumption, CutoffBounds
      <3>2. req.resolved
        BY <1>8
      <3>3. d \in req.priceDates
        BY <1>4, <2>1, <3>1, <3>2
      <3>4. good = req.priceDates
        BY <1>8
      <3>5. d \in p.rows
        BY <3>3, <3>4 DEF GoodPrices, Priced
      <3>6. ASSUME CandleEnd(d) <= now PROVE d \in converted
        <4>1. d \in req.fxDates
          BY <1>3, <1>4, <3>1, <3>3, <3>6, UtcDayBounds
        <4>2. req.fxDates \subseteq converted
          BY <1>8
        <4> QED
          BY <4>1, <4>2
      <3> QED
        BY <3>5, <3>6
    <2>2. allowed("jpx") /\ allowed("yfinance") /\ allowed("dukascopy")
      BY <1>8
    <2> QED
      BY <2>1, <2>2 DEF ReuseAllowed, RunSources
  <1>9. ReadyIsComplete'
    <2> HIDE DEF converted, ready
    <2> QED
      BY <1>2, <1>8 DEF ReadyIsComplete, Ready
  <1> QED
    BY <1>1, <1>2, <1>4, <1>7, <1>9 DEF req

LEMMA RunStep ==
    ASSUME AtHandInv, NEW cal \in Calendars, NEW input \in RunInputs(cal), PrepareRun(input, cal)
    PROVE  AtHandInv'
  <1>1. RunEndSound'
    BY RunOutput DEF RunEndSound, AtHandInv
  <1> QED
    BY <1>1, RunOutput DEF AtHandInv, PricesSound, FxSound, ReceiptSound, SoundPrices, PeriodDays

LEMMA AtHandStep == AtHandInv /\ [Next]_vars => AtHandInv'
  <1> SUFFICES ASSUME AtHandInv, [Next]_vars PROVE AtHandInv'
    OBVIOUS
  <1>1. CASE UNCHANGED vars
    BY <1>1 DEF vars, AtHandInv, PricesSound, FxSound, ReceiptSound, SoundPrices, PeriodDays, RunEndSound,
                ConvertedIsFinal, ReadyIsComplete, Ready
  <1>2. CASE Tick
    <2>1. now' \in Nat /\ now <= now' /\ now \in Nat /\ UNCHANGED <<prices, fx, receipt, output>>
      BY <1>2 DEF Tick, AtHandInv
    <2>2. PricesSound' /\ ReceiptSound'
      BY <2>1 DEF AtHandInv, PricesSound, ReceiptSound, SoundPrices, PeriodDays
    <2>3. FxSound' /\ RunEndSound'
      BY <2>1 DEF AtHandInv, FxSound, RunEndSound
    <2> QED
      BY <2>1, <2>2, <2>3 DEF AtHandInv, ConvertedIsFinal, ReadyIsComplete, Ready
  <1>3. CASE \E end \in 1 .. Day(now) + 1, length \in Lengths, begun \in Recent(now) :
               \E flaw \in Flaws((end - length) .. (end - 1)) : PrepareMarket(end - length, end, begun, flaw)
    <2>1. PICK end \in 1 .. Day(now) + 1, length \in Lengths, begun \in Recent(now) :
               \E flaw \in Flaws((end - length) .. (end - 1)) : PrepareMarket(end - length, end, begun, flaw)
      BY <1>3
    <2>2. PICK flaw : PrepareMarket(end - length, end, begun, flaw)
      BY <2>1
    <2>3. end \in Int /\ end - length \in Int
      BY PriceAssumption DEF Lengths
    <2> QED
      BY <2>2, <2>3, MarketStep
  <1>4. CASE \E end \in 0 .. Day(now), begun \in Recent(now) : \E missing \in {{}, {end}} :
               \/ AcquireFx(end + 1 - Span, end, begun, missing)
               \/ AcquireBoj(end + 1 - Span, end, begun, missing)
    BY <1>4, FxStep
  <1>5. ASSUME NEW cal \in Calendars, NEW conflict \in BOOLEAN, AcceptPrices(cal, conflict) PROVE AtHandInv'
    BY <1>5, AcceptStep
  <1>6. ASSUME NEW cal \in Calendars, Revalidate(cal) PROVE AtHandInv'
    <2>1. output'.kind = "findings" /\ UNCHANGED <<now, prices, fx, receipt>>
      BY <1>6 DEF Revalidate
    <2> QED
      BY <2>1 DEF AtHandInv, PricesSound, FxSound, ReceiptSound, SoundPrices, PeriodDays, RunEndSound,
                  ConvertedIsFinal, ReadyIsComplete, Ready
  <1>7. ASSUME NEW cal \in Calendars, NEW input \in RunInputs(cal), PrepareRun(input, cal) PROVE AtHandInv'
    BY <1>7, RunStep
  <1> QED
    BY <1>1, <1>2, <1>3, <1>4, <1>5, <1>6, <1>7, JoinStep DEF Next

\* What is at hand is sound in every state.
LEMMA AtHandHolds == Spec => []AtHandInv
  BY InitAtHand, AtHandStep, PTL DEF Spec

-------------------------------------------------------------------------------
\* No join and no run converts a close of a session, or a candle of a day, that was
\* not over when it was retrieved (price_fx_run._evaluate_run, price_fx_v2._evaluate).
THEOREM ConversionIsFinal == Spec => []ConvertedIsFinal
  <1>1. AtHandInv => ConvertedIsFinal
    BY DEF AtHandInv
  <1> QED
    BY <1>1, AtHandHolds, PTL

\* A ready run has every session that was over at its check, however short the
\* calendars at hand were, and rests on no source that is due for recheck.
THEOREM ReadyRunsComplete == Spec => []ReadyIsComplete
  <1>1. AtHandInv => ReadyIsComplete
    BY DEF AtHandInv
  <1> QED
    BY <1>1, AtHandHolds, PTL

\* What a run requires never goes back (resolve_requirements).
THEOREM RequirementsAdvance == Spec => RequirementAdvances
  <1>1. AtHandInv /\ [Next]_vars =>
          [output.kind = "run" /\ output'.kind = "run" /\ output'.end # -1 =>
               output'.end >= output.end]_vars
    <2> SUFFICES ASSUME AtHandInv, Next, output.kind = "run", output'.kind = "run", output'.end # -1
                 PROVE  output'.end >= output.end
      OBVIOUS
    <2>1. output.end = -1 \/ output.end \in Nat
      BY PriceAssumption DEF AtHandInv, RunEndSound
    <2>2. CASE output' = output
      BY <2>1, <2>2
    <2>3. ASSUME NEW cal \in Calendars, NEW input \in RunInputs(cal), PrepareRun(input, cal)
          PROVE  output'.end >= output.end
      <3>1. output'.end \in Nat /\ \A d \in Sessions : d <= Cutoff(now) => d <= output'.end
        BY <2>3, RunOutput, PriceAssumption
      <3>2. CASE output.end = -1
        BY <3>1, <3>2
      <3>3. CASE output.end # -1
        <4>1. output.end \in Sessions /\ output.end <= Cutoff(output.checked)
              /\ output.checked \in Nat /\ output.checked <= now /\ now \in Nat
          BY <3>3 DEF AtHandInv, RunEndSound
        <4>2. Cutoff(output.checked) <= Cutoff(now) /\ Cutoff(output.checked) \in Int /\ Cutoff(now) \in Int
          BY <4>1, CutoffAdvances, CutoffBounds
        <4>3. output.end <= Cutoff(now)
          BY <2>1, <3>3, <4>1, <4>2
        <4> QED
          BY <2>1, <3>1, <3>3, <4>1, <4>3
      <3> QED
        BY <3>2, <3>3
    <2>4. output' = output \/ output'.kind \in {"findings", "joined"}
          \/ \E cal \in Calendars : \E input \in RunInputs(cal) : PrepareRun(input, cal)
      BY DEF Next, Tick, PrepareMarket, AcquireFx, AcquireBoj, Rates, AcceptPrices, Revalidate, JoinPriceFx
    <2> QED
      BY <2>2, <2>3, <2>4
  <1> QED
    BY <1>1, AtHandHolds, PTL DEF Spec, RequirementAdvances

-------------------------------------------------------------------------------
(* FinancialPreparation.                                                      *)

\* A list shows filings of its own day only, and a bundle has lists that were
\* acquired; what it counts is what was counted from them.
ListsOfTheirDay == \A l \in lists : \A d \in l.withdrawn : Filing[d].on = l.on
BundlesSound ==
    /\ DOMAIN financial = Reports
    /\ \A r \in Reports : financial[r].made =>
          /\ financial[r].lists \subseteq lists
          /\ financial[r].annual = AnnualPeriods([lists |-> financial[r].lists,
                                                  archives |-> financial[r].archives])

\* What is adopted, compared and paired is the review of facts that never change.
AdoptedAs(r, eligible) ==
    adoption[r].values = Values(r, Filing[r].start, eligible) /\ adoption[r].reviewed = Reviewed(r, eligible)
AdoptionsSound ==
    /\ DOMAIN adoption = Reports
    /\ \A r \in Reports : adoption[r].made =>
          \E eligible \in BOOLEAN : AdoptedAs(r, eligible)
ComparedYears(r) == {Filing[r].start, Filing[r].start - 1} \cap Required
ComparedValues(r) == [y \in ComparedYears(r) |-> Values(r, y, TRUE)]
ComparativesSound ==
    /\ DOMAIN comparative = Reports
    /\ \A r \in Reports : comparative[r].made =>
          /\ adoption[r].made /\ adoption[r].reviewed = Reviewed(r, TRUE)
          /\ comparative[r].values = ComparedValues(r)
PairValues(y) == [p \in {y} |-> Values(Amended, y, TRUE)]
PairSound ==
    pair.made => SamePairRecords(Filing[Original].start) /\ pair.values = PairValues(Filing[Original].start - 1)

\* A run and a merge are of bundles that do not change any more.
RunSound ==
    run.made => \E r \in Reports, withComparative \in BOOLEAN :
                   /\ adoption[r].made /\ (withComparative => comparative[r].made)
                   /\ run.accepted = Contributed(r, withComparative)
MergeSound ==
    merged.made => /\ \A r \in Reports : comparative[r].made /\ comparative[r] \in merged.records
                   /\ NoConflict(merged.records)
                   /\ merged.coverage = Coverage(merged.records)

FinancialInv ==
    /\ facts \in FactSets /\ ListsOfTheirDay /\ BundlesSound
    /\ AdoptionsSound /\ ComparativesSound /\ PairSound /\ RunSound /\ MergeSound

LEMMA FinancialStart == FinancialInit => FinancialInv
  <1> SUFFICES ASSUME FinancialInit PROVE FinancialInv
    OBVIOUS
  <1>1. /\ \A r \in Reports : ~financial[r].made /\ ~adoption[r].made /\ ~comparative[r].made
        /\ ~pair.made /\ ~run.made /\ ~merged.made
    BY DEF FinancialInit, NotMade
  <1>2. lists = {} /\ facts \in FactSets /\ DOMAIN financial = Reports /\ DOMAIN adoption = Reports
        /\ DOMAIN comparative = Reports
    BY DEF FinancialInit
  <1> QED
    BY <1>1, <1>2 DEF FinancialInv, ListsOfTheirDay, BundlesSound, AdoptionsSound, ComparativesSound,
                      PairSound, RunSound, MergeSound

\* The review of a report depends on the archives only.
LEMMA ReviewUnchanged ==
    ASSUME UNCHANGED facts
    PROVE  /\ \A d, y, eligible : Values(d, y, eligible)' = Values(d, y, eligible)
           /\ \A r, eligible : Reviewed(r, eligible)' = Reviewed(r, eligible)
           /\ \A r : ComparedValues(r)' = ComparedValues(r)
           /\ \A y : SamePairRecords(y)' = SamePairRecords(y) /\ PairValues(y)' = PairValues(y)
  <1>1. ASSUME NEW d, NEW m, NEW y PROVE Comparable(d, m, y)' = Comparable(d, m, y)
    BY DEF Comparable, Candidates
  <1>2. ASSUME NEW d, NEW m, NEW y, NEW eligible
        PROVE  AcceptedValue(d, m, y, eligible)' = AcceptedValue(d, m, y, eligible)
    BY <1>1 DEF AcceptedValue
  <1>3. ASSUME NEW d, NEW y, NEW eligible PROVE Values(d, y, eligible)' = Values(d, y, eligible)
    BY <1>2 DEF Values
  <1>4. ASSUME NEW r, NEW eligible PROVE Reviewed(r, eligible)' = Reviewed(r, eligible)
    BY <1>1 DEF Reviewed
  <1>5. ASSUME NEW y PROVE SamePairRecords(y)' = SamePairRecords(y)
    BY <1>3 DEF SamePairRecords
  <1>6. ASSUME NEW y PROVE PairValues(y)' = PairValues(y)
    BY <1>3 DEF PairValues
  <1>7. ASSUME NEW r PROVE ComparedValues(r)' = ComparedValues(r)
    BY <1>3 DEF ComparedValues, ComparedYears
  <1> QED
    BY <1>3, <1>4, <1>5, <1>6, <1>7

LEMMA AdoptionUnchanged ==
    ASSUME UNCHANGED facts, NEW r, adoption'[r] = adoption[r], NEW eligible
    PROVE  AdoptedAs(r, eligible)' = AdoptedAs(r, eligible)
  <1> DEFINE start == Filing[r].start
  <1> HIDE DEF start
  <1>1. Values(r, start, eligible)' = Values(r, start, eligible) /\ Reviewed(r, eligible)' = Reviewed(r, eligible)
    BY ReviewUnchanged
  <1> QED
    BY <1>1 DEF AdoptedAs, start

LEMMA AdoptionsKept ==
    ASSUME AdoptionsSound, UNCHANGED <<facts, adoption>>
    PROVE  AdoptionsSound'
  <1> SUFFICES ASSUME NEW r \in Reports, adoption[r].made
               PROVE  \E eligible \in BOOLEAN : AdoptedAs(r, eligible)'
    BY DEF AdoptionsSound
  <1>1. PICK eligible \in BOOLEAN : AdoptedAs(r, eligible)
    BY DEF AdoptionsSound
  <1> QED
    BY <1>1, AdoptionUnchanged

LEMMA ComparativesKept ==
    ASSUME ComparativesSound, UNCHANGED <<facts, adoption, comparative>>
    PROVE  ComparativesSound'
  <1> SUFFICES ASSUME NEW r \in Reports, comparative[r].made
               PROVE  /\ adoption[r].made /\ adoption[r].reviewed = Reviewed(r, TRUE)'
                      /\ comparative[r].values = ComparedValues(r)'
    BY DEF ComparativesSound
  <1> QED
    BY ReviewUnchanged DEF ComparativesSound

LEMMA PairKept ==
    ASSUME PairSound, UNCHANGED <<facts, pair>>
    PROVE  PairSound'
  <1> DEFINE y == Filing[Original].start
             z == Filing[Original].start - 1
  <1>1. pair.made => SamePairRecords(y) /\ pair.values = PairValues(z)
    BY DEF PairSound
  <1> HIDE DEF y, z
  <1>2. pair.made => SamePairRecords(y)' /\ pair.values = PairValues(z)'
    BY <1>1, ReviewUnchanged
  <1> QED
    BY <1>2 DEF PairSound, y, z

LEMMA ContributionKept ==
    ASSUME NEW r, adoption'[r] = adoption[r], comparative'[r] = comparative[r], NEW withComparative
    PROVE  Contributed(r, withComparative)' = Contributed(r, withComparative)
  <1>1. {f \in {Filing[r].start} \X Metrics : adoption'[r].values[f[2]] # NoValue}
          = {f \in {Filing[r].start} \X Metrics : adoption[r].values[f[2]] # NoValue}
    OBVIOUS
  <1>2. {f \in (DOMAIN comparative'[r].values) \X Metrics : Accepted(comparative'[r], f[1], f[2])}
          = {f \in (DOMAIN comparative[r].values) \X Metrics : Accepted(comparative[r], f[1], f[2])}
    OBVIOUS
  <1> QED
    BY <1>1, <1>2 DEF Contributed

\* More lists and archives change nothing that was made from the earlier ones.
LEMMA EvidenceStep ==
    ASSUME FinancialInv, lists \subseteq lists', ListsOfTheirDay',
           UNCHANGED <<facts, financial, adoption, comparative, pair, run, merged>>
    PROVE  FinancialInv'
  <1>1. BundlesSound'
    BY DEF FinancialInv, BundlesSound
  <1>2. AdoptionsSound' /\ ComparativesSound' /\ PairSound'
    BY AdoptionsKept, ComparativesKept, PairKept DEF FinancialInv
  <1>3. RunSound' /\ MergeSound'
    BY DEF FinancialInv, RunSound, MergeSound, Contributed
  <1> QED
    BY <1>1, <1>2, <1>3 DEF FinancialInv

LEMMA AcquisitionStep ==
    ASSUME FinancialInv,
           \/ \E d \in Docs : Withdraw(d)
           \/ \E on \in {Filing[d].on : d \in Docs} : AcquireList(on)
           \/ AcquirePair \/ \E r \in Reports : AcquireReport(r)
    PROVE  FinancialInv'
  <1>1. UNCHANGED <<facts, financial, adoption, comparative, pair, run, merged>> /\ lists \subseteq lists'
    BY DEF Withdraw, AcquireList, AcquirePair, AcquireReport, evidence
  <1>2. ListsOfTheirDay'
    <2>1. CASE \E on : AcquireList(on)
      BY <2>1 DEF FinancialInv, ListsOfTheirDay, AcquireList
    <2>2. CASE UNCHANGED lists
      BY <2>2 DEF FinancialInv, ListsOfTheirDay
    <2> QED
      BY <2>1, <2>2 DEF Withdraw, AcquirePair, AcquireReport, evidence
  <1> QED
    BY <1>1, <1>2, EvidenceStep

LEMMA PrepareFinancialStep ==
    ASSUME FinancialInv, NEW r \in Reports, NEW chosen \in SUBSET lists, PrepareFinancial(r, chosen)
    PROVE  FinancialInv'
  <1>1. UNCHANGED <<facts, lists, adoption, comparative, pair, run, merged>>
    BY DEF PrepareFinancial, evidence
  <1>2. BundlesSound'
    BY <1>1 DEF FinancialInv, BundlesSound, PrepareFinancial
  <1>3. AdoptionsSound' /\ ComparativesSound' /\ PairSound'
    BY <1>1, AdoptionsKept, ComparativesKept, PairKept DEF FinancialInv
  <1>4. RunSound' /\ MergeSound' /\ ListsOfTheirDay'
    BY <1>1 DEF FinancialInv, RunSound, MergeSound, Contributed, ListsOfTheirDay
  <1> QED
    BY <1>1, <1>2, <1>3, <1>4 DEF FinancialInv

\* Who is adopted was not adopted, so that no run or comparison rests on it yet.
LEMMA PrepareAcceptanceStep ==
    ASSUME FinancialInv, NEW r \in Reports, PrepareAcceptance(r)
    PROVE  FinancialInv'
  <1>1. UNCHANGED <<facts, lists, financial, comparative, pair, run, merged>>
    BY DEF PrepareAcceptance, evidence
  <1>2. BundlesSound' /\ ListsOfTheirDay' /\ MergeSound'
    BY <1>1 DEF FinancialInv, BundlesSound, ListsOfTheirDay, MergeSound
  <1>3. PICK eligible \in BOOLEAN :
          adoption' = [adoption EXCEPT ![r] = [made |-> TRUE, reviewed |-> Reviewed(r, eligible),
                                               values |-> Values(r, Filing[r].start, eligible)]]
    BY DEF PrepareAcceptance, MappingEligible, Eligible
  <1>4. DOMAIN adoption' = Reports /\ ~adoption[r].made
        /\ \A q \in Reports : q # r => adoption'[q] = adoption[q]
    BY <1>3 DEF FinancialInv, AdoptionsSound, PrepareAcceptance
  <1>5. /\ adoption'[r].values = Values(r, Filing[r].start, eligible)
        /\ adoption'[r].reviewed = Reviewed(r, eligible)
    BY <1>3 DEF FinancialInv, AdoptionsSound
  <1>6. AdoptionsSound'
    <2> SUFFICES ASSUME NEW q \in Reports, adoption'[q].made
                 PROVE  \E e \in BOOLEAN : AdoptedAs(q, e)'
      BY <1>4 DEF AdoptionsSound
    <2>1. CASE q = r
      <3>1. AdoptedAs(r, eligible)'
        BY <1>1, <1>5, ReviewUnchanged DEF AdoptedAs
      <3> QED
        BY <2>1, <3>1
    <2>2. CASE q # r
      <3>1. PICK e \in BOOLEAN : AdoptedAs(q, e)
        BY <1>4, <2>2 DEF FinancialInv, AdoptionsSound
      <3> QED
        BY <1>1, <1>4, <2>2, <3>1, AdoptionUnchanged
    <2> QED
      BY <2>1, <2>2
  <1>7. ComparativesSound' /\ PairSound'
    BY <1>1, <1>4, ReviewUnchanged DEF FinancialInv, ComparativesSound, PairSound
  <1>8. RunSound'
    <2> SUFFICES ASSUME run.made PROVE RunSound'
      BY <1>1 DEF RunSound
    <2>1. PICK q \in Reports, withComparative \in BOOLEAN :
            /\ adoption[q].made /\ (withComparative => comparative[q].made)
            /\ run.accepted = Contributed(q, withComparative)
      BY DEF FinancialInv, RunSound
    <2>2. q # r /\ adoption'[q] = adoption[q]
      BY <1>4, <2>1
    <2>3. Contributed(q, withComparative)' = Contributed(q, withComparative)
      BY <1>1, <2>2, ContributionKept
    <2> QED
      BY <1>1, <2>1, <2>2, <2>3 DEF RunSound
  <1> QED
    BY <1>1, <1>2, <1>6, <1>7, <1>8 DEF FinancialInv

LEMMA PrepareComparativeStep ==
    ASSUME FinancialInv, NEW r \in Reports, PrepareComparative(r)
    PROVE  FinancialInv'
  <1>1. UNCHANGED <<facts, lists, financial, adoption, pair, run, merged>>
    BY DEF PrepareComparative, evidence
  <1>2. BundlesSound' /\ ListsOfTheirDay'
    BY <1>1 DEF FinancialInv, BundlesSound, ListsOfTheirDay
  <1>3. AdoptionsSound' /\ PairSound'
    BY <1>1, AdoptionsKept, PairKept DEF FinancialInv
  <1>4. /\ DOMAIN comparative' = Reports /\ ~comparative[r].made
        /\ \A q \in Reports : q # r => comparative'[q] = comparative[q]
        /\ comparative'[r].values = ComparedValues(r)
    BY DEF FinancialInv, ComparativesSound, PrepareComparative, ComparedValues, ComparedYears
  <1>5. adoption[r].made /\ adoption[r].reviewed = Reviewed(r, TRUE)
    BY DEF PrepareComparative, AgreesWithAdoption
  <1>6. ComparativesSound'
    BY <1>1, <1>4, <1>5, ReviewUnchanged DEF FinancialInv, ComparativesSound
  <1>7. RunSound' /\ MergeSound'
    BY <1>1, <1>4 DEF FinancialInv, RunSound, MergeSound, Contributed
  <1> QED
    BY <1>1, <1>2, <1>3, <1>6, <1>7 DEF FinancialInv

LEMMA OutcomeStep ==
    ASSUME FinancialInv,
           \/ PreparePair
           \/ \E r \in Reports, withComparative \in BOOLEAN : PrepareFinancialRun(r, withComparative)
           \/ \E withPair \in BOOLEAN : PrepareMultiReport(withPair)
    PROVE  FinancialInv'
  <1>1. UNCHANGED <<facts, lists, financial, adoption, comparative>>
    BY DEF PreparePair, PrepareFinancialRun, PrepareMultiReport, evidence
  <1>2. BundlesSound' /\ ListsOfTheirDay'
    BY <1>1 DEF FinancialInv, BundlesSound, ListsOfTheirDay
  <1>3. AdoptionsSound' /\ ComparativesSound'
    BY <1>1, AdoptionsKept, ComparativesKept DEF FinancialInv
  <1>4. PairSound'
    <2>1. CASE PreparePair
      BY <1>1, <2>1, ReviewUnchanged DEF PreparePair, PairSound, PairValues
    <2>2. CASE UNCHANGED pair
      BY <1>1, <2>2, PairKept DEF FinancialInv
    <2> QED
      BY <2>1, <2>2 DEF PrepareFinancialRun, PrepareMultiReport
  <1>5. RunSound'
    <2>1. CASE \E r \in Reports, withComparative \in BOOLEAN : PrepareFinancialRun(r, withComparative)
      <3>1. PICK r \in Reports, withComparative \in BOOLEAN : PrepareFinancialRun(r, withComparative)
        BY <2>1
      <3>2. Contributed(r, withComparative)' = Contributed(r, withComparative)
        BY <1>1, ContributionKept
      <3>3. run'.made /\ run'.accepted = Contributed(r, withComparative)
            /\ adoption[r].made /\ (withComparative => comparative[r].made)
        BY <3>1 DEF PrepareFinancialRun
      <3> QED
        BY <1>1, <3>2, <3>3 DEF RunSound
    <2>2. CASE UNCHANGED run
      BY <1>1, <2>2 DEF FinancialInv, RunSound, Contributed
    <2> QED
      BY <2>1, <2>2 DEF PreparePair, PrepareMultiReport
  <1>6. MergeSound'
    <2>1. CASE \E withPair \in BOOLEAN : PrepareMultiReport(withPair)
      BY <1>1, <2>1 DEF PrepareMultiReport, MergeSound
    <2>2. CASE UNCHANGED merged
      BY <1>1, <2>2 DEF FinancialInv, MergeSound
    <2> QED
      BY <2>1, <2>2 DEF PreparePair, PrepareFinancialRun
  <1> QED
    BY <1>1, <1>2, <1>3, <1>4, <1>5, <1>6 DEF FinancialInv

LEMMA FinancialStep == FinancialInv /\ [FinancialNext]_financialVars => FinancialInv'
  <1> SUFFICES ASSUME FinancialInv, [FinancialNext]_financialVars PROVE FinancialInv'
    OBVIOUS
  <1>1. CASE UNCHANGED financialVars
    BY <1>1, EvidenceStep DEF financialVars, FinancialInv, ListsOfTheirDay
  <1> QED
    BY <1>1, AcquisitionStep, PrepareFinancialStep, PrepareAcceptanceStep, PrepareComparativeStep,
       OutcomeStep DEF FinancialNext

LEMMA FinancialHolds == FinancialSpec => []FinancialInv
  BY FinancialStart, FinancialStep, PTL DEF FinancialSpec


-------------------------------------------------------------------------------
\* A period counts as an annual report only when the issuer's own report of it,
\* no correction, was never shown withdrawn by a list of the bundle, for any
\* filings and whatever the provider withdraws (evaluate_financial).
THEOREM CountedPeriodsSound == FinancialSpec => []CountedIsSound
  <1>1. FinancialInv => CountedIsSound
    <2> SUFFICES ASSUME FinancialInv, NEW r \in Reports, financial[r].made,
                        NEW y \in financial[r].annual
                 PROVE  \E d \in financial[r].archives :
                            /\ Filing[d].start = y /\ Filing[d].type = "120"
                            /\ \A l \in financial[r].lists : d \notin l.withdrawn
      BY DEF CountedIsSound, Bundles
    <2> DEFINE bundle == [lists |-> financial[r].lists, archives |-> financial[r].archives]
    <2>1. PICK d \in Docs : Eligible(d, bundle) /\ Filing[d].type \in {"120", "130"} /\ Filing[d].start = y
      BY DEF FinancialInv, BundlesSound, AnnualPeriods
    <2>2. d \in financial[r].archives /\ Filing[d].type = "120"
          /\ {(d \in l.withdrawn) : l \in {c \in financial[r].lists : c.on = Filing[d].on}} = {FALSE}
      BY <2>1 DEF Eligible, CorrectionReasons, SnapshotsAgree, Snapshots
    <2>3. ASSUME NEW l \in financial[r].lists, d \in l.withdrawn PROVE FALSE
      <3>1. l.on = Filing[d].on
        BY <2>3 DEF FinancialInv, BundlesSound, ListsOfTheirDay
      <3>2. (d \in l.withdrawn) \in {(d \in k.withdrawn) : k \in {c \in financial[r].lists : c.on = Filing[d].on}}
        BY <2>3, <3>1
      <3> QED
        BY <2>2, <2>3, <3>2
    <2> QED
      BY <2>1, <2>2, <2>3
  <1> QED
    BY <1>1, FinancialHolds, PTL

\* The one value of a finite set of one.
LEMMA OnlyOne ==
    ASSUME NEW S, IsFiniteSet(S), Cardinality(S) = 1
    PROVE  S = {Only(S)}
  <1>1. PICK x : S = {x}
    BY FS_Singleton
  <1>2. Only(S) \in S
    BY <1>1 DEF Only
  <1> QED
    BY <1>1, <1>2

\* What is accepted is the value of each comparable fact.
LEMMA AcceptedByAll ==
    ASSUME facts \in FactSets, NEW d, NEW m, NEW y, NEW eligible,
           AcceptedValue(d, m, y, eligible) # NoValue
    PROVE  /\ eligible
           /\ {f.value : f \in Comparable(d, m, y)} = {AcceptedValue(d, m, y, eligible)}
  <1> DEFINE C == Comparable(d, m, y)
             S == {f.value : f \in C}
  <1>1. IsFiniteSet(C)
    <2>1. IsFiniteSet(facts)
      BY FinancialAssumption
    <2>2. C \subseteq facts
      BY DEF Comparable, Candidates
    <2> QED
      BY <2>1, <2>2, FS_Subset
  <1>2. eligible /\ Cardinality(S) = 1 /\ AcceptedValue(d, m, y, eligible) = Only(S)
    BY DEF AcceptedValue
  <1> HIDE DEF C
  <1>3. IsFiniteSet(S)
    <2> DEFINE value == [f \in C |-> f.value]
    <2>1. value \in Surjection(C, S)
      BY DEF Surjection
    <2> QED
      BY <1>1, <2>1, FS_Surjection
  <1> HIDE DEF S
  <1>4. S = {Only(S)}
    BY <1>2, <1>3, OnlyOne
  <1> QED
    BY <1>2, <1>4 DEF S, C

\* Every number adopted, compared or taken from the pair is the number of every
\* comparable fact of its report, for any facts (review_metric, adopt_metric).
THEOREM AcceptedNumbersUnanimous == FinancialSpec => []AcceptedIsUnanimous
  <1>1. ASSUME FinancialInv, NEW d, NEW y, NEW eligible, NEW m \in Metrics,
               Values(d, y, eligible)[m] # NoValue, NEW f \in Candidates(d, m, y), f.fit
        PROVE  f.value = Values(d, y, eligible)[m]
    <2>1. Values(d, y, eligible)[m] = AcceptedValue(d, m, y, eligible)
      BY DEF Values
    <2>2. f \in Comparable(d, m, y)
      BY <1>1 DEF Comparable
    <2>3. f.value \in {g.value : g \in Comparable(d, m, y)}
      BY <2>2
    <2>4. {g.value : g \in Comparable(d, m, y)} = {AcceptedValue(d, m, y, eligible)}
      BY <1>1, <2>1, AcceptedByAll DEF FinancialInv
    <2> QED
      BY <2>1, <2>3, <2>4
  <1>2. FinancialInv => AcceptedIsUnanimous
    <2> SUFFICES ASSUME FinancialInv PROVE AcceptedIsUnanimous
      OBVIOUS
    <2>1. ASSUME NEW r \in Reports, adoption[r].made
          PROVE  \E eligible \in BOOLEAN : adoption[r].values = Values(r, Filing[r].start, eligible)
      BY <2>1 DEF FinancialInv, AdoptionsSound, AdoptedAs
    <2>2. ASSUME NEW r \in Reports, comparative[r].made
          PROVE  comparative[r].values = [y \in ComparedYears(r) |-> Values(r, y, TRUE)]
      BY <2>2 DEF FinancialInv, ComparativesSound, ComparedValues
    <2>3. pair.made => \A y \in DOMAIN pair.values : pair.values[y] = Values(Amended, y, TRUE)
      BY DEF FinancialInv, PairSound, PairValues
    <2>4. ASSUME NEW r \in Reports, comparative[r].made, NEW y \in DOMAIN comparative[r].values
          PROVE  comparative[r].values[y] = Values(r, y, TRUE)
      BY <2>2, <2>4
    <2>5. ASSUME NEW r \in Reports, adoption[r].made, NEW m \in Metrics, adoption[r].values[m] # NoValue,
                 NEW f \in Candidates(r, m, Filing[r].start), f.fit
          PROVE  f.value = adoption[r].values[m]
      <3> DEFINE y == Filing[r].start
      <3>1. PICK eligible \in BOOLEAN : adoption[r].values = Values(r, y, eligible)
        BY <2>1, <2>5
      <3> HIDE DEF y
      <3>2. ASSUME NEW g \in Candidates(r, m, y), g.fit PROVE g.value = adoption[r].values[m]
        BY <1>1, <2>5, <3>1, <3>2
      <3> QED
        BY <2>5, <3>2 DEF y
    <2>6. ASSUME NEW r \in Reports, comparative[r].made, NEW y \in DOMAIN comparative[r].values,
                 NEW m \in Metrics, comparative[r].values[y][m] # NoValue,
                 NEW f \in Candidates(r, m, y), f.fit
          PROVE  f.value = comparative[r].values[y][m]
      <3>1. PICK eligible \in BOOLEAN : comparative[r].values[y] = Values(r, y, eligible)
        BY <2>4, <2>6
      <3> QED
        BY <1>1, <2>6, <3>1
    <2>7. ASSUME pair.made, NEW y \in DOMAIN pair.values, NEW m \in Metrics, pair.values[y][m] # NoValue,
                 NEW f \in Candidates(Amended, m, y), f.fit
          PROVE  f.value = pair.values[y][m]
      <3>1. PICK eligible \in BOOLEAN : pair.values[y] = Values(Amended, y, eligible)
        BY <2>3, <2>7
      <3> QED
        BY <1>1, <2>7, <3>1
    <2> QED
      BY <2>5, <2>6, <2>7 DEF AcceptedIsUnanimous
  <1> QED
    BY <1>2, FinancialHolds, PTL

\* A year is complete only with one number for each metric over all the reports
\* merged; a merge has what a run of one of its reports had; and what is taken
\* from an amendment does not differ from its original in either year
\* (merge_coverage, evaluate_financial_run, compare_pair_records).
THEOREM MergesConsistent == FinancialSpec => []MergedIsConsistent
  <1>1. ASSUME FinancialInv, merged.made, NEW y \in Required, NEW m \in merged.coverage[y]
        PROVE  Cardinality({rec.values[y][m] : rec \in {q \in merged.records : Accepted(q, y, m)}}) = 1
    <2>1. m \in Metrics /\ \E rec \in merged.records : Accepted(rec, y, m)
      BY <1>1 DEF FinancialInv, MergeSound, Coverage
    <2>2. PICK rec \in merged.records : Accepted(rec, y, m)
      BY <2>1
    <2>3. \A q \in merged.records : Accepted(q, y, m) => q.values[y][m] = rec.values[y][m]
      BY <1>1, <2>1, <2>2 DEF FinancialInv, MergeSound, NoConflict
    <2>4. {q.values[y][m] : q \in {p \in merged.records : Accepted(p, y, m)}} = {rec.values[y][m]}
      BY <2>2, <2>3
    <2> QED
      BY <2>4, FS_Singleton
  <1>2. ASSUME FinancialInv, merged.made, run.made, NEW f \in run.accepted, f[1] \in Required
        PROVE  f[2] \in merged.coverage[f[1]]
    <2>1. PICK r \in Reports, withComparative \in BOOLEAN :
            adoption[r].made /\ run.accepted = Contributed(r, withComparative)
      BY <1>2 DEF FinancialInv, RunSound
    <2>2. comparative[r] \in merged.records /\ comparative[r].made
          /\ comparative[r].values = ComparedValues(r) /\ merged.coverage = Coverage(merged.records)
      BY <1>2 DEF FinancialInv, MergeSound, ComparativesSound
    <2>3. f[2] \in Metrics /\ Accepted(comparative[r], f[1], f[2])
      <3>1. CASE withComparative
        BY <2>1, <3>1 DEF Contributed
      <3>2. CASE ~withComparative
        <4>1. f[1] = Filing[r].start /\ f[2] \in Metrics /\ adoption[r].values[f[2]] # NoValue
          BY <2>1, <3>2 DEF Contributed
        <4>2. PICK eligible \in BOOLEAN : adoption[r].values = Values(r, f[1], eligible)
          <5>1. PICK eligible \in BOOLEAN : AdoptedAs(r, eligible)
            BY <1>2, <2>1 DEF FinancialInv, AdoptionsSound
          <5> QED
            BY <4>1, <5>1 DEF AdoptedAs
        <4>3. AcceptedValue(r, f[2], f[1], eligible) # NoValue
          BY <4>1, <4>2 DEF Values
        <4>4. eligible
          BY <1>2, <4>3, AcceptedByAll DEF FinancialInv
        <4>5. f[1] \in ComparedYears(r)
          BY <1>2, <4>1 DEF ComparedYears
        <4>6. f[1] \in DOMAIN comparative[r].values /\ comparative[r].values[f[1]] = Values(r, f[1], TRUE)
          BY <2>2, <4>5 DEF ComparedValues
        <4>7. Values(r, f[1], TRUE)[f[2]] = AcceptedValue(r, f[2], f[1], TRUE)
          BY <4>1 DEF Values
        <4> QED
          BY <4>1, <4>3, <4>4, <4>6, <4>7 DEF Accepted
      <3> QED
        BY <3>1, <3>2
    <2> QED
      BY <1>2, <2>2, <2>3 DEF Coverage
  <1>3. ASSUME FinancialInv, pair.made, NEW y \in {Filing[Original].start, Filing[Original].start - 1},
               NEW m \in Metrics
        PROVE  {f.value : f \in Comparable(Original, m, y)} = {f.value : f \in Comparable(Amended, m, y)}
    <2>1. Values(Original, y, TRUE)[m] = Values(Amended, y, TRUE)[m] /\ Values(Amended, y, TRUE)[m] # NoValue
      BY <1>3 DEF FinancialInv, PairSound, SamePairRecords
    <2>2. /\ Values(Original, y, TRUE)[m] = AcceptedValue(Original, m, y, TRUE)
          /\ Values(Amended, y, TRUE)[m] = AcceptedValue(Amended, m, y, TRUE)
      BY DEF Values
    <2>3. facts \in FactSets
      BY <1>3 DEF FinancialInv
    <2>4. {f.value : f \in Comparable(Original, m, y)} = {AcceptedValue(Original, m, y, TRUE)}
      BY <2>1, <2>2, <2>3, AcceptedByAll
    <2>5. {f.value : f \in Comparable(Amended, m, y)} = {AcceptedValue(Amended, m, y, TRUE)}
      BY <2>1, <2>2, <2>3, AcceptedByAll
    <2> QED
      BY <2>1, <2>2, <2>4, <2>5
  <1>4. FinancialInv => MergedIsConsistent
    BY <1>1, <1>2, <1>3 DEF MergedIsConsistent
  <1> QED
    BY <1>4, FinancialHolds, PTL

===============================================================================
