-------------------------- MODULE YahooExchange_proofs --------------------------
(***************************************************************************)
(* What holds of every Yahoo exchange, for any pages, numbers of attempts  *)
(* and bounds: the inductive invariant ExchangeInv, and from it the rules  *)
(* of YahooExchange and the action property of its session.                *)
(***************************************************************************)
EXTENDS YahooExchange, TLAPS

Sending == {"started", "permitted", "unissued", "stopped", "cleared"}
Holding == {"reserved", "gated", "blocked", "broken", "answered"} \cup Sending
Places == {"idle", "over", "waiting", "retrying", "publishing"} \cup Holding
Clean == {"none", "ok", "notfound", "denied"}
Unfinished == Live \cup {"unknown"}

ThreadTypes ==
    /\ at \in Places /\ asked \in Pages \cup {"none"}
    /\ poisoned \in BOOLEAN /\ pending \in Charts \cup {"none"} /\ usedFallback \in BOOLEAN
    /\ strategy \in {"basic", "csrf"} /\ failedStrategy \in {"basic", "csrf", "none"}
    /\ done \subseteq Charts
    /\ portPoisoned \in BOOLEAN /\ uncertain \in BOOLEAN
    /\ owned \in BOOLEAN /\ recovered \in BOOLEAN

RowTypes ==
    /\ result \in Terminal \cup {"none"}
    /\ attempt \in [Sequences -> Live \cup Terminal \cup {"none"}]
    /\ gate \in [Sequences -> {"none", "active", "released", "recovered"}]
    /\ page \in [Sequences -> Pages \cup {"none"}]
    /\ answer \in [Sequences -> Sent \cup {"none"}]
    /\ published \in [Sequences -> BOOLEAN]

BoundTypes ==
    /\ waited \in -MaxWait .. MaxWait
    /\ failures \in 0 .. MaxFailures /\ rollbacks \in 0 .. MaxRollbacks

TypeInv == ThreadTypes /\ RowTypes /\ BoundTypes

\* What the place of the thread says of its attempt; another owner's recovery may
\* have written "unknown" to it in the meantime.
PlaceInv ==
    \A k \in Sequences : Current(k) =>
        /\ at \in Holding \cup {"publishing"} => page[k] = asked
        /\ at \in {"reserved", "gated", "blocked"} => attempt[k] = "reserved"
        /\ at \in Sending => attempt[k] \in {"started", "unknown"} /\ answer[k] = "none"
        /\ at = "answered" => attempt[k] \in {"started", "unknown"} /\ answer[k] # "none"
        /\ at = "publishing" =>
               /\ answer[k] \in Answers
               /\ attempt[k] = IF answer[k] = "ok" THEN "succeeded" ELSE "failed"

\* A sure owner holds nothing but its present attempt and the gates of it.
HeldInv ==
    owned /\ ~uncertain =>
        \A k \in Sequences : attempt[k] \in Unfinished \/ gate[k] = "active" =>
            Current(k) /\ at \in Holding

\* The answers are those of attempts that have left.
AnswerInv ==
    \A k \in Sequences :
        /\ answer[k] # "none" => attempt[k] \notin {"none", "reserved"}
        /\ answer[k] = "lost" => attempt[k] \in {"started", "unknown"}
        /\ answer[k] = "notfound" => page[k] = "cookie"

\* Whoever waits for an answer is not poisoned, and a chart that is asked for while
\* another is pending is that one.
SessionInv ==
    /\ at \notin Outside => ~poisoned
    /\ uncertain => poisoned /\ at \in Outside
    /\ at \notin Outside /\ asked \in Charts => pending \in {"none", asked}

\* Until the session is poisoned, an answer that ends it is the present one.
CleanInv ==
    ~poisoned =>
        \A k \in Sequences : \/ answer[k] \in Clean
                             \/ Current(k) /\ at \in {"answered", "broken", "publishing"}

Backed == \E k \in Sequences : /\ page[k] = "history" /\ answer[k] = "ok"
                               /\ attempt[k] = "succeeded" /\ published[k]
BackedInv ==
    /\ "history" \in done /\ pending # "history" /\ ~poisoned => Backed
    /\ result = "succeeded" => Backed

ResultInv ==
    /\ recovered => ~owned
    /\ owned /\ at # "over" => result = "none"
    /\ result \in {"succeeded", "failed"} => \A k \in Sequences : attempt[k] \notin Unfinished

ExchangeInv ==
    TypeInv /\ PlaceInv /\ HeldInv /\ AnswerInv /\ SessionInv /\ CleanInv /\ BackedInv /\ ResultInv

-------------------------------------------------------------------------------
\* There is one present attempt.
LEMMA OneCurrent ==
    ASSUME NEW j \in Sequences, NEW k \in Sequences, Current(j), Current(k)
    PROVE  j = k
  BY YahooExchangeAssumption DEF Current, Sequences

\* What changes the state of an attempt that there is leaves the present one.
LEMMA SameCurrent ==
    ASSUME NEW k \in Sequences, Current(k), NEW state, state # "none", RowTypes,
           attempt' = [attempt EXCEPT ![k] = state]
    PROVE  \A j \in Sequences : Current(j)' <=> j = k
  <1>1. \A j \in Sequences : attempt'[j] = "none" <=> attempt[j] = "none"
    BY DEF Current
  <1>2. \A j \in Sequences : Current(j)' <=> Current(j)
    BY <1>1 DEF Current
  <1> QED
    BY <1>2, OneCurrent

\* A success stays backed by a step that leaves the attempts that succeeded.
LEMMA BackedStays ==
    ASSUME Backed,
           \A j \in Sequences : attempt[j] = "succeeded" =>
               /\ attempt'[j] = "succeeded" /\ page'[j] = page[j] /\ answer'[j] = answer[j]
               /\ published[j] => published'[j]
    PROVE  Backed'
  BY DEF Backed

LEMMA AskApprovedKeeps ==
    ASSUME ExchangeInv, NEW w \in Pages \cup Unapproved, AskApproved(w)
    PROVE  ExchangeInv'
  <1>1. ThreadTypes'
    <2>1. at' \in Places
      BY DEF Places, AskApproved
    <2> QED
      BY <2>1 DEF ExchangeInv, TypeInv, ThreadTypes, AskApproved, Approved, Classified, BoundChart,
         StrategyOf, portVars, leaseVars, Unapproved
  <1>2. BoundTypes'
    BY YahooExchangeAssumption DEF ExchangeInv, TypeInv, BoundTypes, AskApproved, boundVars
  <1>3. RowTypes'
    BY DEF ExchangeInv, TypeInv, RowTypes, AskApproved, rowVars, wireVars
  <1>4. PlaceInv'
    BY YahooExchangeAssumption DEF PlaceInv, Holding, Sending, AskApproved
  <1>5. HeldInv'
    BY YahooExchangeAssumption DEF ExchangeInv, HeldInv, Holding, Sending, AskApproved, portVars,
       leaseVars, rowVars
  <1>6. AnswerInv'
    BY DEF ExchangeInv, AnswerInv, AskApproved, rowVars, wireVars
  <1>7. SessionInv'
    BY DEF ExchangeInv, SessionInv, AskApproved, Approved, ChartKind, portVars
  <1>8. CleanInv'
    BY YahooExchangeAssumption DEF ExchangeInv, CleanInv, AskApproved, wireVars
  <1>9. BackedInv'
    BY DEF ExchangeInv, BackedInv, Backed, AskApproved, rowVars, wireVars
  <1>10. ResultInv'
    BY DEF ExchangeInv, ResultInv, AskApproved, leaseVars, rowVars
  <1> QED
    BY <1>1, <1>2, <1>3, <1>4, <1>5, <1>6, <1>7, <1>8, <1>9, <1>10 DEF ExchangeInv, TypeInv

LEMMA AskRejectedKeeps ==
    ASSUME ExchangeInv, NEW w \in Pages \cup Unapproved, AskRejected(w)
    PROVE  ExchangeInv'
  <1>1. ThreadTypes'
    <2>1. at' \in Places
      BY DEF ExchangeInv, TypeInv, ThreadTypes, AskRejected
    <2> QED
      BY <2>1 DEF ExchangeInv, TypeInv, ThreadTypes, AskRejected, KeepSession, portVars, leaseVars
  <1>2. BoundTypes'
    BY YahooExchangeAssumption DEF ExchangeInv, TypeInv, BoundTypes, AskRejected, boundVars
  <1>3. RowTypes'
    BY DEF ExchangeInv, TypeInv, RowTypes, AskRejected, rowVars, wireVars
  <1>4. PlaceInv'
    BY YahooExchangeAssumption DEF PlaceInv, Holding, Sending, AskRejected
  <1>5. HeldInv'
    BY YahooExchangeAssumption DEF ExchangeInv, HeldInv, Current, AskRejected, portVars, leaseVars,
       rowVars
  <1>6. AnswerInv'
    BY DEF ExchangeInv, AnswerInv, AskRejected, rowVars, wireVars
  <1>7. SessionInv'
    BY DEF SessionInv, Outside, AskRejected
  <1>8. CleanInv'
    BY YahooExchangeAssumption DEF CleanInv, AskRejected
  <1>9. BackedInv'
    BY DEF ExchangeInv, BackedInv, Backed, AskRejected, rowVars, wireVars
  <1>10. ResultInv'
    BY DEF ExchangeInv, ResultInv, AskRejected, leaseVars, rowVars
  <1> QED
    BY <1>1, <1>2, <1>3, <1>4, <1>5, <1>6, <1>7, <1>8, <1>9, <1>10 DEF ExchangeInv, TypeInv

LEMMA ReserveKeeps ==
    ASSUME ExchangeInv, Reserve
    PROVE  ExchangeInv'
  <1>s. \/ Fails /\ Raise /\ portPoisoned' \in {portPoisoned, TRUE} /\ UNCHANGED <<attempt, page>>
        \/ \E k \in Sequences :
             /\ Succeeds /\ ActiveEnvelope
             /\ NextSequence(k) /\ result = "none"
             /\ {attempt[j] : j \in Sequences} \cap (Live \cup {"unknown"}) = {}
             /\ attempt' = [attempt EXCEPT ![k] = "reserved"]
             /\ page' = [page EXCEPT ![k] = asked]
             /\ at' = "reserved"
             /\ Stay /\ UNCHANGED portPoisoned
    BY DEF Reserve
  <1>u. /\ at = "waiting" /\ KeepSession
        /\ UNCHANGED <<uncertain, leaseVars, result, gate, answer, published, rollbacks>>
    BY DEF Reserve
  <1>1. CASE Fails /\ Raise /\ portPoisoned' \in {portPoisoned, TRUE} /\ UNCHANGED <<attempt, page>>
    <2>1. ThreadTypes'
      <3>1. at' \in Places
        BY <1>u, <1>1 DEF Places, Raise, Leave
      <3> QED
        BY <1>u, <1>1, <3>1 DEF ExchangeInv, TypeInv, ThreadTypes, Raise, Leave, KeepSession,
           leaseVars
    <2>2. BoundTypes'
      BY <1>u, <1>1, YahooExchangeAssumption DEF ExchangeInv, TypeInv, BoundTypes, Fails, Raise,
         Leave
    <2>3. RowTypes'
      BY <1>u, <1>1 DEF ExchangeInv, TypeInv, RowTypes
    <2>4. PlaceInv'
      BY <1>u, <1>1 DEF PlaceInv, Holding, Sending, Raise, Leave
    <2>5. HeldInv'
      BY <1>u, <1>1 DEF ExchangeInv, HeldInv, Holding, Sending, leaseVars
    <2>6. AnswerInv'
      BY <1>u, <1>1 DEF ExchangeInv, AnswerInv
    <2>7. SessionInv'
      BY <1>u, <1>1 DEF SessionInv, Outside, Raise, Leave
    <2>8. CleanInv'
      BY <1>u, <1>1 DEF ExchangeInv, CleanInv, SessionInv, Outside
    <2>9. BackedInv'
      BY <1>u, <1>1 DEF ExchangeInv, BackedInv, Backed, Raise
    <2>10. ResultInv'
      BY <1>u, <1>1 DEF ExchangeInv, ResultInv, leaseVars
    <2> QED
      BY <2>1, <2>2, <2>3, <2>4, <2>5, <2>6, <2>7, <2>8, <2>9, <2>10 DEF ExchangeInv, TypeInv
  <1>2. ASSUME NEW k \in Sequences, Succeeds, ActiveEnvelope, NextSequence(k), result = "none",
               {attempt[j] : j \in Sequences} \cap (Live \cup {"unknown"}) = {},
               attempt' = [attempt EXCEPT ![k] = "reserved"], page' = [page EXCEPT ![k] = asked],
               at' = "reserved", Stay, UNCHANGED portPoisoned
        PROVE  ExchangeInv'
    <2>a. \A j \in Sequences : attempt[j] \notin Unfinished
      BY <1>2 DEF Unfinished
    <2>b. attempt[k] = "none" /\ \A j \in Sequences : Current(j)' <=> j = k
      BY <1>2, YahooExchangeAssumption DEF NextSequence, Current, Sequences, ExchangeInv, TypeInv,
         RowTypes
    <2>c. owned /\ ~uncertain /\ UNCHANGED <<asked, waited, poisoned, failures>>
      BY <1>u, <1>2 DEF Succeeds, Stay, ExchangeInv, SessionInv, Outside
    <2>d. \A j \in Sequences : ~Current(j) \/ attempt[j] \notin Unfinished
      BY <2>a
    <2>e. Backed => Backed'
      BY <1>u, <1>2, <2>b, BackedStays
    <2>1. ThreadTypes'
      <3>1. at' \in Places
        BY <1>u, <1>2, <2>a, <2>b, <2>c DEF Places, Holding
      <3> QED
        BY <1>u, <1>2, <2>a, <2>b, <2>c, <3>1 DEF ExchangeInv, TypeInv, ThreadTypes, KeepSession,
           leaseVars
    <2>2. BoundTypes'
      BY <1>u, <1>2, <2>a, <2>b, <2>c, YahooExchangeAssumption DEF ExchangeInv, TypeInv, BoundTypes
    <2>3. RowTypes'
      <3>1. asked \in Pages \cup {"none"}
        BY DEF ExchangeInv, TypeInv, ThreadTypes
      <3>2. RowTypes
        BY DEF ExchangeInv, TypeInv
      <3> QED
        BY <1>u, <1>2, <3>1, <3>2 DEF RowTypes, Live
    <2>4. PlaceInv'
      BY <1>u, <1>2, <2>a, <2>b, <2>c DEF ExchangeInv, TypeInv, RowTypes, PlaceInv, Sending
    <2>5. HeldInv'
      BY <1>u, <1>2, <2>a, <2>b, <2>c DEF ExchangeInv, HeldInv, Holding, Sending
    <2>6. AnswerInv'
      BY <1>u, <1>2, <2>a, <2>b, <2>c DEF ExchangeInv, AnswerInv
    <2>7. SessionInv'
      BY <1>u, <1>2, <2>a, <2>b, <2>c DEF ExchangeInv, SessionInv, Outside, KeepSession
    <2>8. CleanInv'
      BY <1>u, <1>2, <2>a, <2>b, <2>c DEF ExchangeInv, CleanInv
    <2>9. BackedInv'
      BY <1>u, <1>2, <2>c, <2>e DEF ExchangeInv, BackedInv, KeepSession
    <2>10. ResultInv'
      BY <1>u, <1>2, <2>a, <2>b, <2>c DEF ExchangeInv, ResultInv, leaseVars
    <2> QED
      BY <2>1, <2>2, <2>3, <2>4, <2>5, <2>6, <2>7, <2>8, <2>9, <2>10 DEF ExchangeInv, TypeInv
  <1> QED
    BY <1>1, <1>2, <1>s

LEMMA AcquireGatesKeeps ==
    ASSUME ExchangeInv, AcquireGates
    PROVE  ExchangeInv'
  <1> PICK k \in Sequences :
        /\ at = "reserved" /\ Current(k)
        /\ \/ Succeeds /\ gate' = [gate EXCEPT ![k] = "active"] /\ at' = "gated"
           \/ Succeeds /\ gate' = gate /\ at' = "blocked"
           \/ Fails /\ gate' = gate /\ at' = "broken"
        /\ UNCHANGED <<asked, waited, sessionVars, portVars, leaseVars, result, attempt, wireVars, rollbacks>>
    BY DEF AcquireGates
  <1>a. \A j \in Sequences : (Current(j) <=> j = k) /\ (Current(j)' <=> j = k)
    BY OneCurrent DEF Current
  <1>1. ThreadTypes'
    <2>1. at' \in Places
      BY <1>a DEF Places, Holding
    <2> QED
      BY <1>a, <2>1 DEF ExchangeInv, TypeInv, ThreadTypes, sessionVars, portVars, leaseVars
  <1>2. BoundTypes'
    BY <1>a, YahooExchangeAssumption DEF ExchangeInv, TypeInv, BoundTypes, Succeeds, Fails
  <1>3. RowTypes'
    BY <1>a DEF ExchangeInv, TypeInv, RowTypes, wireVars
  <1>4. PlaceInv'
    BY <1>a DEF ExchangeInv, PlaceInv, Holding, Sending, wireVars
  <1>5. HeldInv'
    BY <1>a DEF ExchangeInv, TypeInv, RowTypes, HeldInv, Holding, portVars, leaseVars
  <1>6. AnswerInv'
    BY <1>a DEF ExchangeInv, AnswerInv, wireVars
  <1>7. SessionInv'
    BY <1>a DEF ExchangeInv, SessionInv, Outside, sessionVars, portVars
  <1>8. CleanInv'
    BY <1>a DEF ExchangeInv, CleanInv, SessionInv, Outside, wireVars
  <1>9. BackedInv'
    BY <1>a DEF ExchangeInv, BackedInv, Backed, sessionVars, wireVars
  <1>10. ResultInv'
    BY <1>a DEF ExchangeInv, ResultInv, leaseVars
  <1> QED
    BY <1>1, <1>2, <1>3, <1>4, <1>5, <1>6, <1>7, <1>8, <1>9, <1>10 DEF ExchangeInv, TypeInv

LEMMA MarkStartedKeeps ==
    ASSUME ExchangeInv, MarkStarted
    PROVE  ExchangeInv'
  <1> PICK k \in Sequences :
        /\ at = "gated" /\ Current(k)
        /\ \/ Succeeds /\ attempt' = [attempt EXCEPT ![k] = "started"] /\ at' = "started"
           \/ Fails /\ attempt' = attempt /\ at' = "broken"
        /\ UNCHANGED <<asked, waited, sessionVars, portVars, leaseVars, result, gate, wireVars, rollbacks>>
    BY DEF MarkStarted
  <1>a. \A j \in Sequences : (Current(j) <=> j = k) /\ (Current(j)' <=> j = k)
    <2>1. CASE attempt' = [attempt EXCEPT ![k] = "started"]
      BY <2>1, OneCurrent, SameCurrent DEF ExchangeInv, TypeInv
    <2>2. CASE attempt' = attempt
      BY <2>2, OneCurrent DEF Current
    <2> QED
      BY <2>1, <2>2
  <1>1. ThreadTypes'
    <2>1. at' \in Places
      BY <1>a DEF Places, Holding, Sending
    <2> QED
      BY <1>a, <2>1 DEF ExchangeInv, TypeInv, ThreadTypes, sessionVars, portVars, leaseVars
  <1>2. BoundTypes'
    BY <1>a, YahooExchangeAssumption DEF ExchangeInv, TypeInv, BoundTypes, Succeeds, Fails
  <1>3. RowTypes'
    BY <1>a DEF ExchangeInv, TypeInv, RowTypes, Live, wireVars
  <1>4. PlaceInv'
    BY <1>a DEF ExchangeInv, TypeInv, RowTypes, PlaceInv, AnswerInv, Holding, Sending, wireVars
  <1>5. HeldInv'
    BY <1>a DEF ExchangeInv, TypeInv, RowTypes, HeldInv, Holding, Sending, portVars, leaseVars
  <1>6. AnswerInv'
    BY <1>a DEF ExchangeInv, TypeInv, RowTypes, AnswerInv, wireVars
  <1>7. SessionInv'
    BY <1>a DEF ExchangeInv, SessionInv, Outside, sessionVars, portVars
  <1>8. CleanInv'
    BY <1>a DEF ExchangeInv, CleanInv, SessionInv, Outside, wireVars
  <1>9. BackedInv'
    BY <1>a DEF ExchangeInv, TypeInv, RowTypes, BackedInv, Backed, PlaceInv, sessionVars, wireVars
  <1>10. ResultInv'
    BY <1>a DEF ExchangeInv, ResultInv, Succeeds, leaseVars
  <1> QED
    BY <1>1, <1>2, <1>3, <1>4, <1>5, <1>6, <1>7, <1>8, <1>9, <1>10 DEF ExchangeInv, TypeInv

LEMMA DiscardKeeps ==
    ASSUME ExchangeInv, Discard
    PROVE  ExchangeInv'
  <1>1. ThreadTypes'
    <2>1. at' \in Places
      BY DEF Places, Discard, Raise, Leave
    <2> QED
      BY <2>1 DEF ExchangeInv, TypeInv, ThreadTypes, Discard, Succeeds, Raise, Leave, Stay,
         KeepSession, leaseVars
  <1>2. BoundTypes'
    BY YahooExchangeAssumption DEF ExchangeInv, TypeInv, BoundTypes, Discard, Succeeds, Raise,
       Leave, Stay
  <1>3. RowTypes'
    BY DEF ExchangeInv, TypeInv, RowTypes, Discard
  <1>4. PlaceInv'
    BY YahooExchangeAssumption DEF PlaceInv, Holding, Sending, Discard, Raise, Leave
  <1>5. HeldInv'
    BY YahooExchangeAssumption DEF ExchangeInv, TypeInv, RowTypes, HeldInv, Current, Unfinished,
       Live, Sequences, Discard, Succeeds
  <1>6. AnswerInv'
    BY DEF ExchangeInv, AnswerInv, Discard
  <1>7. SessionInv'
    BY DEF ExchangeInv, SessionInv, Outside, Discard, Raise, Leave, Stay, KeepSession
  <1>8. CleanInv'
    BY YahooExchangeAssumption DEF ExchangeInv, CleanInv, SessionInv, Outside, Discard, Raise
  <1>9. BackedInv'
    BY DEF ExchangeInv, BackedInv, Backed, SessionInv, Outside, Discard, KeepSession
  <1>10. ResultInv'
    BY DEF ExchangeInv, ResultInv, Unfinished, Live, Discard, leaseVars
  <1> QED
    BY <1>1, <1>2, <1>3, <1>4, <1>5, <1>6, <1>7, <1>8, <1>9, <1>10 DEF ExchangeInv, TypeInv

LEMMA CannotDiscardKeeps ==
    ASSUME ExchangeInv, CannotDiscard
    PROVE  ExchangeInv'
  <1>1. ThreadTypes'
    <2>1. at' \in Places
      BY DEF Places, CannotDiscard, Raise, Leave
    <2> QED
      BY <2>1 DEF ExchangeInv, TypeInv, ThreadTypes, CannotDiscard, DiscardRefused, Raise, Leave,
         KeepSession, leaseVars
  <1>2. BoundTypes'
    BY YahooExchangeAssumption DEF ExchangeInv, TypeInv, BoundTypes, CannotDiscard, Fails, Raise,
       Leave
  <1>3. RowTypes'
    BY DEF ExchangeInv, TypeInv, RowTypes, CannotDiscard, rowVars, wireVars
  <1>4. PlaceInv'
    BY YahooExchangeAssumption DEF PlaceInv, Holding, Sending, CannotDiscard, Raise, Leave
  <1>5. HeldInv'
    BY YahooExchangeAssumption DEF HeldInv, CannotDiscard, DiscardRefused
  <1>6. AnswerInv'
    BY DEF ExchangeInv, AnswerInv, CannotDiscard, rowVars, wireVars
  <1>7. SessionInv'
    BY DEF SessionInv, Outside, CannotDiscard, Raise, Leave
  <1>8. CleanInv'
    BY YahooExchangeAssumption DEF CleanInv, CannotDiscard, Raise
  <1>9. BackedInv'
    BY DEF ExchangeInv, BackedInv, Backed, CannotDiscard, Raise, rowVars, wireVars
  <1>10. ResultInv'
    BY DEF ExchangeInv, ResultInv, CannotDiscard, leaseVars, rowVars
  <1> QED
    BY <1>1, <1>2, <1>3, <1>4, <1>5, <1>6, <1>7, <1>8, <1>9, <1>10 DEF ExchangeInv, TypeInv

LEMMA PollKeeps ==
    ASSUME ExchangeInv, Poll
    PROVE  ExchangeInv'
  <1>1. ThreadTypes'
    <2>1. at' \in Places
      BY DEF Places, Poll, Raise, Leave
    <2> QED
      BY <2>1 DEF ExchangeInv, TypeInv, ThreadTypes, Poll, Raise, Leave, KeepSession, portVars,
         leaseVars
  <1>2. BoundTypes'
    BY YahooExchangeAssumption DEF ExchangeInv, TypeInv, BoundTypes, Poll, Succeeds, Fails, Raise,
       Leave
  <1>3. RowTypes'
    BY DEF ExchangeInv, TypeInv, RowTypes, Poll, rowVars, wireVars
  <1>4. PlaceInv'
    BY YahooExchangeAssumption DEF PlaceInv, Holding, Sending, Poll, Raise, Leave
  <1>5. HeldInv'
    BY YahooExchangeAssumption DEF ExchangeInv, HeldInv, Holding, Sending, Poll, portVars,
       leaseVars, rowVars
  <1>6. AnswerInv'
    BY DEF ExchangeInv, AnswerInv, Poll, rowVars, wireVars
  <1>7. SessionInv'
    BY DEF ExchangeInv, SessionInv, Outside, Poll, Raise, Leave, KeepSession, portVars
  <1>8. CleanInv'
    BY YahooExchangeAssumption DEF ExchangeInv, CleanInv, SessionInv, Outside, Poll, wireVars
  <1>9. BackedInv'
    BY DEF ExchangeInv, BackedInv, Backed, SessionInv, Outside, Poll, KeepSession, rowVars, wireVars
  <1>10. ResultInv'
    BY DEF ExchangeInv, ResultInv, Poll, leaseVars, rowVars
  <1> QED
    BY <1>1, <1>2, <1>3, <1>4, <1>5, <1>6, <1>7, <1>8, <1>9, <1>10 DEF ExchangeInv, TypeInv

LEMMA IssuePermitKeeps ==
    ASSUME ExchangeInv, IssuePermit
    PROVE  ExchangeInv'
  <1>1. ThreadTypes'
    <2>1. at' \in Places
      BY DEF Places, Holding, Sending, IssuePermit
    <2> QED
      BY <2>1 DEF ExchangeInv, TypeInv, ThreadTypes, IssuePermit, sessionVars, portVars, leaseVars
  <1>2. BoundTypes'
    BY YahooExchangeAssumption DEF ExchangeInv, TypeInv, BoundTypes, IssuePermit
  <1>3. RowTypes'
    BY DEF ExchangeInv, TypeInv, RowTypes, IssuePermit, rowVars, wireVars
  <1>4. PlaceInv'
    BY YahooExchangeAssumption DEF ExchangeInv, PlaceInv, Current, Holding, Sending, IssuePermit,
       rowVars, wireVars
  <1>5. HeldInv'
    BY YahooExchangeAssumption DEF ExchangeInv, HeldInv, Current, Holding, Sending, IssuePermit,
       portVars, leaseVars, rowVars
  <1>6. AnswerInv'
    BY DEF ExchangeInv, AnswerInv, IssuePermit, rowVars, wireVars
  <1>7. SessionInv'
    BY DEF ExchangeInv, SessionInv, Outside, IssuePermit, sessionVars, portVars
  <1>8. CleanInv'
    BY YahooExchangeAssumption DEF ExchangeInv, CleanInv, SessionInv, Outside, IssuePermit, wireVars
  <1>9. BackedInv'
    BY DEF ExchangeInv, BackedInv, Backed, IssuePermit, sessionVars, rowVars, wireVars
  <1>10. ResultInv'
    BY DEF ExchangeInv, ResultInv, IssuePermit, leaseVars, rowVars
  <1> QED
    BY <1>1, <1>2, <1>3, <1>4, <1>5, <1>6, <1>7, <1>8, <1>9, <1>10 DEF ExchangeInv, TypeInv

LEMMA CheckBindingKeeps ==
    ASSUME ExchangeInv, CheckBinding
    PROVE  ExchangeInv'
  <1>1. ThreadTypes'
    <2>1. at' \in Places
      BY DEF Places, Holding, Sending, CheckBinding
    <2> QED
      BY <2>1 DEF ExchangeInv, TypeInv, ThreadTypes, CheckBinding, sessionVars, leaseVars
  <1>2. BoundTypes'
    BY YahooExchangeAssumption DEF ExchangeInv, TypeInv, BoundTypes, CheckBinding, Succeeds, Fails
  <1>3. RowTypes'
    BY DEF ExchangeInv, TypeInv, RowTypes, CheckBinding, rowVars, wireVars
  <1>4. PlaceInv'
    BY YahooExchangeAssumption DEF ExchangeInv, PlaceInv, Current, Holding, Sending, CheckBinding,
       rowVars, wireVars
  <1>5. HeldInv'
    BY YahooExchangeAssumption DEF ExchangeInv, HeldInv, Current, Holding, Sending, CheckBinding,
       leaseVars, rowVars
  <1>6. AnswerInv'
    BY DEF ExchangeInv, AnswerInv, CheckBinding, rowVars, wireVars
  <1>7. SessionInv'
    BY DEF ExchangeInv, SessionInv, Outside, CheckBinding, sessionVars
  <1>8. CleanInv'
    BY YahooExchangeAssumption DEF ExchangeInv, CleanInv, SessionInv, Outside, CheckBinding,
       wireVars
  <1>9. BackedInv'
    BY DEF ExchangeInv, BackedInv, Backed, CheckBinding, sessionVars, rowVars, wireVars
  <1>10. ResultInv'
    BY DEF ExchangeInv, ResultInv, CheckBinding, leaseVars, rowVars
  <1> QED
    BY <1>1, <1>2, <1>3, <1>4, <1>5, <1>6, <1>7, <1>8, <1>9, <1>10 DEF ExchangeInv, TypeInv

LEMMA SendKeeps ==
    ASSUME ExchangeInv, Send
    PROVE  ExchangeInv'
  <1> PICK k \in Sequences :
        /\ at = "cleared" /\ Current(k)
        /\ \/ \E response \in [status : Answers, sound : BOOLEAN, retryAfter : Headers] :
                 /\ response.status = "notfound" => page[k] = "cookie"
                 /\ answer' = [answer EXCEPT ![k] = Normalized(response)]
           \/ answer' = [answer EXCEPT ![k] = "lost"]
        /\ at' = "answered"
        /\ UNCHANGED <<asked, waited, sessionVars, portVars, leaseVars, rowVars, page, published, boundVars>>
    BY DEF Send
  <1>a. \A j \in Sequences : (Current(j) <=> j = k) /\ (Current(j)' <=> j = k)
    BY OneCurrent DEF Current, rowVars
  <1>b. PICK a \in Sent : answer' = [answer EXCEPT ![k] = a] /\ (a = "notfound" => page[k] = "cookie")
    <2>1. CASE answer' = [answer EXCEPT ![k] = "lost"]
      <3>1. "lost" \in Sent /\ "lost" # "notfound"
        BY DEF Sent
      <3> QED
        BY <2>1, <3>1
    <2>2. ASSUME NEW response \in [status : Answers, sound : BOOLEAN, retryAfter : Headers],
                 response.status = "notfound" => page[k] = "cookie",
                 answer' = [answer EXCEPT ![k] = Normalized(response)]
          PROVE  \E a \in Sent : answer' = [answer EXCEPT ![k] = a] /\ (a = "notfound" => page[k] = "cookie")
      <3>1. Normalized(response) \in Sent /\ (Normalized(response) = "notfound" => page[k] = "cookie")
        BY <2>2 DEF Normalized, Sent
      <3> QED
        BY <2>2, <3>1
    <2> QED
      BY <2>1, <2>2
  <1>1. ThreadTypes'
    <2>1. at' \in Places
      BY <1>a, <1>b DEF Places, Holding
    <2> QED
      BY <1>a, <1>b, <2>1 DEF ExchangeInv, TypeInv, ThreadTypes, sessionVars, portVars, leaseVars
  <1>2. BoundTypes'
    BY <1>a, <1>b, YahooExchangeAssumption DEF ExchangeInv, TypeInv, BoundTypes, boundVars
  <1>3. RowTypes'
    BY <1>a, <1>b DEF ExchangeInv, TypeInv, RowTypes, rowVars
  <1>4. PlaceInv'
    BY <1>a, <1>b DEF ExchangeInv, TypeInv, RowTypes, PlaceInv, Holding, Sending, Sent, Answers,
       rowVars
  <1>5. HeldInv'
    BY <1>a, <1>b DEF ExchangeInv, HeldInv, Holding, portVars, leaseVars, rowVars
  <1>6. AnswerInv'
    BY <1>a, <1>b DEF ExchangeInv, AnswerInv, PlaceInv, Sending, rowVars
  <1>7. SessionInv'
    BY <1>a, <1>b DEF ExchangeInv, SessionInv, Outside, sessionVars, portVars
  <1>8. CleanInv'
    BY <1>a, <1>b DEF ExchangeInv, CleanInv, SessionInv, Outside
  <1>9. BackedInv'
    <2>1. Backed => Backed'
      BY <1>a, <1>b, BackedStays DEF ExchangeInv, PlaceInv, Sending, rowVars
    <2> QED
      BY <2>1 DEF ExchangeInv, BackedInv, sessionVars, rowVars
  <1>10. ResultInv'
    BY <1>a, <1>b DEF ExchangeInv, ResultInv, leaseVars, rowVars
  <1> QED
    BY <1>1, <1>2, <1>3, <1>4, <1>5, <1>6, <1>7, <1>8, <1>9, <1>10 DEF ExchangeInv, TypeInv

LEMMA RecordOutcomeKeeps ==
    ASSUME ExchangeInv, RecordOutcome
    PROVE  ExchangeInv'
  <1> PICK k \in Sequences :
        /\ at \in {"unissued", "stopped", "answered"} /\ Current(k)
        /\ \/ /\ Succeeds
              /\ attempt' = [attempt EXCEPT ![k] = RecordedState(k)]
              /\ gate' = [gate EXCEPT ![k] = "released"]
              /\ uncertain' = (uncertain \/ Unknowable(k))
              /\ IF at = "answered" /\ answer[k] \in Answers
                 THEN at' = "publishing" /\ Stay /\ UNCHANGED portPoisoned
                 ELSE portPoisoned' = TRUE /\ Raise
           \/ /\ Fails
              /\ at' = "broken"
              /\ Stay /\ UNCHANGED <<attempt, gate, portVars>>
        /\ KeepSession
        /\ UNCHANGED <<leaseVars, result, wireVars, rollbacks>>
    BY DEF RecordOutcome
  <1> DEFINE state == RecordedState(k)
  <1>s. \/ /\ Succeeds
           /\ attempt' = [attempt EXCEPT ![k] = state] /\ gate' = [gate EXCEPT ![k] = "released"]
           /\ uncertain' = (uncertain \/ state = "unknown")
           /\ IF at = "answered" /\ answer[k] \in Answers
              THEN at' = "publishing" /\ Stay /\ UNCHANGED portPoisoned
              ELSE portPoisoned' = TRUE /\ Raise
        \/ Fails /\ at' = "broken" /\ Stay /\ UNCHANGED <<attempt, gate, portVars>>
    BY DEF Unknowable
  <1>b. /\ state \in Terminal
        /\ answer[k] = "lost" => state = "unknown"
        /\ at = "answered" /\ answer[k] \in Answers =>
               state = IF answer[k] = "ok" THEN "succeeded" ELSE "failed"
    BY DEF RecordedState, Terminal, ExchangeInv, PlaceInv, Sending, Answers
  <1>u. KeepSession /\ UNCHANGED <<leaseVars, result, wireVars, rollbacks>>
    OBVIOUS
  <1> HIDE DEF state
  <1>1. CASE /\ Succeeds
          /\ attempt' = [attempt EXCEPT ![k] = state] /\ gate' = [gate EXCEPT ![k] = "released"]
          /\ uncertain' = (uncertain \/ state = "unknown")
          /\ IF at = "answered" /\ answer[k] \in Answers
             THEN at' = "publishing" /\ Stay /\ UNCHANGED portPoisoned
             ELSE portPoisoned' = TRUE /\ Raise
    <2>a. \A j \in Sequences : (Current(j) <=> j = k) /\ (Current(j)' <=> j = k)
      BY <1>1, <1>b, OneCurrent, SameCurrent DEF ExchangeInv, TypeInv, Terminal
    <2>b. attempt[k] \in {"started", "unknown"}
      BY DEF ExchangeInv, PlaceInv, Sending
    <2>e. Backed => Backed'
      BY <1>1, <1>u, <2>b, BackedStays DEF wireVars
    <2>1. ThreadTypes'
      <3>1. at' \in Places
        BY <1>1, <1>b, <1>u, <2>a, <2>b DEF Places, Raise, Leave
      <3> QED
        BY <1>1, <1>b, <1>u, <2>a, <2>b, <3>1 DEF ExchangeInv, TypeInv, ThreadTypes, Raise, Leave,
           Stay, KeepSession, leaseVars
    <2>2. BoundTypes'
      BY <1>1, <1>b, <1>u, <2>a, <2>b, YahooExchangeAssumption DEF ExchangeInv, TypeInv, BoundTypes,
         Succeeds, Raise, Leave, Stay
    <2>3. RowTypes'
      BY <1>1, <1>b, <1>u, <2>a, <2>b DEF ExchangeInv, TypeInv, RowTypes, wireVars
    <2>4. PlaceInv'
      BY <1>1, <1>b, <1>u, <2>a, <2>b DEF ExchangeInv, TypeInv, RowTypes, PlaceInv, Holding,
         Sending, Raise, Leave, Stay, wireVars
    <2>5. HeldInv'
      BY <1>1, <1>b, <1>u, <2>a, <2>b DEF Terminal, ExchangeInv, TypeInv, RowTypes, HeldInv,
         Unfinished, Live, Succeeds
    <2>6. AnswerInv'
      BY <1>1, <1>b, <1>u, <2>a, <2>b DEF Terminal, ExchangeInv, AnswerInv, wireVars
    <2>7. SessionInv'
      BY <1>1, <1>b, <1>u, <2>a, <2>b DEF ExchangeInv, SessionInv, Outside, Raise, Leave, Stay,
         KeepSession
    <2>8. CleanInv'
      BY <1>1, <1>b, <1>u, <2>a, <2>b DEF ExchangeInv, CleanInv, SessionInv, Outside, Raise,
         wireVars
    <2>9. BackedInv'
      BY <1>1, <1>u, <2>e DEF ExchangeInv, BackedInv, SessionInv, Outside, KeepSession
    <2>10. ResultInv'
      BY <1>1, <1>b, <1>u, <2>a, <2>b DEF ExchangeInv, ResultInv, Unfinished, Live, leaseVars
    <2> QED
      BY <2>1, <2>2, <2>3, <2>4, <2>5, <2>6, <2>7, <2>8, <2>9, <2>10 DEF ExchangeInv, TypeInv
  <1>2. CASE Fails /\ at' = "broken" /\ Stay /\ UNCHANGED <<attempt, gate, portVars>>
    <2>a. \A j \in Sequences : (Current(j) <=> j = k) /\ (Current(j)' <=> j = k)
      BY <1>2, OneCurrent DEF Current
    <2>e. Backed => Backed'
      BY <1>2, <1>u DEF Backed, wireVars
    <2>1. ThreadTypes'
      <3>1. at' \in Places
        BY <1>2, <1>u, <2>a DEF Places, Holding
      <3> QED
        BY <1>2, <1>u, <2>a, <3>1 DEF ExchangeInv, TypeInv, ThreadTypes, Stay, KeepSession,
           leaseVars, portVars
    <2>2. BoundTypes'
      BY <1>2, <1>u, <2>a, YahooExchangeAssumption DEF ExchangeInv, TypeInv, BoundTypes, Fails, Stay
    <2>3. RowTypes'
      BY <1>2, <1>u, <2>a DEF ExchangeInv, TypeInv, RowTypes, wireVars
    <2>4. PlaceInv'
      BY <1>2, <1>u, <2>a DEF ExchangeInv, PlaceInv, Holding, Sending, Stay, wireVars
    <2>5. HeldInv'
      BY <1>2, <1>u, <2>a DEF ExchangeInv, HeldInv, Holding, leaseVars, portVars
    <2>6. AnswerInv'
      BY <1>2, <1>u, <2>a DEF ExchangeInv, AnswerInv, wireVars
    <2>7. SessionInv'
      BY <1>2, <1>u, <2>a DEF ExchangeInv, SessionInv, Outside, Stay, KeepSession, portVars
    <2>8. CleanInv'
      BY <1>2, <1>u, <2>a DEF ExchangeInv, CleanInv, SessionInv, Outside, wireVars
    <2>9. BackedInv'
      BY <1>2, <1>u, <2>e DEF ExchangeInv, BackedInv, Stay, KeepSession
    <2>10. ResultInv'
      BY <1>2, <1>u, <2>a DEF ExchangeInv, ResultInv, leaseVars
    <2> QED
      BY <2>1, <2>2, <2>3, <2>4, <2>5, <2>6, <2>7, <2>8, <2>9, <2>10 DEF ExchangeInv, TypeInv
  <1> QED
    BY <1>1, <1>2, <1>s

LEMMA PublishKeeps ==
    ASSUME ExchangeInv, Publish
    PROVE  ExchangeInv'
  <1> PICK k \in Sequences :
        /\ at = "publishing" /\ Current(k)
        /\ \/ /\ Succeeds
              /\ published' = [published EXCEPT ![k] = TRUE]
              /\ Leave /\ Receive(k) /\ UNCHANGED portPoisoned
           \/ /\ Fails
              /\ portPoisoned' = TRUE /\ Raise
              /\ KeepSession /\ published' = published
        /\ UNCHANGED <<uncertain, leaseVars, rowVars, page, answer, rollbacks>>
    BY DEF Publish
  <1>s. \/ Succeeds /\ published' = [published EXCEPT ![k] = TRUE] /\ Leave /\ Receive(k) /\ UNCHANGED portPoisoned
        \/ Fails /\ portPoisoned' = TRUE /\ Raise /\ KeepSession /\ published' = published
    OBVIOUS
  <1>u. UNCHANGED <<uncertain, leaseVars, rowVars, page, answer, rollbacks>>
    OBVIOUS
  <1>a. \A j \in Sequences : (Current(j) <=> j = k) /\ (Current(j)' <=> j = k)
    BY <1>u, OneCurrent DEF Current, rowVars
  <1>b. /\ at = "publishing" /\ page[k] = asked /\ answer[k] \in Answers
        /\ attempt[k] = IF answer[k] = "ok" THEN "succeeded" ELSE "failed"
        /\ ~poisoned /\ ~uncertain
    BY DEF ExchangeInv, PlaceInv, SessionInv, Outside
  <1>1. CASE Succeeds /\ published' = [published EXCEPT ![k] = TRUE] /\ Leave /\ Receive(k) /\ UNCHANGED portPoisoned
    <2>e. Backed => Backed'
      BY <1>1, <1>u, BackedStays DEF rowVars
    <2>1. ThreadTypes'
      <3>1. at' \in Places
        BY <1>1 DEF Leave, Places
      <3>2. page[k] \in Charts => page[k] \in Charts \cup {"none"}
        OBVIOUS
      <3> QED
        BY <1>1, <1>u, <3>1, <3>2 DEF ExchangeInv, TypeInv, ThreadTypes, Leave, leaseVars, Receive,
           ChartKind
    <2>2. BoundTypes'
      BY <1>1, <1>u, <1>a, <1>b, YahooExchangeAssumption DEF ExchangeInv, TypeInv, BoundTypes,
         Succeeds, Leave
    <2>3. RowTypes'
      BY <1>1, <1>u, <1>a, <1>b DEF ExchangeInv, TypeInv, RowTypes, rowVars
    <2>4. PlaceInv'
      BY <1>1, <1>u, <1>a, <1>b DEF PlaceInv, Holding, Sending, Leave
    <2>5. HeldInv'
      BY <1>1, <1>u, <1>a, <1>b DEF ExchangeInv, HeldInv, PlaceInv, Holding, Succeeds, rowVars
    <2>6. AnswerInv'
      BY <1>1, <1>u, <1>a, <1>b DEF ExchangeInv, AnswerInv, rowVars
    <2>7. SessionInv'
      BY <1>1, <1>u, <1>b DEF SessionInv, Outside, Leave
    <2>8. CleanInv'
      BY <1>1, <1>u, <1>a, <1>b DEF ExchangeInv, CleanInv, Clean, Answers, Receive, Anomaly
    <2>9. BackedInv'
      <3>1. ASSUME "history" \in done', pending' # "history", ~poisoned' PROVE Backed'
        <4>1. answer[k] \notin {"limited", "redirect"} /\ ~(Refusal(k) /\ ~MayFallBack(k))
          BY <1>1, <3>1 DEF Receive, Anomaly
        <4>2. CASE page[k] = "history"
          <5>1. ~Refusal(k)
            BY <1>1, <3>1, <4>1, <4>2 DEF Receive, Charts
          <5>2. answer[k] = "ok"
            BY <1>b, <4>1, <4>2, <5>1 DEF Refusal, Answers, ExchangeInv, AnswerInv
          <5> QED
            BY <1>1, <1>u, <1>b, <4>2, <5>2 DEF Backed, rowVars, ExchangeInv, TypeInv, RowTypes
        <4>3. CASE page[k] # "history"
          <5>1. "history" \in done
            BY <1>1, <3>1, <4>3 DEF Receive, ChartKind
          <5>2. pending # "history"
            BY <1>1, <1>b, <3>1, <4>3 DEF Receive, ExchangeInv, SessionInv, Outside
          <5> QED
            BY <1>b, <2>e, <5>1, <5>2 DEF ExchangeInv, BackedInv
        <4> QED
          BY <4>2, <4>3
      <3> QED
        BY <1>u, <3>1, <2>e DEF ExchangeInv, BackedInv, rowVars
    <2>10. ResultInv'
      BY <1>1, <1>u, <1>a, <1>b DEF ExchangeInv, ResultInv, leaseVars, rowVars
    <2> QED
      BY <2>1, <2>2, <2>3, <2>4, <2>5, <2>6, <2>7, <2>8, <2>9, <2>10 DEF ExchangeInv, TypeInv
  <1>2. CASE Fails /\ portPoisoned' = TRUE /\ Raise /\ KeepSession /\ published' = published
    <2>e. Backed => Backed'
      BY <1>2, <1>u DEF Backed, rowVars
    <2>1. ThreadTypes'
      <3>1. at' \in Places
        BY <1>2, <1>u, <1>a, <1>b DEF Places, Raise, Leave
      <3> QED
        BY <1>2, <1>u, <1>a, <1>b, <3>1 DEF ExchangeInv, TypeInv, ThreadTypes, Raise, Leave,
           KeepSession, leaseVars
    <2>2. BoundTypes'
      BY <1>2, <1>u, <1>a, <1>b, YahooExchangeAssumption DEF ExchangeInv, TypeInv, BoundTypes,
         Fails, Raise, Leave
    <2>3. RowTypes'
      BY <1>2, <1>u, <1>a, <1>b DEF ExchangeInv, TypeInv, RowTypes, rowVars
    <2>4. PlaceInv'
      BY <1>2, <1>u, <1>a, <1>b DEF PlaceInv, Holding, Sending, Raise, Leave
    <2>5. HeldInv'
      BY <1>2, <1>u, <1>a, <1>b DEF ExchangeInv, HeldInv, PlaceInv, Holding, leaseVars, rowVars
    <2>6. AnswerInv'
      BY <1>2, <1>u, <1>a, <1>b DEF ExchangeInv, AnswerInv, rowVars
    <2>7. SessionInv'
      BY <1>2, <1>u, <1>a, <1>b DEF SessionInv, Outside, Raise, Leave
    <2>8. CleanInv'
      BY <1>2, <1>u, <1>a, <1>b DEF CleanInv, Raise
    <2>9. BackedInv'
      BY <1>2, <1>u, <2>e DEF ExchangeInv, BackedInv, Raise, rowVars
    <2>10. ResultInv'
      BY <1>2, <1>u, <1>a, <1>b DEF ExchangeInv, ResultInv, leaseVars, rowVars
    <2> QED
      BY <2>1, <2>2, <2>3, <2>4, <2>5, <2>6, <2>7, <2>8, <2>9, <2>10 DEF ExchangeInv, TypeInv
  <1> QED
    BY <1>1, <1>2, <1>s

LEMMA FinalizeKeeps ==
    ASSUME ExchangeInv, Finalize
    PROVE  ExchangeInv'
  <1>1. ThreadTypes'
    <2>1. at' \in Places
      BY DEF Places, Finalize
    <2> QED
      BY <2>1 DEF ExchangeInv, TypeInv, ThreadTypes, Finalize, Complete, KeepSession, portVars,
         leaseVars
  <1>2. BoundTypes'
    BY YahooExchangeAssumption DEF ExchangeInv, TypeInv, BoundTypes, Finalize, Succeeds, Fails
  <1>3. RowTypes'
    BY DEF ExchangeInv, TypeInv, RowTypes, Terminal, Finalize, Outcomes, SettledOutcome, wireVars
  <1>4. PlaceInv'
    BY YahooExchangeAssumption DEF PlaceInv, Holding, Sending, Finalize
  <1>5. HeldInv'
    BY YahooExchangeAssumption DEF ExchangeInv, HeldInv, Holding, Sending, Finalize, portVars,
       leaseVars
  <1>6. AnswerInv'
    BY DEF ExchangeInv, AnswerInv, Finalize, wireVars
  <1>7. SessionInv'
    BY DEF ExchangeInv, SessionInv, Outside, Finalize, portVars
  <1>8. CleanInv'
    BY YahooExchangeAssumption DEF ExchangeInv, CleanInv, Finalize, wireVars
  <1>9. BackedInv'
    BY DEF ExchangeInv, BackedInv, Backed, Finalize, Outcomes, SettledOutcome, Complete,
       KeepSession, wireVars
  <1>10. ResultInv'
    <2>1. ASSUME result' \in {"succeeded", "failed"}, result = "none"
          PROVE  \A k \in Sequences : attempt[k] \notin Unfinished
      <3>1. owned /\ ~uncertain /\ at = "idle"
        BY <2>1 DEF Finalize, Succeeds, SettledOutcome
      <3> QED
        BY <3>1 DEF ExchangeInv, HeldInv, Holding, Sending
    <2>2. result' # result => result = "none" /\ at' = "over"
      BY DEF Finalize
    <2>3. at = "idle" /\ at' = "over" /\ UNCHANGED <<attempt, leaseVars>>
      BY DEF Finalize
    <2> QED
      BY <2>1, <2>2, <2>3 DEF ExchangeInv, ResultInv, leaseVars
  <1> QED
    BY <1>1, <1>2, <1>3, <1>4, <1>5, <1>6, <1>7, <1>8, <1>9, <1>10 DEF ExchangeInv, TypeInv

LEMMA ExpireLeaseKeeps ==
    ASSUME ExchangeInv, ExpireLease
    PROVE  ExchangeInv'
  <1>1. ThreadTypes'
    <2>1. at' \in Places
      BY DEF ExchangeInv, TypeInv, ThreadTypes, ExpireLease
    <2> QED
      BY <2>1 DEF ExchangeInv, TypeInv, ThreadTypes, ExpireLease, sessionVars, portVars
  <1>2. BoundTypes'
    BY YahooExchangeAssumption DEF ExchangeInv, TypeInv, BoundTypes, ExpireLease, boundVars
  <1>3. RowTypes'
    BY DEF ExchangeInv, TypeInv, RowTypes, ExpireLease, rowVars, wireVars
  <1>4. PlaceInv'
    BY YahooExchangeAssumption DEF ExchangeInv, PlaceInv, Current, ExpireLease, rowVars, wireVars
  <1>5. HeldInv'
    BY YahooExchangeAssumption DEF HeldInv, ExpireLease
  <1>6. AnswerInv'
    BY DEF ExchangeInv, AnswerInv, ExpireLease, rowVars, wireVars
  <1>7. SessionInv'
    BY DEF ExchangeInv, SessionInv, ExpireLease, sessionVars, portVars
  <1>8. CleanInv'
    BY YahooExchangeAssumption DEF ExchangeInv, CleanInv, Current, ExpireLease, sessionVars,
       rowVars, wireVars
  <1>9. BackedInv'
    BY DEF ExchangeInv, BackedInv, Backed, ExpireLease, sessionVars, rowVars, wireVars
  <1>10. ResultInv'
    BY DEF ExchangeInv, ResultInv, ExpireLease, rowVars
  <1> QED
    BY <1>1, <1>2, <1>3, <1>4, <1>5, <1>6, <1>7, <1>8, <1>9, <1>10 DEF ExchangeInv, TypeInv

LEMMA RecoverLeaseKeeps ==
    ASSUME ExchangeInv, RecoverLease
    PROVE  ExchangeInv'
  <1>1. ThreadTypes'
    <2>1. at' \in Places
      BY DEF ExchangeInv, TypeInv, ThreadTypes, RecoverLease
    <2> QED
      BY <2>1 DEF ExchangeInv, TypeInv, ThreadTypes, RecoverLease, sessionVars, portVars
  <1>2. BoundTypes'
    BY YahooExchangeAssumption DEF ExchangeInv, TypeInv, BoundTypes, RecoverLease, boundVars
  <1>3. RowTypes'
    BY DEF ExchangeInv, TypeInv, RowTypes, Terminal, RecoverLease, wireVars
  <1>4. PlaceInv'
    BY YahooExchangeAssumption DEF ExchangeInv, PlaceInv, Current, RecoverLease, wireVars
  <1>5. HeldInv'
    BY YahooExchangeAssumption DEF HeldInv, RecoverLease
  <1>6. AnswerInv'
    BY DEF ExchangeInv, AnswerInv, RecoverLease, wireVars
  <1>7. SessionInv'
    BY DEF ExchangeInv, SessionInv, RecoverLease, sessionVars, portVars
  <1>8. CleanInv'
    BY YahooExchangeAssumption DEF ExchangeInv, CleanInv, Current, RecoverLease, sessionVars,
       wireVars
  <1>9. BackedInv'
    BY DEF ExchangeInv, BackedInv, Backed, RecoverLease, sessionVars, wireVars
  <1>10. ResultInv'
    BY DEF ExchangeInv, ResultInv, Unfinished, Live, RecoverLease
  <1> QED
    BY <1>1, <1>2, <1>3, <1>4, <1>5, <1>6, <1>7, <1>8, <1>9, <1>10 DEF ExchangeInv, TypeInv

LEMMA SetBackKeeps ==
    ASSUME ExchangeInv, SetBack
    PROVE  ExchangeInv'
  <1>1. ThreadTypes'
    <2>1. at' \in Places
      BY DEF ExchangeInv, TypeInv, ThreadTypes, SetBack
    <2> QED
      BY <2>1 DEF ExchangeInv, TypeInv, ThreadTypes, SetBack, sessionVars, portVars, leaseVars
  <1>2. BoundTypes'
    BY YahooExchangeAssumption DEF ExchangeInv, TypeInv, BoundTypes, SetBack
  <1>3. RowTypes'
    BY DEF ExchangeInv, TypeInv, RowTypes, SetBack, rowVars, wireVars
  <1>4. PlaceInv'
    BY YahooExchangeAssumption DEF ExchangeInv, PlaceInv, Current, SetBack, rowVars, wireVars
  <1>5. HeldInv'
    BY YahooExchangeAssumption DEF ExchangeInv, HeldInv, Current, SetBack, portVars, leaseVars,
       rowVars
  <1>6. AnswerInv'
    BY DEF ExchangeInv, AnswerInv, SetBack, rowVars, wireVars
  <1>7. SessionInv'
    BY DEF ExchangeInv, SessionInv, SetBack, sessionVars, portVars
  <1>8. CleanInv'
    BY YahooExchangeAssumption DEF ExchangeInv, CleanInv, SessionInv, Current, SetBack, rowVars,
       wireVars
  <1>9. BackedInv'
    BY DEF ExchangeInv, BackedInv, Backed, SetBack, sessionVars, rowVars, wireVars
  <1>10. ResultInv'
    BY DEF ExchangeInv, ResultInv, SetBack, leaseVars, rowVars
  <1> QED
    BY <1>1, <1>2, <1>3, <1>4, <1>5, <1>6, <1>7, <1>8, <1>9, <1>10 DEF ExchangeInv, TypeInv

LEMMA ExchangeStart == Init => ExchangeInv
  <1> SUFFICES ASSUME Init PROVE ExchangeInv
    OBVIOUS
  <1>1. ThreadTypes
    BY DEF Init, ThreadTypes, Places
  <1>2. BoundTypes
    BY YahooExchangeAssumption DEF Init, BoundTypes
  <1>3. RowTypes
    BY DEF Init, RowTypes
  <1> QED
    BY <1>1, <1>2, <1>3 DEF Init, ExchangeInv, TypeInv, PlaceInv, HeldInv, AnswerInv, SessionInv,
       CleanInv, BackedInv, ResultInv, Sending, Unfinished, Live, Clean

LEMMA ExchangeKeeps == ExchangeInv /\ [Next]_vars => ExchangeInv'
  <1> SUFFICES ASSUME ExchangeInv, [Next]_vars PROVE ExchangeInv'
    OBVIOUS
  <1>1. CASE \E w \in Pages \cup Unapproved : AskApproved(w) \/ AskRejected(w)
    BY <1>1, AskApprovedKeeps, AskRejectedKeeps
  <1>2. CASE ExchangeStep
    BY <1>2, ReserveKeeps, AcquireGatesKeeps, MarkStartedKeeps, DiscardKeeps, CannotDiscardKeeps,
       PollKeeps, IssuePermitKeeps, CheckBindingKeeps, SendKeeps, RecordOutcomeKeeps, PublishKeeps
       DEF ExchangeStep
  <1>3. CASE Finalize \/ ExpireLease \/ RecoverLease \/ SetBack
    BY <1>3, FinalizeKeeps, ExpireLeaseKeeps, RecoverLeaseKeeps, SetBackKeeps
  <1>4. CASE UNCHANGED vars
    BY <1>4 DEF ExchangeInv, TypeInv, ThreadTypes, BoundTypes, RowTypes, PlaceInv, HeldInv,
       AnswerInv, SessionInv, CleanInv, BackedInv, Backed, ResultInv, Current, vars, sessionVars,
       portVars, leaseVars, rowVars, wireVars, boundVars
  <1> QED
    BY <1>1, <1>2, <1>3, <1>4 DEF Next

LEMMA ExchangeHolds == Spec => []ExchangeInv
  BY ExchangeStart, ExchangeKeeps, PTL DEF Spec

-------------------------------------------------------------------------------
(* The rules of YahooExchange.                                              *)

\* Every variable of the exchange, for any pages and bounds, has its type.
THEOREM TypeCorrect == Spec => []TypeInv
  <1>1. ExchangeInv => TypeInv
    BY DEF ExchangeInv
  <1> QED
    BY <1>1, ExchangeHolds, PTL

\* A send without a response is never told as a failure or a success, for any
\* number of attempts, whoever settles the request (finalize_logical_request,
\* recover_expired_lease).
THEOREM LostAlwaysUnknown == Spec => []LostIsUnknown
  <1>1. ExchangeInv => LostIsUnknown
    BY DEF ExchangeInv, ResultInv, AnswerInv, LostIsUnknown, Unfinished, Live
  <1> QED
    BY <1>1, ExchangeHolds, PTL

\* A success stands on an answered and published history chart, whichever pages
\* the library asks for (CoordinatedSession, YfinanceDailyAdapter.download).
THEOREM SuccessesBacked == Spec => []SuccessIsBacked
  <1>1. ExchangeInv => SuccessIsBacked
    BY DEF ExchangeInv, BackedInv, Backed, SuccessIsBacked
  <1> QED
    BY <1>1, ExchangeHolds, PTL

\* An exchange that is over leaves no live attempt and no held gate of a sure
\* owner (ProductionYahooExchangePort.exchange).
THEOREM NothingHeldAfterwards == Spec => []NothingLeftBehind
  <1>1. ExchangeInv => NothingLeftBehind
    BY DEF ExchangeInv, HeldInv, NothingLeftBehind, Unfinished, Outside, Holding, Sending
  <1> QED
    BY <1>1, ExchangeHolds, PTL

\* After a 429, a redirect, an invalid response or none nothing more is sent, for
\* any number of attempts (CoordinatedSession.request).
THEOREM AnomalyEndsSession == Spec => StopsAfterAnomaly
  <1>1. ExchangeInv /\ [Next]_vars =>
          (answer' # answer => \A k \in Sequences : answer[k] \in {"none", "ok", "notfound", "denied"})
    <2> SUFFICES ASSUME ExchangeInv, [Next]_vars, answer' # answer
                 PROVE  \A k \in Sequences : answer[k] \in {"none", "ok", "notfound", "denied"}
      OBVIOUS
    <2>1. Send
      BY DEF Next, ExchangeStep, vars, wireVars, AskApproved, AskRejected, Reserve, AcquireGates,
         MarkStarted, Discard, CannotDiscard, Poll, IssuePermit, CheckBinding, RecordOutcome,
         Publish, Finalize, ExpireLease, RecoverLease, SetBack
    <2>2. at = "cleared"
      BY <2>1 DEF Send
    <2> QED
      BY <2>2 DEF ExchangeInv, SessionInv, CleanInv, Clean, Outside
  <1>2. ExchangeInv /\ [Next]_vars =>
          [answer' # answer => \A k \in Sequences : answer[k] \in {"none", "ok", "notfound", "denied"}]_vars
    BY <1>1
  <1> QED
    BY <1>2, ExchangeHolds, PTL DEF Spec, StopsAfterAnomaly
================================================================================
