------------------------ MODULE FinancialPreparation ------------------------
(* From EDINET's lists and archives to the coverage of the required annual    *)
(* periods: the candidates of evaluate_financial, the review and adoption of  *)
(* one report's facts (financial_mapping, financial_acceptance), its          *)
(* comparative periods, the adoption from an amendment that agrees with its   *)
(* original, the run of one report (financial_run) and the merge of several   *)
(* (financial_multi_report).                                                  *)
(* A bundle keeps the evidence it was made from; the provider's answers       *)
(* change: a filing that was listed may be withdrawn.                         *)
EXTENDS Integers, FiniteSets

CONSTANTS Filing,     \* [document -> [type, start, parent, issuer, on]]: the rows of the lists;
                      \* start: the period's year, or NoPeriod; on: the day of the list
          FactSets,   \* what the archives may say: sets of [doc, metric, year, value, fit]
          Metrics,    \* METRICS
          Required,   \* required_annual_periods, by year
          Primary, Additional,   \* the two reports with an approved policy
          Original, Amended,     \* PAIR_IDS
          Issuer,     \* the bound EDINET code
          MaxWithdrawals,  \* bound on what the provider withdraws
          MaxLists         \* bound on the lists of one bundle

Docs == DOMAIN Filing
NoPeriod == -1
Nil == "nil"
NoValue == "none"
Reports == {Primary, Additional}

ASSUME FinancialAssumption ==
    /\ Reports \cup {Original, Amended} \subseteq Docs /\ Primary # Additional
    /\ MaxWithdrawals \in Nat /\ MaxLists \in Nat
    /\ \A F \in FactSets : IsFiniteSet(F) /\ \A f \in F : f.doc \in Docs /\ f.metric \in Metrics

VARIABLES
    facts,        \* what the archives say
    withdrawn,    \* the provider's withdrawalStatus of each document
    lists,        \* acquired lists: [on, withdrawn]
    archives,     \* documents whose archive was acquired
    financial,    \* [report -> bundle of prepare_financial or NotMade]
    adoption,     \* [report -> bundle of prepare_acceptance or NotMade]
    comparative,  \* [report -> bundle of prepare_comparative or NotMade]
    pair,         \* the pair's adoption or NotMade
    run,          \* a run of one report or NotMade
    merged        \* the multi-report run or NotMade

financialVars == <<facts, withdrawn, lists, archives, financial, adoption, comparative, pair, run, merged>>
evidence == <<facts, lists, archives>>
NotMade == [made |-> FALSE]

FinancialInit ==
    /\ withdrawn = {} /\ facts \in FactSets
    /\ lists = {} /\ archives = {}
    /\ financial = [r \in Reports |-> NotMade] /\ adoption = [r \in Reports |-> NotMade]
    /\ comparative = [r \in Reports |-> NotMade]
    /\ pair = NotMade /\ run = NotMade /\ merged = NotMade

\* The provider withdraws a filing that has been submitted.
Withdraw(d) ==
    /\ d \notin withdrawn /\ Cardinality(withdrawn) < MaxWithdrawals
    /\ withdrawn' = withdrawn \cup {d}
    /\ UNCHANGED <<evidence, financial, adoption, comparative, pair, run, merged>>

\* A list holds the rows of its day as they are now.
AcquireList(on) ==
    /\ lists' = lists \cup {[on |-> on, withdrawn |-> {d \in withdrawn : Filing[d].on = on}]}
    /\ UNCHANGED <<facts, withdrawn, archives, financial, adoption, comparative, pair, run, merged>>

\* select_target: the one annual report of the period that the list shows in
\* good order; with the issuer bound (the campaigns), none when the list has an
\* amendment of it, withdrawn or not.
SelectTarget(year, l, bound) ==
    LET rows == {d \in Docs : Filing[d].on = l.on /\ Filing[d].issuer = Issuer}
        matches == {d \in rows \ l.withdrawn : Filing[d].type = "120" /\ Filing[d].start = year}
        amended == \E d \in rows : /\ Filing[d].type = "130"
                                   /\ Filing[d].start = year \/ Filing[d].parent \in matches
    IN  IF Cardinality(matches) = 1 /\ ~(bound /\ amended) THEN matches ELSE {}

\* acquire_edinet_acceptance and the campaigns: a list, new or retained, and the
\* archive of the report selected from it.
AcquireReport(r) ==
    /\ \E l \in lists : /\ SelectTarget(Filing[r].start, l, r # Primary) # {}
                       /\ archives' = archives \cup SelectTarget(Filing[r].start, l, r # Primary)
    /\ UNCHANGED <<facts, withdrawn, lists, financial, adoption, comparative, pair, run, merged>>

\* validate_pair_list: both pinned rows of the retained list are in good order.
PairListed(l) ==
    /\ \A d \in {Original, Amended} : Filing[d].on = l.on /\ Filing[d].issuer = Issuer /\ d \notin l.withdrawn
    /\ Filing[Original].type = "120" /\ Filing[Amended].type = "130"
    /\ Filing[Original].parent = NoValue /\ Filing[Amended].parent = Original

\* The pair is acquired from such a list only; validate_pair_bundle looks at the
\* list in the bundle again.
AcquirePair ==
    /\ \E l \in lists : PairListed(l)
    /\ archives' = archives \cup {Original, Amended}
    /\ UNCHANGED <<facts, withdrawn, lists, financial, adoption, comparative, pair, run, merged>>

-----------------------------------------------------------------------------
(* prepare_financial.  The operator chooses which retained lists go in.       *)
Listed(chosen) == {d \in Docs : \E l \in chosen : l.on = Filing[d].on}
Snapshots(d, chosen) == {(d \in l.withdrawn) : l \in {c \in chosen : c.on = Filing[d].on}}

\* The chain of parents that correction_reasons follows.
Ancestors(d) ==
    LET chain[n \in 0 .. Cardinality(Docs)] ==
            IF n = 0 THEN {d}
            ELSE chain[n - 1] \cup {Filing[e].parent : e \in chain[n - 1] \cap Docs}
    IN  (chain[Cardinality(Docs)] \ {d}) \ {NoValue}

\* correction_reasons: an amendment is never selected, and no filing whose
\* chain of parents leaves the lists, changes the issuer or is a cycle.
CorrectionReasons(d, chosen) ==
    \/ Filing[d].type = "130"
    \/ \E e \in Ancestors(d) : \/ e \notin Listed(chosen) \/ Filing[e].issuer # Filing[d].issuer
                               \/ Cardinality(Snapshots(e, chosen)) > 1
    \/ \A e \in Ancestors(d) \cup {d} : e \in Docs => Filing[e].parent # NoValue
    \/ Filing[d].parent # NoValue /\ \E e \in Listed(chosen) \ {d} : Filing[e].parent = Filing[d].parent

\* Faulty: one list that shows the filing in good order is enough.
SomeSnapshotGood(d, chosen) == TRUE \notin Snapshots(d, chosen) \/ FALSE \in Snapshots(d, chosen)

\* Neither withdrawn nor shown differently by two lists (filing_snapshots_conflict).
SnapshotsAgree(d, chosen) == Snapshots(d, chosen) = {FALSE}

\* No exclusion reason for the document in the bundle.
Eligible(d, bundle) ==
    /\ d \in Listed(bundle.lists) /\ ~CorrectionReasons(d, bundle.lists)
    /\ SnapshotsAgree(d, bundle.lists)
    /\ Filing[d].issuer = Issuer /\ d \in bundle.archives
    /\ Filing[d].start # NoPeriod

\* evaluate_financial counts each annual period of an eligible filing once.
AnnualPeriods(bundle) ==
    {Filing[d].start : d \in {e \in Docs : Eligible(e, bundle) /\ Filing[e].type \in {"120", "130"}}}

PrepareFinancial(r, chosen) ==
    /\ ~financial[r].made /\ Cardinality(chosen) \in 1 .. MaxLists
    /\ financial' = [financial EXCEPT ![r] =
                        [made |-> TRUE, lists |-> chosen, archives |-> archives,
                         annual |-> AnnualPeriods([lists |-> chosen, archives |-> archives])]]
    /\ UNCHANGED <<evidence, withdrawn, adoption, comparative, pair, run, merged>>

-----------------------------------------------------------------------------
(* Review and adoption of one report's facts.                                 *)
Candidates(d, m, year) == {f \in facts : f.doc = d /\ f.metric = m /\ f.year = year}

\* Faulty: a nil fact is left out of the comparison.
NumbersOnly(d, m, year) == {f \in Candidates(d, m, year) : f.fit /\ f.value # Nil}

\* review_metric: facts of the entity, period, unit and scale; nil facts too.
Comparable(d, m, year) == {f \in Candidates(d, m, year) : f.fit}

\* adopt_metric: "candidate" or "duplicate", one number and no nil.
Only(values) == CHOOSE v \in values : TRUE
AcceptedValue(d, m, year, eligible) ==
    LET values == {f.value : f \in Comparable(d, m, year)}
    IN  IF eligible /\ Cardinality(values) = 1 /\ Nil \notin values
        THEN Only(values) ELSE NoValue
Values(d, year, eligible) == [m \in Metrics |-> AcceptedValue(d, m, year, eligible)]

\* evaluate_mapping: the filing's exclusions are every fact's exclusions, and
\* only an annual report of exactly the proposal's period is reviewed.
MappingEligible(r, bundle) == Eligible(r, bundle) /\ Filing[r].type = "120"

\* What one adoption rests on: the comparable facts of each metric.
Reviewed(r, eligible) == [m \in Metrics |-> IF eligible THEN Comparable(r, m, Filing[r].start) ELSE {}]

PrepareAcceptance(r) ==
    /\ financial[r].made /\ ~adoption[r].made
    /\ r \in financial[r].archives /\ r \in Listed(financial[r].lists)
    /\ LET eligible == MappingEligible(r, financial[r])
       IN  adoption' = [adoption EXCEPT ![r] =
                           [made |-> TRUE, reviewed |-> Reviewed(r, eligible),
                            values |-> Values(r, Filing[r].start, eligible)]]
    /\ UNCHANGED <<evidence, withdrawn, financial, comparative, pair, run, merged>>

\* evaluate_comparative reviews every period again, without the filing's
\* reasons; the values of the reporting period, with the facts they refer to,
\* must be those that were adopted.
AgreesWithAdoption(r) == Reviewed(r, TRUE) = adoption[r].reviewed

PrepareComparative(r) ==
    /\ adoption[r].made /\ ~comparative[r].made
    /\ AgreesWithAdoption(r)
    /\ comparative' = [comparative EXCEPT ![r] =
                          [made |-> TRUE,
                           values |-> [y \in {Filing[r].start, Filing[r].start - 1} \cap Required |->
                                          Values(r, y, TRUE)]]]
    /\ UNCHANGED <<evidence, withdrawn, financial, adoption, pair, run, merged>>

-----------------------------------------------------------------------------
(* The amendment pair and the merge.                                          *)
\* Faulty: only the period that is adopted is compared.
SameAdoptedPeriod(y) ==
    LET old == Values(Original, y - 1, TRUE)  new == Values(Amended, y - 1, TRUE)
    IN  old = new /\ \A m \in Metrics : new[m] # NoValue

\* compare_pair_records: every metric of both periods, accepted and equal.
SamePairRecords(y) ==
    \A p \in {y, y - 1} : LET old == Values(Original, p, TRUE)  new == Values(Amended, p, TRUE)
                          IN  old = new /\ \A m \in Metrics : new[m] # NoValue

\* prepare_pair_acceptance adopts the year before the reporting period from the
\* amendment.
PreparePair ==
    /\ ~pair.made /\ {Original, Amended} \subseteq archives
    /\ SamePairRecords(Filing[Original].start)
    /\ LET y == Filing[Original].start - 1
       IN  pair' = [made |-> TRUE, values |-> [p \in {y} |-> Values(Amended, y, TRUE)]]
    /\ UNCHANGED <<evidence, withdrawn, financial, adoption, comparative, run, merged>>

Accepted(record, y, m) == y \in DOMAIN record.values /\ record.values[y][m] # NoValue

\* merge_coverage: equal repeated facts are one, different ones are refused.
NoConflict(records) ==
    \A one, two \in records, y \in Required, m \in Metrics :
        Accepted(one, y, m) /\ Accepted(two, y, m) => one.values[y][m] = two.values[y][m]

Coverage(records) ==
    [y \in Required |-> {m \in Metrics : \E rec \in records : Accepted(rec, y, m)}]

\* evaluate_financial_run: what one report contributes, from its comparative
\* bundle or, without one, from its adoption.
Contributed(r, withComparative) ==
    IF withComparative
    THEN {f \in (DOMAIN comparative[r].values) \X Metrics : Accepted(comparative[r], f[1], f[2])}
    ELSE {f \in {Filing[r].start} \X Metrics : adoption[r].values[f[2]] # NoValue}

\* prepare_financial_run; the additional report's adoption names its provenance
\* and is refused in a run of its own.
PrepareFinancialRun(r, withComparative) ==
    /\ ~run.made /\ r # Additional
    /\ adoption[r].made /\ (withComparative => comparative[r].made)
    /\ run' = [made |-> TRUE, accepted |-> Contributed(r, withComparative)]
    /\ UNCHANGED <<evidence, withdrawn, financial, adoption, comparative, pair, merged>>

\* prepare_multi_report replays both reports and, when supplied, the pair.
PrepareMultiReport(withPair) ==
    /\ ~merged.made /\ \A r \in Reports : comparative[r].made
    /\ withPair => pair.made
    /\ LET records == {comparative[r] : r \in Reports} \cup (IF withPair THEN {pair} ELSE {})
       IN  /\ NoConflict(records)
           /\ merged' = [made |-> TRUE, records |-> records, coverage |-> Coverage(records)]
    /\ UNCHANGED <<evidence, withdrawn, financial, adoption, comparative, pair, run>>

FinancialNext ==
    \/ \E d \in Docs : Withdraw(d)
    \/ AcquirePair
    \/ \E on \in {Filing[d].on : d \in Docs} : AcquireList(on)
    \/ \E r \in Reports : \/ AcquireReport(r)
                          \/ \E chosen \in SUBSET lists : PrepareFinancial(r, chosen)
                          \/ PrepareAcceptance(r)
                          \/ PrepareComparative(r)
                          \/ \E withComparative \in BOOLEAN : PrepareFinancialRun(r, withComparative)
    \/ PreparePair
    \/ \E withPair \in BOOLEAN : PrepareMultiReport(withPair)

FinancialSpec == FinancialInit /\ [][FinancialNext]_financialVars

-----------------------------------------------------------------------------
Bundles == {financial[r] : r \in {q \in Reports : financial[q].made}}

\* A period counts as an annual report only by a report of that period in the bundle's
\* archives that is no correction and that no list of the bundle shows withdrawn
\* (financial_disclosure, evaluate_financial).
CountedIsSound ==
    \A b \in Bundles : \A y \in b.annual :
        \E d \in b.archives : /\ Filing[d].start = y /\ Filing[d].type = "120"
                              /\ \A l \in b.lists : d \notin l.withdrawn

\* Every number that was adopted, compared or taken from the pair is the number
\* of every comparable fact of its report: no nil, no second value was passed
\* over (financial_mapping.review_metric, financial_acceptance.adopt_metric).
AcceptedIsUnanimous ==
    LET Unanimous(d, y, values) ==
            \A m \in Metrics : values[m] # NoValue =>
                \A f \in Candidates(d, m, y) : f.fit => f.value = values[m]
    IN  /\ \A r \in Reports : adoption[r].made => Unanimous(r, Filing[r].start, adoption[r].values)
        /\ \A r \in Reports : comparative[r].made =>
               \A y \in DOMAIN comparative[r].values : Unanimous(r, y, comparative[r].values[y])
        /\ pair.made => \A y \in DOMAIN pair.values : Unanimous(Amended, y, pair.values[y])

\* A year counts as complete only when each metric has one number, the same in
\* every report that has it; the merge has whatever a run of its first report
\* had; and a year taken from the amendment is one whose original and amendment
\* do not differ in any fact of the two years compared (merge_coverage,
\* evaluate_financial_run, compare_pair_records).
MergedIsConsistent ==
    /\ merged.made =>
           \A y \in Required : \A m \in merged.coverage[y] :
               Cardinality({rec.values[y][m] : rec \in {q \in merged.records : Accepted(q, y, m)}}) = 1
    /\ merged.made /\ run.made =>
           \A f \in run.accepted : f[1] \in Required => f[2] \in merged.coverage[f[1]]
    /\ pair.made =>
           \A y \in {Filing[Original].start, Filing[Original].start - 1}, m \in Metrics :
               {f.value : f \in Comparable(Original, m, y)} = {f.value : f \in Comparable(Amended, m, y)}
=============================================================================
