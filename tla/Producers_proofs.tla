----------------------------- MODULE Producers_proofs -----------------------------
(***************************************************************************)
(* What holds of every producer, for any invocations of any commands: the  *)
(* inductive invariant ProducersInv, and from it the rules of Producers,   *)
(* the action property of the verdicts, with PromiseInv the refinement of  *)
(* FlightPromise, and with RowsInv that a takeover is never refused.       *)
(***************************************************************************)
EXTENDS Producers, WellFoundedInduction, FiniteSetTheorems, TLAPS

Steps == {"mark", "continue", "inspect", "lease", "renew", "admit", "claim", "gates", "start", "send",
          "record", "verdict", "raw", "metadata", "evidence", "settle", "finally"}
\* Steps before the request of an item is admitted, before the item is sent, and
\* after its raw publication.
Early == {"mark", "continue", "inspect", "lease", "renew", "admit"}
Unsending == Early \cup {"claim", "gates", "start", "send"}
Late == {"metadata", "evidence", "settle", "finally"}

Present == {"reserved", "started", "succeeded", "failed", "unknown"}
Campaigns == {"annual", "pair"}

TypeInv ==
    /\ kind \in [Runs -> Kinds]
    /\ pc \in [Runs -> [step : Steps, item : Items]]
    /\ mode \in [Runs -> {"idle", "running", "raising", "returned", "raised", "dead"}]
    /\ target \in [Runs -> Runs]
    /\ answer \in [Runs -> {"none", "body", "rejected", "lost"}]
    /\ request \in [Attempts -> Active \cup Settled \cup {"absent", "joined"}]
    /\ admitted \in Seq(Attempts)
    /\ attempt \in [Attempts -> Present \cup {"none"}]
    /\ sends \in [Attempts -> Nat]
    /\ raw \in [Attempts -> {"none", "committed", "failed", "uncertain"}]
    /\ accepted \in [Runs -> Items \cup {0}]
    /\ slots \in [Campaigns -> SUBSET Items]

\* The places of each command.
ProperPlace(k, p) ==
    /\ p.item \in ItemsOf(k)
    /\ k = "boj" => p.step \in {"lease", "raw", "evidence", "settle", "finally"} \cup DOMAIN Exchange
    /\ k = "offline" => p.step \in {"inspect", "lease", "raw", "evidence", "finally"}
    /\ k = "dukascopy" =>
          /\ p.step \in {"lease", "renew", "raw"} \cup Late \cup DOMAIN Exchange
          /\ p.step \in {"lease", "admit", "claim"} => p.item = 1
          /\ p.step \in Late => p.item = Years
    /\ IsEdinet(k) =>
          /\ p.step \notin {"inspect", "metadata"}
          /\ p.step \in {"evidence", "finally"} => p.item \in {2, 4}
    /\ p.step \in {"mark", "continue"} => InCampaign(k) /\ p = FirstPlace(k)
PlaceInv == \A r \in Runs : ProperPlace(kind[r], pc[r])

\* How far an invocation is with an item.
PastAdmit == {a \in Attempts : LET p == pc[a[1]] IN a[2] < p.item \/ (a[2] = p.item /\ p.step \notin Early)}
PastSend == {a \in Attempts : LET p == pc[a[1]] IN a[2] < p.item \/ (a[2] = p.item /\ p.step \notin Unsending)}
PastVerdict ==
    {a \in Attempts : LET p == pc[a[1]] IN a[2] < p.item \/ (a[2] = p.item /\ p.step \in Late \cup {"raw"})}
PastRaw == {a \in Attempts : LET p == pc[a[1]] IN a[2] < p.item \/ (a[2] = p.item /\ p.step \in Late)}

\* What an invocation has behind it is published; an offline revalidation has the
\* file of its target behind it.
RawInv ==
    \A r \in Runs : \A i \in ItemsOf(kind[r]) : <<r, i>> \in PastRaw =>
        /\ kind[r] # "offline" => raw[<<r, i>>] = "committed"
        /\ kind[r] = "offline" => raw[<<target[r], 1>>] = "committed"

AcceptedInv ==
    \A r \in Runs :
        /\ \A i \in ItemsOf(kind[r]) : i <= accepted[r] => <<r, i>> \in PastRaw
        /\ kind[r] \in {"boj", "dukascopy"} /\ pc[r].step \in {"settle", "finally"} => accepted[r] > 0

\* A request is there only when its invocation has admitted it, and one that joined
\* is not in the queue.
RequestInv ==
    /\ \A q \in Attempts : request[q] # "absent" => q \in PastAdmit
    /\ \A n \in DOMAIN admitted : request[admitted[n]] \notin {"absent", "joined"}

SucceededInv ==
    \A n \in DOMAIN admitted :
        LET q == admitted[n]
        IN  request[q] = "succeeded" =>
               /\ \A i \in ItemsOf(kind[q[1]]) : RequestOf(q[1], i) = q => <<q[1], i>> \in PastRaw
               /\ ~IsEdinet(kind[q[1]]) => kind[q[1]] # "offline" /\ accepted[q[1]] > 0

SendsInv ==
    \A r \in Runs : \A i \in Items : sends[<<r, i>>] <= 1 /\ (sends[<<r, i>>] > 0 => <<r, i>> \in PastSend)

VerdictInv == \A r \in Runs : pc[r].step = "verdict" => attempt[<<r, pc[r].item>>] \in Settled

SentInCampaign(r, i, c) == InCampaign(kind[r]) /\ CampaignOf(r) = c /\ sends[<<r, i>>] > 0

\* The slots that an invocation of a campaign has behind it are spent.
SlotsInv ==
    \A r \in Runs : InCampaign(kind[r]) =>
        LET spent == slots[CampaignOf(r)]
        IN  /\ \A i \in Items : sends[<<r, i>>] > 0 => i \in spent
            /\ \A i \in Items : attempt[<<r, i>>] = "succeeded" => i \in spent
            /\ pc[r].step = "record" /\ answer[r] = "body" => pc[r].item \in spent
            /\ \A i \in ItemsOf(kind[r]) : <<r, i>> \in PastVerdict => i \in spent
            /\ kind[r] = "continuation" /\ pc[r].step # "continue" => 1 \in spent
OneSender ==
    \A c \in Campaigns, i \in Items : \A r, o \in Runs :
        SentInCampaign(r, i, c) /\ SentInCampaign(o, i, c) => r = o

ProducersInv ==
    TypeInv /\ PlaceInv /\ RawInv /\ AcceptedInv /\ RequestInv /\ SucceededInv /\ SendsInv /\ VerdictInv
    /\ SlotsInv /\ OneSender

-------------------------------------------------------------------------------
(* The programs.                                                            *)

\* A place leads to a later one: of the same item, or of the next one when the raw
\* file of this one is published.
Onward(k, p, q) ==
    /\ q \in [step : Steps, item : Items] /\ ProperPlace(k, q)
    /\ q.step \notin {"mark", "continue"}
    /\ \/ /\ q.item = p.item
          /\ p.step \notin Early => q.step \notin Early
          /\ p.step \notin Unsending => q.step \notin Unsending
          /\ p.step \in Late \cup {"raw"} => q.step \in Late \cup {"raw"}
          /\ q.step \in Late \cup {"raw"} =>
                p.step \in Late \cup {"raw", "verdict"} \/ k = "offline"
          /\ p.step \in Late => q.step \in Late
          /\ q.step \in Late => p.step \in Late \cup {"raw"}
       \/ /\ q.item = p.item + 1 /\ q.step \in Early
          /\ p.step \in Late \cup {"raw"}
    /\ q.step = "record" => p.step = "send"
    /\ q.step = "verdict" => p.step = "record"
    /\ k \in {"boj", "dukascopy"} /\ q.step \in {"settle", "finally"} => p.step \in {"evidence", "settle"}

LEMMA AfterIsOnward ==
    ASSUME NEW k \in Kinds, NEW p \in [step : Steps, item : Items], ProperPlace(k, p),
           p.step = "finally" => CallsAgain(k, p.item)
    PROVE  Onward(k, p, After(k, p))
  <1>1. CASE p.step \in DOMAIN Exchange
    <2>1. After(k, p) = Place(Exchange[p.step], p.item)
      BY <1>1 DEF After
    <2>2. p.step \in {"admit", "claim", "gates", "start", "send", "record", "verdict"}
      BY <1>1 DEF Exchange
    <2> QED
      BY <2>1, <2>2 DEF Place, Onward, ProperPlace, Steps, Early, Unsending, Late, Exchange
  <1>2. CASE p.step \notin DOMAIN Exchange /\ k = "boj"
    <2>1. After(k, p) = Place(BojProgram[p.step], p.item)
      BY <1>2 DEF After
    <2>3. p.step # "finally"
      BY <1>2 DEF CallsAgain
    <2> QED
      BY <1>2, <2>1, <2>3 DEF Place, BojProgram, Onward, ProperPlace, Steps, Early, Unsending, Late,
         IsEdinet, InCampaign, Exchange
  <1>3. CASE p.step \notin DOMAIN Exchange /\ k = "offline"
    <2>1. After(k, p) = Place(OfflineProgram[p.step], p.item)
      BY <1>3 DEF After
    <2>3. p.step # "finally"
      BY <1>3 DEF CallsAgain
    <2> QED
      BY <1>3, <2>1, <2>3 DEF Place, OfflineProgram, Onward, ProperPlace, Steps, Early, Unsending,
         Late, IsEdinet, InCampaign
  <1>4. CASE p.step \notin DOMAIN Exchange /\ k = "dukascopy"
    <2>1. After(k, p) = AfterDukascopy(p.step, p.item)
      BY <1>4 DEF After
    <2>3. p.step # "finally"
      BY <1>4 DEF CallsAgain
    <2>4. p.item \in 1 .. Years /\ Years \in 1 .. 4
      BY <1>4, ProducersAssumption DEF ProperPlace, ItemsOf
    <2>5. CASE p.step = "raw"
      BY <1>4, <2>1, <2>4, <2>5 DEF AfterDukascopy, DukascopyYear, Place, Onward, ProperPlace,
         ItemsOf, Steps, Early, Unsending, Late, IsEdinet, InCampaign, Items
    <2>6. CASE p.step # "raw"
      BY <1>4, <2>1, <2>3, <2>6 DEF AfterDukascopy, DukascopyProgram, Place, Onward, ProperPlace,
         Steps, Early, Unsending, Late, IsEdinet, InCampaign, Exchange
    <2> QED
      BY <2>5, <2>6
  <1>5. CASE p.step \notin DOMAIN Exchange /\ k \notin {"boj", "offline", "dukascopy"}
    <2>1. After(k, p) = AfterEdinet(p.step, p.item)
      BY <1>5 DEF After
    <2>2. p.step \in {"mark", "continue", "lease", "renew", "raw", "settle", "evidence", "finally"} /\ IsEdinet(k)
      BY <1>5 DEF ProperPlace, Steps, Exchange, Kinds, IsEdinet, InCampaign
    <2>3. p.item \in ItemsOf(k) /\ k \in {"acceptance", "pair", "annual", "continuation"}
      BY <1>5 DEF ProperPlace, Kinds
    <2>4. CASE p.step = "settle"
      BY <2>1, <2>3, <2>4 DEF AfterEdinet, EdinetCall, LastOfCall, Place, Onward, ProperPlace,
         ItemsOf, Steps, Early, Unsending, Late, Items
    <2>5. CASE p.step = "finally"
      BY <2>1, <2>5 DEF AfterEdinet, CallsAgain, Place, Onward, ProperPlace, ItemsOf, Steps, Early,
         Late, Items
    <2>6. CASE p.step \notin {"settle", "finally"}
      BY <1>5, <2>1, <2>2, <2>6 DEF AfterEdinet, EdinetKey, Place, Onward, ProperPlace, Steps,
         Early, Unsending, Late
    <2> QED
      BY <2>4, <2>5, <2>6
  <1> QED
    BY <1>1, <1>2, <1>3, <1>4, <1>5

LEMMA ItemsOfAreItems ==
    ASSUME NEW k
    PROVE  ItemsOf(k) \subseteq Items
  BY ProducersAssumption DEF ItemsOf, Items

\* What a step of one invocation changes in how far each is.
Moves(r) ==
    /\ pc' \in [Runs -> [step : Steps, item : Items]] /\ PlaceInv'
    /\ \A o \in Runs : o # r => pc'[o] = pc[o]
    /\ PastAdmit \subseteq PastAdmit' /\ PastSend \subseteq PastSend'
    /\ PastVerdict \subseteq PastVerdict' /\ PastRaw \subseteq PastRaw'
    /\ \A a \in PastVerdict' \ PastVerdict : a = Tried(r) /\ (pc[r].step = "verdict" \/ kind[r] = "offline")
    /\ \A a \in PastRaw' \ PastRaw : a = Tried(r) /\ pc[r].step = "raw"

\* The steps that the invocation enters.
Enters(r) ==
    /\ pc'[r].step \notin {"mark", "continue"}
    /\ pc'[r].step = "record" => pc[r].step = "send" /\ pc'[r].item = pc[r].item
    /\ pc'[r].step = "verdict" => pc[r].step = "record" /\ pc'[r].item = pc[r].item
    /\ kind[r] \in {"boj", "dukascopy"} /\ pc'[r].step \in {"settle", "finally"} =>
          pc[r].step \in {"evidence", "settle"}

LEMMA StepAdvances ==
    ASSUME TypeInv, PlaceInv, NEW r \in Runs, Step(r), UNCHANGED kind,
           pc[r].step = "finally" => CallsAgain(kind[r], Item(r))
    PROVE  Moves(r) /\ Enters(r)
  <1> DEFINE q == After(kind[r], pc[r])
  <1>1. Onward(kind[r], pc[r], q)
    BY AfterIsOnward DEF TypeInv, PlaceInv, Item
  <1>2. pc' = [pc EXCEPT ![r] = q]
    BY DEF Step
  <1> HIDE DEF q
  <1>3. q \in [step : Steps, item : Items] /\ ProperPlace(kind[r], q)
    BY <1>1 DEF Onward
  <1>4. pc' \in [Runs -> [step : Steps, item : Items]] /\ pc'[r] = q /\ \A o \in Runs : o # r => pc'[o] = pc[o]
    BY <1>2, <1>3 DEF TypeInv
  <1>5. PlaceInv'
    BY <1>3, <1>4 DEF PlaceInv
  <1>6. ASSUME NEW o \in Runs, NEW i \in Items, o # r
        PROVE  /\ <<o, i>> \in PastAdmit' <=> <<o, i>> \in PastAdmit
               /\ <<o, i>> \in PastSend' <=> <<o, i>> \in PastSend
               /\ <<o, i>> \in PastVerdict' <=> <<o, i>> \in PastVerdict
               /\ <<o, i>> \in PastRaw' <=> <<o, i>> \in PastRaw
    BY <1>4, <1>6 DEF PastAdmit, PastSend, PastVerdict, PastRaw
  <1>7. ASSUME NEW i \in Items
        PROVE  /\ <<r, i>> \in PastAdmit => <<r, i>> \in PastAdmit'
               /\ <<r, i>> \in PastSend => <<r, i>> \in PastSend'
               /\ <<r, i>> \in PastVerdict => <<r, i>> \in PastVerdict'
               /\ <<r, i>> \in PastRaw => <<r, i>> \in PastRaw'
               /\ <<r, i>> \in PastVerdict' /\ <<r, i>> \notin PastVerdict =>
                     i = Item(r) /\ (pc[r].step = "verdict" \/ kind[r] = "offline")
               /\ <<r, i>> \in PastRaw' /\ <<r, i>> \notin PastRaw => i = Item(r) /\ pc[r].step = "raw"
    <2>1. pc[r].item \in Items /\ q.item \in Items
      BY <1>3 DEF TypeInv
    <2>2. pc[r].item \in Int /\ q.item \in Int /\ i \in Int /\ pc'[r] = q
      BY <1>4, <2>1 DEF Items
    <2>3. /\ <<r, i>> \in PastAdmit <=> i < pc[r].item \/ (i = pc[r].item /\ pc[r].step \notin Early)
          /\ <<r, i>> \in PastSend <=> i < pc[r].item \/ (i = pc[r].item /\ pc[r].step \notin Unsending)
          /\ <<r, i>> \in PastVerdict <=> i < pc[r].item \/ (i = pc[r].item /\ pc[r].step \in Late \cup {"raw"})
          /\ <<r, i>> \in PastRaw <=> i < pc[r].item \/ (i = pc[r].item /\ pc[r].step \in Late)
          /\ <<r, i>> \in PastAdmit' <=> i < q.item \/ (i = q.item /\ q.step \notin Early)
          /\ <<r, i>> \in PastSend' <=> i < q.item \/ (i = q.item /\ q.step \notin Unsending)
          /\ <<r, i>> \in PastVerdict' <=> i < q.item \/ (i = q.item /\ q.step \in Late \cup {"raw"})
          /\ <<r, i>> \in PastRaw' <=> i < q.item \/ (i = q.item /\ q.step \in Late)
      BY <2>2 DEF PastAdmit, PastSend, PastVerdict, PastRaw, Attempts
    <2>4. CASE q.item = pc[r].item
      BY <1>1, <2>2, <2>3, <2>4 DEF Onward, Item
    <2>5. CASE q.item = pc[r].item + 1 /\ q.step \in Early /\ pc[r].step \in Late \cup {"raw"}
      BY <2>2, <2>3, <2>5 DEF Item, Early, Late
    <2> QED
      BY <1>1, <2>4, <2>5 DEF Onward
  <1>8. /\ q.step \notin {"mark", "continue"}
        /\ q.step = "record" => pc[r].step = "send" /\ q.item = pc[r].item
        /\ q.step = "verdict" => pc[r].step = "record" /\ q.item = pc[r].item
        /\ kind[r] \in {"boj", "dukascopy"} /\ q.step \in {"settle", "finally"} =>
              pc[r].step \in {"evidence", "settle"}
    BY <1>1 DEF Onward, Early
  <1>9. ASSUME NEW a \in Attempts
        PROVE  /\ a \in PastAdmit => a \in PastAdmit'
               /\ a \in PastSend => a \in PastSend'
               /\ a \in PastVerdict => a \in PastVerdict'
               /\ a \in PastRaw => a \in PastRaw'
    <2>1. PICK o \in Runs, i \in Items : a = <<o, i>>
      BY DEF Attempts
    <2> QED
      BY <1>6, <1>7, <2>1
  <1>10. /\ PastAdmit \subseteq PastAdmit' /\ PastSend \subseteq PastSend'
         /\ PastVerdict \subseteq PastVerdict' /\ PastRaw \subseteq PastRaw'
    <2>1. /\ PastAdmit \subseteq Attempts /\ PastSend \subseteq Attempts
          /\ PastVerdict \subseteq Attempts /\ PastRaw \subseteq Attempts
      BY DEF PastAdmit, PastSend, PastVerdict, PastRaw
    <2> QED
      BY <1>9, <2>1
  <1>11. ASSUME NEW a \in PastVerdict' \ PastVerdict
         PROVE  a = Tried(r) /\ (pc[r].step = "verdict" \/ kind[r] = "offline")
    <2>1. PICK o \in Runs, i \in Items : a = <<o, i>>
      BY DEF PastVerdict, Attempts
    <2> QED
      BY <1>6, <1>7, <2>1 DEF Tried
  <1>12. ASSUME NEW a \in PastRaw' \ PastRaw
         PROVE  a = Tried(r) /\ pc[r].step = "raw"
    <2>1. PICK o \in Runs, i \in Items : a = <<o, i>>
      BY DEF PastRaw, Attempts
    <2> QED
      BY <1>6, <1>7, <2>1 DEF Tried
  <1> QED
    BY <1>4, <1>5, <1>8, <1>10, <1>11, <1>12 DEF Moves, Enters

LEMMA StandingMoves ==
    ASSUME TypeInv, PlaceInv, NEW r \in Runs, UNCHANGED <<kind, pc>>
    PROVE  Moves(r)
  <1>1. UNCHANGED <<PastAdmit, PastSend, PastVerdict, PastRaw>>
    BY DEF PastAdmit, PastSend, PastVerdict, PastRaw
  <1>2. pc' \in [Runs -> [step : Steps, item : Items]] /\ PlaceInv' /\ pc' = pc
    BY DEF TypeInv, PlaceInv
  <1> QED
    BY <1>1, <1>2 DEF Moves

-------------------------------------------------------------------------------
(* The requests.                                                            *)

LEMMA Typed ==
    ASSUME TypeInv, NEW r \in Runs
    PROVE  /\ Item(r) \in Items /\ Tried(r) = <<r, Item(r)>> /\ Tried(r) \in Attempts
           /\ Mine(r) \in Attempts /\ Published(r) \in Attempts /\ Mine(r)[1] = r
           /\ Mine(r) = IF IsEdinet(kind[r]) THEN <<r, Item(r)>> ELSE <<r, 1>>
           /\ Published(r) = IF kind[r] = "offline" THEN <<target[r], 1>> ELSE <<r, Item(r)>>
  <1>1. Item(r) \in Items /\ target[r] \in Runs
    BY DEF TypeInv, Item
  <1> QED
    BY <1>1 DEF Tried, Mine, RequestOf, Published, Attempts, Items

\* A result is given to the invocation's request and to those that joined it.
LEMMA FinalizeGives ==
    ASSUME TypeInv, NEW r \in Runs, NEW outcome \in Settled, Finalize(r, outcome)
    PROVE  /\ request' \in [Attempts -> Active \cup Settled \cup {"absent", "joined"}]
           /\ request[Mine(r)] \in Active
           /\ \A q \in Attempts : request'[q] # request[q] =>
                 /\ request[q] = "joined" \/ q = Mine(r)
                 /\ request'[q] = outcome
  <1>1. Mine(r) \in Attempts /\ request[Mine(r)] \in Active
        /\ request' = [p \in Attempts |-> IF p = Mine(r) \/ (request[p] = "joined" /\ SameFingerprint(p, Mine(r)))
                                          THEN outcome ELSE request[p]]
    BY Typed DEF Finalize, WithResult
  <1> QED
    BY <1>1 DEF TypeInv

\* The oldest is one of them.
LEMMA OldestIsOne ==
    ASSUME NEW W \in SUBSET Nat, W # {}
    PROVE  Oldest(W) \in W
  <1>1. \E n \in W : \A m \in W : n <= m
    <2>1. PICK n \in W : \A m \in W : <<m, n>> \notin OpToRel(<, Nat)
      BY WFMin, NatLessThanWellFounded, Zenon
    <2>2. \A m \in W : ~(m < n)
      BY <2>1, Zenon DEF OpToRel
    <2>3. \A m \in W : n <= m
      BY <2>2
    <2> QED
      BY <2>3
  <1> QED
    BY <1>1 DEF Oldest

LEMMA ClaimTakesQueued ==
    ASSUME TypeInv, NEW r \in Runs, ClaimNextQueued(r)
    PROVE  /\ request' \in [Attempts -> Active \cup Settled \cup {"absent", "joined"}]
           /\ \A q \in Attempts : request'[q] # request[q] => request[q] = "queued" /\ request'[q] = "claimed"
  <1> DEFINE W == Waiting(DomainOf(Mine(r)))
  <1>1. request' = IF W = {} THEN request ELSE [request EXCEPT ![admitted[Oldest(W)]] = "claimed"]
    BY DEF ClaimNextQueued
  <1>2. W \subseteq DOMAIN admitted /\ W \subseteq Nat
    BY DEF Waiting
  <1>3. ASSUME W # {} PROVE admitted[Oldest(W)] \in Attempts /\ request[admitted[Oldest(W)]] = "queued"
    <2>1. Oldest(W) \in W
      BY <1>2, <1>3, OldestIsOne
    <2>2. request[admitted[Oldest(W)]] = "queued"
      BY <2>1 DEF Waiting
    <2> QED
      BY <1>2, <2>1, <2>2 DEF TypeInv
  <1> HIDE DEF W
  <1> QED
    BY <1>1, <1>3 DEF TypeInv, Active

LEMMA TakeoverSettles ==
    ASSUME TypeInv, RecoverExpiredLease
    PROVE  /\ request' \in [Attempts -> Active \cup Settled \cup {"absent", "joined"}]
           /\ \A q \in Attempts : request'[q] # request[q] =>
                 /\ request[q] \in Unsettled
                 /\ request[q] = "joined" => request'[q] \in {"unknown", "failed"}
                 /\ request'[q] \in {"queued", "unknown", "failed"}
  <1>1. ASSUME NEW p \in Attempts
        PROVE  /\ request[p] \notin Active => AfterTakeover(p) = request[p]
               /\ request[p] \in Active => AfterTakeover(p) \in Active \cup {"unknown", "failed"}
               /\ request[p] \in Active => AfterTakeover(p) \in {request[p], "queued", "unknown", "failed"}
    BY DEF AfterTakeover, Active
  <1>2. ASSUME NEW p \in Attempts PROVE AfterLeader(p) \in {"joined", "unknown", "failed"}
    <2>1. CASE LeadersSettled(p) = {}
      BY <2>1 DEF AfterLeader
    <2>2. CASE LeadersSettled(p) # {}
      <3> DEFINE q == CHOOSE l \in LeadersSettled(p) : TRUE
      <3>1. q \in LeadersSettled(p)
        BY <2>2
      <3>2. AfterLeader(p) = AfterTakeover(q)
        BY <2>2 DEF AfterLeader
      <3> HIDE DEF q
      <3>3. q \in Attempts /\ request[q] \in Active /\ AfterTakeover(q) \in Settled
        BY <3>1 DEF LeadersSettled
      <3> QED
        BY <1>1, <3>2, <3>3 DEF Settled, Active
    <2> QED
      BY <2>1, <2>2
  <1>3. request' = [p \in Attempts |-> IF request[p] = "joined" THEN AfterLeader(p) ELSE AfterTakeover(p)]
    BY DEF RecoverExpiredLease
  <1>4. ASSUME NEW p \in Attempts
        PROVE  request'[p] \in Active \cup Settled \cup {"absent", "joined"}
    BY <1>1, <1>2, <1>3 DEF TypeInv, Active, Settled
  <1> QED
    BY <1>1, <1>2, <1>3, <1>4 DEF Unsettled

LEMMA AdmitAdds ==
    ASSUME TypeInv, PlaceInv, RequestInv, NEW r \in Runs, AdmitLogicalRequest(r)
    PROVE  /\ Mine(r) = <<r, Item(r)>> /\ request[Mine(r)] = "absent"
           /\ \/ request' = [request EXCEPT ![Mine(r)] = "joined"] /\ admitted' = admitted
              \/ request' = [request EXCEPT ![Mine(r)] = "queued"] /\ admitted' = Append(admitted, Mine(r))
  <1>1. pc[r].step = "admit" /\ Item(r) = pc[r].item
    BY DEF AdmitLogicalRequest, At, Item
  <1>2. Mine(r) = <<r, Item(r)>>
    <2>1. ~IsEdinet(kind[r]) => pc[r].item = 1
      BY <1>1 DEF PlaceInv, ProperPlace, ItemsOf, IsEdinet, InCampaign
    <2> QED
      BY <1>1, <2>1, Typed
  <1>3. request[Mine(r)] = "absent"
    <2>1. <<r, Item(r)>> \notin PastAdmit
      <3>1. pc[r].item \in Items
        BY DEF TypeInv
      <3> QED
        BY <1>1, <3>1 DEF PastAdmit, Early, Items
    <2>2. Mine(r) \in Attempts
      BY Typed
    <2> QED
      BY <1>2, <2>1, <2>2 DEF RequestInv
  <1> QED
    BY <1>2, <1>3 DEF AdmitLogicalRequest


LEMMA SpendAdds ==
    ASSUME TypeInv, NEW r \in Runs
    PROVE  /\ Spend(r) \in [Campaigns -> SUBSET Items]
           /\ \A c \in Campaigns : slots[c] \subseteq Spend(r)[c]
           /\ InCampaign(kind[r]) => Item(r) \in Spend(r)[CampaignOf(r)]
  <1>1. CampaignOf(r) \in Campaigns
    BY DEF CampaignOf, Campaigns
  <1> QED
    BY <1>1, Typed DEF Spend, TypeInv
-------------------------------------------------------------------------------
(* What keeps each part of the invariant.                                   *)

\* Published files stay, and an item is left only with its own.
LEMMA RawStays ==
    ASSUME ProducersInv, NEW r \in Runs, Moves(r), UNCHANGED kind, target' \in [Runs -> Runs],
           target' = target \/ (pc[r].step = "inspect" /\ \A o \in Runs : o # r => target'[o] = target[o]),
           \A a \in Attempts : raw[a] = "committed" => raw'[a] = "committed",
           pc[r].step = "raw" /\ pc' # pc => raw'[Published(r)] = "committed"
    PROVE  RawInv'
  <1> SUFFICES ASSUME NEW o \in Runs, NEW i \in ItemsOf(kind[o]), <<o, i>> \in PastRaw'
               PROVE  /\ kind[o] # "offline" => raw'[<<o, i>>] = "committed"
                      /\ kind[o] = "offline" => raw'[<<target'[o], 1>>] = "committed"
    BY DEF RawInv
  <1>1. <<o, i>> \in Attempts /\ <<target[o], 1>> \in Attempts
    BY ItemsOfAreItems DEF ProducersInv, TypeInv, Attempts, Items
  <1>2. CASE <<o, i>> \in PastRaw
    <2>1. CASE target'[o] = target[o]
      BY <1>1, <1>2, <2>1 DEF ProducersInv, RawInv
    <2>2. CASE target'[o] # target[o]
      <3>1. o = r /\ pc[r].step = "inspect" /\ ProperPlace(kind[r], pc[r]) /\ kind[r] \in Kinds
        BY <2>2 DEF ProducersInv, PlaceInv, TypeInv
      <3>2. kind[r] = "offline" /\ pc[r].item = 1 /\ i = 1
        BY <3>1 DEF ProperPlace, Kinds, ItemsOf, IsEdinet, InCampaign, Exchange, Late
      <3>3. <<r, i>> \notin PastRaw
        BY <3>1, <3>2 DEF PastRaw, Late
      <3> QED
        BY <1>2, <3>1, <3>3
    <2> QED
      BY <2>1, <2>2
  <1>3. CASE <<o, i>> \notin PastRaw
    <2>1. <<o, i>> = Tried(r)
      BY <1>3 DEF Moves
    <2>2. o = r /\ i = Item(r)
      BY <2>1 DEF Tried
    <2>3. pc' # pc
      BY <1>3 DEF PastRaw
    <2>4. target' = target /\ raw'[Published(r)] = "committed"
      BY <1>3, <2>3 DEF Moves
    <2> QED
      BY <2>2, <2>4, Typed DEF ProducersInv
  <1> QED
    BY <1>2, <1>3

\* Evidence rests on what is behind the invocation.
LEMMA AcceptedStays ==
    ASSUME ProducersInv, NEW r \in Runs, Moves(r), UNCHANGED kind,
           \/ accepted' = accepted
           \/ accepted' = [accepted EXCEPT ![r] = Item(r)] /\ pc[r].step = "evidence",
           \/ pc' = pc
           \/ Enters(r) /\ (pc[r].step = "evidence" => accepted'[r] = Item(r))
    PROVE  AcceptedInv'
  <1> SUFFICES ASSUME NEW o \in Runs
               PROVE  /\ \A i \in ItemsOf(kind[o]) : i <= accepted'[o] => <<o, i>> \in PastRaw'
                      /\ kind[o] \in {"boj", "dukascopy"} /\ pc'[o].step \in {"settle", "finally"} =>
                            accepted'[o] > 0
    BY DEF AcceptedInv
  <1>1. Item(r) \in 1 .. 4 /\ pc[r].item = Item(r)
    BY Typed DEF ProducersInv, Items, Item
  <1>2. ASSUME NEW i \in ItemsOf(kind[o]), i <= accepted'[o] PROVE <<o, i>> \in PastRaw'
    <2>1. CASE accepted'[o] = accepted[o]
      BY <1>2, <2>1 DEF ProducersInv, AcceptedInv, Moves
    <2>2. CASE accepted'[o] # accepted[o]
      <3>1. o = r /\ accepted'[r] = Item(r) /\ pc[r].step = "evidence"
        BY <2>2 DEF ProducersInv, TypeInv
      <3>2. i \in Items /\ i <= Item(r)
        BY <1>2, <3>1, ItemsOfAreItems
      <3>3. <<r, i>> \in PastRaw
        BY <1>1, <3>1, <3>2 DEF PastRaw, Attempts, Late, Items
      <3> QED
        BY <3>1, <3>3 DEF Moves
    <2> QED
      BY <2>1, <2>2
  <1>3. ASSUME kind[o] \in {"boj", "dukascopy"}, pc'[o].step \in {"settle", "finally"} PROVE accepted'[o] > 0
    <2>1. CASE o # r \/ pc' = pc
      <3>1. pc'[o] = pc[o] /\ accepted[o] > 0
        BY <1>3, <2>1 DEF ProducersInv, AcceptedInv, Moves
      <3>2. accepted'[o] = accepted[o] \/ accepted'[o] = Item(r)
        BY DEF ProducersInv, TypeInv
      <3> QED
        BY <1>1, <3>1, <3>2
    <2>2. CASE o = r /\ pc' # pc
      <3>1. pc[r].step \in {"evidence", "settle"}
        BY <1>3, <2>2 DEF Enters
      <3>2. CASE pc[r].step = "evidence"
        BY <1>1, <2>2, <3>2
      <3>3. CASE pc[r].step = "settle"
        <4> QED
          BY <1>3, <2>2, <3>3 DEF ProducersInv, AcceptedInv
      <3> QED
        BY <3>1, <3>2, <3>3
    <2> QED
      BY <2>1, <2>2
  <1> QED
    BY <1>2, <1>3

\* A request that is there is behind its invocation.
LEMMA RequestStays ==
    ASSUME ProducersInv, NEW r \in Runs, Moves(r), admitted' = admitted,
           \A q \in Attempts : request'[q] # request[q] =>
               request[q] # "absent" /\ (request[q] # "joined" => request'[q] \notin {"absent", "joined"})
    PROVE  RequestInv'
  <1>1. ASSUME NEW q \in Attempts, request'[q] # "absent" PROVE q \in PastAdmit'
    BY <1>1 DEF ProducersInv, RequestInv, Moves
  <1>2. ASSUME NEW n \in DOMAIN admitted PROVE request'[admitted[n]] \notin {"absent", "joined"}
    <2>1. admitted[n] \in Attempts /\ request[admitted[n]] \notin {"absent", "joined"}
      BY DEF ProducersInv, TypeInv, RequestInv
    <2> QED
      BY <2>1
  <1> QED
    BY <1>1, <1>2 DEF RequestInv

\* A success is new only with everything behind it.
LEMMA SucceededStays ==
    ASSUME ProducersInv, NEW r \in Runs, Moves(r), UNCHANGED kind, admitted' = admitted,
           \A o \in Runs : accepted[o] > 0 => accepted'[o] > 0,
           \A n \in DOMAIN admitted :
               LET q == admitted[n]
               IN  request'[q] = "succeeded" /\ request[q] # "succeeded" =>
                       /\ \A i \in ItemsOf(kind[q[1]]) : RequestOf(q[1], i) = q => <<q[1], i>> \in PastRaw'
                       /\ ~IsEdinet(kind[q[1]]) => kind[q[1]] # "offline" /\ accepted'[q[1]] > 0
    PROVE  SucceededInv'
  <1> SUFFICES ASSUME NEW n \in DOMAIN admitted, request'[admitted[n]] = "succeeded"
               PROVE  LET q == admitted[n]
                      IN  /\ \A i \in ItemsOf(kind[q[1]]) : RequestOf(q[1], i) = q => <<q[1], i>> \in PastRaw'
                          /\ ~IsEdinet(kind[q[1]]) => kind[q[1]] # "offline" /\ accepted'[q[1]] > 0
    BY DEF SucceededInv, RequestOf
  <1>1. admitted[n] \in Attempts /\ admitted[n][1] \in Runs
    BY DEF ProducersInv, TypeInv, Attempts
  <1>2. CASE request[admitted[n]] = "succeeded"
    BY <1>1 DEF ProducersInv, SucceededInv, Moves
  <1>3. CASE request[admitted[n]] # "succeeded"
    BY <1>3
  <1> QED
    BY <1>2

LEMMA SendsStay ==
    ASSUME ProducersInv, NEW r \in Runs, Moves(r), sends' = sends
    PROVE  SendsInv'
  <1> SUFFICES ASSUME NEW o \in Runs, NEW i \in Items
               PROVE  sends'[<<o, i>>] <= 1 /\ (sends'[<<o, i>>] > 0 => <<o, i>> \in PastSend')
    BY Zenon DEF SendsInv
  <1>1. sends[<<o, i>>] <= 1 /\ (sends[<<o, i>>] > 0 => <<o, i>> \in PastSend)
    BY DEF ProducersInv, SendsInv
  <1>2. PastSend \subseteq PastSend'
    BY DEF Moves
  <1> QED
    BY <1>1, <1>2

\* An attempt is decided before the verdict on it.
LEMMA VerdictStays ==
    ASSUME ProducersInv, NEW r \in Runs, Moves(r), pc' = pc \/ Enters(r),
           \A a \in Attempts : attempt[a] \in Settled /\ (a # Tried(r) \/ pc[r].step = "verdict") => attempt'[a] \in Settled,
           pc[r].step = "record" /\ pc' # pc => attempt'[Tried(r)] \in Settled
    PROVE  VerdictInv'
  <1> SUFFICES ASSUME NEW o \in Runs, pc'[o].step = "verdict"
               PROVE  attempt'[<<o, pc'[o].item>>] \in Settled
    BY DEF VerdictInv
  <1>1. CASE o # r \/ pc' = pc
    <2>1. pc'[o] = pc[o] /\ attempt[<<o, pc[o].item>>] \in Settled
      BY <1>1 DEF ProducersInv, VerdictInv, Moves
    <2>2. <<o, pc[o].item>> \in Attempts /\ (<<o, pc[o].item>> # Tried(r) \/ pc[r].step = "verdict")
      BY <1>1 DEF ProducersInv, TypeInv, Attempts, Tried
    <2> QED
      BY <2>1, <2>2
  <1>2. CASE o = r /\ pc' # pc
    BY <1>2 DEF Enters, Tried, Item
  <1> QED
    BY <1>1, <1>2

\* The slots that are spent stay so; one is new behind an invocation only when it
\* was spent for its answer.
LEMMA SlotsStay ==
    ASSUME ProducersInv, NEW r \in Runs, Moves(r), UNCHANGED kind, pc' = pc \/ Enters(r),
           \A c \in Campaigns : slots[c] \subseteq slots'[c],
           \A a \in Attempts : sends'[a] > 0 /\ InCampaign(kind[a[1]]) =>
               sends[a] > 0 \/ a[2] \in slots'[CampaignOf(a[1])],
           \A a \in Attempts : attempt'[a] = "succeeded" /\ InCampaign(kind[a[1]]) =>
               attempt[a] = "succeeded" \/ a[2] \in slots'[CampaignOf(a[1])],
           \A o \in Runs : o # r \/ pc[r].step # "send" => answer'[o] = answer[o],
           pc[r].step = "send" /\ pc' # pc /\ InCampaign(kind[r]) /\ answer'[r] = "body" =>
               Item(r) \in slots'[CampaignOf(r)],
           pc[r].step = "verdict" /\ pc' # pc => attempt[Tried(r)] = "succeeded",
           pc[r].step = "continue" /\ pc' # pc => 1 \in slots'["annual"]
    PROVE  SlotsInv'
  <1> SUFFICES ASSUME NEW o \in Runs, InCampaign(kind[o])
               PROVE  LET spent == slots'[CampaignOf(o)]
                      IN  /\ \A i \in Items : sends'[<<o, i>>] > 0 => i \in spent
                          /\ \A i \in Items : attempt'[<<o, i>>] = "succeeded" => i \in spent
                          /\ pc'[o].step = "record" /\ answer'[o] = "body" => pc'[o].item \in spent
                          /\ \A i \in ItemsOf(kind[o]) : <<o, i>> \in PastVerdict' => i \in spent
                          /\ kind[o] = "continuation" /\ pc'[o].step # "continue" => 1 \in spent
    BY DEF SlotsInv, CampaignOf
  <1>1. CampaignOf(o) \in Campaigns /\ slots[CampaignOf(o)] \subseteq slots'[CampaignOf(o)]
    BY DEF CampaignOf, Campaigns
  <1>2. ASSUME NEW i \in Items
        PROVE  /\ sends'[<<o, i>>] > 0 => i \in slots'[CampaignOf(o)]
               /\ attempt'[<<o, i>>] = "succeeded" => i \in slots'[CampaignOf(o)]
    <2>1. <<o, i>> \in Attempts
      BY DEF Attempts
    <2> QED
      BY <1>1, <2>1 DEF ProducersInv, SlotsInv
  <1>3. ASSUME pc'[o].step = "record", answer'[o] = "body" PROVE pc'[o].item \in slots'[CampaignOf(o)]
    <2>1. CASE o # r \/ pc' = pc
      <3>1. pc'[o] = pc[o] /\ answer'[o] = answer[o]
        BY <1>3, <2>1 DEF Moves
      <3> QED
        BY <1>1, <1>3, <3>1 DEF ProducersInv, SlotsInv
    <2>2. CASE o = r /\ pc' # pc
      BY <1>3, <2>2 DEF Enters, Item
    <2> QED
      BY <2>1, <2>2
  <1>4. ASSUME NEW i \in ItemsOf(kind[o]), <<o, i>> \in PastVerdict' PROVE i \in slots'[CampaignOf(o)]
    <2>1. CASE <<o, i>> \in PastVerdict
      BY <1>1, <2>1 DEF ProducersInv, SlotsInv
    <2>2. CASE <<o, i>> \notin PastVerdict
      <3>1. <<o, i>> = Tried(r) /\ (pc[r].step = "verdict" \/ kind[r] = "offline")
        BY <1>4, <2>2 DEF Moves
      <3>2. o = r /\ pc[r].step = "verdict"
        BY <3>1 DEF Tried, InCampaign
      <3>3. pc' # pc
        BY <1>4, <2>2 DEF PastVerdict
      <3>4. attempt[<<o, i>>] = "succeeded" /\ i \in Items
        BY <3>1, <3>2, <3>3, ItemsOfAreItems
      <3> QED
        BY <1>1, <3>4 DEF ProducersInv, SlotsInv
    <2> QED
      BY <2>1, <2>2
  <1>5. ASSUME kind[o] = "continuation", pc'[o].step # "continue" PROVE 1 \in slots'[CampaignOf(o)]
    <2>1. CASE pc[o].step # "continue"
      BY <1>1, <1>5, <2>1 DEF ProducersInv, SlotsInv
    <2>2. CASE pc[o].step = "continue"
      <3>1. pc' # pc /\ o = r
        BY <1>5, <2>2 DEF Moves
      <3> QED
        BY <1>5, <2>2, <3>1 DEF CampaignOf
    <2> QED
      BY <2>1, <2>2
  <1> QED
    BY <1>2, <1>3, <1>4, <1>5

\* Nobody sends what was sent in the campaign.
LEMMA SenderStays ==
    ASSUME ProducersInv, UNCHANGED <<kind, sends>>
    PROVE  OneSender'
  BY DEF ProducersInv, OneSender, SentInCampaign, CampaignOf

-------------------------------------------------------------------------------
(* The invariant, step by step.                                             *)

\* A step that leaves the requests, attempts and files alone.
LEMMA QuietKeeps ==
    ASSUME ProducersInv, NEW r \in Runs, Moves(r),
           pc' = pc \/ (Enters(r) /\ pc[r].step \notin {"send", "record", "raw", "evidence"}),
           mode' \in [Runs -> {"idle", "running", "raising", "returned", "raised", "dead"}], target' \in [Runs -> Runs],
           target' = target \/ (pc[r].step = "inspect" /\ \A o \in Runs : o # r => target'[o] = target[o]),
           UNCHANGED <<kind, answer, requestVars, attempt, sends, raw, accepted, slots>>,
           pc[r].step = "verdict" /\ pc' # pc => attempt[Tried(r)] = "succeeded",
           pc[r].step = "continue" /\ pc' # pc => 1 \in slots["annual"]
    PROVE  ProducersInv'
  <1>2. UNCHANGED <<kind, answer, request, admitted, attempt, sends, raw, accepted, slots>>
    BY DEF requestVars
  <1>3. TypeInv'
    BY <1>2 DEF ProducersInv, TypeInv, Moves
  <1>4. PlaceInv'
    BY DEF Moves
  <1>5. RawInv'
    BY RawStays
  <1>6. AcceptedInv'
    BY AcceptedStays
  <1>7. RequestInv'
    BY <1>2, RequestStays
  <1>8. SucceededInv'
    BY <1>2, SucceededStays
  <1>9. SendsInv'
    BY SendsStay
  <1>10. VerdictInv'
    BY VerdictStays
  <1>11. SlotsInv'
    BY SlotsStay
  <1>12. OneSender'
    BY SenderStays
  <1> QED
    BY <1>3, <1>4, <1>5, <1>6, <1>7, <1>8, <1>9, <1>10, <1>11, <1>12 DEF ProducersInv

LEMMA QuietSteps ==
    ASSUME ProducersInv, NEW r \in Runs,
           \/ Prepare(r)
           \/ AcceptBody(r) \/ HeartbeatLease(r) \/ CollectMetadata(r) \/ Finally(r) \/ Raise(r)
    PROVE  ProducersInv'
  <1>1. /\ pc[r] \in [step : Steps, item : Items] /\ kind[r] \in Kinds /\ target[r] \in Runs
        /\ TypeInv /\ PlaceInv
    BY DEF ProducersInv, TypeInv
  <1>2. CASE Invoke(r)
    <2>1. Moves(r) /\ pc' = pc
      BY <1>1, <1>2, StandingMoves DEF Invoke
    <2>2. mode' \in [Runs -> {"idle", "running", "raising", "returned", "raised", "dead"}] /\ target' = target /\ UNCHANGED <<kind, answer, requestVars, attempt, sends, raw, accepted, slots>>
      BY <1>2 DEF Invoke, fileVars, campaignVars, ProducersInv, TypeInv
    <2> QED
      BY <1>1, <2>1, <2>2, QuietKeeps DEF TypeInv
  <1>3. CASE MarkCampaign(r)
    <2>2. CASE Step(r)
      <3>1. Moves(r) /\ Enters(r)
        BY <1>1, <1>3, <2>2, StepAdvances DEF MarkCampaign, At
      <3>2. mode' \in [Runs -> {"idle", "running", "raising", "returned", "raised", "dead"}] /\ target' = target /\ UNCHANGED <<kind, answer, requestVars, attempt, sends, raw, accepted, slots>>
        BY <1>3 DEF MarkCampaign, Step, fileVars, ProducersInv, TypeInv
      <3>3. pc[r].step = "mark"
        BY <1>3 DEF MarkCampaign, At
      <3> QED
        BY <1>1, <3>1, <3>2, <3>3, QuietKeeps DEF TypeInv
    <2>3. CASE mode' = [mode EXCEPT ![r] = "dead"] /\ UNCHANGED pc
      <3>1. Moves(r) /\ pc' = pc
        BY <1>1, <1>3, <2>3, StandingMoves DEF MarkCampaign
      <3>2. mode' \in [Runs -> {"idle", "running", "raising", "returned", "raised", "dead"}] /\ target' = target /\ UNCHANGED <<kind, answer, requestVars, attempt, sends, raw, accepted, slots>>
        BY <1>3, <2>3 DEF MarkCampaign, fileVars, ProducersInv, TypeInv
      <3> QED
        BY <1>1, <3>1, <3>2, QuietKeeps DEF TypeInv
    <2> QED
      BY <1>3, <2>2, <2>3 DEF MarkCampaign
  <1>4. CASE ContinuePrior(r)
    <2>1. Moves(r) /\ Enters(r)
      BY <1>1, <1>4, StepAdvances DEF ContinuePrior, At
    <2>2. mode' \in [Runs -> {"idle", "running", "raising", "returned", "raised", "dead"}] /\ target' = target /\ UNCHANGED <<kind, answer, requestVars, attempt, sends, raw, accepted, slots>>
      BY <1>4 DEF ContinuePrior, Step, fileVars, ProducersInv, TypeInv
    <2>3. pc[r].step = "continue" /\ slots["annual"] = {1}
      BY <1>4 DEF ContinuePrior, At
    <2> QED
      BY <1>1, <2>1, <2>2, <2>3, QuietKeeps DEF TypeInv
  <1>5. CASE Inspect(r)
    <2>1. Moves(r) /\ Enters(r)
      BY <1>1, <1>5, StepAdvances DEF Inspect, At
    <2>2. PICK p \in Runs : target' = [target EXCEPT ![r] = p]
      BY <1>5 DEF Inspect
    <2>3. target' \in [Runs -> Runs] /\ \A o \in Runs : o # r => target'[o] = target[o]
      BY <2>2 DEF ProducersInv, TypeInv
    <2>4. mode' \in [Runs -> {"idle", "running", "raising", "returned", "raised", "dead"}] /\ UNCHANGED <<kind, answer, requestVars, attempt, sends, raw, accepted, slots>>
      BY <1>5 DEF Inspect, Step, fileVars, campaignVars, ProducersInv, TypeInv
    <2>5. pc[r].step = "inspect"
      BY <1>5 DEF Inspect, At
    <2> QED
      BY <2>1, <2>3, <2>4, <2>5, QuietKeeps
  <1>6. CASE AcquireLease(r)
    <2>1. Moves(r) /\ Enters(r)
      BY <1>1, <1>6, StepAdvances DEF AcquireLease, At
    <2>2. mode' \in [Runs -> {"idle", "running", "raising", "returned", "raised", "dead"}] /\ target' = target /\ UNCHANGED <<kind, answer, requestVars, attempt, sends, raw, accepted, slots>>
      BY <1>6 DEF AcquireLease, Step, fileVars, campaignVars, ProducersInv, TypeInv
    <2>3. pc[r].step = "lease"
      BY <1>6 DEF AcquireLease, At
    <2> QED
      BY <1>1, <2>1, <2>2, <2>3, QuietKeeps DEF TypeInv
  <1>7. CASE Refuse(r)
    <2>1. Moves(r) /\ pc' = pc
      BY <1>1, <1>7, StandingMoves DEF Refuse
    <2>2. mode' \in [Runs -> {"idle", "running", "raising", "returned", "raised", "dead"}] /\ target' = target /\ UNCHANGED <<kind, answer, requestVars, attempt, sends, raw, accepted, slots>>
      BY <1>7 DEF Refuse, fileVars, campaignVars, ProducersInv, TypeInv
    <2> QED
      BY <1>1, <2>1, <2>2, QuietKeeps DEF TypeInv
  <1>8. CASE AcceptBody(r)
    <2>1. Moves(r) /\ Enters(r)
      BY <1>1, <1>8, StepAdvances DEF AcceptBody, At
    <2>2. mode' \in [Runs -> {"idle", "running", "raising", "returned", "raised", "dead"}] /\ target' = target /\ UNCHANGED <<kind, answer, requestVars, attempt, sends, raw, accepted, slots>>
      BY <1>8 DEF AcceptBody, Step, fileVars, campaignVars, ProducersInv, TypeInv
    <2>3. pc[r].step = "verdict" /\ attempt[Tried(r)] = "succeeded"
      BY <1>8 DEF AcceptBody, At
    <2> QED
      BY <1>1, <2>1, <2>2, <2>3, QuietKeeps DEF TypeInv
  <1>9. CASE HeartbeatLease(r)
    <2>1. Moves(r) /\ Enters(r)
      BY <1>1, <1>9, StepAdvances DEF HeartbeatLease, At
    <2>2. mode' \in [Runs -> {"idle", "running", "raising", "returned", "raised", "dead"}] /\ target' = target /\ UNCHANGED <<kind, answer, requestVars, attempt, sends, raw, accepted, slots>>
      BY <1>9 DEF HeartbeatLease, Step, fileVars, campaignVars, ProducersInv, TypeInv
    <2>3. pc[r].step = "renew"
      BY <1>9 DEF HeartbeatLease, At
    <2> QED
      BY <1>1, <2>1, <2>2, <2>3, QuietKeeps DEF TypeInv
  <1>10. CASE CollectMetadata(r)
    <2>1. Moves(r) /\ Enters(r)
      BY <1>1, <1>10, StepAdvances DEF CollectMetadata, At
    <2>2. mode' \in [Runs -> {"idle", "running", "raising", "returned", "raised", "dead"}] /\ target' = target /\ UNCHANGED <<kind, answer, requestVars, attempt, sends, raw, accepted, slots>>
      BY <1>10 DEF CollectMetadata, Step, fileVars, campaignVars, ProducersInv, TypeInv
    <2>3. pc[r].step = "metadata"
      BY <1>10 DEF CollectMetadata, At
    <2> QED
      BY <1>1, <2>1, <2>2, <2>3, QuietKeeps DEF TypeInv
  <1>11. CASE Finally(r)
    <2>1. UNCHANGED <<kind, target, answer, requestVars, attempt, sends, raw, accepted, slots>>
      BY <1>11 DEF Finally, fileVars, campaignVars
    <2>2. CASE At(r, "finally") /\ CallsAgain(kind[r], Item(r))
      <3>1. Step(r)
        BY <1>11, <2>2 DEF Finally
      <3>2. Moves(r) /\ Enters(r)
        BY <1>1, <2>1, <2>2, <3>1, StepAdvances
      <3>3. mode' \in [Runs -> {"idle", "running", "raising", "returned", "raised", "dead"}] /\ pc[r].step = "finally"
        BY <2>2, <3>1 DEF Step, At, ProducersInv, TypeInv
      <3> QED
        BY <1>1, <2>1, <3>2, <3>3, QuietKeeps DEF TypeInv
    <2>3. CASE ~(At(r, "finally") /\ CallsAgain(kind[r], Item(r)))
      <3>1. mode' \in [Runs -> {"idle", "running", "raising", "returned", "raised", "dead"}] /\ pc' = pc
        BY <1>11, <2>3 DEF Finally, ProducersInv, TypeInv
      <3>2. Moves(r)
        BY <1>1, <2>1, <3>1, StandingMoves
      <3> QED
        BY <1>1, <2>1, <3>1, <3>2, QuietKeeps DEF TypeInv
    <2> QED
      BY <2>2, <2>3
  <1>12. CASE Raise(r)
    <2>1. Moves(r) /\ pc' = pc
      BY <1>1, <1>12, StandingMoves DEF Raise, RaiseWith
    <2>2. mode' \in [Runs -> {"idle", "running", "raising", "returned", "raised", "dead"}] /\ target' = target /\ UNCHANGED <<kind, answer, requestVars, attempt, sends, raw, accepted, slots>>
      BY <1>12 DEF Raise, RaiseWith, fileVars, campaignVars, ProducersInv, TypeInv
    <2> QED
      BY <1>1, <2>1, <2>2, QuietKeeps DEF TypeInv
  <1> QED
    BY <1>2, <1>3, <1>4, <1>5, <1>6, <1>7, <1>8, <1>9, <1>10, <1>11, <1>12 DEF Prepare

\* The attempt of an item before its answer.
LEMMA AcquireGatesKeeps ==
    ASSUME ProducersInv, NEW r \in Runs, AcquireGates(r)
    PROVE  ProducersInv'
  <1>1. Moves(r) /\ Enters(r)
    BY StepAdvances DEF AcquireGates, At, ProducersInv
  <1>2. /\ mode' \in [Runs -> {"idle", "running", "raising", "returned", "raised", "dead"}]
        /\ UNCHANGED <<kind, target, answer, request, admitted, sends, raw, accepted, slots>>
    BY DEF AcquireGates, Step, requestVars, fileVars, campaignVars, ProducersInv, TypeInv
  <1>3. /\ pc[r].step = "gates"
        /\ Item(r) \in Items /\ Tried(r) = <<r, Item(r)>> /\ Tried(r) \in Attempts /\ Mine(r) \in Attempts
        /\ kind[r] \in Kinds /\ target \in [Runs -> Runs]
    BY Typed DEF AcquireGates, At, ProducersInv, TypeInv
  <1>4. attempt' = [attempt EXCEPT ![Tried(r)] = "reserved"]
    BY DEF AcquireGates
  <1>5. /\ attempt' \in [Attempts -> Present \cup {"none"}]
        /\ \A a \in Attempts : a # Tried(r) => attempt'[a] = attempt[a]
        /\ \A a \in Attempts : attempt'[a] = "succeeded" => attempt[a] = "succeeded"
    BY <1>4 DEF ProducersInv, TypeInv, Present
  <1>6. TypeInv'
    BY <1>1, <1>2, <1>5 DEF ProducersInv, TypeInv, Moves
  <1>7. PlaceInv'
    BY <1>1 DEF Moves
  <1>8. RawInv'
    BY <1>1, <1>2, <1>3, RawStays
  <1>9. AcceptedInv'
    BY <1>1, <1>2, <1>3, AcceptedStays
  <1>10. RequestInv'
    BY <1>1, <1>2, RequestStays
  <1>11. SucceededInv'
    BY <1>1, <1>2, SucceededStays
  <1>12. SendsInv'
    BY <1>1, <1>2, SendsStay
  <1>13. VerdictInv'
    BY <1>1, <1>3, <1>5, VerdictStays
  <1>14. SlotsInv'
    BY <1>1, <1>2, <1>3, <1>5, SlotsStay
  <1>15. OneSender'
    BY <1>2, SenderStays
  <1> QED
    BY <1>6, <1>7, <1>8, <1>9, <1>10, <1>11, <1>12, <1>13, <1>14, <1>15 DEF ProducersInv

\* The same when it starts.
LEMMA MarkStartedKeeps ==
    ASSUME ProducersInv, NEW r \in Runs, MarkStarted(r)
    PROVE  ProducersInv'
  <1>1. Moves(r) /\ Enters(r)
    BY StepAdvances DEF MarkStarted, At, ProducersInv
  <1>2. /\ mode' \in [Runs -> {"idle", "running", "raising", "returned", "raised", "dead"}]
        /\ UNCHANGED <<kind, target, answer, request, admitted, sends, raw, accepted, slots>>
    BY DEF MarkStarted, Step, requestVars, fileVars, campaignVars, ProducersInv, TypeInv
  <1>3. /\ pc[r].step = "start"
        /\ Item(r) \in Items /\ Tried(r) = <<r, Item(r)>> /\ Tried(r) \in Attempts /\ Mine(r) \in Attempts
        /\ kind[r] \in Kinds /\ target \in [Runs -> Runs]
    BY Typed DEF MarkStarted, At, ProducersInv, TypeInv
  <1>4. attempt' = [attempt EXCEPT ![Tried(r)] = "started"]
    BY DEF MarkStarted
  <1>5. /\ attempt' \in [Attempts -> Present \cup {"none"}]
        /\ \A a \in Attempts : a # Tried(r) => attempt'[a] = attempt[a]
        /\ \A a \in Attempts : attempt'[a] = "succeeded" => attempt[a] = "succeeded"
    BY <1>4 DEF ProducersInv, TypeInv, Present
  <1>6. TypeInv'
    BY <1>1, <1>2, <1>5 DEF ProducersInv, TypeInv, Moves
  <1>7. PlaceInv'
    BY <1>1 DEF Moves
  <1>8. RawInv'
    BY <1>1, <1>2, <1>3, RawStays
  <1>9. AcceptedInv'
    BY <1>1, <1>2, <1>3, AcceptedStays
  <1>10. RequestInv'
    BY <1>1, <1>2, RequestStays
  <1>11. SucceededInv'
    BY <1>1, <1>2, SucceededStays
  <1>12. SendsInv'
    BY <1>1, <1>2, SendsStay
  <1>13. VerdictInv'
    BY <1>1, <1>3, <1>5, VerdictStays
  <1>14. SlotsInv'
    BY <1>1, <1>2, <1>3, <1>5, SlotsStay
  <1>15. OneSender'
    BY <1>2, SenderStays
  <1> QED
    BY <1>6, <1>7, <1>8, <1>9, <1>10, <1>11, <1>12, <1>13, <1>14, <1>15 DEF ProducersInv

\* An attempt succeeds with the bytes its slot was spent for.
LEMMA RecordAnswerKeeps ==
    ASSUME ProducersInv, NEW r \in Runs, RecordAnswer(r)
    PROVE  ProducersInv'
  <1>1. Moves(r) /\ Enters(r)
    BY StepAdvances DEF RecordAnswer, At, ProducersInv
  <1>2. /\ mode' \in [Runs -> {"idle", "running", "raising", "returned", "raised", "dead"}]
        /\ UNCHANGED <<kind, target, answer, request, admitted, sends, raw, accepted, slots>>
    BY DEF RecordAnswer, Step, requestVars, fileVars, campaignVars, ProducersInv, TypeInv
  <1>3. /\ pc[r].step = "record"
        /\ Item(r) \in Items /\ Tried(r) = <<r, Item(r)>> /\ Tried(r) \in Attempts /\ Mine(r) \in Attempts
        /\ kind[r] \in Kinds /\ target \in [Runs -> Runs]
    BY Typed DEF RecordAnswer, At, ProducersInv, TypeInv
  <1>4. attempt' = [attempt EXCEPT ![Tried(r)] = Recorded(answer[r])]
    BY DEF RecordAnswer
  <1>5. /\ Recorded(answer[r]) \in Settled
        /\ Recorded(answer[r]) = "succeeded" => answer[r] = "body"
    BY DEF Recorded, Settled
  <1>6. /\ attempt' \in [Attempts -> Present \cup {"none"}]
        /\ \A a \in Attempts : a # Tried(r) => attempt'[a] = attempt[a]
        /\ attempt'[Tried(r)] \in Settled
    BY <1>3, <1>4, <1>5 DEF ProducersInv, TypeInv, Present, Settled
  <1>7. ASSUME NEW a \in Attempts, attempt'[a] = "succeeded", InCampaign(kind[a[1]])
        PROVE  attempt[a] = "succeeded" \/ a[2] \in slots'[CampaignOf(a[1])]
    <2>1. CASE a = Tried(r)
      <3>1. answer[r] = "body" /\ a[1] = r /\ a[2] = pc[r].item
        BY <1>3, <1>4, <1>5, <1>7, <2>1 DEF ProducersInv, TypeInv, Item
      <3> QED
        BY <1>2, <1>3, <1>7, <3>1 DEF ProducersInv, SlotsInv
    <2> QED
      BY <1>6, <1>7, <2>1
  <1>8. TypeInv'
    BY <1>1, <1>2, <1>6 DEF ProducersInv, TypeInv, Moves
  <1>9. PlaceInv'
    BY <1>1 DEF Moves
  <1>10. RawInv'
    BY <1>1, <1>2, <1>3, RawStays
  <1>11. AcceptedInv'
    BY <1>1, <1>2, <1>3, AcceptedStays
  <1>12. RequestInv'
    BY <1>1, <1>2, RequestStays
  <1>13. SucceededInv'
    BY <1>1, <1>2, SucceededStays
  <1>14. SendsInv'
    BY <1>1, <1>2, SendsStay
  <1>15. VerdictInv'
    BY <1>1, <1>6, VerdictStays
  <1>16. SlotsInv'
    BY <1>1, <1>2, <1>3, <1>7, SlotsStay
  <1>17. OneSender'
    BY <1>2, SenderStays
  <1> QED
    BY <1>8, <1>9, <1>10, <1>11, <1>12, <1>13, <1>14, <1>15, <1>16, <1>17 DEF ProducersInv

\* An item of a campaign is sent once, on the slot that is spent for it.
LEMMA SendKeeps ==
    ASSUME ProducersInv, NEW r \in Runs, Send(r)
    PROVE  ProducersInv'
  <1>1. Moves(r) /\ Enters(r)
    BY StepAdvances DEF Send, At, ProducersInv
  <1>2. /\ mode' \in [Runs -> {"idle", "running", "raising", "returned", "raised", "dead"}]
        /\ UNCHANGED <<kind, target, request, admitted, attempt, raw, accepted>>
    BY DEF Send, Step, requestVars, fileVars, ProducersInv, TypeInv
  <1>3. /\ pc[r].step = "send"
        /\ Item(r) \in Items /\ Tried(r) = <<r, Item(r)>> /\ Tried(r) \in Attempts /\ Mine(r) \in Attempts
        /\ kind[r] \in Kinds /\ target \in [Runs -> Runs]
    BY Typed DEF Send, At, ProducersInv, TypeInv
  <1>4. /\ sends' = [sends EXCEPT ![Tried(r)] = @ + 1]
        /\ slots' = Spend(r) /\ SlotIsFree(r)
    BY DEF Send
  <1>5. /\ answer' \in [Runs -> {"none", "body", "rejected", "lost"}]
        /\ \A o \in Runs : o # r => answer'[o] = answer[o]
    <2>1. PICK w \in Wire : answer' = [answer EXCEPT ![r] = Received(kind[r], w)]
      BY DEF Send
    <2>2. Received(kind[r], w) \in {"body", "rejected", "lost"}
      BY DEF Received, FromBoj, FromDukascopy, FromEdinet
    <2> QED
      BY <2>1, <2>2 DEF ProducersInv, TypeInv
  <1>6. /\ slots' \in [Campaigns -> SUBSET Items]
        /\ \A c \in Campaigns : slots[c] \subseteq slots'[c]
        /\ InCampaign(kind[r]) => Item(r) \in slots'[CampaignOf(r)] /\ Item(r) \notin slots[CampaignOf(r)]
    BY <1>4, SpendAdds DEF SlotIsFree, ProducersInv
  <1>7. /\ sends' \in [Attempts -> Nat] /\ sends'[Tried(r)] = 1 /\ sends[Tried(r)] = 0
        /\ \A a \in Attempts : a # Tried(r) => sends'[a] = sends[a]
        /\ Tried(r) \in PastSend'
    <2>1. Tried(r) \notin PastSend
      BY <1>3 DEF PastSend, Unsending, Items, Item
    <2>2. sends[Tried(r)] = 0 /\ sends \in [Attempts -> Nat]
      BY <1>3, <2>1 DEF ProducersInv, TypeInv, SendsInv
    <2>3. pc'[r] = Place("record", Item(r))
      <3>1. pc' = [pc EXCEPT ![r] = After(kind[r], pc[r])] /\ pc \in [Runs -> [step : Steps, item : Items]]
        BY DEF Send, Step, ProducersInv, TypeInv
      <3>2. After(kind[r], pc[r]) = Place("record", Item(r))
        BY <1>3 DEF After, Exchange, Item
      <3> QED
        BY <3>1, <3>2
    <2>4. Tried(r) \in PastSend'
      BY <1>3, <2>3 DEF PastSend, Place, Unsending, Early
    <2> QED
      BY <1>3, <1>4, <2>2, <2>4
  <1>8. ASSUME NEW a \in Attempts, sends'[a] > 0, InCampaign(kind[a[1]])
        PROVE  sends[a] > 0 \/ a[2] \in slots'[CampaignOf(a[1])]
    <2>1. a = Tried(r) => a[1] = r /\ a[2] = Item(r)
      BY <1>3
    <2> QED
      BY <1>6, <1>7, <1>8, <2>1
  <1>9. TypeInv'
    BY <1>1, <1>2, <1>5, <1>6, <1>7 DEF ProducersInv, TypeInv, Moves
  <1>10. PlaceInv'
    BY <1>1 DEF Moves
  <1>11. RawInv'
    BY <1>1, <1>2, <1>3, RawStays
  <1>12. AcceptedInv'
    BY <1>1, <1>2, <1>3, AcceptedStays
  <1>13. RequestInv'
    BY <1>1, <1>2, RequestStays
  <1>14. SucceededInv'
    BY <1>1, <1>2, SucceededStays
  <1>15. SendsInv'
    <2> SUFFICES ASSUME NEW o \in Runs, NEW i \in Items
                 PROVE  sends'[<<o, i>>] <= 1 /\ (sends'[<<o, i>>] > 0 => <<o, i>> \in PastSend')
      BY Zenon DEF SendsInv
    <2>1. <<o, i>> \in Attempts
      BY DEF Attempts
    <2>2. sends[<<o, i>>] <= 1 /\ (sends[<<o, i>>] > 0 => <<o, i>> \in PastSend)
      BY DEF ProducersInv, SendsInv
    <2>3. PastSend \subseteq PastSend'
      BY <1>1 DEF Moves
    <2> QED
      BY <1>7, <2>1, <2>2, <2>3
  <1>16. VerdictInv'
    BY <1>1, <1>2, <1>3, VerdictStays
  <1>17. SlotsInv'
    BY <1>1, <1>2, <1>3, <1>5, <1>6, <1>7, SlotsStay
  <1>18. OneSender'
    <2> SUFFICES ASSUME NEW c \in Campaigns, NEW i \in Items, NEW o \in Runs, NEW p \in Runs,
                        SentInCampaign(o, i, c)', SentInCampaign(p, i, c)'
                 PROVE  o = p
      BY DEF OneSender
    <2>1. /\ InCampaign(kind[o]) /\ CampaignOf(o) = c /\ sends'[<<o, i>>] > 0
          /\ InCampaign(kind[p]) /\ CampaignOf(p) = c /\ sends'[<<p, i>>] > 0
      BY <1>2 DEF SentInCampaign, CampaignOf
    <2>2. <<o, i>> \in Attempts /\ <<p, i>> \in Attempts
      BY DEF Attempts
    <2>3. ASSUME NEW q \in Runs, InCampaign(kind[q]), CampaignOf(q) = c, sends[<<q, i>>] > 0
          PROVE  i \in slots[c]
      BY <2>3 DEF ProducersInv, SlotsInv
    <2>4. ASSUME NEW q \in Runs, NEW v \in Runs, <<q, i>> = Tried(r), <<v, i>> # Tried(r),
                 InCampaign(kind[q]), CampaignOf(q) = c, InCampaign(kind[v]), CampaignOf(v) = c,
                 sends[<<v, i>>] > 0
          PROVE  FALSE
      BY <1>3, <1>6, <2>3, <2>4
    <2>5. CASE <<o, i>> = Tried(r) /\ <<p, i>> = Tried(r)
      BY <2>5
    <2>6. CASE <<o, i>> # Tried(r) /\ <<p, i>> # Tried(r)
      BY <1>7, <2>1, <2>2, <2>6 DEF ProducersInv, OneSender, SentInCampaign
    <2> QED
      BY <1>7, <2>1, <2>2, <2>4, <2>6
  <1> QED
    BY <1>9, <1>10, <1>11, <1>12, <1>13, <1>14, <1>15, <1>16, <1>17, <1>18 DEF ProducersInv

\* Nothing is sent: at most the slot is gone.
LEMMA CallbackFailsKeeps ==
    ASSUME ProducersInv, NEW r \in Runs, CallbackFails(r)
    PROVE  ProducersInv'
  <1>1. Moves(r) /\ Enters(r)
    BY StepAdvances DEF CallbackFails, At, ProducersInv
  <1>2. /\ mode' \in [Runs -> {"idle", "running", "raising", "returned", "raised", "dead"}]
        /\ UNCHANGED <<kind, target, request, admitted, attempt, sends, raw, accepted>>
    BY DEF CallbackFails, Step, requestVars, fileVars, ProducersInv, TypeInv
  <1>3. /\ pc[r].step = "send"
        /\ Item(r) \in Items /\ Tried(r) = <<r, Item(r)>> /\ Tried(r) \in Attempts /\ Mine(r) \in Attempts
        /\ kind[r] \in Kinds /\ target \in [Runs -> Runs]
    BY Typed DEF CallbackFails, At, ProducersInv, TypeInv
  <1>4. /\ answer' \in [Runs -> {"none", "body", "rejected", "lost"}]
        /\ \A o \in Runs : o # r => answer'[o] = answer[o]
        /\ answer'[r] # "body"
    BY DEF CallbackFails, Unsent, ProducersInv, TypeInv
  <1>5. /\ slots' \in [Campaigns -> SUBSET Items]
        /\ \A c \in Campaigns : slots[c] \subseteq slots'[c]
    BY SpendAdds DEF CallbackFails, ProducersInv, TypeInv
  <1>6. TypeInv'
    BY <1>1, <1>2, <1>4, <1>5 DEF ProducersInv, TypeInv, Moves
  <1>7. PlaceInv'
    BY <1>1 DEF Moves
  <1>8. RawInv'
    BY <1>1, <1>2, <1>3, RawStays
  <1>9. AcceptedInv'
    BY <1>1, <1>2, <1>3, AcceptedStays
  <1>10. RequestInv'
    BY <1>1, <1>2, RequestStays
  <1>11. SucceededInv'
    BY <1>1, <1>2, SucceededStays
  <1>12. SendsInv'
    BY <1>1, <1>2, SendsStay
  <1>13. VerdictInv'
    BY <1>1, <1>2, <1>3, VerdictStays
  <1>14. SlotsInv'
    BY <1>1, <1>2, <1>3, <1>4, <1>5, SlotsStay
  <1>15. OneSender'
    BY <1>2, SenderStays
  <1> QED
    BY <1>6, <1>7, <1>8, <1>9, <1>10, <1>11, <1>12, <1>13, <1>14, <1>15 DEF ProducersInv

\* What a finalized request means for the queue, whatever the outcome.
LEMMA OutcomeStays ==
    ASSUME ProducersInv, NEW r \in Runs, Moves(r), NEW outcome \in Settled, Finalize(r, outcome),
           UNCHANGED <<kind, admitted>>,
           \A o \in Runs : accepted[o] > 0 => accepted'[o] > 0,
           outcome = "succeeded" =>
               /\ \A i \in ItemsOf(kind[r]) : RequestOf(r, i) = Mine(r) => <<r, i>> \in PastRaw'
               /\ ~IsEdinet(kind[r]) => kind[r] # "offline" /\ accepted'[r] > 0
    PROVE  RequestInv' /\ SucceededInv' /\ request' \in [Attempts -> Active \cup Settled \cup {"absent", "joined"}]
  <1>1. /\ request' \in [Attempts -> Active \cup Settled \cup {"absent", "joined"}]
        /\ request[Mine(r)] \in Active
        /\ \A q \in Attempts : request'[q] # request[q] =>
              (request[q] = "joined" \/ q = Mine(r)) /\ request'[q] = outcome
    BY FinalizeGives DEF ProducersInv
  <1>2. RequestInv'
    BY <1>1, RequestStays DEF Active, Settled
  <1>3. ASSUME NEW m \in DOMAIN admitted, request'[admitted[m]] = "succeeded", request[admitted[m]] # "succeeded"
        PROVE  admitted[m] = Mine(r) /\ outcome = "succeeded"
    <2>1. admitted[m] \in Attempts /\ request[admitted[m]] # "joined"
      BY DEF ProducersInv, TypeInv, RequestInv
    <2> QED
      BY <1>1, <1>3, <2>1
  <1>4. Mine(r)[1] = r
    BY Typed DEF ProducersInv
  <1>5. SucceededInv'
    BY <1>3, <1>4, SucceededStays
  <1> QED
    BY <1>1, <1>2, <1>5

\* The gates refuse: the request fails and the call ends.
LEMMA GatesBlockedKeeps ==
    ASSUME ProducersInv, NEW r \in Runs, GatesBlocked(r)
    PROVE  ProducersInv'
  <1>1. Moves(r) /\ pc' = pc
    BY StandingMoves DEF GatesBlocked, RaiseWith, ProducersInv
  <1>2. /\ mode' \in [Runs -> {"idle", "running", "raising", "returned", "raised", "dead"}]
        /\ UNCHANGED <<kind, target, answer, admitted, attempt, sends, raw, accepted, slots>>
    BY DEF GatesBlocked, RaiseWith, fileVars, campaignVars, ProducersInv, TypeInv
  <1>3. /\ pc[r].step = "gates"
        /\ Item(r) \in Items /\ Tried(r) = <<r, Item(r)>> /\ Tried(r) \in Attempts /\ Mine(r) \in Attempts
        /\ kind[r] \in Kinds /\ target \in [Runs -> Runs]
    BY Typed DEF GatesBlocked, At, ProducersInv, TypeInv
  <1>4. PICK outcome \in Settled : outcome # "succeeded" /\ Finalize(r, outcome)
    BY DEF GatesBlocked, Settled
  <1>5. RequestInv' /\ SucceededInv' /\ request' \in [Attempts -> Active \cup Settled \cup {"absent", "joined"}]
    BY <1>1, <1>2, <1>4, OutcomeStays
  <1>6. TypeInv'
    BY <1>1, <1>2, <1>5 DEF ProducersInv, TypeInv
  <1>7. PlaceInv'
    BY <1>1 DEF Moves
  <1>8. RawInv'
    BY <1>1, <1>2, <1>3, RawStays
  <1>9. AcceptedInv'
    BY <1>1, <1>2, AcceptedStays
  <1>10. RequestInv'
    BY <1>5
  <1>11. SucceededInv'
    BY <1>5
  <1>12. SendsInv'
    BY <1>1, <1>2, SendsStay
  <1>13. VerdictInv'
    BY <1>1, <1>2, VerdictStays
  <1>14. SlotsInv'
    BY <1>1, <1>2, SlotsStay
  <1>15. OneSender'
    BY <1>2, SenderStays
  <1> QED
    BY <1>6, <1>7, <1>8, <1>9, <1>10, <1>11, <1>12, <1>13, <1>14, <1>15 DEF ProducersInv

\* The exchange failed, or nobody knows: so does the request.
LEMMA FailExchangeKeeps ==
    ASSUME ProducersInv, NEW r \in Runs, FailExchange(r)
    PROVE  ProducersInv'
  <1>1. Moves(r) /\ pc' = pc
    BY StandingMoves DEF FailExchange, RaiseWith, ProducersInv
  <1>2. /\ mode' \in [Runs -> {"idle", "running", "raising", "returned", "raised", "dead"}]
        /\ UNCHANGED <<kind, target, answer, admitted, attempt, sends, raw, accepted, slots>>
    BY DEF FailExchange, RaiseWith, fileVars, campaignVars, ProducersInv, TypeInv
  <1>3. /\ pc[r].step = "verdict"
        /\ Item(r) \in Items /\ Tried(r) = <<r, Item(r)>> /\ Tried(r) \in Attempts /\ Mine(r) \in Attempts
        /\ kind[r] \in Kinds /\ target \in [Runs -> Runs]
    BY Typed DEF FailExchange, At, ProducersInv, TypeInv
  <1>4. PICK outcome \in Settled : outcome # "succeeded" /\ Finalize(r, outcome)
    BY <1>3 DEF FailExchange, ProducersInv, VerdictInv, Item
  <1>5. RequestInv' /\ SucceededInv' /\ request' \in [Attempts -> Active \cup Settled \cup {"absent", "joined"}]
    BY <1>1, <1>2, <1>4, OutcomeStays
  <1>6. TypeInv'
    BY <1>1, <1>2, <1>5 DEF ProducersInv, TypeInv
  <1>7. PlaceInv'
    BY <1>1 DEF Moves
  <1>8. RawInv'
    BY <1>1, <1>2, <1>3, RawStays
  <1>9. AcceptedInv'
    BY <1>1, <1>2, AcceptedStays
  <1>10. RequestInv'
    BY <1>5
  <1>11. SucceededInv'
    BY <1>5
  <1>12. SendsInv'
    BY <1>1, <1>2, SendsStay
  <1>13. VerdictInv'
    BY <1>1, <1>2, VerdictStays
  <1>14. SlotsInv'
    BY <1>1, <1>2, SlotsStay
  <1>15. OneSender'
    BY <1>2, SenderStays
  <1> QED
    BY <1>6, <1>7, <1>8, <1>9, <1>10, <1>11, <1>12, <1>13, <1>14, <1>15 DEF ProducersInv

\* The body is refused: the request fails.
LEMMA RejectBodyKeeps ==
    ASSUME ProducersInv, NEW r \in Runs, RejectBody(r)
    PROVE  ProducersInv'
  <1>1. Moves(r) /\ pc' = pc
    BY StandingMoves DEF RejectBody, RaiseWith, ProducersInv
  <1>2. /\ mode' \in [Runs -> {"idle", "running", "raising", "returned", "raised", "dead"}]
        /\ UNCHANGED <<kind, target, answer, admitted, attempt, sends, raw, accepted, slots>>
    BY DEF RejectBody, RaiseWith, campaignVars, ProducersInv, TypeInv
  <1>3. /\ pc[r].step = "verdict"
        /\ Item(r) \in Items /\ Tried(r) = <<r, Item(r)>> /\ Tried(r) \in Attempts /\ Mine(r) \in Attempts
        /\ kind[r] \in Kinds /\ target \in [Runs -> Runs]
    BY Typed DEF RejectBody, At, ProducersInv, TypeInv
  <1>4. PICK outcome \in Settled : outcome # "succeeded" /\ Finalize(r, outcome)
    BY DEF RejectBody, Settled
  <1>5. RequestInv' /\ SucceededInv' /\ request' \in [Attempts -> Active \cup Settled \cup {"absent", "joined"}]
    BY <1>1, <1>2, <1>4, OutcomeStays
  <1>6. TypeInv'
    BY <1>1, <1>2, <1>5 DEF ProducersInv, TypeInv
  <1>7. PlaceInv'
    BY <1>1 DEF Moves
  <1>8. RawInv'
    BY <1>1, <1>2, <1>3, RawStays
  <1>9. AcceptedInv'
    BY <1>1, <1>2, AcceptedStays
  <1>10. RequestInv'
    BY <1>5
  <1>11. SucceededInv'
    BY <1>5
  <1>12. SendsInv'
    BY <1>1, <1>2, SendsStay
  <1>13. VerdictInv'
    BY <1>1, <1>2, VerdictStays
  <1>14. SlotsInv'
    BY <1>1, <1>2, SlotsStay
  <1>15. OneSender'
    BY <1>2, SenderStays
  <1> QED
    BY <1>6, <1>7, <1>8, <1>9, <1>10, <1>11, <1>12, <1>13, <1>14, <1>15 DEF ProducersInv

\* A request succeeds with all its files published, and with the evidence.
LEMMA SettleRequestKeeps ==
    ASSUME ProducersInv, NEW r \in Runs, SettleRequest(r)
    PROVE  ProducersInv'
  <1>1. Moves(r) /\ Enters(r)
    BY StepAdvances DEF SettleRequest, At, ProducersInv
  <1>2. /\ mode' \in [Runs -> {"idle", "running", "raising", "returned", "raised", "dead"}]
        /\ UNCHANGED <<kind, target, answer, admitted, attempt, sends, raw, accepted, slots>>
    BY DEF SettleRequest, Step, fileVars, campaignVars, ProducersInv, TypeInv
  <1>3. /\ pc[r].step = "settle"
        /\ Item(r) \in Items /\ Tried(r) = <<r, Item(r)>> /\ Tried(r) \in Attempts /\ Mine(r) \in Attempts
        /\ kind[r] \in Kinds /\ target \in [Runs -> Runs]
    BY Typed DEF SettleRequest, At, ProducersInv, TypeInv
  <1>4. Finalize(r, "succeeded") /\ "succeeded" \in Settled
    BY DEF SettleRequest, Settled
  <1>5. ProperPlace(kind[r], pc[r])
    BY DEF ProducersInv, PlaceInv
  <1>6. ASSUME NEW i \in ItemsOf(kind[r]), RequestOf(r, i) = Mine(r) PROVE <<r, i>> \in PastRaw'
    <2>1. i \in Items /\ pc[r].item = Item(r)
      BY ItemsOfAreItems DEF Item
    <2>2. i <= pc[r].item
      <3>1. CASE IsEdinet(kind[r])
        BY <1>6, <2>1, <3>1, Typed DEF ProducersInv, RequestOf, Items
      <3>2. CASE ~IsEdinet(kind[r])
        BY <1>3, <1>5, <3>2 DEF ProperPlace, ItemsOf, Late, IsEdinet, InCampaign
      <3> QED
        BY <3>1, <3>2
    <2>3. <<r, i>> \in PastRaw
      BY <1>3, <2>1, <2>2 DEF PastRaw, Attempts, Late, Items
    <2> QED
      BY <1>1, <2>3 DEF Moves
  <1>7. ASSUME ~IsEdinet(kind[r]) PROVE kind[r] # "offline" /\ accepted'[r] > 0
    <2>1. kind[r] \in {"boj", "dukascopy"}
      BY <1>3, <1>5, <1>7 DEF ProperPlace, IsEdinet, InCampaign, Kinds
    <2> QED
      BY <1>2, <1>3, <2>1 DEF ProducersInv, AcceptedInv
  <1>8. RequestInv' /\ SucceededInv' /\ request' \in [Attempts -> Active \cup Settled \cup {"absent", "joined"}]
    BY <1>1, <1>2, <1>4, <1>6, <1>7, OutcomeStays
  <1>9. TypeInv'
    BY <1>1, <1>2, <1>8 DEF ProducersInv, TypeInv, Moves
  <1>10. PlaceInv'
    BY <1>1 DEF Moves
  <1>11. RawInv'
    BY <1>1, <1>2, <1>3, RawStays
  <1>12. AcceptedInv'
    BY <1>1, <1>2, <1>3, AcceptedStays
  <1>13. RequestInv'
    BY <1>8
  <1>14. SucceededInv'
    BY <1>8
  <1>15. SendsInv'
    BY <1>1, <1>2, SendsStay
  <1>16. VerdictInv'
    BY <1>1, <1>2, <1>3, VerdictStays
  <1>17. SlotsInv'
    BY <1>1, <1>2, <1>3, SlotsStay
  <1>18. OneSender'
    BY <1>2, SenderStays
  <1> QED
    BY <1>9, <1>10, <1>11, <1>12, <1>13, <1>14, <1>15, <1>16, <1>17, <1>18 DEF ProducersInv

\* A claim changes no result.
LEMMA ClaimNextQueuedKeeps ==
    ASSUME ProducersInv, NEW r \in Runs, ClaimNextQueued(r)
    PROVE  ProducersInv'
  <1>1. pc[r].step = "claim" /\ (Step(r) \/ RaiseWith(r, ~IsEdinet(kind[r]))) /\ UNCHANGED kind
    BY DEF ClaimNextQueued, At
  <1>2. Moves(r) /\ (pc' = pc \/ Enters(r)) /\ pc[r].step = "claim"
    BY <1>1, StepAdvances, StandingMoves DEF RaiseWith, ProducersInv
  <1>3. /\ mode' \in [Runs -> {"idle", "running", "raising", "returned", "raised", "dead"}]
        /\ UNCHANGED <<kind, target, answer, admitted, attempt, sends, raw, accepted, slots>>
    BY DEF ClaimNextQueued, Step, RaiseWith, fileVars, campaignVars, ProducersInv, TypeInv
  <1>4. /\ request' \in [Attempts -> Active \cup Settled \cup {"absent", "joined"}]
        /\ \A q \in Attempts : request'[q] # request[q] => request[q] = "queued" /\ request'[q] = "claimed"
    BY ClaimTakesQueued DEF ProducersInv
  <1>5. target \in [Runs -> Runs] /\ \A m \in DOMAIN admitted : admitted[m] \in Attempts
    BY DEF ProducersInv, TypeInv
  <1>6. TypeInv'
    BY <1>2, <1>3, <1>4 DEF ProducersInv, TypeInv, Moves
  <1>7. PlaceInv'
    BY <1>2 DEF Moves
  <1>8. RawInv'
    BY <1>2, <1>3, <1>5, RawStays
  <1>9. AcceptedInv'
    BY <1>2, <1>3, AcceptedStays
  <1>10. RequestInv'
    BY <1>2, <1>3, <1>4, RequestStays
  <1>11. SucceededInv'
    BY <1>2, <1>3, <1>4, <1>5, SucceededStays
  <1>12. SendsInv'
    BY <1>2, <1>3, SendsStay
  <1>13. VerdictInv'
    BY <1>2, <1>3, VerdictStays
  <1>14. SlotsInv'
    BY <1>2, <1>3, SlotsStay
  <1>15. OneSender'
    BY <1>3, SenderStays
  <1> QED
    BY <1>6, <1>7, <1>8, <1>9, <1>10, <1>11, <1>12, <1>13, <1>14, <1>15 DEF ProducersInv

\* A request is new when it is admitted.
LEMMA AdmitLogicalRequestKeeps ==
    ASSUME ProducersInv, NEW r \in Runs, AdmitLogicalRequest(r)
    PROVE  ProducersInv'
  <1>1. Moves(r) /\ Enters(r)
    BY StepAdvances DEF AdmitLogicalRequest, At, ProducersInv
  <1>2. /\ mode' \in [Runs -> {"idle", "running", "raising", "returned", "raised", "dead"}]
        /\ UNCHANGED <<kind, target, answer, attempt, sends, raw, accepted, slots>>
    BY DEF AdmitLogicalRequest, Step, fileVars, campaignVars, ProducersInv, TypeInv
  <1>3. /\ pc[r].step = "admit"
        /\ Item(r) \in Items /\ Tried(r) = <<r, Item(r)>> /\ Tried(r) \in Attempts /\ Mine(r) \in Attempts
        /\ kind[r] \in Kinds /\ target \in [Runs -> Runs]
    BY Typed DEF AdmitLogicalRequest, At, ProducersInv, TypeInv
  <1>4. /\ Mine(r) = Tried(r) /\ request[Mine(r)] = "absent"
        /\ \/ request' = [request EXCEPT ![Mine(r)] = "joined"] /\ admitted' = admitted
           \/ request' = [request EXCEPT ![Mine(r)] = "queued"] /\ admitted' = Append(admitted, Mine(r))
    BY <1>3, AdmitAdds DEF ProducersInv
  <1>5. /\ request' \in [Attempts -> Active \cup Settled \cup {"absent", "joined"}]
        /\ admitted \in Seq(Attempts) /\ admitted' \in Seq(Attempts)
        /\ \A q \in Attempts : q # Mine(r) => request'[q] = request[q]
        /\ request'[Mine(r)] \in {"queued", "joined"}
    <2>1. admitted \in Seq(Attempts) /\ request \in [Attempts -> Active \cup Settled \cup {"absent", "joined"}]
      BY DEF ProducersInv, TypeInv
    <2>2. PICK state \in {"queued", "joined"} : request' = [request EXCEPT ![Mine(r)] = state]
      BY <1>4
    <2>3. admitted' \in Seq(Attempts)
      <3>1. Mine(r) \in Attempts
        BY <1>3
      <3>2. Append(admitted, Mine(r)) \in Seq(Attempts)
        BY <2>1, <3>1
      <3> QED
        BY <1>4, <3>2
    <2>4. state \in Active \cup Settled \cup {"absent", "joined"}
      BY DEF Active
    <2>5. /\ request' \in [Attempts -> Active \cup Settled \cup {"absent", "joined"}]
          /\ \A q \in Attempts : q # Mine(r) => request'[q] = request[q]
          /\ request'[Mine(r)] = state
      BY <1>3, <2>1, <2>2, <2>4
    <2> QED
      BY <2>1, <2>3, <2>5
  <1>6. Tried(r) \in PastAdmit'
    <2>1. pc'[r] = Place("claim", Item(r))
      <3>1. pc' = [pc EXCEPT ![r] = After(kind[r], pc[r])] /\ pc \in [Runs -> [step : Steps, item : Items]]
        BY DEF AdmitLogicalRequest, Step, ProducersInv, TypeInv
      <3>2. After(kind[r], pc[r]) = Place("claim", Item(r))
        BY <1>3 DEF After, Exchange, Item
      <3> QED
        BY <3>1, <3>2
    <2> QED
      BY <1>3, <2>1 DEF PastAdmit, Place, Early
  <1>7. ASSUME NEW m \in DOMAIN admitted
        PROVE  /\ admitted[m] \in Attempts /\ admitted[m] # Mine(r)
               /\ request'[admitted[m]] = request[admitted[m]]
               /\ request[admitted[m]] \notin {"absent", "joined"}
    <2>1. admitted[m] \in Attempts /\ request[admitted[m]] \notin {"absent", "joined"}
      BY DEF ProducersInv, TypeInv, RequestInv
    <2> QED
      BY <1>4, <1>5, <2>1
  <1>8. ASSUME NEW m \in DOMAIN admitted'
        PROVE  \/ m \in DOMAIN admitted /\ admitted'[m] = admitted[m]
               \/ admitted'[m] = Mine(r) /\ request'[Mine(r)] = "queued"
    <2>1. CASE admitted' = admitted
      BY <2>1
    <2>2. CASE admitted' # admitted
      <3>1. admitted' = Append(admitted, Mine(r)) /\ request' = [request EXCEPT ![Mine(r)] = "queued"]
        BY <1>4, <2>2
      <3> QED
        BY <1>5, <3>1
    <2> QED
      BY <2>2
  <1>9. TypeInv'
    BY <1>1, <1>2, <1>5 DEF ProducersInv, TypeInv, Moves
  <1>10. PlaceInv'
    BY <1>1 DEF Moves
  <1>11. RawInv'
    BY <1>1, <1>2, <1>3, RawStays
  <1>12. AcceptedInv'
    BY <1>1, <1>2, <1>3, AcceptedStays
  <1>13. RequestInv'
    <2>1. ASSUME NEW q \in Attempts, request'[q] # "absent" PROVE q \in PastAdmit'
      <3>1. PastAdmit \subseteq PastAdmit'
        BY <1>1 DEF Moves
      <3> QED
        BY <1>4, <1>5, <1>6, <2>1, <3>1 DEF ProducersInv, RequestInv
    <2>2. ASSUME NEW m \in DOMAIN admitted' PROVE request'[admitted'[m]] \notin {"absent", "joined"}
      BY <1>7, <1>8
    <2> QED
      BY <2>1, <2>2 DEF RequestInv
  <1>14. SucceededInv'
    <2> SUFFICES ASSUME NEW m \in DOMAIN admitted', request'[admitted'[m]] = "succeeded"
                 PROVE  LET q == admitted'[m]
                        IN  /\ \A i \in ItemsOf(kind[q[1]]) : RequestOf(q[1], i) = q => <<q[1], i>> \in PastRaw'
                            /\ ~IsEdinet(kind[q[1]]) => kind[q[1]] # "offline" /\ accepted[q[1]] > 0
      BY <1>2 DEF SucceededInv, RequestOf
    <2>1. m \in DOMAIN admitted /\ admitted'[m] = admitted[m] /\ request[admitted[m]] = "succeeded"
      BY <1>7, <1>8
    <2>2. PastRaw \subseteq PastRaw'
      BY <1>1 DEF Moves
    <2> QED
      BY <2>1, <2>2 DEF ProducersInv, SucceededInv
  <1>15. SendsInv'
    BY <1>1, <1>2, SendsStay
  <1>16. VerdictInv'
    BY <1>1, <1>2, <1>3, VerdictStays
  <1>17. SlotsInv'
    BY <1>1, <1>2, <1>3, SlotsStay
  <1>18. OneSender'
    BY <1>2, SenderStays
  <1> QED
    BY <1>9, <1>10, <1>11, <1>12, <1>13, <1>14, <1>15, <1>16, <1>17, <1>18 DEF ProducersInv

\* A file is published once, and committed before the producer goes on.
LEMMA PublishRawKeeps ==
    ASSUME ProducersInv, NEW r \in Runs, PublishRaw(r)
    PROVE  ProducersInv'
  <1>1. pc[r].step = "raw" /\ UNCHANGED kind /\ raw[Published(r)] = "none"
    BY DEF PublishRaw, At
  <1>2. PICK state \in {"committed", "failed", "uncertain"} :
           /\ raw' = [raw EXCEPT ![Published(r)] = state]
           /\ (state = "committed" /\ Step(r)) \/ RaiseWith(r, FALSE)
    BY DEF PublishRaw
  <1>3. Moves(r) /\ (pc' = pc \/ Enters(r)) /\ pc[r].step = "raw" /\ (pc' = pc \/ state = "committed")
    BY <1>1, <1>2, StepAdvances, StandingMoves DEF RaiseWith, ProducersInv
  <1>4. /\ mode' \in [Runs -> {"idle", "running", "raising", "returned", "raised", "dead"}]
        /\ UNCHANGED <<kind, target, answer, request, admitted, attempt, sends, accepted, slots>>
    <2>1. UNCHANGED <<kind, target, answer, request, admitted, attempt, sends, accepted, slots>>
      BY DEF PublishRaw, requestVars, campaignVars
    <2>2. mode' = mode \/ mode' = [mode EXCEPT ![r] = "raising"]
      BY <1>2 DEF Step, RaiseWith
    <2>3. mode \in [Runs -> {"idle", "running", "raising", "returned", "raised", "dead"}]
      BY DEF ProducersInv, TypeInv
    <2>4. mode' \in [Runs -> {"idle", "running", "raising", "returned", "raised", "dead"}]
      BY <2>2, <2>3
    <2> QED
      BY <2>1, <2>4
  <1>5. Published(r) \in Attempts /\ target \in [Runs -> Runs]
    BY Typed DEF ProducersInv, TypeInv
  <1>6. /\ raw' \in [Attempts -> {"none", "committed", "failed", "uncertain"}]
        /\ \A a \in Attempts : raw[a] = "committed" => raw'[a] = "committed"
        /\ raw'[Published(r)] = state
    BY <1>1, <1>2, <1>5 DEF ProducersInv, TypeInv
  <1>7. TypeInv'
    BY <1>3, <1>4, <1>6 DEF ProducersInv, TypeInv, Moves
  <1>8. PlaceInv'
    BY <1>3 DEF Moves
  <1>9. RawInv'
    BY <1>3, <1>4, <1>5, <1>6, RawStays
  <1>10. AcceptedInv'
    BY <1>3, <1>4, AcceptedStays
  <1>11. RequestInv'
    BY <1>3, <1>4, RequestStays
  <1>12. SucceededInv'
    BY <1>3, <1>4, SucceededStays
  <1>13. SendsInv'
    BY <1>3, <1>4, SendsStay
  <1>14. VerdictInv'
    BY <1>3, <1>4, VerdictStays
  <1>15. SlotsInv'
    BY <1>3, <1>4, SlotsStay
  <1>16. OneSender'
    BY <1>4, SenderStays
  <1> QED
    BY <1>7, <1>8, <1>9, <1>10, <1>11, <1>12, <1>13, <1>14, <1>15, <1>16 DEF ProducersInv

\* Evidence is published on what is behind the producer.
LEMMA PublishEvidenceKeeps ==
    ASSUME ProducersInv, NEW r \in Runs, PublishEvidence(r)
    PROVE  ProducersInv'
  <1>1. Moves(r) /\ Enters(r)
    BY StepAdvances DEF PublishEvidence, At, ProducersInv
  <1>2. /\ mode' \in [Runs -> {"idle", "running", "raising", "returned", "raised", "dead"}]
        /\ UNCHANGED <<kind, target, answer, request, admitted, attempt, sends, raw, slots>>
    BY DEF PublishEvidence, Step, requestVars, campaignVars, ProducersInv, TypeInv
  <1>3. /\ pc[r].step = "evidence"
        /\ Item(r) \in Items /\ Tried(r) = <<r, Item(r)>> /\ Tried(r) \in Attempts /\ Mine(r) \in Attempts
        /\ kind[r] \in Kinds /\ target \in [Runs -> Runs]
    BY Typed DEF PublishEvidence, At, ProducersInv, TypeInv
  <1>4. accepted' = [accepted EXCEPT ![r] = Item(r)]
    BY DEF PublishEvidence
  <1>5. /\ accepted' \in [Runs -> Items \cup {0}] /\ accepted'[r] = Item(r)
        /\ \A o \in Runs : accepted[o] > 0 => accepted'[o] > 0
    BY <1>3, <1>4 DEF ProducersInv, TypeInv, Items
  <1>6. TypeInv'
    BY <1>1, <1>2, <1>3, <1>4 DEF ProducersInv, TypeInv, Moves
  <1>7. PlaceInv'
    BY <1>1 DEF Moves
  <1>8. RawInv'
    BY <1>1, <1>2, <1>3, RawStays
  <1>9. AcceptedInv'
    BY <1>1, <1>2, <1>3, <1>4, <1>5, AcceptedStays
  <1>10. RequestInv'
    BY <1>1, <1>2, RequestStays
  <1>11. SucceededInv'
    BY <1>1, <1>2, <1>5, SucceededStays
  <1>12. SendsInv'
    BY <1>1, <1>2, SendsStay
  <1>13. VerdictInv'
    BY <1>1, <1>2, <1>3, VerdictStays
  <1>14. SlotsInv'
    BY <1>1, <1>2, <1>3, SlotsStay
  <1>15. OneSender'
    BY <1>2, SenderStays
  <1> QED
    BY <1>6, <1>7, <1>8, <1>9, <1>10, <1>11, <1>12, <1>13, <1>14, <1>15 DEF ProducersInv

\* A death may leave the file of a slot or the row of a publication.
LEMMA CrashKeeps ==
    ASSUME ProducersInv, NEW r \in Runs, Crash(r)
    PROVE  ProducersInv'
  <1>1. Moves(r) /\ pc' = pc
    BY StandingMoves DEF Crash, ProducersInv
  <1>2. /\ mode' \in [Runs -> {"idle", "running", "raising", "returned", "raised", "dead"}]
        /\ UNCHANGED <<kind, target, answer, request, admitted, attempt, sends, accepted>>
    BY DEF Crash, requestVars, ProducersInv, TypeInv
  <1>3. Published(r) \in Attempts /\ target \in [Runs -> Runs]
    BY Typed DEF ProducersInv, TypeInv
  <1>4. raw' = raw \/ (raw[Published(r)] = "none" /\ raw' = [raw EXCEPT ![Published(r)] = "uncertain"])
    BY DEF Crash
  <1>5. /\ raw' \in [Attempts -> {"none", "committed", "failed", "uncertain"}]
        /\ \A a \in Attempts : raw[a] = "committed" => raw'[a] = "committed"
    BY <1>4 DEF ProducersInv, TypeInv
  <1>6. /\ slots' \in [Campaigns -> SUBSET Items]
        /\ \A c \in Campaigns : slots[c] \subseteq slots'[c]
    BY SpendAdds DEF Crash, ProducersInv, TypeInv
  <1>7. TypeInv'
    BY <1>1, <1>2, <1>5, <1>6 DEF ProducersInv, TypeInv
  <1>8. PlaceInv'
    BY <1>1 DEF Moves
  <1>9. RawInv'
    BY <1>1, <1>2, <1>3, <1>5, RawStays
  <1>10. AcceptedInv'
    BY <1>1, <1>2, AcceptedStays
  <1>11. RequestInv'
    BY <1>1, <1>2, RequestStays
  <1>12. SucceededInv'
    BY <1>1, <1>2, SucceededStays
  <1>13. SendsInv'
    BY <1>1, <1>2, SendsStay
  <1>14. VerdictInv'
    BY <1>1, <1>2, VerdictStays
  <1>15. SlotsInv'
    BY <1>1, <1>2, <1>6, SlotsStay
  <1>16. OneSender'
    BY <1>2, SenderStays
  <1> QED
    BY <1>7, <1>8, <1>9, <1>10, <1>11, <1>12, <1>13, <1>14, <1>15, <1>16 DEF ProducersInv

LEMMA SomeRun == \E r : r \in Runs
  BY ProducersAssumption

\* Time leaves everything but the lease.
LEMMA ExpireKeeps ==
    ASSUME ProducersInv, Expire
    PROVE  ProducersInv'
  <1>1. PICK r \in Runs : TRUE
    BY SomeRun
  <1>2. /\ UNCHANGED <<kind, pc, mode, target, answer, request, admitted, attempt, sends, raw, accepted, slots>>
        /\ target \in [Runs -> Runs]
    BY DEF Expire, procVars, requestVars, fileVars, campaignVars, ProducersInv, TypeInv
  <1>3. Moves(r)
    BY <1>2, StandingMoves DEF ProducersInv
  <1>4. TypeInv'
    BY <1>2 DEF ProducersInv, TypeInv
  <1>5. PlaceInv'
    BY <1>3 DEF Moves
  <1>6. RawInv'
    BY <1>2, <1>3, RawStays
  <1>7. AcceptedInv'
    BY <1>2, <1>3, AcceptedStays
  <1>8. RequestInv'
    BY <1>2, <1>3, RequestStays
  <1>9. SucceededInv'
    BY <1>2, <1>3, SucceededStays
  <1>10. SendsInv'
    BY <1>2, <1>3, SendsStay
  <1>11. VerdictInv'
    BY <1>2, <1>3, VerdictStays
  <1>12. SlotsInv'
    BY <1>2, <1>3, SlotsStay
  <1>13. OneSender'
    BY <1>2, SenderStays
  <1> QED
    BY <1>4, <1>5, <1>6, <1>7, <1>8, <1>9, <1>10, <1>11, <1>12, <1>13 DEF ProducersInv

\* A takeover gives no request success, and no attempt either.
LEMMA TakeoverKeeps ==
    ASSUME ProducersInv, RecoverExpiredLease
    PROVE  ProducersInv'
  <1>1. PICK r \in Runs : TRUE
    BY SomeRun
  <1>2. /\ UNCHANGED <<kind, pc, mode, target, answer, admitted, sends, raw, accepted, slots>>
        /\ target \in [Runs -> Runs]
    BY DEF RecoverExpiredLease, procVars, fileVars, campaignVars, ProducersInv, TypeInv
  <1>3. Moves(r)
    BY <1>2, StandingMoves DEF ProducersInv
  <1>4. /\ request' \in [Attempts -> Active \cup Settled \cup {"absent", "joined"}]
        /\ \A q \in Attempts : request'[q] # request[q] =>
              request[q] \in {"queued", "claimed", "joined"} /\ request'[q] \in {"queued", "unknown", "failed"}
    BY TakeoverSettles DEF ProducersInv, Unsettled, Active
  <1>5. /\ attempt' \in [Attempts -> Present \cup {"none"}]
        /\ \A a \in Attempts : attempt[a] \in Settled => attempt'[a] \in Settled
        /\ \A a \in Attempts : attempt'[a] = "succeeded" => attempt[a] = "succeeded"
    BY DEF RecoverExpiredLease, ProducersInv, TypeInv, Present, Settled
  <1>6. \A m \in DOMAIN admitted : admitted[m] \in Attempts
    BY DEF ProducersInv, TypeInv
  <1>7. TypeInv'
    BY <1>2, <1>4, <1>5 DEF ProducersInv, TypeInv
  <1>8. PlaceInv'
    BY <1>3 DEF Moves
  <1>9. RawInv'
    BY <1>2, <1>3, RawStays
  <1>10. AcceptedInv'
    BY <1>2, <1>3, AcceptedStays
  <1>11. RequestInv'
    BY <1>2, <1>3, <1>4, RequestStays
  <1>12. SucceededInv'
    BY <1>2, <1>3, <1>4, <1>6, SucceededStays
  <1>13. SendsInv'
    BY <1>2, <1>3, SendsStay
  <1>14. VerdictInv'
    BY <1>2, <1>3, <1>5, VerdictStays
  <1>15. SlotsInv'
    BY <1>2, <1>3, <1>5, SlotsStay
  <1>16. OneSender'
    BY <1>2, SenderStays
  <1> QED
    BY <1>7, <1>8, <1>9, <1>10, <1>11, <1>12, <1>13, <1>14, <1>15, <1>16 DEF ProducersInv

LEMMA ProducersInit ==
    ASSUME Init
    PROVE  ProducersInv
  <1>1. kind \in [Runs -> Kinds]
    BY WorkloadsAssumption DEF Init
  <1>2. ASSUME NEW r \in Runs
        PROVE  /\ pc[r] \in [step : Steps, item : Items] /\ ProperPlace(kind[r], pc[r])
               /\ pc[r].step \in {"mark", "continue", "inspect", "lease"}
               /\ kind[r] = "continuation" => pc[r].step = "continue"
               /\ \A i \in ItemsOf(kind[r]) : pc[r].item <= i
    <2>1. pc[r] = FirstPlace(kind[r]) /\ kind[r] \in Kinds
      BY <1>1 DEF Init
    <2> QED
      BY <2>1, ProducersAssumption DEF FirstPlace, Place, ProperPlace, ItemsOf, Items, Steps,
         IsEdinet, InCampaign, Late
  <1>3. pc \in [Runs -> [step : Steps, item : Items]]
    BY <1>2 DEF Init
  <1>4. TypeInv
    BY <1>1, <1>3 DEF Init, TypeInv, Campaigns
  <1>5. PlaceInv
    BY <1>2 DEF PlaceInv
  <1>6. ASSUME NEW r \in Runs, NEW i \in ItemsOf(kind[r])
        PROVE  <<r, i>> \notin PastRaw /\ <<r, i>> \notin PastVerdict
    <2>1. pc[r].item \in Items /\ i \in Items
      BY <1>2, ItemsOfAreItems
    <2> QED
      BY <1>2, <2>1 DEF PastRaw, PastVerdict, Late, Items
  <1>7. /\ \A r \in Runs : accepted[r] = 0 /\ answer[r] = "none"
        /\ \A a \in Attempts : request[a] = "absent" /\ attempt[a] = "none" /\ sends[a] = 0
        /\ admitted = << >>
    BY DEF Init
  <1>8. RawInv
    BY <1>6 DEF RawInv
  <1>9. AcceptedInv
    <2>1. ASSUME NEW r \in Runs, NEW i \in ItemsOf(kind[r]) PROVE ~(i <= accepted[r])
      BY <1>7, ItemsOfAreItems DEF Items
    <2> QED
      BY <1>2, <2>1 DEF AcceptedInv
  <1>10. RequestInv
    BY <1>7 DEF RequestInv
  <1>11. SucceededInv
    BY <1>7 DEF SucceededInv
  <1>12. \A r \in Runs, i \in Items : <<r, i>> \in Attempts
    BY DEF Attempts
  <1>13. SendsInv
    <2>1. ASSUME NEW r \in Runs, NEW i \in Items
          PROVE  sends[<<r, i>>] <= 1 /\ (sends[<<r, i>>] > 0 => <<r, i>> \in PastSend)
      BY <1>7, <1>12
    <2> QED
      BY <2>1, Zenon DEF SendsInv
  <1>14. VerdictInv
    BY <1>2 DEF VerdictInv
  <1>15. SlotsInv
    BY <1>2, <1>6, <1>7, <1>12 DEF SlotsInv
  <1>16. OneSender
    BY <1>7, <1>12 DEF OneSender, SentInCampaign
  <1> QED
    BY <1>4, <1>5, <1>8, <1>9, <1>10, <1>11, <1>13, <1>14, <1>15, <1>16 DEF ProducersInv

LEMMA ProducersStep ==
    ASSUME ProducersInv, [Next]_vars
    PROVE  ProducersInv'
  <1>1. ASSUME NEW r \in Runs, RunStep(r) PROVE ProducersInv'
    <2>1. CASE Prepare(r) \/ AcceptBody(r) \/ HeartbeatLease(r) \/ CollectMetadata(r) \/ Finally(r) \/ Raise(r)
      BY <2>1, QuietSteps
    <2>2. CASE Queueing(r)
      BY <2>2, AdmitLogicalRequestKeeps, ClaimNextQueuedKeeps DEF Queueing
    <2>3. CASE AcquireGates(r) \/ MarkStarted(r) \/ RecordAnswer(r)
      BY <2>3, AcquireGatesKeeps, MarkStartedKeeps, RecordAnswerKeeps
    <2>4. CASE GatesBlocked(r) \/ FailExchange(r) \/ RejectBody(r)
      BY <2>4, GatesBlockedKeeps, FailExchangeKeeps, RejectBodyKeeps
    <2>5. CASE Send(r) \/ CallbackFails(r)
      BY <2>5, SendKeeps, CallbackFailsKeeps
    <2>6. CASE PublishRaw(r) \/ PublishEvidence(r) \/ SettleRequest(r)
      BY <2>6, PublishRawKeeps, PublishEvidenceKeeps, SettleRequestKeeps
    <2> QED
      BY <1>1, <2>1, <2>2, <2>3, <2>4, <2>5, <2>6 DEF RunStep, Exchanging, Publishing
  <1>2. CASE UNCHANGED vars
    <2>1. PICK r \in Runs : TRUE
      BY SomeRun
    <2>2. UNCHANGED <<kind, pc, mode, target, answer, requestVars, attempt, sends, raw, accepted, slots>>
      BY <1>2 DEF vars, procVars, fileVars, campaignVars
    <2>3. Moves(r) /\ pc' = pc
      BY <2>2, StandingMoves DEF ProducersInv
    <2> QED
      BY <2>2, <2>3, QuietKeeps DEF ProducersInv, TypeInv
  <1> QED
    BY <1>1, <1>2, CrashKeeps, ExpireKeeps, TakeoverKeeps DEF Next

\* ProducersInv holds whatever the producers do: every place is one of its command,
\* and what is behind a place is published, sent and spent.
THEOREM ProducersHold == Spec => []ProducersInv
  <1> QED
    BY ProducersInit, ProducersStep, PTL DEF Spec

-------------------------------------------------------------------------------
(* The rules.                                                               *)

\* What publish_preparation has published as evidence, and what is finalized as
\* succeeded, is never ahead of the raw files.
THEOREM EvidenceAlwaysBacked == Spec => []EvidenceIsBacked
  <1>1. ASSUME ProducersInv PROVE EvidenceIsBacked
    <2>1. ASSUME NEW r \in Runs, NEW i \in ItemsOf(kind[r]), i <= accepted[r]
          PROVE  raw[IF kind[r] = "offline" THEN <<target[r], 1>> ELSE <<r, i>>] = "committed"
      BY <1>1, <2>1 DEF ProducersInv, AcceptedInv, RawInv
    <2>2. ASSUME NEW n \in DOMAIN admitted, request[admitted[n]] = "succeeded"
          PROVE  LET q == admitted[n]
                 IN  /\ \A i \in ItemsOf(kind[q[1]]) :
                           RequestOf(q[1], i) = q => raw[<<q[1], i>>] = "committed"
                     /\ ~IsEdinet(kind[q[1]]) => accepted[q[1]] > 0
      <3> DEFINE q == admitted[n]
      <3>1. q[1] \in Runs
        BY <1>1 DEF ProducersInv, TypeInv, Attempts
      <3>2. /\ \A i \in ItemsOf(kind[q[1]]) : RequestOf(q[1], i) = q => <<q[1], i>> \in PastRaw
            /\ ~IsEdinet(kind[q[1]]) => kind[q[1]] # "offline" /\ accepted[q[1]] > 0
        BY <1>1, <2>2 DEF ProducersInv, SucceededInv
      <3>3. kind[q[1]] # "offline"
        BY <3>2 DEF IsEdinet, InCampaign
      <3> QED
        BY <1>1, <3>1, <3>2, <3>3 DEF ProducersInv, RawInv
    <2> QED
      BY <2>1, <2>2 DEF EvidenceIsBacked
  <1> QED
    BY <1>1, ProducersHold, PTL

\* No attempt leaves twice, and an item is sent (before_send, then the GET) only
\* after the raw file of the one before it is committed.
THEOREM SendsOrdered == Spec => []SendsInOrder
  <1>1. ASSUME ProducersInv PROVE SendsInOrder
    <2> SUFFICES ASSUME NEW r \in Runs, NEW i \in ItemsOf(kind[r])
                 PROVE  /\ sends[<<r, i>>] <= 1
                        /\ sends[<<r, i>>] = 1 /\ i - 1 \in ItemsOf(kind[r]) => raw[<<r, i - 1>>] = "committed"
      BY Zenon DEF SendsInOrder
    <2>1. i \in Items
      BY ItemsOfAreItems
    <2>2. sends[<<r, i>>] <= 1 /\ (sends[<<r, i>>] > 0 => <<r, i>> \in PastSend)
      BY <1>1, <2>1 DEF ProducersInv, SendsInv
    <2>3. ASSUME sends[<<r, i>>] = 1, i - 1 \in ItemsOf(kind[r]) PROVE raw[<<r, i - 1>>] = "committed"
      <3>1. i - 1 \in Items /\ pc[r].item \in Items
        BY <1>1, <2>3, ItemsOfAreItems DEF ProducersInv, TypeInv
      <3>2. i <= pc[r].item
        BY <2>2, <2>3, <3>1 DEF PastSend, Items
      <3>3. <<r, i - 1>> \in PastRaw
        BY <3>1, <3>2 DEF PastRaw, Attempts, Items
      <3>4. kind[r] # "offline"
        BY <2>3 DEF ItemsOf
      <3> QED
        BY <1>1, <2>3, <3>3, <3>4 DEF ProducersInv, RawInv
    <2> QED
      BY <2>2, <2>3
  <1> QED
    BY <1>1, ProducersHold, PTL

LEMMA AtMostOne ==
    ASSUME NEW S, \A x, y \in S : x = y
    PROVE  Cardinality(S) <= 1
  <1>1. CASE S = {}
    BY <1>1, FS_EmptySet
  <1>2. CASE S # {}
    <2>1. PICK x \in S : S = {x}
      BY <1>2
    <2> QED
      BY <2>1, FS_Singleton
  <1> QED
    BY <1>1, <1>2

\* Over all invocations of a campaign and its continuation a document is sent at
\* most once (before_send creates its slot's file), and with all earlier slots spent.
THEOREM SlotsBound == Spec => []SlotsBoundSends
  <1>1. ASSUME ProducersInv PROVE SlotsBoundSends
    <2> SUFFICES ASSUME NEW c \in Campaigns, NEW i \in Items
                 PROVE  LET R == {r \in Runs : InCampaign(kind[r]) /\ CampaignOf(r) = c /\ sends[<<r, i>>] > 0}
                        IN  Cardinality(R) <= 1 /\ (R # {} => 1 .. i \subseteq slots[c])
      BY <1>1 DEF SlotsBoundSends, ProducersInv, TypeInv
    <2> DEFINE R == {r \in Runs : InCampaign(kind[r]) /\ CampaignOf(r) = c /\ sends[<<r, i>>] > 0}
    <2>1. \A r, o \in R : r = o
      BY <1>1 DEF ProducersInv, OneSender, SentInCampaign
    <2>2. Cardinality(R) <= 1
      BY <2>1, AtMostOne
    <2>3. ASSUME NEW r \in R, NEW j \in 1 .. i PROVE j \in slots[c]
      <3>1. /\ r \in Runs /\ InCampaign(kind[r]) /\ CampaignOf(r) = c /\ sends[<<r, i>>] > 0
            /\ pc[r] \in [step : Steps, item : Items] /\ ProperPlace(kind[r], pc[r]) /\ kind[r] \in Kinds
        BY <1>1 DEF ProducersInv, TypeInv, PlaceInv
      <3>2. i \in slots[c] /\ <<r, i>> \in PastSend
        BY <1>1 DEF ProducersInv, SlotsInv, SendsInv
      <3>3. CASE j = i
        BY <3>2, <3>3
      <3>4. CASE j < i
        <4>1. i <= pc[r].item /\ j < pc[r].item /\ j \in Items /\ pc[r].item \in Items
          BY <3>1, <3>2, <3>4 DEF PastSend, Items
        <4>2. CASE j \in ItemsOf(kind[r])
          <5>1. <<r, j>> \in PastVerdict
            BY <4>1 DEF PastVerdict, Attempts
          <5> QED
            BY <1>1, <4>2, <5>1 DEF ProducersInv, SlotsInv
        <4>3. CASE j \notin ItemsOf(kind[r])
          <5>1. kind[r] = "continuation" /\ j = 1
            BY <3>1, <4>1, <4>3 DEF ProperPlace, ItemsOf, InCampaign
          <5>2. pc[r].step # "continue"
            <6>1. pc[r].step = "continue" => pc[r].item = 2
              BY <3>1 DEF ProperPlace, FirstPlace, Place
            <6> QED
              BY <3>2, <3>4, <6>1 DEF PastSend, Unsending, Early, Items
          <5> QED
            BY <1>1, <5>1, <5>2 DEF ProducersInv, SlotsInv
        <4> QED
          BY <4>2, <4>3
      <3> QED
        BY <3>3, <3>4 DEF Items
    <2> QED
      BY <2>2, <2>3
  <1> QED
    BY <1>1, ProducersHold, PTL

\* _finalize_logical and recover_expired_lease give a result to unfinished requests
\* only: once delivered it stays, whoever still finalizes.
THEOREM VerdictsFinal == Spec => VerdictIsFinal
  <1>1. ASSUME TypeInv, PlaceInv, RequestInv, [Next]_vars, NEW q \in Attempts, request[q] \in Settled
        PROVE  request'[q] = request[q]
    <2>1. CASE request' = request
      BY <2>1
    <2>2. ASSUME NEW r \in Runs, AdmitLogicalRequest(r) PROVE request'[q] = request[q]
      <3>1. /\ Mine(r) \in Attempts /\ request[Mine(r)] = "absent"
            /\ \/ request' = [request EXCEPT ![Mine(r)] = "joined"]
               \/ request' = [request EXCEPT ![Mine(r)] = "queued"]
        BY <1>1, <2>2, AdmitAdds, Typed
      <3>2. PICK state : request' = [request EXCEPT ![Mine(r)] = state]
        BY <3>1
      <3>3. q # Mine(r)
        BY <1>1, <3>1 DEF Settled
      <3> QED
        BY <3>2, <3>3
    <2>3. ASSUME NEW r \in Runs, ClaimNextQueued(r) PROVE request'[q] = request[q]
      BY <1>1, <2>3, ClaimTakesQueued DEF Settled
    <2>4. ASSUME NEW r \in Runs, NEW outcome, Finalize(r, outcome) PROVE request'[q] = request[q]
      <3>1. request[Mine(r)] \in Active /\ request' = WithResult(request, Mine(r), outcome)
        BY <2>4 DEF Finalize
      <3> QED
        BY <1>1, <3>1 DEF WithResult, Active, Settled
    <2>5. CASE RecoverExpiredLease
      BY <1>1, <2>5, TakeoverSettles DEF Settled, Unsettled, Active
    <2>6. ASSUME NEW r \in Runs, RunStep(r), request' # request, ~Queueing(r)
          PROVE  \E outcome : Finalize(r, outcome)
      <3>1. CASE GatesBlocked(r) \/ FailExchange(r) \/ RejectBody(r) \/ SettleRequest(r)
        BY <3>1 DEF GatesBlocked, FailExchange, RejectBody, SettleRequest
      <3>2. CASE Prepare(r)
        BY <2>6, <3>2 DEF Prepare, Invoke, MarkCampaign, ContinuePrior, Inspect, AcquireLease,
           Refuse, requestVars
      <3>3. CASE AcquireGates(r) \/ MarkStarted(r) \/ Send(r) \/ CallbackFails(r) \/ RecordAnswer(r) \/ AcceptBody(r)
        BY <2>6, <3>3 DEF AcquireGates, MarkStarted, Send, CallbackFails, RecordAnswer, AcceptBody,
           requestVars
      <3>4. CASE PublishRaw(r) \/ HeartbeatLease(r) \/ CollectMetadata(r) \/ PublishEvidence(r) \/ Finally(r) \/ Raise(r)
        BY <2>6, <3>4 DEF PublishRaw, HeartbeatLease, CollectMetadata, PublishEvidence, Finally,
           Raise, requestVars
      <3> QED
        BY <2>6, <3>1, <3>2, <3>3, <3>4 DEF RunStep, Exchanging, Publishing
    <2>7. ASSUME NEW r \in Runs, RunStep(r) PROVE request'[q] = request[q]
      BY <2>2, <2>3, <2>4, <2>6, <2>7 DEF Queueing
    <2>8. ASSUME NEW r \in Runs, Crash(r) PROVE request'[q] = request[q]
      BY <2>8 DEF Crash, requestVars
    <2>9. CASE Expire \/ UNCHANGED vars
      BY <2>9 DEF Expire, vars, requestVars
    <2> QED
      BY <1>1, <2>5, <2>7, <2>8, <2>9 DEF Next
  <1>2. ProducersInv /\ [Next]_vars =>
            [\A q \in Attempts : request[q] \in Settled => request'[q] = request[q]]_vars
    BY <1>1 DEF ProducersInv
  <1> QED
    BY <1>2, ProducersHold, PTL DEF Spec, VerdictIsFinal

-------------------------------------------------------------------------------
(* The promise. What an invocation has behind its verdicts was answered, and  *)
(* nothing before was; who owns the lease and is at work on a request still    *)
(* has it; of those who ask for the same thing one leads and the others joined.*)

AttemptInv ==
    /\ \A a \in Attempts : attempt[a] = "succeeded" => a \in PastSend
    /\ \A r \in Runs :
          /\ pc[r].step = "record" => attempt[<<r, pc[r].item>>] # "succeeded"
          /\ kind[r] # "offline" =>
                \A i \in ItemsOf(kind[r]) : <<r, i>> \in PastVerdict => attempt[<<r, i>>] = "succeeded"

\* The steps between the claim of a request and its result.
Handling(k) ==
    IF k = "offline" THEN {}
    ELSE {"gates", "start", "send", "record", "verdict", "raw", "settle"}
         \cup (IF IsEdinet(k) THEN {} ELSE {"renew", "metadata", "evidence"})
OwnerInv ==
    \A r \in Runs : holder = r /\ mode[r] \in {"idle", "running"} /\ pc[r].step \in Handling(kind[r]) =>
        request[Mine(r)] = "claimed"

FlightInv ==
    /\ \A p, q \in Attempts : request[p] \in Active /\ request[q] \in Active /\ SameFingerprint(p, q) => p = q
    /\ \A p \in Attempts : request[p] = "joined" =>
          \E q \in Attempts : request[q] \in Active /\ SameFingerprint(p, q)

PromiseInv == kind \in Workloads /\ AttemptInv /\ OwnerInv /\ FlightInv

LEMMA AfterHandling ==
    ASSUME NEW k \in Kinds, NEW p \in [step : Steps, item : Items], ProperPlace(k, p),
           p.step = "finally" => CallsAgain(k, p.item), After(k, p).step \in Handling(k)
    PROVE  /\ p.step = "claim" \/ (p.step \in Handling(k) /\ p.step # "settle")
           /\ IsEdinet(k) => After(k, p).item = p.item
  <1>1. CASE p.step \in DOMAIN Exchange
    <2>1. After(k, p) = Place(Exchange[p.step], p.item)
      BY <1>1 DEF After
    <2>2. /\ p.step \in {"admit", "claim", "gates", "start", "send", "record", "verdict"}
          /\ p.step = "admit" => Exchange[p.step] = "claim"
      BY <1>1 DEF Exchange
    <2> QED
      BY <2>1, <2>2 DEF Place, Handling
  <1>2. CASE p.step \notin DOMAIN Exchange /\ k = "boj"
    <2>1. After(k, p) = Place(BojProgram[p.step], p.item)
      BY <1>2 DEF After
    <2>2. p.step \in {"lease", "raw", "evidence", "settle"}
      BY <1>2 DEF ProperPlace, CallsAgain
    <2> QED
      BY <1>2, <2>1, <2>2 DEF Place, BojProgram, Handling, IsEdinet, InCampaign
  <1>3. CASE k = "offline"
    BY <1>3 DEF Handling
  <1>4. CASE p.step \notin DOMAIN Exchange /\ k = "dukascopy"
    <2>1. After(k, p) = AfterDukascopy(p.step, p.item)
      BY <1>4 DEF After
    <2>2. p.step \in {"lease", "renew", "raw", "metadata", "evidence", "settle"}
      BY <1>4 DEF ProperPlace, CallsAgain, Late
    <2>3. CASE p.step = "raw"
      BY <1>4, <2>3 DEF Handling, IsEdinet, InCampaign
    <2>4. CASE p.step # "raw"
      BY <1>4, <2>1, <2>2 DEF AfterDukascopy, DukascopyProgram, Place, Handling, IsEdinet,
         InCampaign
    <2> QED
      BY <2>3, <2>4
  <1>5. CASE p.step \notin DOMAIN Exchange /\ k \notin {"boj", "offline", "dukascopy"}
    <2>1. After(k, p) = AfterEdinet(p.step, p.item) /\ IsEdinet(k)
      BY <1>5 DEF After, IsEdinet, InCampaign, Kinds
    <2>2. p.step \in {"mark", "continue", "lease", "renew", "raw", "settle", "evidence", "finally"}
      BY <1>5, <2>1 DEF ProperPlace, Steps, Exchange
    <2>3. CASE p.step = "settle"
      BY <2>1, <2>3 DEF AfterEdinet, EdinetCall, Place, Handling
    <2>4. CASE p.step = "finally"
      BY <2>1, <2>4 DEF AfterEdinet, Place, Handling
    <2>5. CASE p.step \notin {"settle", "finally"}
      BY <2>1, <2>2, <2>5 DEF AfterEdinet, EdinetKey, Place, Handling
    <2> QED
      BY <2>3, <2>4, <2>5
  <1> QED
    BY <1>1, <1>2, <1>3, <1>4, <1>5

\* How an invocation conducts itself towards the others.
Conduct(r) ==
    /\ Moves(r) /\ kind' = kind
    /\ \A o \in Runs : o # r => mode'[o] = mode[o]
    /\ \/ pc' = pc /\ (mode'[r] \in {"idle", "running"} => mode[r] \in {"idle", "running"} /\ request' = request)
       \/ /\ Step(r) /\ Enters(r) /\ mode[r] = "running"
          /\ pc[r].step = "finally" => CallsAgain(kind[r], Item(r))
          /\ request' # request => pc[r].step \in {"admit", "claim", "settle"}
          /\ pc[r].step = "claim" => request'[Mine(r)] = "claimed"
    /\ holder' = holder \/ holder' = NoRun \/ (holder' = r /\ pc[r].step = "lease" /\ Step(r))
    /\ request' = request \/ Owns(r)
LEMMA ConductOfRuns ==
    ASSUME ProducersInv, NEW r \in Runs, RunStep(r) \/ Crash(r)
    PROVE  Conduct(r)
  <1>1. TypeInv /\ PlaceInv /\ mode \in [Runs -> {"idle", "running", "raising", "returned", "raised", "dead"}]
    BY DEF ProducersInv, TypeInv
  <1>2. CASE Invoke(r)
    <2>1. kind' = kind /\ pc' = pc
      BY <1>2 DEF Invoke
    <2>2. Moves(r)
      BY <1>1, <2>1, StandingMoves
    <2>3. /\ \A o \in Runs : o # r => mode'[o] = mode[o]
          /\ mode'[r] \in {"idle", "running"} => mode[r] \in {"idle", "running"} /\ request' = request
          /\ holder' = holder
          /\ request' = request \/ Owns(r)
      BY <1>2 DEF Invoke, leaseVars, requestVars
    <2> QED
      BY <2>1, <2>2, <2>3 DEF Conduct
  <1>3. CASE MarkCampaign(r)
    <2>1. /\ kind' = kind /\ holder' = holder /\ request' = request
          /\ pc[r].step = "mark" /\ mode[r] = "running"
          /\ Step(r) \/ (pc' = pc /\ \E m \in {"raising", "dead"} : mode' = [mode EXCEPT ![r] = m])
      BY <1>3 DEF MarkCampaign, At, leaseVars, requestVars
    <2>2. CASE Step(r)
      <3>1. Moves(r) /\ Enters(r) /\ mode' = mode
        BY <1>1, <2>1, <2>2, StepAdvances DEF Step
      <3> QED
        BY <2>1, <3>1 DEF Conduct
    <2>3. CASE pc' = pc /\ \E m \in {"raising", "dead"} : mode' = [mode EXCEPT ![r] = m]
      <3>1. Moves(r)
        BY <1>1, <2>1, <2>3, StandingMoves
      <3> QED
        BY <2>1, <2>3, <3>1 DEF Conduct
    <2> QED
      BY <2>1, <2>2, <2>3
  <1>4. CASE ContinuePrior(r)
    <2>1. Step(r) /\ kind' = kind /\ pc[r].step = "continue" /\ mode[r] = "running"
      BY <1>4 DEF ContinuePrior, At
    <2>2. Moves(r) /\ Enters(r) /\ mode' = mode
      BY <1>1, <2>1, StepAdvances DEF Step
    <2>3. /\ holder' = holder \/ (holder' = r /\ pc[r].step = "lease")
          /\ request' = request \/ (Owns(r) /\ pc[r].step \in {"admit", "settle"})
      BY <1>4 DEF ContinuePrior, leaseVars, requestVars
    <2> QED
      BY <2>1, <2>2, <2>3 DEF Conduct
  <1>5. CASE Inspect(r)
    <2>1. Step(r) /\ kind' = kind /\ pc[r].step = "inspect" /\ mode[r] = "running"
      BY <1>5 DEF Inspect, At
    <2>2. Moves(r) /\ Enters(r) /\ mode' = mode
      BY <1>1, <2>1, StepAdvances DEF Step
    <2>3. /\ holder' = holder \/ (holder' = r /\ pc[r].step = "lease")
          /\ request' = request \/ (Owns(r) /\ pc[r].step \in {"admit", "settle"})
      BY <1>5 DEF Inspect, leaseVars, requestVars
    <2> QED
      BY <2>1, <2>2, <2>3 DEF Conduct
  <1>6. CASE AcquireLease(r)
    <2>1. Step(r) /\ kind' = kind /\ pc[r].step = "lease" /\ mode[r] = "running"
      BY <1>6 DEF AcquireLease, At
    <2>2. Moves(r) /\ Enters(r) /\ mode' = mode
      BY <1>1, <2>1, StepAdvances DEF Step
    <2>3. /\ holder' = holder \/ (holder' = r /\ pc[r].step = "lease")
          /\ request' = request \/ (Owns(r) /\ pc[r].step \in {"admit", "settle"})
      BY <1>6, <2>1 DEF AcquireLease, requestVars
    <2> QED
      BY <2>1, <2>2, <2>3 DEF Conduct
  <1>7. CASE Refuse(r)
    <2>1. kind' = kind /\ pc' = pc
      BY <1>7 DEF Refuse
    <2>2. Moves(r)
      BY <1>1, <2>1, StandingMoves
    <2>3. /\ \A o \in Runs : o # r => mode'[o] = mode[o]
          /\ mode'[r] \in {"idle", "running"} => mode[r] \in {"idle", "running"} /\ request' = request
          /\ holder' = holder
          /\ request' = request \/ Owns(r)
      BY <1>7 DEF Refuse, leaseVars, requestVars
    <2> QED
      BY <2>1, <2>2, <2>3 DEF Conduct
  <1>8. CASE AdmitLogicalRequest(r)
    <2>1. Step(r) /\ kind' = kind /\ pc[r].step = "admit" /\ mode[r] = "running"
      BY <1>8 DEF AdmitLogicalRequest, At
    <2>2. Moves(r) /\ Enters(r) /\ mode' = mode
      BY <1>1, <2>1, StepAdvances DEF Step
    <2>3. /\ holder' = holder \/ (holder' = r /\ pc[r].step = "lease")
          /\ request' = request \/ (Owns(r) /\ pc[r].step \in {"admit", "settle"})
      BY <1>8, <2>1 DEF AdmitLogicalRequest, leaseVars
    <2> QED
      BY <2>1, <2>2, <2>3 DEF Conduct
  <1>9. CASE ClaimNextQueued(r)
    <2> DEFINE W == Waiting(DomainOf(Mine(r)))
    <2>1. /\ kind' = kind /\ holder' = holder /\ Owns(r)
          /\ pc[r].step = "claim" /\ mode[r] = "running"
          /\ request' = IF W = {} THEN request ELSE [request EXCEPT ![admitted[Oldest(W)]] = "claimed"]
          /\ \/ Step(r) /\ W # {} /\ admitted[Oldest(W)] = Mine(r)
             \/ pc' = pc /\ mode' = [mode EXCEPT ![r] = "raising"]
      BY <1>9 DEF ClaimNextQueued, At, RaiseWith, leaseVars
    <2> HIDE DEF W
    <2>2. CASE Step(r) /\ W # {} /\ admitted[Oldest(W)] = Mine(r)
      <3>1. Moves(r) /\ Enters(r) /\ mode' = mode
        BY <1>1, <2>1, <2>2, StepAdvances DEF Step
      <3>2. request'[Mine(r)] = "claimed"
        BY <1>1, <2>1, <2>2, Typed DEF TypeInv
      <3> QED
        BY <2>1, <2>2, <3>1, <3>2 DEF Conduct
    <2>3. CASE pc' = pc /\ mode' = [mode EXCEPT ![r] = "raising"]
      <3>1. Moves(r)
        BY <1>1, <2>1, <2>3, StandingMoves
      <3>2. mode'[r] = "raising" /\ \A o \in Runs : o # r => mode'[o] = mode[o]
        BY <1>1, <2>3
      <3> QED
        BY <2>1, <2>3, <3>1, <3>2 DEF Conduct
    <2> QED
      BY <2>1, <2>2, <2>3
  <1>10. CASE AcquireGates(r)
    <2>1. Step(r) /\ kind' = kind /\ pc[r].step = "gates" /\ mode[r] = "running"
      BY <1>10 DEF AcquireGates, At
    <2>2. Moves(r) /\ Enters(r) /\ mode' = mode
      BY <1>1, <2>1, StepAdvances DEF Step
    <2>3. /\ holder' = holder \/ (holder' = r /\ pc[r].step = "lease")
          /\ request' = request \/ (Owns(r) /\ pc[r].step \in {"admit", "settle"})
      BY <1>10 DEF AcquireGates, leaseVars, requestVars
    <2> QED
      BY <2>1, <2>2, <2>3 DEF Conduct
  <1>11. CASE GatesBlocked(r)
    <2>1. kind' = kind /\ pc' = pc
      BY <1>11 DEF GatesBlocked, RaiseWith
    <2>2. Moves(r)
      BY <1>1, <2>1, StandingMoves
    <2>3. /\ \A o \in Runs : o # r => mode'[o] = mode[o]
          /\ mode'[r] \in {"idle", "running"} => mode[r] \in {"idle", "running"} /\ request' = request
          /\ holder' = holder
          /\ request' = request \/ Owns(r)
      BY <1>1, <1>11 DEF GatesBlocked, RaiseWith, leaseVars, Finalize
    <2> QED
      BY <2>1, <2>2, <2>3 DEF Conduct
  <1>12. CASE MarkStarted(r)
    <2>1. Step(r) /\ kind' = kind /\ pc[r].step = "start" /\ mode[r] = "running"
      BY <1>12 DEF MarkStarted, At
    <2>2. Moves(r) /\ Enters(r) /\ mode' = mode
      BY <1>1, <2>1, StepAdvances DEF Step
    <2>3. /\ holder' = holder \/ (holder' = r /\ pc[r].step = "lease")
          /\ request' = request \/ (Owns(r) /\ pc[r].step \in {"admit", "settle"})
      BY <1>12 DEF MarkStarted, leaseVars, requestVars
    <2> QED
      BY <2>1, <2>2, <2>3 DEF Conduct
  <1>13. CASE Send(r)
    <2>1. Step(r) /\ kind' = kind /\ pc[r].step = "send" /\ mode[r] = "running"
      BY <1>13 DEF Send, At
    <2>2. Moves(r) /\ Enters(r) /\ mode' = mode
      BY <1>1, <2>1, StepAdvances DEF Step
    <2>3. /\ holder' = holder \/ (holder' = r /\ pc[r].step = "lease")
          /\ request' = request \/ (Owns(r) /\ pc[r].step \in {"admit", "settle"})
      BY <1>13 DEF Send, leaseVars, requestVars
    <2> QED
      BY <2>1, <2>2, <2>3 DEF Conduct
  <1>14. CASE CallbackFails(r)
    <2>1. Step(r) /\ kind' = kind /\ pc[r].step = "send" /\ mode[r] = "running"
      BY <1>14 DEF CallbackFails, At
    <2>2. Moves(r) /\ Enters(r) /\ mode' = mode
      BY <1>1, <2>1, StepAdvances DEF Step
    <2>3. /\ holder' = holder \/ (holder' = r /\ pc[r].step = "lease")
          /\ request' = request \/ (Owns(r) /\ pc[r].step \in {"admit", "settle"})
      BY <1>14 DEF CallbackFails, leaseVars, requestVars
    <2> QED
      BY <2>1, <2>2, <2>3 DEF Conduct
  <1>15. CASE RecordAnswer(r)
    <2>1. Step(r) /\ kind' = kind /\ pc[r].step = "record" /\ mode[r] = "running"
      BY <1>15 DEF RecordAnswer, At
    <2>2. Moves(r) /\ Enters(r) /\ mode' = mode
      BY <1>1, <2>1, StepAdvances DEF Step
    <2>3. /\ holder' = holder \/ (holder' = r /\ pc[r].step = "lease")
          /\ request' = request \/ (Owns(r) /\ pc[r].step \in {"admit", "settle"})
      BY <1>15 DEF RecordAnswer, leaseVars, requestVars
    <2> QED
      BY <2>1, <2>2, <2>3 DEF Conduct
  <1>16. CASE FailExchange(r)
    <2>1. kind' = kind /\ pc' = pc
      BY <1>16 DEF FailExchange, RaiseWith
    <2>2. Moves(r)
      BY <1>1, <2>1, StandingMoves
    <2>3. /\ \A o \in Runs : o # r => mode'[o] = mode[o]
          /\ mode'[r] \in {"idle", "running"} => mode[r] \in {"idle", "running"} /\ request' = request
          /\ holder' = holder
          /\ request' = request \/ Owns(r)
      BY <1>1, <1>16 DEF FailExchange, RaiseWith, leaseVars, Finalize
    <2> QED
      BY <2>1, <2>2, <2>3 DEF Conduct
  <1>17. CASE RejectBody(r)
    <2>1. kind' = kind /\ pc' = pc
      BY <1>17 DEF RejectBody, RaiseWith
    <2>2. Moves(r)
      BY <1>1, <2>1, StandingMoves
    <2>3. /\ \A o \in Runs : o # r => mode'[o] = mode[o]
          /\ mode'[r] \in {"idle", "running"} => mode[r] \in {"idle", "running"} /\ request' = request
          /\ holder' = holder
          /\ request' = request \/ Owns(r)
      BY <1>1, <1>17 DEF RejectBody, RaiseWith, leaseVars, Finalize
    <2> QED
      BY <2>1, <2>2, <2>3 DEF Conduct
  <1>18. CASE AcceptBody(r)
    <2>1. Step(r) /\ kind' = kind /\ pc[r].step = "verdict" /\ mode[r] = "running"
      BY <1>18 DEF AcceptBody, At
    <2>2. Moves(r) /\ Enters(r) /\ mode' = mode
      BY <1>1, <2>1, StepAdvances DEF Step
    <2>3. /\ holder' = holder \/ (holder' = r /\ pc[r].step = "lease")
          /\ request' = request \/ (Owns(r) /\ pc[r].step \in {"admit", "settle"})
      BY <1>18 DEF AcceptBody, leaseVars, requestVars
    <2> QED
      BY <2>1, <2>2, <2>3 DEF Conduct
  <1>19. CASE PublishRaw(r)
    <2>1. /\ kind' = kind /\ holder' = holder /\ request' = request
          /\ pc[r].step = "raw" /\ mode[r] = "running"
          /\ Step(r) \/ (pc' = pc /\ \E m \in {"raising", "dead"} : mode' = [mode EXCEPT ![r] = m])
      BY <1>19 DEF PublishRaw, At, RaiseWith, leaseVars, requestVars
    <2>2. CASE Step(r)
      <3>1. Moves(r) /\ Enters(r) /\ mode' = mode
        BY <1>1, <2>1, <2>2, StepAdvances DEF Step
      <3> QED
        BY <2>1, <3>1 DEF Conduct
    <2>3. CASE pc' = pc /\ \E m \in {"raising", "dead"} : mode' = [mode EXCEPT ![r] = m]
      <3>1. Moves(r)
        BY <1>1, <2>1, <2>3, StandingMoves
      <3> QED
        BY <2>1, <2>3, <3>1 DEF Conduct
    <2> QED
      BY <2>1, <2>2, <2>3
  <1>20. CASE HeartbeatLease(r)
    <2>1. Step(r) /\ kind' = kind /\ pc[r].step = "renew" /\ mode[r] = "running"
      BY <1>20 DEF HeartbeatLease, At
    <2>2. Moves(r) /\ Enters(r) /\ mode' = mode
      BY <1>1, <2>1, StepAdvances DEF Step
    <2>3. /\ holder' = holder \/ (holder' = r /\ pc[r].step = "lease")
          /\ request' = request \/ (Owns(r) /\ pc[r].step \in {"admit", "settle"})
      BY <1>20 DEF HeartbeatLease, leaseVars, requestVars
    <2> QED
      BY <2>1, <2>2, <2>3 DEF Conduct
  <1>21. CASE CollectMetadata(r)
    <2>1. Step(r) /\ kind' = kind /\ pc[r].step = "metadata" /\ mode[r] = "running"
      BY <1>21 DEF CollectMetadata, At
    <2>2. Moves(r) /\ Enters(r) /\ mode' = mode
      BY <1>1, <2>1, StepAdvances DEF Step
    <2>3. /\ holder' = holder \/ (holder' = r /\ pc[r].step = "lease")
          /\ request' = request \/ (Owns(r) /\ pc[r].step \in {"admit", "settle"})
      BY <1>21 DEF CollectMetadata, leaseVars, requestVars
    <2> QED
      BY <2>1, <2>2, <2>3 DEF Conduct
  <1>22. CASE PublishEvidence(r)
    <2>1. Step(r) /\ kind' = kind /\ pc[r].step = "evidence" /\ mode[r] = "running"
      BY <1>22 DEF PublishEvidence, At
    <2>2. Moves(r) /\ Enters(r) /\ mode' = mode
      BY <1>1, <2>1, StepAdvances DEF Step
    <2>3. /\ holder' = holder \/ (holder' = r /\ pc[r].step = "lease")
          /\ request' = request \/ (Owns(r) /\ pc[r].step \in {"admit", "settle"})
      BY <1>22 DEF PublishEvidence, leaseVars, requestVars
    <2> QED
      BY <2>1, <2>2, <2>3 DEF Conduct
  <1>23. CASE SettleRequest(r)
    <2>1. Step(r) /\ kind' = kind /\ pc[r].step = "settle" /\ mode[r] = "running"
      BY <1>23 DEF SettleRequest, At
    <2>2. Moves(r) /\ Enters(r) /\ mode' = mode
      BY <1>1, <2>1, StepAdvances DEF Step
    <2>3. /\ holder' = holder \/ (holder' = r /\ pc[r].step = "lease")
          /\ request' = request \/ (Owns(r) /\ pc[r].step \in {"admit", "settle"})
      BY <1>23, <2>1 DEF SettleRequest, leaseVars, Finalize
    <2> QED
      BY <2>1, <2>2, <2>3 DEF Conduct
  <1>24. CASE Finally(r)
    <2>1. /\ kind' = kind /\ request' = request /\ holder' \in {holder, NoRun}
      BY <1>24 DEF Finally, requestVars
    <2>2. CASE At(r, "finally") /\ CallsAgain(kind[r], Item(r))
      <3>1. Step(r) /\ pc[r].step = "finally" /\ mode[r] = "running"
        BY <1>24, <2>2 DEF Finally, At
      <3>2. Moves(r) /\ Enters(r) /\ mode' = mode
        BY <1>1, <2>1, <2>2, <3>1, StepAdvances DEF Step
      <3> QED
        BY <2>1, <2>2, <3>1, <3>2 DEF Conduct
    <2>3. CASE ~(At(r, "finally") /\ CallsAgain(kind[r], Item(r)))
      <3>1. pc' = pc /\ mode' = [mode EXCEPT ![r] = IF @ = "raising" THEN "raised" ELSE "returned"]
        BY <1>24, <2>3 DEF Finally
      <3>3. Moves(r)
        BY <1>1, <2>1, <3>1, StandingMoves
      <3> QED
        BY <2>1, <3>1, <3>3 DEF Conduct
    <2> QED
      BY <2>2, <2>3
  <1>25. CASE Raise(r)
    <2>1. kind' = kind /\ pc' = pc
      BY <1>25 DEF Raise, RaiseWith
    <2>2. Moves(r)
      BY <1>1, <2>1, StandingMoves
    <2>3. /\ \A o \in Runs : o # r => mode'[o] = mode[o]
          /\ mode'[r] \in {"idle", "running"} => mode[r] \in {"idle", "running"} /\ request' = request
          /\ holder' = holder
          /\ request' = request \/ Owns(r)
      BY <1>25 DEF Raise, RaiseWith, leaseVars, requestVars
    <2> QED
      BY <2>1, <2>2, <2>3 DEF Conduct
  <1>26. CASE Crash(r)
    <2>1. kind' = kind /\ pc' = pc
      BY <1>26 DEF Crash
    <2>2. Moves(r)
      BY <1>1, <2>1, StandingMoves
    <2>3. /\ \A o \in Runs : o # r => mode'[o] = mode[o]
          /\ mode'[r] \in {"idle", "running"} => mode[r] \in {"idle", "running"} /\ request' = request
          /\ holder' = holder
          /\ request' = request \/ Owns(r)
      BY <1>26 DEF Crash, leaseVars, requestVars
    <2> QED
      BY <2>1, <2>2, <2>3 DEF Conduct
  <1> QED
    BY <1>2, <1>3, <1>4, <1>5, <1>6, <1>7, <1>8, <1>9, <1>10, <1>11, <1>12, <1>13, <1>14, <1>15,
       <1>16, <1>17, <1>18, <1>19, <1>20, <1>21, <1>22, <1>23, <1>24, <1>25, <1>26 DEF RunStep,
       Prepare, Queueing, Exchanging, Publishing

\* While another owns the lease nobody changes the owner's request.
LEMMA OwnerStays ==
    ASSUME ProducersInv, OwnerInv, NEW r \in Runs, Conduct(r)
    PROVE  OwnerInv'
  <1> SUFFICES ASSUME NEW o \in Runs, holder' = o, mode'[o] \in {"idle", "running"},
                      pc'[o].step \in Handling(kind[o])
               PROVE  request'[RequestOf(o, pc'[o].item)] = "claimed"
    BY DEF OwnerInv, Mine, Item, RequestOf, Conduct
  <1>1. o # NoRun
    BY NoRunAssumption
  <1>2. CASE o # r
    <2>1. holder = o /\ request' = request
      BY <1>1, <1>2 DEF Conduct, Owns
    <2>2. pc'[o] = pc[o] /\ mode'[o] = mode[o]
      BY <1>2 DEF Conduct, Moves
    <2> QED
      BY <2>1, <2>2 DEF OwnerInv, Mine, Item
  <1>3. CASE o = r /\ pc' = pc /\ mode[r] \in {"idle", "running"} /\ request' = request
    <2>1. holder = o
      <3>1. ~(holder' = r /\ pc[r].step = "lease" /\ Step(r))
        BY <1>3 DEF Handling
      <3> QED
        BY <1>1, <3>1 DEF Conduct
    <2> QED
      BY <1>3, <2>1 DEF OwnerInv, Mine, Item
  <1>4. ASSUME o = r, Step(r), pc[r].step = "finally" => CallsAgain(kind[r], Item(r)),
               request' # request => pc[r].step \in {"admit", "claim", "settle"},
               pc[r].step = "claim" => request'[Mine(r)] = "claimed", mode[r] = "running"
        PROVE  request'[RequestOf(o, pc'[o].item)] = "claimed"
    <2>1. pc' = [pc EXCEPT ![r] = After(kind[r], pc[r])] /\ pc[r] \in [step : Steps, item : Items]
          /\ kind[r] \in Kinds /\ ProperPlace(kind[r], pc[r]) /\ pc \in [Runs -> [step : Steps, item : Items]]
      BY <1>4 DEF Step, ProducersInv, TypeInv, PlaceInv
    <2>3. /\ pc[r].step = "claim" \/ (pc[r].step \in Handling(kind[r]) /\ pc[r].step # "settle")
          /\ IsEdinet(kind[r]) => pc'[r].item = pc[r].item
      BY <1>4, <2>1, AfterHandling DEF Item
    <2>4. RequestOf(r, pc'[r].item) = Mine(r)
      BY <2>3 DEF RequestOf, Mine, Item
    <2>5. CASE pc[r].step = "claim"
      BY <1>4, <2>4, <2>5
    <2>6. CASE pc[r].step # "claim"
      <3>1. request' = request
        BY <1>4, <2>3, <2>6 DEF Handling
      <3>2. holder = r
        BY <1>1, <1>4, <2>3 DEF Conduct, Handling
      <3> QED
        BY <1>4, <2>3, <2>4, <3>1, <3>2 DEF OwnerInv
    <2> QED
      BY <2>5, <2>6
  <1> QED
    BY <1>2, <1>3, <1>4 DEF Conduct

\* Before the record of its answer an attempt has not succeeded.
LEMMA NotAnswered ==
    ASSUME ProducersInv, AttemptInv, NEW r \in Runs, pc[r].step \in {"gates", "start", "send", "record"}
    PROVE  attempt[Tried(r)] # "succeeded"
  <1>1. Tried(r) = <<r, pc[r].item>> /\ Tried(r) \in Attempts /\ pc[r].item \in Items
    BY Typed DEF ProducersInv, Item
  <1>2. CASE pc[r].step = "record"
    BY <1>1, <1>2 DEF AttemptInv
  <1>3. CASE pc[r].step # "record"
    <2>1. Tried(r) \notin PastSend
      BY <1>1, <1>3 DEF PastSend, Unsending, Items
    <2> QED
      BY <1>1, <2>1 DEF AttemptInv
  <1> QED
    BY <1>2, <1>3

LEMMA AttemptStays ==
    ASSUME ProducersInv, AttemptInv, NEW r \in Runs, Moves(r), pc' = pc \/ Enters(r), UNCHANGED kind,
           \A a \in Attempts : attempt[a] = "succeeded" => attempt'[a] = "succeeded",
           \A a \in Attempts : attempt'[a] = "succeeded" /\ attempt[a] # "succeeded" =>
               a = Tried(r) /\ pc[r].step = "record" /\ pc' # pc,
           pc[r].step = "verdict" /\ pc' # pc => attempt[Tried(r)] = "succeeded"
    PROVE  AttemptInv'
  <1>1. Tried(r) = <<r, pc[r].item>> /\ Tried(r) \in Attempts /\ pc[r].item \in Items
    BY Typed DEF ProducersInv, Item
  <1>2. ASSUME NEW a \in Attempts, attempt'[a] = "succeeded" PROVE a \in PastSend'
    <2>1. PastSend \subseteq PastSend'
      BY DEF Moves
    <2>2. CASE attempt[a] = "succeeded"
      BY <2>1, <2>2 DEF AttemptInv
    <2>3. CASE attempt[a] # "succeeded"
      <3>1. a = <<r, pc[r].item>> /\ pc[r].step = "record"
        BY <1>1, <1>2, <2>3
      <3>2. a \in PastSend
        BY <3>1 DEF PastSend, Unsending, Early
      <3> QED
        BY <2>1, <3>2
    <2> QED
      BY <2>2, <2>3
  <1>3. ASSUME NEW o \in Runs, pc'[o].step = "record" PROVE attempt'[<<o, pc'[o].item>>] # "succeeded"
    <2>1. pc'[o].item \in Items /\ <<o, pc'[o].item>> \in Attempts
      BY DEF Moves, Attempts
    <2>2. CASE o # r \/ pc' = pc
      <3>1. pc'[o] = pc[o]
        BY <2>2 DEF Moves
      <3>2. attempt[<<o, pc[o].item>>] # "succeeded"
        BY <1>3, <3>1 DEF AttemptInv
      <3>3. <<o, pc[o].item>> = Tried(r) => pc' = pc
        BY <1>1, <2>2
      <3> QED
        BY <2>1, <3>1, <3>2, <3>3
    <2>3. CASE o = r /\ pc' # pc
      <3>1. pc[r].step = "send" /\ pc'[r].item = pc[r].item
        BY <1>3, <2>3 DEF Enters
      <3>2. attempt[Tried(r)] # "succeeded"
        BY <3>1, NotAnswered
      <3> QED
        BY <1>1, <2>3, <3>1, <3>2
    <2> QED
      BY <2>2, <2>3
  <1>4. ASSUME NEW o \in Runs, kind[o] # "offline", NEW i \in ItemsOf(kind[o]), <<o, i>> \in PastVerdict'
        PROVE  attempt'[<<o, i>>] = "succeeded"
    <2>1. <<o, i>> \in Attempts
      BY ItemsOfAreItems DEF Attempts
    <2>2. CASE <<o, i>> \in PastVerdict
      BY <1>4, <2>1, <2>2 DEF AttemptInv
    <2>3. CASE <<o, i>> \notin PastVerdict
      <3>1. <<o, i>> = Tried(r) /\ (pc[r].step = "verdict" \/ kind[r] = "offline")
        BY <1>4, <2>3 DEF Moves
      <3>2. pc' # pc
        BY <1>4, <2>3 DEF PastVerdict
      <3> QED
        BY <1>1, <1>4, <3>1, <3>2
    <2> QED
      BY <2>2, <2>3
  <1> QED
    BY <1>2, <1>3, <1>4 DEF AttemptInv

LEMMA FlightSame ==
    ASSUME FlightInv, UNCHANGED kind,
           \A q \in Attempts : (request'[q] \in Active <=> request[q] \in Active)
                               /\ (request'[q] = "joined" <=> request[q] = "joined")
    PROVE  FlightInv'
  BY DEF FlightInv, SameFingerprint

LEMMA SameThing ==
    ASSUME NEW p, NEW q, NEW n
    PROVE  /\ SameFingerprint(p, p) /\ (SameFingerprint(p, q) <=> SameFingerprint(q, p))
           /\ SameFingerprint(p, q) /\ SameFingerprint(q, n) => SameFingerprint(p, n)
  BY DEF SameFingerprint

LEMMA FinalizeFlight ==
    ASSUME ProducersInv, FlightInv, NEW r \in Runs, NEW outcome \in Settled, Finalize(r, outcome), UNCHANGED kind
    PROVE  FlightInv'
  <1>2. ASSUME NEW p \in Attempts
        PROVE  /\ p = Mine(r) \/ (request[p] = "joined" /\ SameFingerprint(p, Mine(r))) => request'[p] = outcome
               /\ ~(p = Mine(r) \/ (request[p] = "joined" /\ SameFingerprint(p, Mine(r)))) => request'[p] = request[p]
    BY DEF Finalize, WithResult
  <1>3. outcome \notin Active \cup {"joined"} /\ "joined" \notin Active
    BY DEF Settled, Active
  <1>4. ASSUME NEW p \in Attempts, NEW q \in Attempts, request'[p] \in Active, request'[q] \in Active,
               SameFingerprint(p, q)
        PROVE  p = q
    BY <1>2, <1>3, <1>4 DEF FlightInv
  <1>5. ASSUME NEW p \in Attempts, request'[p] = "joined"
        PROVE  \E q \in Attempts : request'[q] \in Active /\ SameFingerprint(p, q)
    <2>1. request[p] = "joined" /\ ~SameFingerprint(p, Mine(r))
      BY <1>2, <1>3, <1>5
    <2>2. PICK q \in Attempts : request[q] \in Active /\ SameFingerprint(p, q)
      BY <2>1 DEF FlightInv
    <2>3. q # Mine(r) /\ request[q] # "joined"
      BY <1>3, <2>1, <2>2
    <2> QED
      BY <1>2, <2>2, <2>3
  <1> QED
    BY <1>4, <1>5 DEF FlightInv, SameFingerprint

LEMMA AdmitFlight ==
    ASSUME ProducersInv, FlightInv, NEW r \in Runs, AdmitLogicalRequest(r)
    PROVE  FlightInv'
  <1>1. Mine(r) \in Attempts /\ request[Mine(r)] = "absent" /\ kind' = kind
        /\ request \in [Attempts -> Active \cup Settled \cup {"absent", "joined"}]
    BY AdmitAdds, Typed DEF AdmitLogicalRequest, ProducersInv, TypeInv
  <1>2. CASE \E q \in Attempts : request[q] \in Active /\ SameFingerprint(q, Mine(r))
    <2>1. request' = [request EXCEPT ![Mine(r)] = "joined"]
      BY <1>2 DEF AdmitLogicalRequest
    <2>2. ASSUME NEW q \in Attempts PROVE request'[q] \in Active <=> request[q] \in Active
      BY <1>1, <2>1 DEF Active
    <2>3. ASSUME NEW p \in Attempts, request'[p] = "joined"
          PROVE  \E q \in Attempts : request[q] \in Active /\ SameFingerprint(p, q)
      BY <1>2, <2>1, <2>3, SameThing DEF FlightInv
    <2> QED
      BY <1>1, <2>2, <2>3 DEF FlightInv, SameFingerprint
  <1>3. CASE ~\E q \in Attempts : request[q] \in Active /\ SameFingerprint(q, Mine(r))
    <2>1. request' = [request EXCEPT ![Mine(r)] = "queued"]
      BY <1>3 DEF AdmitLogicalRequest
    <2>2. ASSUME NEW q \in Attempts
          PROVE  /\ request'[q] \in Active <=> request[q] \in Active \/ q = Mine(r)
                 /\ request'[q] = "joined" => request[q] = "joined"
      BY <1>1, <2>1 DEF Active
    <2>3. ASSUME NEW p \in Attempts, NEW q \in Attempts, request'[p] \in Active, request'[q] \in Active,
                 SameFingerprint(p, q)
          PROVE  p = q
      BY <1>3, <2>2, <2>3, SameThing DEF FlightInv
    <2>4. ASSUME NEW p \in Attempts, request'[p] = "joined"
          PROVE  \E q \in Attempts : request'[q] \in Active /\ SameFingerprint(p, q)
      BY <2>2, <2>4 DEF FlightInv
    <2> QED
      BY <1>1, <2>3, <2>4 DEF FlightInv, SameFingerprint
  <1> QED
    BY <1>2, <1>3

\* What a takeover makes of a flight: its leader's state, and those who joined with it.
LEMMA TakeoverOfFlight ==
    ASSUME ProducersInv, FlightInv, RecoverExpiredLease
    PROVE  /\ \A q \in Attempts : request[q] \in Active =>
                 request'[q] = AfterTakeover(q) /\ AfterTakeover(q) \in Active \cup {"unknown", "failed"}
           /\ \A q \in Attempts : request[q] \notin Active \cup {"joined"} => request'[q] = request[q]
           /\ \A p, q \in Attempts : request[p] = "joined" /\ request[q] \in Active /\ SameFingerprint(p, q) =>
                 request'[p] = IF AfterTakeover(q) \in Active THEN "joined" ELSE AfterTakeover(q)
  <1>1. ASSUME NEW p \in Attempts
        PROVE  request'[p] = IF request[p] = "joined" THEN AfterLeader(p) ELSE AfterTakeover(p)
    BY DEF RecoverExpiredLease
  <1>2. ASSUME NEW q \in Attempts
        PROVE  /\ request[q] \notin Active => AfterTakeover(q) = request[q]
               /\ request[q] \in Active => AfterTakeover(q) \in Active \cup {"unknown", "failed"}
    BY DEF AfterTakeover, Active
  <1>3. ASSUME NEW p \in Attempts, NEW q \in Attempts, request[p] = "joined", request[q] \in Active,
               SameFingerprint(p, q)
        PROVE  request'[p] = IF AfterTakeover(q) \in Active THEN "joined" ELSE AfterTakeover(q)
    <2>1. ASSUME NEW l \in LeadersSettled(p) PROVE l = q
      <3>1. l \in Attempts /\ request[l] \in Active /\ SameFingerprint(p, l)
        BY DEF LeadersSettled
      <3>2. SameFingerprint(l, q)
        BY <1>3, <3>1, SameThing
      <3> QED
        BY <1>3, <3>1, <3>2 DEF FlightInv
    <2>2. CASE AfterTakeover(q) \in Active
      <3>1. q \notin LeadersSettled(p)
        BY <2>2 DEF LeadersSettled, Active, Settled
      <3>2. LeadersSettled(p) = {}
        BY <2>1, <3>1
      <3> QED
        BY <1>1, <1>3, <2>2, <3>2 DEF AfterLeader
    <2>3. CASE AfterTakeover(q) \notin Active
      <3>1. request[q] \in Active /\ AfterTakeover(q) \in {"unknown", "failed"}
        BY <1>2, <1>3, <2>3
      <3>2. q \in LeadersSettled(p)
        BY <1>3, <3>1 DEF LeadersSettled, Settled
      <3>3. (CHOOSE l \in LeadersSettled(p) : TRUE) = q
        BY <2>1
      <3>4. AfterLeader(p) = AfterTakeover(q)
        BY <3>2, <3>3 DEF AfterLeader
      <3> QED
        BY <1>1, <1>3, <2>3, <3>4
    <2> QED
      BY <2>2, <2>3
  <1>5. ASSUME NEW q \in Attempts, request[q] \in Active
        PROVE  request'[q] = AfterTakeover(q) /\ AfterTakeover(q) \in Active \cup {"unknown", "failed"}
    BY <1>1, <1>2, <1>5 DEF Active
  <1>6. ASSUME NEW q \in Attempts, request[q] \notin Active \cup {"joined"} PROVE request'[q] = request[q]
    BY <1>1, <1>2, <1>6
  <1> QED
    BY <1>3, <1>5, <1>6

LEMMA TakeoverFlight ==
    ASSUME ProducersInv, FlightInv, RecoverExpiredLease
    PROVE  FlightInv'
  <1>1. kind' = kind /\ {"unknown", "failed", "joined"} \cap Active = {}
    BY DEF RecoverExpiredLease, Active
  <1>2. ASSUME NEW q \in Attempts, request'[q] \in Active PROVE request[q] \in Active
    <2>1. request[q] # "joined"
      <3>1. ASSUME request[q] = "joined" PROVE FALSE
        <4>1. PICK l \in Attempts : request[l] \in Active /\ SameFingerprint(q, l)
          BY <3>1 DEF FlightInv
        <4>2. request'[q] \in {"joined", "unknown", "failed"}
          BY <3>1, <4>1, TakeoverOfFlight
        <4> QED
          BY <1>1, <1>2, <4>2
      <3> QED
        BY <3>1
    <2> QED
      BY <1>2, <2>1, TakeoverOfFlight
  <1>3. ASSUME NEW p \in Attempts, request'[p] = "joined"
        PROVE  \E q \in Attempts : request'[q] \in Active /\ SameFingerprint(p, q)
    <2>1. request[p] = "joined"
      BY <1>1, <1>3, TakeoverOfFlight
    <2>2. PICK l \in Attempts : request[l] \in Active /\ SameFingerprint(p, l)
      BY <2>1 DEF FlightInv
    <2>3. AfterTakeover(l) \in Active /\ request'[l] = AfterTakeover(l)
      BY <1>3, <2>1, <2>2, TakeoverOfFlight
    <2> QED
      BY <2>2, <2>3
  <1> QED
    BY <1>1, <1>2, <1>3 DEF FlightInv, SameFingerprint

\* The actions that change a request, and those that change an attempt.
LEMMA RequestChanges ==
    ASSUME ProducersInv, NEW r \in Runs, RunStep(r) \/ Crash(r), request' # request
    PROVE  /\ attempt' = attempt /\ pc[r].step \notin {"start", "send", "record"}
           /\ \/ AdmitLogicalRequest(r) \/ ClaimNextQueued(r) \/ SettleRequest(r)
              \/ \E outcome \in {"failed", "unknown"} : Finalize(r, outcome)
  <1>1. CASE Prepare(r)
    BY <1>1 DEF Prepare, Invoke, MarkCampaign, ContinuePrior, Inspect, AcquireLease, Refuse,
       requestVars
  <1>2. CASE Queueing(r) \/ SettleRequest(r)
    BY <1>2 DEF Queueing, AdmitLogicalRequest, ClaimNextQueued, SettleRequest, At
  <1>3. CASE AcquireGates(r) \/ MarkStarted(r) \/ Send(r) \/ CallbackFails(r) \/ RecordAnswer(r) \/ AcceptBody(r)
    BY <1>3 DEF AcquireGates, MarkStarted, Send, CallbackFails, RecordAnswer, AcceptBody,
       requestVars
  <1>4. CASE GatesBlocked(r) \/ RejectBody(r)
    BY <1>4 DEF GatesBlocked, RejectBody, At
  <1>5. CASE FailExchange(r)
    <2>1. attempt[Tried(r)] \in {"failed", "unknown"}
      BY <1>5 DEF FailExchange, At, ProducersInv, VerdictInv, Settled, Tried, Item
    <2> QED
      BY <1>5, <2>1 DEF FailExchange, At
  <1>6. CASE PublishRaw(r) \/ HeartbeatLease(r) \/ CollectMetadata(r) \/ PublishEvidence(r) \/ Finally(r)
    BY <1>6 DEF PublishRaw, HeartbeatLease, CollectMetadata, PublishEvidence, Finally, requestVars
  <1>7. CASE Raise(r) \/ Crash(r)
    BY <1>7 DEF Raise, Crash, requestVars
  <1> QED
    BY <1>1, <1>2, <1>3, <1>4, <1>5, <1>6, <1>7 DEF RunStep, Exchanging, Publishing

LEMMA AttemptChanges ==
    ASSUME NEW r \in Runs, RunStep(r) \/ Crash(r), attempt' # attempt \/ released' # released
    PROVE  AcquireGates(r) \/ MarkStarted(r) \/ RecordAnswer(r)
  <1>1. CASE Prepare(r) \/ Queueing(r)
    BY <1>1 DEF Prepare, Invoke, MarkCampaign, ContinuePrior, Inspect, AcquireLease, Refuse,
       Queueing, AdmitLogicalRequest, ClaimNextQueued, gateVars
  <1>2. CASE Exchanging(r)
    BY <1>2 DEF Exchanging, GatesBlocked, Send, CallbackFails, FailExchange, RejectBody, AcceptBody,
       gateVars
  <1>3. CASE Publishing(r)
    BY <1>3 DEF Publishing, PublishRaw, HeartbeatLease, CollectMetadata, PublishEvidence,
       SettleRequest, Finally, gateVars
  <1>4. CASE Raise(r) \/ Crash(r)
    BY <1>4 DEF Raise, Crash, gateVars
  <1> QED
    BY <1>1, <1>2, <1>3, <1>4 DEF RunStep

\* A verdict is left only with an answer.
LEMMA VerdictLeft ==
    ASSUME NEW r \in Runs, RunStep(r) \/ Crash(r), pc[r].step = "verdict", pc' # pc
    PROVE  attempt[Tried(r)] = "succeeded"
  <1>1. CASE Prepare(r) \/ Queueing(r)
    BY <1>1 DEF Prepare, Invoke, MarkCampaign, ContinuePrior, Inspect, AcquireLease, Refuse,
       Queueing, AdmitLogicalRequest, ClaimNextQueued, At
  <1>2. CASE Exchanging(r)
    BY <1>2 DEF Exchanging, AcquireGates, GatesBlocked, MarkStarted, Send, CallbackFails,
       RecordAnswer, FailExchange, RejectBody, AcceptBody, RaiseWith, At
  <1>3. CASE Publishing(r)
    BY <1>3 DEF Publishing, PublishRaw, HeartbeatLease, CollectMetadata, PublishEvidence,
       SettleRequest, Finally, At
  <1>4. CASE Raise(r) \/ Crash(r)
    BY <1>4 DEF Raise, RaiseWith, Crash
  <1> QED
    BY <1>1, <1>2, <1>3, <1>4 DEF RunStep

LEMMA AttemptKept ==
    ASSUME ProducersInv, AttemptInv, NEW r \in Runs, RunStep(r) \/ Crash(r)
    PROVE  AttemptInv'
  <1>1. Conduct(r)
    BY ConductOfRuns
  <1>2. Moves(r) /\ (pc' = pc \/ Enters(r)) /\ UNCHANGED kind
    BY <1>1 DEF Conduct
  <1>4. ASSUME pc[r].step = "verdict", pc' # pc PROVE attempt[Tried(r)] = "succeeded"
    BY <1>4, VerdictLeft
  <1>5. CASE attempt' = attempt
    BY <1>2, <1>4, <1>5, AttemptStays
  <1>6. CASE AcquireGates(r) \/ MarkStarted(r)
    <2>1. pc[r].step \in {"gates", "start"} /\ \E s \in {"reserved", "started"} : attempt' = [attempt EXCEPT ![Tried(r)] = s]
      BY <1>6 DEF AcquireGates, MarkStarted, At
    <2>2. attempt[Tried(r)] # "succeeded"
      BY <2>1, NotAnswered
    <2> QED
      BY <1>2, <2>1, <2>2, AttemptStays
  <1>7. CASE RecordAnswer(r)
    <2>1. pc[r].step = "record" /\ attempt' = [attempt EXCEPT ![Tried(r)] = Recorded(answer[r])] /\ Step(r)
      BY <1>7 DEF RecordAnswer, At
    <2>2. pc' # pc
      <3>1. pc'[r] = Place("verdict", pc[r].item)
        BY <2>1 DEF Step, After, Exchange, ProducersInv, TypeInv
      <3> QED
        BY <2>1, <3>1 DEF Place
    <2>3. attempt[Tried(r)] # "succeeded"
      BY <2>1, NotAnswered
    <2> QED
      BY <1>2, <2>1, <2>2, <2>3, AttemptStays
  <1> QED
    BY <1>5, <1>6, <1>7, AttemptChanges

LEMMA FlightKept ==
    ASSUME ProducersInv, FlightInv, NEW r \in Runs, RunStep(r) \/ Crash(r)
    PROVE  FlightInv'
  <1>1. UNCHANGED kind
    BY ConductOfRuns DEF Conduct
  <1>2. CASE request' = request
    BY <1>1, <1>2, FlightSame
  <1>3. CASE AdmitLogicalRequest(r)
    BY <1>3, AdmitFlight
  <1>4. CASE ClaimNextQueued(r)
    BY <1>1, <1>4, ClaimTakesQueued, FlightSame DEF ProducersInv, Active
  <1>5. CASE SettleRequest(r) \/ \E outcome \in {"failed", "unknown"} : Finalize(r, outcome)
    <2>1. PICK outcome \in Settled : Finalize(r, outcome)
      BY <1>5 DEF SettleRequest, Settled
    <2> QED
      BY <1>1, <2>1, FinalizeFlight
  <1> QED
    BY <1>2, <1>3, <1>4, <1>5, RequestChanges

LEMMA PromiseKept ==
    ASSUME ProducersInv, PromiseInv, [Next]_vars
    PROVE  PromiseInv'
  <1>1. ASSUME NEW r \in Runs, RunStep(r) \/ Crash(r) PROVE PromiseInv'
    <2>1. kind' = kind /\ OwnerInv'
      BY <1>1, ConductOfRuns, OwnerStays DEF Conduct, PromiseInv
    <2> QED
      BY <1>1, <2>1, AttemptKept, FlightKept DEF PromiseInv
  <1>2. CASE RecoverExpiredLease
    <2>1. UNCHANGED <<kind, pc, mode>> /\ holder' = NoRun
          /\ attempt' = [a \in Attempts |-> IF attempt[a] = "started" THEN "unknown" ELSE attempt[a]]
      BY <1>2 DEF RecoverExpiredLease, procVars
    <2>2. PICK r \in Runs : TRUE
      BY SomeRun
    <2>3. Moves(r)
      BY <2>1, StandingMoves DEF ProducersInv
    <2>4. AttemptInv'
      BY <2>1, <2>3, AttemptStays DEF PromiseInv
    <2>5. OwnerInv'
      BY <2>1, NoRunAssumption DEF OwnerInv
    <2> QED
      BY <1>2, <2>1, <2>4, <2>5, TakeoverFlight DEF PromiseInv
  <1>3. CASE Expire \/ UNCHANGED vars
    <2>1. UNCHANGED <<kind, pc, mode, holder, request, attempt>>
      BY <1>3 DEF Expire, vars, procVars, leaseVars, requestVars
    <2>2. PICK r \in Runs : TRUE
      BY SomeRun
    <2>3. Moves(r)
      BY <2>1, StandingMoves DEF ProducersInv
    <2>4. AttemptInv'
      BY <2>1, <2>3, AttemptStays DEF PromiseInv
    <2>5. OwnerInv'
      BY <2>1 DEF OwnerInv, PromiseInv, Mine, Item, RequestOf
    <2>6. FlightInv'
      BY <2>1, FlightSame DEF PromiseInv
    <2> QED
      BY <2>1, <2>4, <2>5, <2>6 DEF PromiseInv
  <1> QED
    BY <1>1, <1>2, <1>3 DEF Next

LEMMA PromiseInit ==
    ASSUME Init
    PROVE  PromiseInv
  <1>1. \A a \in Attempts : attempt[a] = "none" /\ request[a] = "absent"
    BY DEF Init
  <1>2. ASSUME NEW r \in Runs
        PROVE  /\ pc[r].step \in {"mark", "continue", "inspect", "lease"} /\ holder # r
               /\ \A i \in ItemsOf(kind[r]) : <<r, i>> \notin PastVerdict
    <2>1. pc[r] = FirstPlace(kind[r]) /\ kind[r] \in Kinds /\ holder = NoRun
      BY WorkloadsAssumption DEF Init
    <2>2. /\ pc[r].step \in {"mark", "continue", "inspect", "lease"} /\ pc[r].item \in Items
          /\ \A i \in ItemsOf(kind[r]) : i \in Items /\ pc[r].item <= i
      BY <2>1, ItemsOfAreItems DEF FirstPlace, Place, ItemsOf
    <2> QED
      BY <2>1, <2>2, NoRunAssumption DEF PastVerdict, Late, Items
  <1>3. AttemptInv
    BY <1>1, <1>2 DEF AttemptInv
  <1>4. OwnerInv
    BY <1>2 DEF OwnerInv
  <1>5. FlightInv
    BY <1>1 DEF FlightInv, Active
  <1> QED
    BY <1>3, <1>4, <1>5 DEF PromiseInv, Init

\* The row of a request that is asked, the name of an invocation's present request.
RowOf(n) == <<n[2], n[3]>>
ThingOf(n) == <<n[1], n[3]>>
NameOf(r) == <<kind[r], r, Mine(r)[2]>>

LEMMA Asking ==
    ASSUME kind \in Workloads, NEW n \in Asked
    PROVE  /\ n \in Askers /\ n[1] = kind[n[2]] /\ n = <<n[1], n[2], n[3]>>
           /\ RowOf(n) \in Attempts
  <1>1. n \in Askers /\ n[1] = kind[n[2]]
    BY DEF Asked
  <1>2. PICK w \in Workloads, r \in Runs : n \in {w[r]} \X {r} \X RequestsOf(w[r])
    BY <1>1 DEF Askers
  <1>3. n[2] \in Runs /\ n = <<n[1], n[2], n[3]>> /\ n[3] \in RequestsOf(w[r])
    BY <1>2
  <1>4. n[3] \in Items
    BY <1>3, ItemsOfAreItems DEF RequestsOf, Items
  <1> QED
    BY <1>1, <1>3, <1>4 DEF RowOf, Attempts

LEMMA NameIsAsked ==
    ASSUME ProducersInv, kind \in Workloads, NEW r \in Runs
    PROVE  NameOf(r) \in Asked /\ RowOf(NameOf(r)) = Mine(r)
  <1>1. Mine(r) = IF IsEdinet(kind[r]) THEN <<r, Item(r)>> ELSE <<r, 1>>
    BY Typed DEF ProducersInv
  <1>2. Mine(r)[2] \in RequestsOf(kind[r])
    <2>1. Item(r) \in ItemsOf(kind[r])
      BY DEF ProducersInv, PlaceInv, ProperPlace, Item
    <2> QED
      BY <1>1, <2>1 DEF RequestsOf
  <1>3. NameOf(r) \in {kind[r]} \X {r} \X RequestsOf(kind[r])
    BY <1>2 DEF NameOf
  <1>4. NameOf(r) \in Askers
    <2> DEFINE P == {kind[r]} \X {r} \X RequestsOf(kind[r])
               S == {{w[o]} \X {o} \X RequestsOf(w[o]) : w \in Workloads, o \in Runs}
    <2>1. P \in S
      OBVIOUS
    <2>2. NameOf(r) \in P
      BY <1>3
    <2>3. Askers = UNION S
      BY DEF Askers
    <2> HIDE DEF P, S
    <2> QED
      BY <2>1, <2>2, <2>3
  <1> QED
    BY <1>1, <1>4 DEF NameOf, Asked, RowOf

LEMMA SameThings ==
    ASSUME kind \in Workloads, NEW n \in Asked, NEW m \in Asked
    PROVE  SameFingerprint(RowOf(n), RowOf(m)) <=> ThingOf(n) = ThingOf(m)
  BY Asking DEF SameFingerprint, RowOf, ThingOf

LEMMA Visible ==
    ASSUME kind \in Workloads
    PROVE  /\ waiting = {n \in Asked : request[RowOf(n)] \in Active \cup {"joined"}}
           /\ verdict = [n \in Askers |-> IF n \in Asked /\ request[RowOf(n)] \in Settled
                                          THEN request[RowOf(n)] ELSE "none"]
           /\ \A n \in Asked : n \in proof <=>
                 \E a \in Attempts : attempt[a] = "succeeded" /\ RequestOf(a[1], a[2]) = RowOf(n)
           /\ proof \subseteq Asked
  <1>1. waiting = {n \in Asked : request[RowOf(n)] \in Active \cup {"joined"}}
    BY DEF waiting, StateOf, RowOf, Unsettled
  <1>2. verdict = [n \in Askers |-> IF n \in Asked /\ request[RowOf(n)] \in Settled
                                    THEN request[RowOf(n)] ELSE "none"]
    BY DEF verdict, StateOf, RowOf
  <1>3. \A n \in Asked : n \in proof <=>
           \E a \in Attempts : attempt[a] = "succeeded" /\ RequestOf(a[1], a[2]) = RowOf(n)
    BY DEF proof, StatesOf, AttemptsOf, RowOf
  <1> QED
    BY <1>1, <1>2, <1>3 DEF proof

\* The same after a step.
LEMMA VisibleNext ==
    ASSUME kind \in Workloads, UNCHANGED kind
    PROVE  /\ Asked' = Asked
           /\ waiting' = {n \in Asked : request'[RowOf(n)] \in Active \cup {"joined"}}
           /\ verdict' = [n \in Askers |-> IF n \in Asked /\ request'[RowOf(n)] \in Settled
                                           THEN request'[RowOf(n)] ELSE "none"]
           /\ \A n \in Asked : n \in proof' <=>
                 \E a \in Attempts : attempt'[a] = "succeeded" /\ RequestOf(a[1], a[2]) = RowOf(n)
           /\ proof' \subseteq Asked
  <1>1. Asked' = Asked
    BY DEF Asked
  <1>2. waiting' = {n \in Asked : request'[RowOf(n)] \in Active \cup {"joined"}}
    BY <1>1 DEF waiting, StateOf, RowOf, Unsettled
  <1>3. verdict' = [n \in Askers |-> IF n \in Asked /\ request'[RowOf(n)] \in Settled
                                     THEN request'[RowOf(n)] ELSE "none"]
    BY <1>1 DEF verdict, StateOf, RowOf
  <1>4. \A n \in Asked : n \in proof' <=>
           \E a \in Attempts : attempt'[a] = "succeeded" /\ RequestOf(a[1], a[2]) = RowOf(n)
    BY <1>1 DEF proof, StatesOf, AttemptsOf, RowOf, RequestOf
  <1>5. proof' \subseteq Asked
    BY <1>1 DEF proof
  <1> QED
    BY <1>1, <1>2, <1>3, <1>4, <1>5

LEMMA SameProof ==
    ASSUME kind \in Workloads, UNCHANGED kind,
           \A a \in Attempts : attempt'[a] = "succeeded" <=> attempt[a] = "succeeded"
    PROVE  proof' = proof
  <1>1. proof \subseteq Asked /\ proof' \subseteq Asked
    BY Visible, VisibleNext
  <1>2. \A n \in Asked : n \in proof <=> n \in proof'
    BY Visible, VisibleNext
  <1> QED
    BY <1>1, <1>2

\* One verdict for each thing of F, told to all who wait for it.
LEMMA SettlesThings ==
    ASSUME kind \in Workloads, UNCHANGED kind, proof' = proof,
           NEW F, F \subseteq {ThingOf(n) : n \in waiting},
           NEW told \in [F -> {"succeeded", "failed", "unknown"}],
           \A f \in F : told[f] = "succeeded" => \E n \in waiting : ThingOf(n) = f /\ n \in proof,
           \A n \in waiting : ThingOf(n) \in F => request'[RowOf(n)] = told[ThingOf(n)],
           \A n \in waiting : ThingOf(n) \notin F => request'[RowOf(n)] \in Active \cup {"joined"},
           \A n \in Asked \ waiting : request'[RowOf(n)] = request[RowOf(n)]
    PROVE  Promise!Next
  <1> DEFINE T == [n \in Askers |-> <<n[1], n[3]>>]
             W == {n \in waiting : T[n] \in F}
  <1>1. \A n \in Asked : n \in Askers /\ T[n] = ThingOf(n)
    <2>1. \A n \in Askers : T[n] = ThingOf(n)
      BY Zenon DEF ThingOf
    <2>2. Asked \subseteq Askers
      BY DEF Asked
    <2> QED
      BY <2>1, <2>2
  <1>2. waiting \subseteq Asked /\ (Active \cup {"joined"}) \cap Settled = {}
    BY Visible DEF Active, Settled
  <1>3. W = {n \in waiting : ThingOf(n) \in F}
    BY <1>1, <1>2
  <1>4. waiting' = waiting \ W
    <2>1. ASSUME NEW n \in Asked
          PROVE  request'[RowOf(n)] \in Active \cup {"joined"} <=> n \in waiting /\ n \notin W
      <3>1. CASE n \in W
        BY <1>2, <1>3, <3>1 DEF Settled
      <3>2. CASE n \in waiting \ W
        BY <1>3, <3>2
      <3>3. CASE n \notin waiting
        BY <3>3, Visible
      <3> QED
        BY <1>3, <3>1, <3>3
    <2> QED
      BY <1>2, <2>1, VisibleNext
  <1>5. verdict' = [n \in Askers |-> IF n \in W THEN told[T[n]] ELSE verdict[n]]
    <2>1. ASSUME NEW n \in Askers
          PROVE  (IF n \in Asked /\ request'[RowOf(n)] \in Settled THEN request'[RowOf(n)] ELSE "none")
                 = IF n \in W THEN told[T[n]] ELSE verdict[n]
      <3>1. verdict[n] = IF n \in Asked /\ request[RowOf(n)] \in Settled THEN request[RowOf(n)] ELSE "none"
        BY Visible
      <3>2. CASE n \in W
        BY <1>1, <1>2, <1>3, <3>2 DEF Settled
      <3>3. CASE n \in waiting \ W
        <4>1. request[RowOf(n)] \in Active \cup {"joined"} /\ request'[RowOf(n)] \in Active \cup {"joined"}
          BY <1>3, <3>3, Visible
        <4> QED
          BY <1>2, <3>1, <3>3, <4>1
      <3>4. CASE n \notin waiting
        BY <3>1, <3>4
      <3> QED
        BY <3>2, <3>3, <3>4
    <2> QED
      BY <2>1, VisibleNext
  <1>6. \A f \in F : told[f] = "succeeded" => {n \in waiting : T[n] \in {f}} \cap proof # {}
    BY <1>1, <1>2
  <1>7. F \in SUBSET {T[n] : n \in waiting}
    <2> SUFFICES ASSUME NEW f \in F PROVE f \in {T[m] : m \in waiting}
      OBVIOUS
    <2>1. PICK n \in waiting : f = ThingOf(n)
      BY Zenon
    <2>2. f = T[n]
      BY <1>1, <1>2, <2>1
    <2> HIDE DEF T
    <2> QED
      BY <2>2
  <1>8. Promise!Settle(F)
    BY <1>4, <1>5, <1>6 DEF Promise!Settle, Promise!WaitingFor
  <1>9. F \in SUBSET Promise!Things
    BY <1>7 DEF Promise!Things
  <1> QED
    BY <1>8, <1>9 DEF Promise!Next

LEMMA OneName ==
    ASSUME kind \in Workloads, NEW n \in Asked, NEW m \in Asked, RowOf(n) = RowOf(m)
    PROVE  n = m
  <1>1. /\ n = <<n[1], n[2], n[3]>> /\ n[1] = kind[n[2]]
        /\ m = <<m[1], m[2], m[3]>> /\ m[1] = kind[m[2]]
    BY Asking
  <1>2. n[2] = m[2] /\ n[3] = m[3]
    BY DEF RowOf
  <1> QED
    BY <1>1, <1>2

\* Admission: another waits.
LEMMA AdmitJoins ==
    ASSUME ProducersInv, PromiseInv, NEW r \in Runs, AdmitLogicalRequest(r)
    PROVE  Promise!Next
  <1> DEFINE m == NameOf(r)
  <1>1. kind \in Workloads /\ UNCHANGED <<kind, attempt>> /\ request \in [Attempts -> Active \cup Settled \cup {"absent", "joined"}]
    BY DEF AdmitLogicalRequest, PromiseInv, ProducersInv, TypeInv
  <1>2. m \in Asked /\ RowOf(m) = Mine(r) /\ m \in Askers
    BY <1>1, NameIsAsked, Asking
  <1> HIDE DEF m
  <1>3. PICK s \in {"queued", "joined"} : request' = [request EXCEPT ![Mine(r)] = s]
    BY AdmitAdds DEF ProducersInv
  <1>4. request[Mine(r)] = "absent" /\ Mine(r) \in Attempts
    BY AdmitAdds, Typed DEF ProducersInv
  <1>5. ASSUME NEW n \in Asked
        PROVE  request'[RowOf(n)] = IF n = m THEN s ELSE request[RowOf(n)]
    <2>1. RowOf(n) \in Attempts /\ (RowOf(n) = Mine(r) <=> n = m)
      BY <1>1, <1>2, Asking, OneName
    <2> QED
      BY <1>1, <1>3, <2>1
  <1>6. m \notin waiting /\ verdict[m] = "none"
    BY <1>1, <1>2, <1>4, Visible DEF Active, Settled
  <1>7. waiting' = waiting \cup {m}
    <2>1. ASSUME NEW n \in Asked
          PROVE  request'[RowOf(n)] \in Active \cup {"joined"} <=> n \in waiting \/ n = m
      BY <1>1, <1>5, Visible DEF Active
    <2>2. waiting \subseteq Asked
      BY <1>1, Visible
    <2> QED
      BY <1>1, <1>2, <2>1, <2>2, VisibleNext
  <1>8. verdict' = verdict
    <2>1. ASSUME NEW n \in Askers
          PROVE  (IF n \in Asked /\ request'[RowOf(n)] \in Settled THEN request'[RowOf(n)] ELSE "none")
                 = IF n \in Asked /\ request[RowOf(n)] \in Settled THEN request[RowOf(n)] ELSE "none"
      <3>1. CASE n = m
        BY <1>2, <1>4, <1>5 DEF Settled
      <3>2. CASE n # m
        BY <1>5, <3>2
      <3> QED
        BY <3>1, <3>2
    <2> QED
      BY <1>1, <2>1, Visible, VisibleNext
  <1>9. proof' = proof
    BY <1>1, SameProof
  <1>10. Promise!Join(m)
    BY <1>6, <1>7, <1>8, <1>9 DEF Promise!Join
  <1> QED
    BY <1>2, <1>10 DEF Promise!Next

\* A result: one verdict for all who wait for the thing.
LEMMA FinalizeSettles ==
    ASSUME ProducersInv, PromiseInv, NEW r \in Runs, NEW outcome \in Settled, Finalize(r, outcome),
           UNCHANGED <<kind, attempt>>, outcome = "succeeded" => NameOf(r) \in proof
    PROVE  Promise!Next
  <1> DEFINE m == NameOf(r)
             F == {ThingOf(m)}
             told == [f \in F |-> outcome]
  <1>1. kind \in Workloads
    BY DEF PromiseInv
  <1>2. m \in Asked /\ RowOf(m) = Mine(r)
    BY <1>1, NameIsAsked
  <1>3. Mine(r) \in Attempts /\ request[Mine(r)] \in Active
    BY Typed DEF Finalize, ProducersInv
  <1>4. ASSUME NEW n \in Asked
        PROVE  request'[RowOf(n)] =
                   IF RowOf(n) = Mine(r) \/ (request[RowOf(n)] = "joined" /\ SameFingerprint(RowOf(n), Mine(r)))
                   THEN outcome ELSE request[RowOf(n)]
    BY <1>1, Asking DEF Finalize, WithResult
  <1>5. m \in waiting
    BY <1>1, <1>2, <1>3, Visible
  <1> HIDE DEF m
  <1>6. \A n \in Asked : SameFingerprint(RowOf(n), Mine(r)) <=> ThingOf(n) = ThingOf(m)
    BY <1>1, <1>2, SameThings
  <1>7. ASSUME NEW n \in waiting, ThingOf(n) \in F PROVE request'[RowOf(n)] = told[ThingOf(n)]
    <2>1. n \in Asked /\ request[RowOf(n)] \in Active \cup {"joined"} /\ RowOf(n) \in Attempts
      BY <1>1, Visible, Asking
    <2>2. SameFingerprint(RowOf(n), Mine(r))
      BY <1>6, <1>7, <2>1
    <2>3. request[RowOf(n)] \in Active => RowOf(n) = Mine(r)
      BY <1>3, <2>1, <2>2 DEF PromiseInv, FlightInv
    <2> QED
      BY <1>4, <1>7, <2>1, <2>2, <2>3
  <1>8. ASSUME NEW n \in waiting, ThingOf(n) \notin F PROVE request'[RowOf(n)] \in Active \cup {"joined"}
    <2>1. n \in Asked /\ request[RowOf(n)] \in Active \cup {"joined"}
      BY <1>1, Visible
    <2>2. ~SameFingerprint(RowOf(n), Mine(r)) /\ RowOf(n) # Mine(r)
      BY <1>2, <1>6, <1>8, <2>1
    <2> QED
      BY <1>4, <2>1, <2>2
  <1>9. ASSUME NEW n \in Asked \ waiting PROVE request'[RowOf(n)] = request[RowOf(n)]
    BY <1>1, <1>3, <1>4, Visible
  <1>10. proof' = proof
    BY <1>1, SameProof
  <1>11. \A f \in F : told[f] = "succeeded" => \E n \in waiting : ThingOf(n) = f /\ n \in proof
    BY <1>5 DEF m
  <1>12. told \in [F -> {"succeeded", "failed", "unknown"}] /\ F \subseteq {ThingOf(n) : n \in waiting}
    BY <1>5 DEF Settled
  <1> HIDE DEF F, told
  <1> QED
    BY <1>1, <1>7, <1>8, <1>9, <1>10, <1>11, <1>12, SettlesThings

\* The result of an invocation that comes to its end: its last item was answered.
LEMMA SettleIsProved ==
    ASSUME ProducersInv, PromiseInv, NEW r \in Runs, SettleRequest(r)
    PROVE  NameOf(r) \in proof
  <1>1. pc[r].step = "settle" /\ kind \in Workloads
    BY DEF SettleRequest, At, PromiseInv
  <1>2. kind[r] # "offline" /\ Item(r) \in ItemsOf(kind[r]) /\ Item(r) \in Items
    BY <1>1, Typed DEF ProducersInv, PlaceInv, ProperPlace, Item
  <1>3. <<r, Item(r)>> \in PastVerdict /\ <<r, Item(r)>> \in Attempts
    BY <1>1, <1>2 DEF PastVerdict, Late, Attempts, Item
  <1>4. attempt[<<r, Item(r)>>] = "succeeded"
    BY <1>2, <1>3 DEF PromiseInv, AttemptInv
  <1>5. NameOf(r) \in Asked /\ RowOf(NameOf(r)) = RequestOf(r, Item(r))
    BY <1>1, NameIsAsked DEF Mine
  <1> QED
    BY <1>1, <1>3, <1>4, <1>5, Visible

\* Of the attempts only a success shows, and it belongs to one who waits.
LEMMA AttemptAnswers ==
    ASSUME ProducersInv, PromiseInv, NEW r \in Runs, AcquireGates(r) \/ MarkStarted(r) \/ RecordAnswer(r)
    PROVE  [Promise!Next]_<<waiting, verdict, proof>>
  <1>1. kind \in Workloads /\ UNCHANGED <<kind, request>> /\ attempt \in [Attempts -> Present \cup {"none"}]
    BY DEF AcquireGates, MarkStarted, RecordAnswer, requestVars, PromiseInv, ProducersInv, TypeInv
  <1>2. waiting' = waiting /\ verdict' = verdict
    BY <1>1, Visible, VisibleNext
  <1>3. pc[r].step \in {"gates", "start", "record"} /\ holder = r /\ mode[r] = "running"
        /\ \E s : attempt' = [attempt EXCEPT ![Tried(r)] = s] /\ (s = "succeeded" => pc[r].step = "record")
    BY DEF AcquireGates, MarkStarted, RecordAnswer, At, Owns
  <1>4. PICK s : attempt' = [attempt EXCEPT ![Tried(r)] = s] /\ (s = "succeeded" => pc[r].step = "record")
    BY <1>3
  <1>5. attempt[Tried(r)] # "succeeded" /\ Tried(r) \in Attempts /\ Tried(r) = <<r, Item(r)>>
    BY <1>3, NotAnswered, Typed DEF PromiseInv, ProducersInv
  <1>6. CASE s # "succeeded"
    <2>1. \A a \in Attempts : attempt'[a] = "succeeded" <=> attempt[a] = "succeeded"
      BY <1>4, <1>5, <1>6
    <2>2. proof' = proof
      BY <1>1, <2>1, SameProof
    <2> QED
      BY <1>2, <2>2
  <1>7. CASE s = "succeeded"
    <2> DEFINE m == NameOf(r)
    <2>1. m \in Asked /\ RowOf(m) = Mine(r) /\ m \in Askers
      BY <1>1, NameIsAsked, Asking
    <2> HIDE DEF m
    <2>2. kind[r] # "offline"
      BY <1>4, <1>7 DEF ProducersInv, PlaceInv, ProperPlace
    <2>3. request[Mine(r)] \in Active
      BY <1>3, <2>2 DEF PromiseInv, OwnerInv, Handling, Active
    <2>4. m \in waiting
      BY <1>1, <2>1, <2>3, Visible
    <2>5. RequestOf(Tried(r)[1], Tried(r)[2]) = RowOf(m)
      BY <1>5, <2>1 DEF Mine
    <2>6. ASSUME NEW a \in Attempts PROVE attempt'[a] = "succeeded" <=> attempt[a] = "succeeded" \/ a = Tried(r)
      BY <1>1, <1>4, <1>7
    <2>7. \A n \in Asked : n \in proof' <=> n \in proof \/ n = m
      <3>1. ASSUME NEW n \in Asked PROVE RowOf(n) = RowOf(m) <=> n = m
        BY <1>1, <2>1, OneName
      <3> QED
        BY <1>1, <1>5, <2>5, <2>6, <3>1, Visible, VisibleNext
    <2>8. proof' = proof \cup {m}
      <3>1. proof \subseteq Asked /\ proof' \subseteq Asked
        BY <1>1, Visible, VisibleNext
      <3> QED
        BY <2>1, <2>7, <3>1
    <2>9. Promise!Answer(m)
      BY <1>2, <2>4, <2>8 DEF Promise!Answer
    <2> QED
      BY <2>1, <2>9 DEF Promise!Next
  <1> QED
    BY <1>6, <1>7

\* A takeover: those who wait for a thing share the fate of the flight's leader.
LEMMA TakeoverSettlesThings ==
    ASSUME ProducersInv, PromiseInv, RecoverExpiredLease
    PROVE  Promise!Next
  <1> DEFINE New(n) == request'[RowOf(n)]
             Lost == {n \in waiting : New(n) \in {"unknown", "failed"}}
             F == {ThingOf(n) : n \in Lost}
             told == [f \in F |-> New(CHOOSE n \in Lost : ThingOf(n) = f)]
  <1>1. kind \in Workloads /\ UNCHANGED kind
        /\ attempt' = [a \in Attempts |-> IF attempt[a] = "started" THEN "unknown" ELSE attempt[a]]
    BY DEF RecoverExpiredLease, PromiseInv
  <1>2. \A n \in Asked : n \in waiting <=> request[RowOf(n)] \in Active \cup {"joined"}
    BY <1>1, Visible
  <1>3. waiting \subseteq Asked /\ {"unknown", "failed"} \cap (Active \cup {"joined"}) = {}
    BY <1>1, Visible DEF Active
  <1>4. ASSUME NEW n \in waiting
        PROVE  \E l \in Attempts :
                  /\ request[l] \in Active /\ SameFingerprint(RowOf(n), l)
                  /\ IF AfterTakeover(l) \in Active THEN New(n) \in Active \cup {"joined"}
                     ELSE New(n) = AfterTakeover(l) /\ New(n) \in {"unknown", "failed"}
    <2>1. n \in Asked /\ RowOf(n) \in Attempts /\ request[RowOf(n)] \in Active \cup {"joined"}
      BY <1>1, <1>2, <1>3, Asking
    <2>2. CASE request[RowOf(n)] \in Active
      BY <2>1, <2>2, TakeoverOfFlight, SameThing DEF PromiseInv
    <2>3. CASE request[RowOf(n)] = "joined"
      <3>1. PICK l \in Attempts : request[l] \in Active /\ SameFingerprint(RowOf(n), l)
        BY <2>1, <2>3 DEF PromiseInv, FlightInv
      <3>2. /\ New(n) = IF AfterTakeover(l) \in Active THEN "joined" ELSE AfterTakeover(l)
            /\ AfterTakeover(l) \in Active \cup {"unknown", "failed"}
        BY <2>1, <2>3, <3>1, TakeoverOfFlight DEF PromiseInv
      <3> QED
        BY <3>1, <3>2
    <2> QED
      BY <2>1, <2>2, <2>3
  <1>5. ASSUME NEW n \in waiting, NEW k \in waiting, ThingOf(n) = ThingOf(k), New(n) \in {"unknown", "failed"}
        PROVE  New(k) = New(n)
    <2>1. PICK l \in Attempts :
                  /\ request[l] \in Active /\ SameFingerprint(RowOf(n), l)
                  /\ IF AfterTakeover(l) \in Active THEN New(n) \in Active \cup {"joined"}
                     ELSE New(n) = AfterTakeover(l) /\ New(n) \in {"unknown", "failed"}
      BY <1>4
    <2>2. PICK j \in Attempts :
                  /\ request[j] \in Active /\ SameFingerprint(RowOf(k), j)
                  /\ IF AfterTakeover(j) \in Active THEN New(k) \in Active \cup {"joined"}
                     ELSE New(k) = AfterTakeover(j) /\ New(k) \in {"unknown", "failed"}
      BY <1>4
    <2>3. SameFingerprint(RowOf(n), RowOf(k))
      BY <1>1, <1>3, <1>5, SameThings
    <2>4. SameFingerprint(l, j)
      BY <2>1, <2>2, <2>3, SameThing
    <2>5. l = j
      BY <2>1, <2>2, <2>4 DEF PromiseInv, FlightInv
    <2> QED
      BY <1>3, <1>5, <2>1, <2>2, <2>5
  <1>6. ASSUME NEW n \in waiting PROVE New(n) \in Active \cup {"joined", "unknown", "failed"}
    BY <1>4
  <1>7. ASSUME NEW n \in Asked \ waiting PROVE New(n) = request[RowOf(n)]
    <2>1. n \in Asked /\ RowOf(n) \in Attempts /\ request[RowOf(n)] \notin Active \cup {"joined"}
      BY <1>1, <1>2, Asking
    <2> QED
      BY <2>1, TakeoverOfFlight DEF PromiseInv
  <1> HIDE DEF New
  <1>8. ASSUME NEW f \in F
        PROVE  /\ told[f] \in {"unknown", "failed"}
               /\ \A k \in waiting : ThingOf(k) = f => New(k) = told[f]
    <2> DEFINE c == CHOOSE n \in Lost : ThingOf(n) = f
    <2>1. \E n \in Lost : ThingOf(n) = f
      OBVIOUS
    <2>2. c \in Lost /\ ThingOf(c) = f
      BY <2>1
    <2>3. told[f] = New(c)
      OBVIOUS
    <2> HIDE DEF c, told
    <2> QED
      BY <1>5, <2>2, <2>3
  <1>9. ASSUME NEW n \in waiting, ThingOf(n) \in F PROVE New(n) = told[ThingOf(n)]
    BY <1>8, <1>9
  <1>10. ASSUME NEW n \in waiting, ThingOf(n) \notin F PROVE New(n) \in Active \cup {"joined"}
    BY <1>6, <1>10
  <1>11. F \subseteq {ThingOf(n) : n \in waiting}
    <2> SUFFICES ASSUME NEW f \in F PROVE f \in {ThingOf(n) : n \in waiting}
      OBVIOUS
    <2>1. PICK n \in Lost : f = ThingOf(n)
      OBVIOUS
    <2> QED
      BY <2>1
  <1>12. DOMAIN told = F /\ told = [f \in F |-> told[f]]
    OBVIOUS
  <1>13. proof' = proof
    <2> QED
      BY <1>1, SameProof
  <1> HIDE DEF told, F
  <1>14. told \in [F -> {"succeeded", "failed", "unknown"}]
    BY <1>8, <1>12
  <1>15. \A f \in F : told[f] # "succeeded"
    BY <1>8
  <1> QED
    BY <1>1, <1>7, <1>9, <1>10, <1>11, <1>13, <1>14, <1>15, SettlesThings DEF New

\* The reduced ledger that the producers share keeps the promise of FlightPromise: an
\* answer settles all who wait for the same thing, at once and only once, whatever the
\* invocations and their operators do.
THEOREM ProducersKeepPromise == Spec => KeepsPromise
  <1>1. Init => Promise!Init
    <2>1. ASSUME Init PROVE Promise!Init
      <3>1. kind \in Workloads /\ \A a \in Attempts : request[a] = "absent" /\ attempt[a] = "none"
        BY <2>1 DEF Init
      <3>2. \A n \in Asked : RowOf(n) \in Attempts
        BY <3>1, Asking
      <3>3. waiting = {} /\ proof = {}
        BY <3>1, <3>2, Visible DEF Active
      <3>4. \A n \in Askers : ~(n \in Asked /\ request[RowOf(n)] \in Settled)
        BY <3>1, <3>2 DEF Settled
      <3>5. verdict = [n \in Askers |-> "none"]
        BY <3>1, <3>4, Visible
      <3> QED
        BY <3>3, <3>5 DEF Promise!Init
    <2> QED
      BY <2>1
  <1>2. ASSUME ProducersInv, PromiseInv, [Next]_vars
        PROVE  [Promise!Next]_<<waiting, verdict, proof>>
    <2>1. kind \in Workloads
      BY <1>2 DEF PromiseInv
    <2>2. ASSUME NEW r \in Runs, RunStep(r) \/ Crash(r) PROVE [Promise!Next]_<<waiting, verdict, proof>>
      <3>1. UNCHANGED kind
        BY <1>2, <2>2, ConductOfRuns DEF Conduct
      <3>2. CASE UNCHANGED <<request, attempt>>
        BY <2>1, <3>1, <3>2, Visible, VisibleNext, SameProof
      <3>3. CASE attempt' # attempt
        BY <1>2, <2>2, <3>3, AttemptChanges, AttemptAnswers
      <3>4. CASE request' # request
        <4>1. attempt' = attempt
          BY <1>2, <2>2, <3>4, RequestChanges
        <4>2. CASE AdmitLogicalRequest(r)
          BY <1>2, <4>2, AdmitJoins
        <4>3. CASE ClaimNextQueued(r)
          <5>1. \A n \in Asked : RowOf(n) \in Attempts
            BY <2>1, Asking
          <5>2. \A q \in Attempts : request'[q] # request[q] => request[q] = "queued" /\ request'[q] = "claimed"
            BY <1>2, <4>3, ClaimTakesQueued DEF ProducersInv
          <5>3. waiting' = waiting
            <6>1. \A n \in Asked :
                     request'[RowOf(n)] \in Active \cup {"joined"} <=> request[RowOf(n)] \in Active \cup {"joined"}
              BY <5>1, <5>2 DEF Active
            <6> QED
              BY <2>1, <3>1, <6>1, Visible, VisibleNext
          <5>4. \A n \in Askers :
                   (IF n \in Asked /\ request'[RowOf(n)] \in Settled THEN request'[RowOf(n)] ELSE "none")
                   = IF n \in Asked /\ request[RowOf(n)] \in Settled THEN request[RowOf(n)] ELSE "none"
            BY <5>1, <5>2 DEF Settled
          <5>5. verdict' = verdict
            BY <2>1, <3>1, <5>4, Visible, VisibleNext
          <5> QED
            BY <2>1, <3>1, <4>1, <5>3, <5>5, SameProof
        <4>4. CASE SettleRequest(r)
          <5>1. Finalize(r, "succeeded") /\ "succeeded" \in Settled
            BY <4>4 DEF SettleRequest, Settled
          <5> QED
            BY <1>2, <3>1, <4>1, <4>4, <5>1, SettleIsProved, FinalizeSettles
        <4>5. CASE \E outcome \in {"failed", "unknown"} : Finalize(r, outcome)
          BY <1>2, <3>1, <4>1, <4>5, FinalizeSettles DEF Settled
        <4> QED
          BY <1>2, <2>2, <3>4, <4>2, <4>3, <4>4, <4>5, RequestChanges
      <3> QED
        BY <3>2, <3>3, <3>4
    <2>3. CASE Expire \/ UNCHANGED vars
      <3>1. UNCHANGED <<kind, request, attempt>>
        BY <2>3 DEF Expire, vars, requestVars
      <3> QED
        BY <2>1, <3>1, Visible, VisibleNext, SameProof
    <2> QED
      BY <1>2, <2>2, <2>3, TakeoverSettlesThings DEF Next
  <1>3. ProducersInv /\ PromiseInv /\ [Next]_vars => [Promise!Next]_(Promise!vars)
    BY <1>2 DEF Promise!vars
  <1>4. ProducersInv /\ PromiseInv /\ [Next]_vars => PromiseInv'
    BY PromiseKept
  <1> QED
    BY <1>1, <1>3, <1>4, PromiseInit, ProducersHold, PTL DEF Spec, KeepsPromise, Promise!Spec
-------------------------------------------------------------------------------
(* The takeover. An attempt belongs to a request that was claimed and not put   *)
(* back; a live one to the exchange its invocation is in, so that a request has *)
(* no two; and an answered one gave its gates back before the request is        *)
(* settled. A result is given only outside the exchange.                        *)

Live == {"reserved", "started"}
InFlight == {"start", "send", "record"}
Trying(a) == a[2] = pc[a[1]].item /\ pc[a[1]].step \in InFlight
Owner(a) == RequestOf(a[1], a[2])

RowsInv ==
    \A a \in Attempts :
        /\ attempt[a] # "none" => request[Owner(a)] \in {"claimed"} \cup Settled
        /\ attempt[a] \in Live => request[Owner(a)] = "claimed" /\ Trying(a)
        /\ attempt[a] \in Settled /\ request[Owner(a)] = "claimed" => a \in released

LEMMA OwnerIsRow ==
    ASSUME NEW a \in Attempts
    PROVE  /\ a = <<a[1], a[2]>> /\ a[1] \in Runs /\ a[2] \in Items
           /\ Owner(a) \in Attempts /\ Owner(a)[1] = a[1]
  BY DEF Attempts, Owner, RequestOf, Items

\* An exchange is left only with the record of its answer.
LEMMA RecordLeft ==
    ASSUME NEW r \in Runs, RunStep(r) \/ Crash(r), pc[r].step = "record", pc' # pc
    PROVE  RecordAnswer(r)
  <1>1. CASE Prepare(r) \/ Queueing(r)
    BY <1>1 DEF Prepare, Invoke, MarkCampaign, ContinuePrior, Inspect, AcquireLease, Refuse,
       Queueing, AdmitLogicalRequest, ClaimNextQueued, At
  <1>2. CASE Exchanging(r)
    BY <1>2 DEF Exchanging, AcquireGates, GatesBlocked, MarkStarted, Send, CallbackFails,
       FailExchange, RejectBody, AcceptBody, RaiseWith, At
  <1>3. CASE Publishing(r)
    BY <1>3 DEF Publishing, PublishRaw, HeartbeatLease, CollectMetadata, PublishEvidence,
       SettleRequest, Finally, At
  <1>4. CASE Raise(r) \/ Crash(r)
    BY <1>4 DEF Raise, RaiseWith, Crash
  <1> QED
    BY <1>1, <1>2, <1>3, <1>4 DEF RunStep

\* The steps of an exchange follow one another with the same item.
LEMMA ExchangeGoesOn ==
    ASSUME ProducersInv, NEW r \in Runs, Step(r), pc[r].step \in {"gates", "start", "send"}
    PROVE  pc'[r].step \in InFlight /\ pc'[r].item = pc[r].item
  <1>1. pc'[r] = Place(Exchange[pc[r].step], pc[r].item)
    BY DEF Step, After, Exchange, ProducersInv, TypeInv
  <1> QED
    BY <1>1 DEF Place, Exchange, InFlight

\* A step that leaves the attempts alone: results are given to claimed requests whose
\* invocation is not in an exchange.
LEMMA RowsOfRequests ==
    ASSUME ProducersInv, RowsInv, NEW r \in Runs, RunStep(r) \/ Crash(r), UNCHANGED <<attempt, released>>
    PROVE  RowsInv'
  <1>1. Conduct(r) /\ kind' = kind /\ \A o \in Runs : o # r => pc'[o] = pc[o]
    BY ConductOfRuns DEF Conduct, Moves
  <1>2. \A a \in Attempts : Owner(a)' = Owner(a)
    BY <1>1 DEF Owner, RequestOf
  <1>3. ASSUME NEW q \in Attempts, request[q] \in {"claimed"} \cup Settled, request'[q] # request[q]
        PROVE  request'[q] \in Settled /\ q = Mine(r) /\ pc[r].step \notin InFlight
    <2>1. pc[r].step \notin InFlight
      BY <1>3, RequestChanges DEF InFlight
    <2>2. CASE AdmitLogicalRequest(r)
      <3>1. \/ request' = [request EXCEPT ![Mine(r)] = "joined"]
            \/ request' = [request EXCEPT ![Mine(r)] = "queued"]
        BY <2>2, AdmitAdds DEF ProducersInv
      <3>2. q = Mine(r) /\ request[Mine(r)] = "absent"
        BY <1>3, <2>2, <3>1, AdmitAdds DEF ProducersInv, TypeInv
      <3> QED
        BY <1>3, <3>2 DEF Settled
    <2>3. CASE ClaimNextQueued(r)
      BY <1>3, <2>3, ClaimTakesQueued DEF ProducersInv, Settled
    <2>4. CASE SettleRequest(r) \/ \E outcome \in {"failed", "unknown"} : Finalize(r, outcome)
      <3>1. PICK outcome \in Settled : Finalize(r, outcome)
        BY <2>4 DEF SettleRequest, Settled
      <3>2. request[q] = "joined" \/ q = Mine(r)
        BY <1>3, <3>1, FinalizeGives DEF ProducersInv
      <3>3. request'[q] = outcome
        BY <1>3, <3>1, FinalizeGives DEF ProducersInv
      <3> QED
        BY <1>3, <2>1, <3>2, <3>3 DEF Settled
    <2> QED
      BY <1>3, <2>2, <2>3, <2>4, RequestChanges
  <1>4. ASSUME NEW a \in Attempts, attempt[a] # "none"
        PROVE  /\ request'[Owner(a)] \in {"claimed"} \cup Settled
               /\ request'[Owner(a)] = "claimed" => request[Owner(a)] = "claimed"
    BY <1>3, <1>4, OwnerIsRow DEF RowsInv, Settled
  <1>5. ASSUME NEW a \in Attempts, attempt[a] \in Live
        PROVE  request'[Owner(a)] = "claimed" /\ Trying(a)'
    <2>1. request[Owner(a)] = "claimed" /\ Trying(a) /\ a[1] \in Runs
      BY <1>5, OwnerIsRow DEF RowsInv
    <2>2. request'[Owner(a)] = "claimed"
      <3>1. ASSUME request'[Owner(a)] # request[Owner(a)] PROVE FALSE
        <4>1. Owner(a) = Mine(r) /\ pc[r].step \notin InFlight
          BY <1>3, <2>1, <3>1, OwnerIsRow
        <4>2. a[1] = r
          BY <4>1, OwnerIsRow, Typed DEF ProducersInv
        <4> QED
          BY <2>1, <4>1, <4>2 DEF Trying
      <3> QED
        BY <2>1, <3>1
    <2>3. ASSUME pc'[a[1]] = pc[a[1]] PROVE Trying(a)'
      BY <2>1, <2>3 DEF Trying
    <2>4. ASSUME pc'[a[1]] # pc[a[1]] PROVE Trying(a)'
      <3>1. a[1] = r /\ pc' # pc /\ a[2] = pc[r].item /\ pc[r].step \in InFlight
        BY <1>1, <2>1, <2>4 DEF Trying
      <3>2. pc[r].step # "record"
        <4>1. ASSUME RecordAnswer(r) PROVE FALSE
          <5>1. a = Tried(r)
            BY <3>1, OwnerIsRow DEF Tried, Item
          <5>2. attempt'[a] = Recorded(answer[r])
            BY <4>1, <5>1 DEF RecordAnswer, ProducersInv, TypeInv
          <5> QED
            BY <1>5, <5>2 DEF Recorded, Live
        <4> QED
          BY <3>1, <4>1, RecordLeft
      <3>3. Step(r)
        BY <1>1, <3>1 DEF Conduct
      <3> QED
        BY <3>1, <3>2, <3>3, ExchangeGoesOn DEF InFlight, Trying
    <2> QED
      BY <2>2, <2>3, <2>4
  <1> QED
    <2>1. ASSUME NEW a \in Attempts
          PROVE  /\ attempt'[a] # "none" => request'[Owner(a)'] \in {"claimed"} \cup Settled
                 /\ attempt'[a] \in Live => request'[Owner(a)'] = "claimed" /\ Trying(a)'
                 /\ attempt'[a] \in Settled /\ request'[Owner(a)'] = "claimed" => a \in released'
      BY <1>2, <1>4, <1>5 DEF RowsInv, Settled
    <2> QED
      BY <2>1 DEF RowsInv

\* The exchange itself: only its owner's attempt moves, under a claimed request.
LEMMA RowsOfExchange ==
    ASSUME ProducersInv, PromiseInv, RowsInv, NEW r \in Runs, AcquireGates(r) \/ MarkStarted(r) \/ RecordAnswer(r)
    PROVE  RowsInv'
  <1>1. /\ pc[r].step \in {"gates", "start", "record"} /\ holder = r /\ mode[r] = "running" /\ Step(r)
        /\ UNCHANGED <<kind, request>>
    BY DEF AcquireGates, MarkStarted, RecordAnswer, At, Owns, requestVars
  <1>2. /\ Tried(r) = <<r, Item(r)>> /\ Tried(r) \in Attempts /\ Item(r) = pc[r].item
        /\ pc \in [Runs -> [step : Steps, item : Items]] /\ attempt \in [Attempts -> Present \cup {"none"}]
    BY Typed DEF ProducersInv, TypeInv, Item
  <1>3. /\ \A o \in Runs : o # r => pc'[o] = pc[o]
        /\ \A a \in Attempts : Owner(a)' = Owner(a)
    BY <1>1, <1>2 DEF Step, Owner, RequestOf
  <1>4. request[Owner(Tried(r))] = "claimed"
    <2>1. kind[r] # "offline"
      BY <1>1 DEF ProducersInv, PlaceInv, ProperPlace
    <2>2. Owner(Tried(r)) = Mine(r)
      BY <1>2 DEF Owner, Mine
    <2> QED
      BY <1>1, <2>1, <2>2 DEF PromiseInv, OwnerInv, Handling
  <1>5. /\ \A a \in Attempts : a # Tried(r) => attempt'[a] = attempt[a]
        /\ \/ attempt'[Tried(r)] \in Live /\ pc[r].step \in {"gates", "start"}
           \/ attempt'[Tried(r)] \in Settled /\ Tried(r) \in released'
        /\ released \subseteq released'
    BY <1>2 DEF AcquireGates, MarkStarted, RecordAnswer, Recorded, Live, Settled, At, gateVars
  <1>6. ASSUME NEW a \in Attempts, a # Tried(r), attempt[a] \in Live PROVE Trying(a)'
    <2>1. Trying(a) /\ a[1] \in Runs /\ a = <<a[1], a[2]>>
      BY <1>6, OwnerIsRow DEF RowsInv
    <2>2. a[1] # r
      BY <1>2, <1>6, <2>1 DEF Trying
    <2> QED
      BY <1>3, <2>1, <2>2 DEF Trying
  <1>7. ASSUME NEW a \in Attempts
        PROVE  /\ attempt'[a] # "none" => request'[Owner(a)'] \in {"claimed"} \cup Settled
               /\ attempt'[a] \in Live => request'[Owner(a)'] = "claimed"
               /\ attempt'[a] \in Settled /\ request'[Owner(a)'] = "claimed" => a \in released'
    <2>1. CASE a = Tried(r)
      BY <1>1, <1>3, <1>4, <1>5, <2>1 DEF Live, Settled
    <2>2. CASE a # Tried(r)
      BY <1>1, <1>3, <1>5, <2>2 DEF RowsInv
    <2> QED
      BY <2>1, <2>2
  <1>8. ASSUME NEW a \in Attempts, attempt'[a] \in Live PROVE Trying(a)'
    <2>1. CASE a = Tried(r)
      <3>1. a[1] = r /\ a[2] = pc[r].item /\ pc[r].step \in {"gates", "start"}
        BY <1>2, <1>5, <1>8, <2>1 DEF Live, Settled
      <3> QED
        BY <1>1, <3>1, ExchangeGoesOn DEF Trying
    <2>2. CASE a # Tried(r)
      BY <1>5, <1>6, <1>8, <2>2
    <2> QED
      BY <2>1, <2>2
  <1> QED
    BY <1>7, <1>8 DEF RowsInv

\* A takeover leaves no started attempt, and a result with every request that had one.
LEMMA RowsOfTakeover ==
    ASSUME ProducersInv, FlightInv, RowsInv, RecoverExpiredLease
    PROVE  RowsInv'
  <1>1. /\ UNCHANGED <<kind, pc, released>>
        /\ attempt' = [a \in Attempts |-> IF attempt[a] = "started" THEN "unknown" ELSE attempt[a]]
    BY DEF RecoverExpiredLease, procVars
  <1>2. \A a \in Attempts : Owner(a)' = Owner(a) /\ Trying(a)' = Trying(a)
    BY <1>1 DEF Owner, RequestOf, Trying
  <1>3. ASSUME NEW a \in Attempts, attempt[a] # "none"
        PROVE  /\ request[Owner(a)] \in {"claimed"} \cup Settled
               /\ request[Owner(a)] # "claimed" => request'[Owner(a)] = request[Owner(a)]
               /\ request[Owner(a)] = "claimed" => request'[Owner(a)] = AfterTakeover(Owner(a))
    BY <1>3, OwnerIsRow, TakeoverOfFlight DEF RowsInv, Active, Settled
  <1>4. ASSUME NEW a \in Attempts, attempt[a] # "none", request[Owner(a)] = "claimed"
        PROVE  /\ AfterTakeover(Owner(a)) \in {"claimed", "unknown", "failed"}
               /\ attempt[a] = "started" => AfterTakeover(Owner(a)) = "unknown"
    <2>1. attempt[a] \in StatesOf(Owner(a))
      BY <1>4 DEF StatesOf, AttemptsOf, Owner
    <2> QED
      BY <1>4, <2>1 DEF AfterTakeover, Active
  <1>5. ASSUME NEW a \in Attempts, attempt[a] \in Live
        PROVE  /\ attempt[a] = "reserved" => request'[Owner(a)] = "claimed"
               /\ attempt[a] = "started" => request'[Owner(a)] = "unknown"
    <2>1. attempt[a] # "none" /\ request[Owner(a)] = "claimed" /\ Trying(a)
      BY <1>5 DEF RowsInv, Live
    <2>2. attempt[a] \in StatesOf(Owner(a))
      BY <2>1 DEF StatesOf, AttemptsOf, Owner
    <2>3. ASSUME attempt[a] = "reserved" PROVE "started" \notin StatesOf(Owner(a))
      <3>1. ASSUME NEW b \in Attempts, attempt[b] = "started", Owner(b) = Owner(a) PROVE FALSE
        <4>1. Trying(b) /\ a[1] = b[1]
          BY <3>1, OwnerIsRow DEF RowsInv, Live
        <4>2. a = b
          BY <2>1, <4>1, OwnerIsRow DEF Trying
        <4> QED
          BY <2>3, <3>1, <4>2
      <3> QED
        BY <3>1 DEF StatesOf, AttemptsOf, Owner
    <2>4. ASSUME attempt[a] = "reserved" PROVE AfterTakeover(Owner(a)) = "claimed"
      BY <2>1, <2>2, <2>3, <2>4 DEF AfterTakeover, Active
    <2> QED
      BY <1>3, <1>4, <2>1, <2>4
  <1>6. ASSUME NEW a \in Attempts
        PROVE  /\ attempt'[a] # "none" => request'[Owner(a)'] \in {"claimed"} \cup Settled
               /\ attempt'[a] \in Live => request'[Owner(a)'] = "claimed" /\ Trying(a)'
               /\ attempt'[a] \in Settled /\ request'[Owner(a)'] = "claimed" => a \in released'
    <2>1. CASE attempt[a] = "none"
      BY <1>1, <2>1 DEF Live, Settled
    <2>2. CASE attempt[a] = "started"
      BY <1>1, <1>2, <1>5, <2>2 DEF Live, Settled
    <2>3. CASE attempt[a] \notin {"none", "started"}
      <3>1. attempt'[a] = attempt[a] /\ attempt[a] # "none"
        BY <1>1, <2>3
      <3>2. attempt[a] \in Live => attempt[a] = "reserved" /\ Trying(a)
        BY <2>3 DEF RowsInv, Live
      <3>3. /\ request'[Owner(a)] \in {"claimed"} \cup Settled
            /\ request'[Owner(a)] = "claimed" => request[Owner(a)] = "claimed"
        BY <1>3, <1>4, <3>1 DEF Settled
      <3> QED
        BY <1>1, <1>2, <1>5, <3>1, <3>2, <3>3 DEF RowsInv
    <2> QED
      BY <2>1, <2>2, <2>3
  <1> QED
    BY <1>6 DEF RowsInv

LEMMA RowsKept ==
    ASSUME ProducersInv, PromiseInv, RowsInv, [Next]_vars
    PROVE  RowsInv'
  <1>1. ASSUME NEW r \in Runs, RunStep(r) \/ Crash(r) PROVE RowsInv'
    <2>1. CASE UNCHANGED <<attempt, released>>
      BY <1>1, <2>1, RowsOfRequests
    <2>2. CASE ~UNCHANGED <<attempt, released>>
      BY <1>1, <2>2, AttemptChanges, RowsOfExchange
    <2> QED
      BY <2>1, <2>2
  <1>2. CASE Expire \/ UNCHANGED vars
    <2>1. UNCHANGED <<kind, pc, request, attempt, released>>
      BY <1>2 DEF Expire, vars, procVars, requestVars, gateVars
    <2> QED
      BY <2>1 DEF RowsInv, Owner, RequestOf, Trying
  <1> QED
    BY <1>1, <1>2, RowsOfTakeover DEF Next, PromiseInv

\* recover_expired_lease never refuses a runtime on account of its rows: whatever the
\* producers and earlier takeovers left there, _validate_recovery_state and
\* _reconcile_terminal_flights accept it.
THEOREM TakeoversAccepted == Spec => []TakeoverNeverRefused
  <1>1. ASSUME Init PROVE RowsInv
    BY <1>1 DEF Init, RowsInv, Live, Settled
  <1>2. ASSUME RowsInv PROVE TakeoverNeverRefused
    <2>1. AuditClean
      <3>1. ASSUME NEW a \in Attempts
            PROVE  /\ attempt[a] = "started" => request[Owner(a)] \in Unsettled
                   /\ attempt[a] \in Settled /\ request[Owner(a)] \in Unsettled => a \in released
        BY <1>2 DEF RowsInv, Live, Settled, Unsettled, Active
      <3> QED
        BY <3>1 DEF AuditClean, Owner
    <2>2. ASSUME NEW q \in Attempts, request[q] \in Active, AfterTakeover(q) \in Settled
          PROVE  "reserved" \notin StatesOf(q)
      <3>1. ASSUME "reserved" \in StatesOf(q) PROVE FALSE
        <4>1. PICK a \in Attempts : attempt[a] = "reserved" /\ Owner(a) = q
          BY <3>1 DEF StatesOf, AttemptsOf, Owner
        <4>2. "started" \in StatesOf(q)
          BY <2>2, <3>1 DEF AfterTakeover, Active, Settled
        <4>3. PICK b \in Attempts : attempt[b] = "started" /\ Owner(b) = q
          BY <4>2 DEF StatesOf, AttemptsOf, Owner
        <4>4. Trying(a) /\ Trying(b) /\ a[1] = b[1]
          BY <1>2, <4>1, <4>3, OwnerIsRow DEF RowsInv, Live
        <4>5. a = b
          BY <4>4, OwnerIsRow DEF Trying
        <4> QED
          BY <4>1, <4>3, <4>5
      <3> QED
        BY <3>1
    <2>3. ASSUME NEW p \in Attempts, request[p] = "joined" PROVE AttemptsOf(p) = {}
      BY <1>2, <2>3 DEF RowsInv, AttemptsOf, Owner, Settled
    <2> QED
      BY <2>1, <2>2, <2>3 DEF TakeoverNeverRefused, TakeoverAccepted, TakeoverDelivers
  <1>3. ProducersInv /\ PromiseInv /\ [Next]_vars => PromiseInv'
    BY PromiseKept
  <1>4. ProducersInv /\ PromiseInv /\ RowsInv /\ [Next]_vars => RowsInv'
    BY RowsKept
  <1> QED
    BY <1>1, <1>2, <1>3, <1>4, PromiseInit, ProducersHold, PTL DEF Spec
================================================================================
