-------------------------- MODULE MarketDataProofs --------------------------
(***************************************************************************)
(* Proofs about the preparation of market data: every study is the result   *)
(* for one of its inputs, so a property of the results is one of the steps. *)
(* A view of a snapshot shows nothing that was not there to be seen, and    *)
(* the collectors keep what they promise beside everything else; then come  *)
(* the bars of a simulation, canonical bars, the audit of limits, the dated *)
(* rules of stocks and ETFs, and corporate actions with their factors.      *)
(***************************************************************************)
EXTENDS MarketData, EvidenceCollectionProofs

\* A study of a view is what the snapshot shows, and its input is legal.
ViewIsStudied ==
    study.kind = "view" =>
        study.of \in ViewInputs /\ study.result = Seen(study.of.snapshot, study.of)

\* What is past at a point in time.
PastOf(all, asOf) ==
    [all EXCEPT
        !.bars = [k \in {x \in DOMAIN all.bars : x[2] <= asOf} |-> all.bars[k]],
        !.factors = {f \in all.factors : f.effective <= asOf /\ f.known <= asOf},
        !.actions = {a \in all.actions : a.known <= asOf}]

\* The past of a snapshot, field by field.
LEMMA PastFields ==
    ASSUME NEW in \in ViewInputs
    PROVE  LET all == in.snapshot
               past == PastOf(all, in.asOf)
           IN  /\ past.bars = [k \in {x \in DOMAIN all.bars : x[2] <= in.asOf} |-> all.bars[k]]
               /\ past.factors = {f \in all.factors : f.effective <= in.asOf /\ f.known <= in.asOf}
               /\ past.actions = {a \in all.actions : a.known <= in.asOf}
               /\ past.listings = all.listings
               /\ past.open = all.open
BY ViewInputsAssumption DEF PastOf

\* The bars of a window that ends in time are past.
LEMMA PastWindow ==
    ASSUME NEW in \in ViewInputs, NEW symbols, NEW first \in Int, NEW last \in Int,
           last <= in.asOf
    PROVE  View!Window(PastOf(in.snapshot, in.asOf).bars, symbols, first, last)
               = View!Window(in.snapshot.bars, symbols, first, last)
<1> DEFINE bars == in.snapshot.bars
           past == PastOf(in.snapshot, in.asOf).bars
           In(b) == {x \in DOMAIN b : x[1] \in symbols /\ first <= x[2] /\ x[2] <= last}
<1>1. past = [k \in {x \in DOMAIN bars : x[2] <= in.asOf} |-> bars[k]]
  BY PastFields
<1>2. in.asOf \in Int /\ \A k \in DOMAIN bars : k[2] \in Int
  BY ViewInputsAssumption
<1> HIDE DEF bars, past
<1>3. In(past) = In(bars)
  BY <1>1, <1>2
<1>4. \A k \in In(past) : past[k] = bars[k]
  BY <1>1
<1>5. [k \in In(past) |-> past[k]] = [k \in In(bars) |-> bars[k]]
  <2> HIDE DEF In
  <2> QED BY <1>3, <1>4
<1> QED BY <1>5 DEF View!Window, View!Between, bars, past

\* The factors that count in a history are past.
LEMMA PastFactors ==
    ASSUME NEW in \in ViewInputs, NEW symbols, NEW first
    PROVE  LET asOf == in.asOf
               past == PastOf(in.snapshot, asOf).factors
               all == in.snapshot.factors
           IN  View!VisibleFactors(View!QueriedFactors(past, symbols, first, asOf), asOf)
                   = View!VisibleFactors(View!QueriedFactors(all, symbols, first, asOf), asOf)
<1> DEFINE asOf == in.asOf
           past == PastOf(in.snapshot, asOf).factors
           all == in.snapshot.factors
<1>1. past = {f \in all : f.effective <= asOf /\ f.known <= asOf}
  BY PastFields
<1> HIDE DEF past, all, asOf
<1>2. View!VisibleFactors(View!QueriedFactors(past, symbols, first, asOf), asOf)
          = View!VisibleFactors(View!QueriedFactors(all, symbols, first, asOf), asOf)
  BY <1>1 DEF View!VisibleFactors, View!QueriedFactors
<1> QED BY <1>2 DEF past, all, asOf

\* A snapshot shows what its past shows.
LEMMA PastIsEnough ==
    ASSUME NEW in \in ViewInputs
    PROVE  Seen(PastOf(in.snapshot, in.asOf), in) = Seen(in.snapshot, in)
<1> DEFINE all == in.snapshot
           past == PastOf(all, in.asOf)
           asOf == in.asOf
<1>1. /\ past.actions = {a \in all.actions : a.known <= asOf}
      /\ past.listings = all.listings /\ past.open = all.open
  BY PastFields
<1>2. /\ in.first \in Int /\ in.last \in Int /\ asOf \in Int
      /\ in.last <= asOf /\ asOf <= asOf
  BY ViewInputsAssumption
<1>3. View!Window(past.bars, in.symbols, in.first, in.last)
          = View!Window(all.bars, in.symbols, in.first, in.last)
  BY <1>2, PastWindow
<1>4. View!Window(past.bars, DOMAIN all.listings, asOf, asOf)
          = View!Window(all.bars, DOMAIN all.listings, asOf, asOf)
  BY <1>2, PastWindow
<1>5. View!VisibleFactors(View!QueriedFactors(past.factors, in.symbols, in.first, asOf), asOf)
          = View!VisibleFactors(View!QueriedFactors(all.factors, in.symbols, in.first, asOf), asOf)
  BY PastFactors
<1> HIDE DEF all, past, asOf
<1>6. View!AdjustedHistory(past, in.symbols, in.first, in.last, asOf)
          = View!AdjustedHistory(all, in.symbols, in.first, in.last, asOf)
  BY <1>3, <1>5 DEF View!AdjustedHistory, View!Adjusted
<1>7. View!Session(past, asOf) = View!Session(all, asOf)
  <2>1. {a \in past.actions : a.known <= asOf} = {a \in all.actions : a.known <= asOf}
    BY <1>1
  <2> QED BY <1>1, <1>4, <2>1 DEF View!Session
<1>8. View!InstrumentsAsOf(past, asOf) = View!InstrumentsAsOf(all, asOf)
  BY <1>1 DEF View!InstrumentsAsOf
<1>9. View!NextTradingDay(past, asOf) = View!NextTradingDay(all, asOf)
  BY <1>1 DEF View!NextTradingDay
<1> QED BY <1>6, <1>7, <1>8, <1>9 DEF Seen, all, past, asOf

\* A history that ends earlier is the same history cut off.
LEMMA HistoryIsCut ==
    ASSUME NEW in \in ViewInputs
    PROVE  LET history == Seen(in.snapshot, in).history
               full == View!AdjustedHistory(in.snapshot, in.symbols, in.first, in.asOf, in.asOf)
           IN  \A k \in DOMAIN history : history[k] = full[k]
<1> DEFINE all == in.snapshot
           short == View!Window(all.bars, in.symbols, in.first, in.last)
           long == View!Window(all.bars, in.symbols, in.first, in.asOf)
<1>1. \A k \in DOMAIN short : k \in DOMAIN long /\ short[k] = long[k]
  BY ViewInputsAssumption DEF View!Window, View!Between
<1> HIDE DEF short, long
<1>2. \A f, k : k \in DOMAIN short =>
          View!Adjusted(short, f, in.asOf)[k] = View!Adjusted(long, f, in.asOf)[k]
  BY <1>1 DEF View!Adjusted
<1>3. \A f : DOMAIN View!Adjusted(short, f, in.asOf) = DOMAIN short
  BY DEF View!Adjusted
<1> QED BY <1>2, <1>3 DEF Seen, View!AdjustedHistory, short, long

-----------------------------------------------------------------------------
(* The steps.                                                              *)

\* A study of a view stays what it is, and only StudyViews makes one.
LEMMA ViewStep == ViewIsStudied /\ [DataNext]_<<vars, study>> => ViewIsStudied'
<1> SUFFICES ASSUME ViewIsStudied, [DataNext]_<<vars, study>> PROVE ViewIsStudied'
  OBVIOUS
<1>1. CASE study' = study
  BY <1>1 DEF ViewIsStudied
<1>2. ASSUME NEW k, NEW in, NEW result, Study(k, in, result), k # "view"
      PROVE  ViewIsStudied'
  BY <1>2 DEF Study, ViewIsStudied
<1>3. CASE StudyViews
  BY <1>3 DEF StudyViews, Study, ViewIsStudied
<1>4. CASE StudyBars
  BY <1>2, <1>4 DEF StudyBars
<1>5. CASE StudyStocks
  BY <1>2, <1>5 DEF StudyStocks
<1>6. CASE StudyEtfs
  BY <1>2, <1>6 DEF StudyEtfs
<1>7. CASE StudyLimits
  BY <1>2, <1>7 DEF StudyLimits
<1>8. CASE StudyActions
  BY <1>2, <1>8 DEF StudyActions
<1>9. CASE StudyStatus
  BY <1>2, <1>9 DEF StudyStatus
<1> QED BY <1>1, <1>3, <1>4, <1>5, <1>6, <1>7, <1>8, <1>9 DEF DataNext, Collect

\* What a step does to the collection is a step of a collector or nothing.
LEMMA CollectionStep == [DataNext]_<<vars, study>> => [Next]_vars
<1> SUFFICES ASSUME [DataNext]_<<vars, study>> PROVE [Next]_vars
  OBVIOUS
<1>1. \A k, in, result : Study(k, in, result) => UNCHANGED vars
  BY DEF Study
<1> QED BY <1>1, Zenon DEF DataNext, Collect, StudyBars, StudyStocks, StudyEtfs, StudyLimits,
                   StudyActions, StudyStatus, StudyViews

\* The collectors beside the studies of the pure steps are the collectors.
LEMMA DataIsCollection == DataSpec => Spec
<1>1. DataInit => Init
  BY DEF DataInit
<1>2. [DataNext]_<<vars, study>> => [Next]_vars
  BY CollectionStep
<1> QED BY <1>1, <1>2, PTL DEF DataSpec, Spec

-----------------------------------------------------------------------------
(* The properties.                                                         *)

\* The evidence that is recorded, resumed from and reported rests on whole
\* answers (_collect_action_batch, _collect_locked), in the whole model.
THEOREM DataEvidenceIsSound == DataSpec => []EvidenceIsSound
BY DataIsCollection, EvidenceStaysSound, PTL

\* No batch asks again about what it has a whole answer to, in the whole model.
THEOREM DataSuccessesAccumulate == DataSpec => OnlyFailuresAreAskedAgain
BY DataIsCollection, SuccessesAccumulate, PTL

\* Whatever is in a snapshot, what a view shows at a point in time does not
\* depend on anything after it: prices, factors in effect or known later, and
\* actions announced later (PointInTimeMarketView, adjusted_history).
THEOREM ViewsDoNotLookAhead == DataSpec => []NoLookAhead
<1>1. DataInit => ViewIsStudied
  BY DEF DataInit, Idle, ViewIsStudied
<1>2. ViewIsStudied /\ [DataNext]_<<vars, study>> => ViewIsStudied'
  BY ViewStep
<1>3. ViewIsStudied => NoLookAhead
  <2> SUFFICES ASSUME ViewIsStudied, study.kind = "view"
               PROVE  LET in == study.of
                          full == View!AdjustedHistory(in.snapshot, in.symbols, in.first,
                                                       in.asOf, in.asOf)
                      IN  /\ study.result = Seen(PastOf(in.snapshot, in.asOf), in)
                          /\ \A k \in DOMAIN study.result.history :
                                 study.result.history[k] = full[k]
    BY DEF NoLookAhead, PastOf
  <2>1. study.of \in ViewInputs /\ study.result = Seen(study.of.snapshot, study.of)
    BY DEF ViewIsStudied
  <2> QED BY <2>1, PastIsEnough, HistoryIsCut
<1> QED BY <1>1, <1>2, <1>3, PTL DEF DataSpec

-----------------------------------------------------------------------------
(* What a study is.                                                        *)

\* The result of each kind of study for an input.
StockResult(in) ==
    LET decision == IF in.st = {} THEN Rules!Refused
                    ELSE Rules!StockDecision(in.stock, in.calendar, in.session, in.st = {TRUE})
    IN  Rules!Materialized([suspended |-> in.suspended, st |-> in.st,
                            previous |-> in.previous], decision)
EtfResult(in) ==
    LET rules == Etf!Built(in.listed, in.class, in.previous,
                           Rules!RoundedToTick(in.previous, 100 + in.ratio),
                           Rules!RoundedToTick(in.previous, 100 - in.ratio))
    IN  [rules |-> rules, decision |-> Rules!EtfDecision(rules, in.session),
         reusable |-> Etf!Reusable(rules, in.listed)]
LimitResult(in) ==
    LET row == Rules!Excepted(in.row, in.session, in.prices, in.protected)
    IN  [row |-> row, accepted |-> Rules!Audited(row, in.prices, in.required)]
ActionResult(in) ==
    Events!ReconciledActions(in.actions, in.factors, in.secondary, in.scope, in.previous, in.etf)
StatusResult(in) ==
    Status!SimulationBars(in.scope, in.open, in.research, in.status, in.evidence, in.etf)

\* All there is to study.
Studies ==
    {Idle}
      \cup {[kind |-> "bars", of |-> in,
             result |-> Rec!Reconciled(in.group, in.claims, in.readiness)] : in \in BarInputs}
      \cup {[kind |-> "stock", of |-> in, result |-> StockResult(in)] : in \in StockInputs}
      \cup {[kind |-> "etf", of |-> in, result |-> EtfResult(in)] : in \in EtfInputs}
      \cup {[kind |-> "limits", of |-> in, result |-> LimitResult(in)] : in \in LimitInputs}
      \cup {[kind |-> "actions", of |-> in, result |-> ActionResult(in)] : in \in ActionInputs}
      \cup {[kind |-> "status", of |-> in, result |-> StatusResult(in)] : in \in StatusInputs}
      \cup {[kind |-> "view", of |-> in, result |-> Seen(in.snapshot, in)] : in \in ViewInputs}

StudyIsMade == study \in Studies

\* No step makes another study.
LEMMA StudyStep == StudyIsMade /\ [DataNext]_<<vars, study>> => StudyIsMade'
<1> SUFFICES ASSUME StudyIsMade, [DataNext]_<<vars, study>> PROVE StudyIsMade'
  OBVIOUS
<1> USE DEF StudyIsMade
<1>1. CASE study' = study
  BY <1>1
<1>2. CASE StudyBars
  BY <1>2 DEF StudyBars, Study, Studies
<1>3. CASE StudyStocks
  BY <1>3 DEF StudyStocks, Study, Studies, StockResult
<1>4. CASE StudyEtfs
  BY <1>4 DEF StudyEtfs, Study, Studies, EtfResult
<1>5. CASE StudyLimits
  BY <1>5 DEF StudyLimits, Study, Studies, LimitResult
<1>6. CASE StudyActions
  BY <1>6 DEF StudyActions, Study, Studies, ActionResult
<1>7. CASE StudyStatus
  BY <1>7 DEF StudyStatus, Study, Studies, StatusResult
<1>8. CASE StudyViews
  BY <1>8 DEF StudyViews, Study, Studies
<1> QED BY <1>1, <1>2, <1>3, <1>4, <1>5, <1>6, <1>7, <1>8 DEF DataNext, Collect

\* Hence whatever is studied is the result for one of the inputs.
THEOREM StudiesAreMade == DataSpec => []StudyIsMade
<1>1. DataInit => StudyIsMade
  BY DEF DataInit, StudyIsMade, Studies
<1> QED BY <1>1, StudyStep, PTL DEF DataSpec

-----------------------------------------------------------------------------
(* The daily status of a simulation.                                       *)

\* What is accepted has the expected sessions, and the sources agree on which were
\* active: exactly those with a price.
LEMMA CanonicalIsExpected ==
    ASSUME NEW status, NEW research, NEW expected,
           Status!Canonicalized(status, research, expected).accepted,
           \A d \in DOMAIN status : status[d].suspended \in BOOLEAN
    PROVE  LET bars == Status!Canonicalized(status, research, expected).bars
           IN  /\ DOMAIN bars = expected /\ DOMAIN research \subseteq DOMAIN status
               /\ DOMAIN status \subseteq expected
               /\ \A d \in DOMAIN status : bars[d] = status[d]
               /\ \A d \in expected :
                     /\ bars[d].suspended \in BOOLEAN
                     /\ bars[d].suspended <=> d \notin DOMAIN research
                     /\ d \notin DOMAIN status => bars[d].previous = {}
<1> DEFINE rows == [d \in expected |-> IF d \in DOMAIN status THEN status[d]
                        ELSE [suspended |-> TRUE, st |-> {}, previous |-> {}]]
<1>1. /\ Status!SparseStatusIsValid(status, research, expected)
      /\ (expected \ DOMAIN status) \cap DOMAIN research = {}
      /\ Status!Canonicalized(status, research, expected).bars = rows
  BY DEF Status!Canonicalized, Status!Refused, Status!Accepted
<1>2. /\ DOMAIN status \subseteq expected
      /\ DOMAIN research = {d \in DOMAIN status : ~status[d].suspended}
  BY <1>1 DEF Status!SparseStatusIsValid, Status!ActiveSessions
<1>3. DOMAIN rows = expected /\ \A d \in DOMAIN status : rows[d] = status[d]
  BY <1>2
<1>4. \A d \in expected \ DOMAIN status :
          rows[d] = [suspended |-> TRUE, st |-> {}, previous |-> {}]
  OBVIOUS
<1> HIDE DEF rows
<1>5. ASSUME NEW d \in expected
      PROVE  /\ rows[d].suspended \in BOOLEAN
             /\ rows[d].suspended <=> d \notin DOMAIN research
             /\ d \notin DOMAIN status => rows[d].previous = {}
  <2>1. CASE d \in DOMAIN status
    <3>1. d \in DOMAIN research <=> ~status[d].suspended
      BY <1>2, <2>1
    <3>2. rows[d] = status[d] /\ status[d].suspended \in BOOLEAN
      BY <1>3, <2>1
    <3> QED BY <2>1, <3>1, <3>2, Zenon
  <2>2. CASE d \notin DOMAIN status
    <3>1. d \notin DOMAIN research
      BY <1>2, <2>2
    <3>2. rows[d].suspended = TRUE /\ rows[d].previous = {}
      BY <1>4, <2>2
    <3> QED BY <3>1, <3>2, Zenon
  <2> QED BY <2>1, <2>2
<1> QED BY <1>1, <1>2, <1>3, <1>5

\* How a status is joined with the historical ST states that are seen: an instrument
\* that traded without volume may be suspended, a missing previous close is the last.
IsJoined(bars, status, research, evidence, expected, etf, seen) ==
    /\ DOMAIN seen = DOMAIN evidence \cap expected
    /\ \A d \in DOMAIN seen : seen[d] = evidence[d]
    /\ \A d \in expected :
          /\ bars[d].suspended \in BOOLEAN
          /\ bars[d].suspended <=> \/ status[d].suspended
                                  \/ Status!IsPlaceholder(d, status, research, seen)
          /\ bars[d].st = Status!EffectiveSt(d, seen, etf)
          /\ bars[d].previous = IF status[d].previous # {} THEN status[d].previous
                                ELSE Status!LastCloseBefore(d, research)
          /\ ~bars[d].suspended => bars[d].st # {} /\ status[d].previous # {}

\* What reconcile_simulation_status accepts is joined so.
LEMMA ReconciledIsJoined ==
    ASSUME NEW status, NEW research, NEW evidence, NEW expected, NEW etf, NEW result,
           result = Status!ReconciledStatus(status, research, evidence, expected, etf),
           result.accepted
    PROVE  \E seen : IsJoined(result.bars, status, research, evidence, expected, etf, seen)
<1>0. PICK seen : seen = [d \in DOMAIN evidence \cap expected |-> evidence[d]]
  OBVIOUS
<1> DEFINE row(d) ==
               [suspended |-> status[d].suspended
                                  \/ Status!IsPlaceholder(d, status, research, seen),
                st |-> Status!EffectiveSt(d, seen, etf),
                previous |-> IF status[d].previous # {} THEN status[d].previous
                             ELSE Status!LastCloseBefore(d, research)]
           dense == [d \in expected |-> row(d)]
<1>1. /\ Status!ReconciledStatus(status, research, evidence, expected, etf).bars = dense
      /\ \A d \in Status!ActiveSessions(dense) : dense[d].st # {} /\ status[d].previous # {}
  <2> DEFINE refused == \/ ~Status!DenseStatusIsValid(status, research, expected)
                        \/ ~etf /\ \E d \in DOMAIN seen : seen[d].st = {}
                        \/ \E d \in Status!ActiveSessions(dense) :
                               dense[d].st = {} \/ status[d].previous = {}
  <2>1. Status!ReconciledStatus(status, research, evidence, expected, etf)
            = IF refused THEN Status!Refused ELSE Status!Accepted(dense)
    BY <1>0, Zenon DEF Status!ReconciledStatus
  <2>2. ~refused
    <3> HIDE DEF refused, dense
    <3> QED BY <2>1 DEF Status!Refused
  <2>3. Status!ReconciledStatus(status, research, evidence, expected, etf).bars = dense
    <3> HIDE DEF refused, dense
    <3> QED BY <2>1, <2>2 DEF Status!Accepted
  <2> QED BY <2>2, <2>3
<1> DEFINE marked(d) == \/ status[d].suspended
                        \/ Status!IsPlaceholder(d, status, research, seen)
<1>2. \A d \in expected :
          /\ dense[d].suspended \in BOOLEAN
          /\ dense[d].suspended <=> marked(d)
          /\ dense[d].st = Status!EffectiveSt(d, seen, etf)
          /\ dense[d].previous = row(d).previous
  <2>1. \A d \in expected : dense[d] = row(d)
    OBVIOUS
  <2>2. \A d : row(d).suspended \in BOOLEAN /\ (row(d).suspended <=> marked(d))
    OBVIOUS
  <2>3. \A d : row(d).st = Status!EffectiveSt(d, seen, etf)
    OBVIOUS
  <2> HIDE DEF dense, row, marked
  <2> QED BY <2>1, <2>2, <2>3, Zenon
<1>3. \A d \in expected : ~dense[d].suspended => d \in Status!ActiveSessions(dense)
  BY DEF Status!ActiveSessions
<1>4. DOMAIN dense = expected
  OBVIOUS
<1>5. \A d \in expected : dense[d].previous = IF status[d].previous # {} THEN status[d].previous
                                               ELSE Status!LastCloseBefore(d, research)
  BY <1>2
<1>6. /\ DOMAIN seen = DOMAIN evidence \cap expected
      /\ \A d \in DOMAIN seen : seen[d] = evidence[d]
  BY <1>0
<1>7. result.bars = dense
  BY <1>1
<1> HIDE DEF dense, row
<1>8. \A d \in expected : ~dense[d].suspended => dense[d].st # {} /\ status[d].previous # {}
  BY <1>1, <1>3
<1>9. IsJoined(dense, status, research, evidence, expected, etf, seen)
  BY <1>2, <1>5, <1>6, <1>8 DEF IsJoined
<1> QED BY <1>7, <1>9

\* The last number of a set.
LEMMA LastIs ==
    ASSUME NEW S, \A y \in S : y \in Int, NEW x \in S, \A y \in S : y <= x
    PROVE  Status!Last(S) = {x}
<1>1. x \in Status!Last(S)
  BY DEF Status!Last
<1>2. \A y \in Status!Last(S) : y \in S /\ x <= y
  BY DEF Status!Last
<1>3. ASSUME NEW y \in Status!Last(S) PROVE y = x
  <2>1. y \in Int /\ x \in Int /\ x <= y /\ y <= x
    BY <1>2
  <2> QED BY <2>1
<1> QED BY <1>1, <1>3, Zenon

\* An ST state that was observed on the session or on the one before.
IsObservedBy(st, d, evidence, expected) ==
    \/ d \in DOMAIN evidence /\ st = evidence[d].st
    \/ \E e \in DOMAIN evidence :
          /\ e \in expected /\ e < d /\ \A x \in expected : x < d => x <= e
          /\ st = evidence[e].st

\* What is known of an ST state is of the session or of the one before.
LEMMA StIsObserved ==
    ASSUME NEW expected, \A x \in expected : x \in Int, NEW research, NEW evidence, NEW d \in expected,
           Status!EvidenceIsValid(evidence, research, expected), d \in DOMAIN research,
           NEW seen, DOMAIN seen = DOMAIN evidence \cap expected,
           \A x \in DOMAIN seen : seen[x] = evidence[x]
    PROVE  IsObservedBy(Status!EffectiveSt(d, seen, FALSE), d, evidence, expected)
<1>0. PICK known : known = {x \in DOMAIN seen : x <= d /\ seen[x].st # {}}
  OBVIOUS
<1>1. /\ DOMAIN evidence \subseteq expected
      /\ \A x \in DOMAIN evidence : evidence[x].st # {}
      /\ Status!UnfillableGaps(DOMAIN research \ DOMAIN evidence, expected, evidence) = {}
  BY DEF Status!EvidenceIsValid
<1>a. \A x \in expected : x \in Int
  OBVIOUS
<1>2. DOMAIN seen = DOMAIN evidence /\ \A x \in DOMAIN evidence : seen[x] = evidence[x]
  BY <1>1
<1>3. known = {x \in DOMAIN evidence : x <= d}
  BY <1>0, <1>1, <1>2
<1>4. Status!EffectiveSt(d, seen, FALSE) = UNION {seen[e].st : e \in Status!Last(known)}
  BY <1>0 DEF Status!EffectiveSt
<1>5. \A e \in DOMAIN evidence : Status!Last(known) = {e} =>
          Status!EffectiveSt(d, seen, FALSE) = evidence[e].st
  <2> TAKE e \in DOMAIN evidence
  <2> HAVE Status!Last(known) = {e}
  <2>1. {seen[x].st : x \in Status!Last(known)} = {evidence[e].st}
    BY <1>2
  <2> QED BY <1>4, <2>1
<1>6. CASE d \in DOMAIN evidence
  <2>1. Status!Last(known) = {d}
    <3>1. (\A y \in known : y \in Int) /\ d \in known /\ \A y \in known : y <= d
      BY <1>1, <1>3, <1>6, <1>a
    <3> QED BY <3>1, LastIs, Zenon
  <2> QED BY <1>5, <1>6, <2>1 DEF IsObservedBy
<1>7. CASE d \notin DOMAIN evidence
  <2>1. PICK e \in Status!Last({x \in expected : x < d}) : e \in DOMAIN evidence
    BY <1>1, <1>7 DEF Status!UnfillableGaps
  <2>2. e \in expected /\ e < d /\ \A x \in expected : x < d => x <= e
    BY <2>1 DEF Status!Last
  <2>3. Status!Last(known) = {e}
    <3>1. (\A y \in known : y \in Int) /\ e \in known
      <4>1. e \in Int /\ d \in Int /\ e <= d
        BY <1>a, <2>2
      <4>2. \A y \in known : y \in expected
        BY <1>1, <1>3
      <4> QED BY <1>3, <1>a, <2>1, <4>1, <4>2
    <3>2. ASSUME NEW y \in known PROVE y <= e
      <4>1. y \in expected /\ y <= d /\ y # d /\ y \in Int /\ d \in Int
        BY <1>1, <1>3, <1>7, <1>a
      <4> QED BY <2>2, <4>1
    <3> QED BY <3>1, <3>2, LastIs, Zenon
  <2> QED BY <1>5, <2>1, <2>2, <2>3 DEF IsObservedBy
<1> QED BY <1>6, <1>7

\* What the sessions of dense bars are made of.
LEMMA DenseIsMade ==
    ASSUME NEW status, NEW research, NEW expected,
           Status!DenseBars(status, research, expected).accepted
    PROVE  LET bars == Status!DenseBars(status, research, expected).bars
           IN  /\ DOMAIN bars = expected
               /\ \A d \in expected :
                     /\ bars[d].status = status[d]
                     /\ d \in DOMAIN status
                     /\ status[d].suspended => bars[d].close = {} /\ bars[d].volume = 0
                     /\ ~status[d].suspended => /\ bars[d].close = {research[d].close}
                                                /\ bars[d].volume = research[d].volume
<1> DEFINE active == Status!ActiveSessions(status)
           dense == [d \in expected |->
               [status |-> status[d],
                close |-> IF d \in active THEN {research[d].close} ELSE {},
                volume |-> IF d \in active THEN research[d].volume ELSE 0]]
<1>1. DOMAIN status = expected /\ Status!DenseBars(status, research, expected).bars = dense
  BY DEF Status!DenseBars, Status!Refused, Status!Accepted
<1>2. \A d \in expected : d \in active <=> ~status[d].suspended
  BY <1>1 DEF Status!ActiveSessions
<1> HIDE DEF active
<1>3. DOMAIN dense = expected
  OBVIOUS
<1>4. \A d \in expected :
          /\ dense[d].status = status[d]
          /\ dense[d].close = IF d \in active THEN {research[d].close} ELSE {}
          /\ dense[d].volume = IF d \in active THEN research[d].volume ELSE 0
  OBVIOUS
<1> HIDE DEF dense
<1> QED BY <1>1, <1>2, <1>3, <1>4

\* DenseBarsAreSound for every input: whatever canonicalize_suspension_status,
\* reconcile_simulation_status and build_dense_simulation_bars accept one after the
\* other tells every session of the instrument's life as its sources do.
THEOREM AcceptedBarsAreSound == DataSpec => []DenseBarsAreSound
<1>1. StudyIsMade => DenseBarsAreSound
  <2> DEFINE in == study.of
             bars == study.result.bars
             life == {d \in in.open : /\ d \in in.scope.first..in.scope.last
                                      /\ d >= in.scope.listed
                                      /\ \A e \in in.scope.delisted : d <= e}
             Earlier(S, d) == {x \in S : x < d /\ \A y \in S : y < d => y <= x}
             NotTraded(d) == /\ in.research[d].volume = 0
                             /\ d \in DOMAIN in.evidence /\ in.evidence[d].suspended
             Observed(d) == IF d \in DOMAIN in.evidence THEN in.evidence[d].st ELSE {}
             Sound(d) ==
                LET bar == bars[d] IN
                  /\ bar.status.suspended = (d \notin DOMAIN in.research \/ NotTraded(d))
                  /\ IF bar.status.suspended
                     THEN /\ bar.close = {} /\ bar.volume = 0
                          /\ d \notin DOMAIN in.status \/ in.status[d].previous = {} =>
                                bar.status.previous = {in.research[e].close :
                                    e \in Earlier(DOMAIN in.research, d)}
                     ELSE /\ bar.close = {in.research[d].close}
                          /\ bar.volume = in.research[d].volume
                          /\ bar.status.previous = in.status[d].previous
                          /\ bar.status.previous # {}
                          /\ IF in.etf THEN bar.status.st = {FALSE}
                             ELSE /\ bar.status.st # {}
                                  /\ bar.status.st \in {Observed(d)} \cup
                                        {Observed(e) : e \in Earlier(life, d)}
  <2> SUFFICES ASSUME StudyIsMade, study.kind = "status", study.result.accepted
               PROVE  DOMAIN bars = life /\ \A d \in life : Sound(d)
    BY Zenon DEF DenseBarsAreSound
  <2>1. in \in StatusInputs /\ study.result = StatusResult(in)
    BY DEF StudyIsMade, Studies, Idle
  <2>2. /\ in.open \subseteq Int /\ in.scope.first \in Int /\ in.scope.last \in Int
        /\ \A d \in DOMAIN in.status : in.status[d].suspended \in BOOLEAN
        /\ \A d \in DOMAIN in.research : in.research[d].volume \in Nat
    BY <2>1, StatusInputsAssumption
  <2> DEFINE scope == in.scope
             research == in.research
             evidence == in.evidence
             etf == in.etf
  <2>3. PICK expected : expected = Status!ExpectedSessions(scope, in.open)
    OBVIOUS
  <2>4. PICK c : c = Status!Canonicalized(in.status, research, expected)
    OBVIOUS
  <2>5. PICK r : r = Status!ReconciledStatus(c.bars, research, evidence, expected, etf)
    OBVIOUS
  <2>6. PICK dense : dense = Status!DenseBars(r.bars, research, expected)
    OBVIOUS
  <2>7. StatusResult(in) = IF /\ c.accepted
                              /\ etf \/ Status!EvidenceIsValid(evidence, research, expected)
                              /\ r.accepted
                           THEN dense ELSE Status!Refused
    BY <2>3, <2>4, <2>5, <2>6, Zenon DEF StatusResult, Status!SimulationBars
  <2>8. /\ c.accepted /\ r.accepted /\ bars = dense.bars /\ dense.accepted
        /\ etf \/ Status!EvidenceIsValid(evidence, research, expected)
    BY <2>1, <2>7 DEF Status!Refused
  <2>9. life = expected /\ \A d \in expected : d \in Int
    BY <2>2, <2>3 DEF Status!ExpectedSessions
  <2> HIDE DEF in, bars, life, scope, research, evidence, etf
  <2>10. /\ DOMAIN research \subseteq DOMAIN in.status /\ DOMAIN in.status \subseteq expected
         /\ \A d \in DOMAIN in.status : c.bars[d] = in.status[d]
         /\ \A d \in expected :
               /\ c.bars[d].suspended <=> d \notin DOMAIN research
               /\ d \notin DOMAIN in.status => c.bars[d].previous = {}
    BY <2>2, <2>4, <2>8, CanonicalIsExpected
  <2>11. PICK status : status = c.bars
    OBVIOUS
  <2>12. PICK seen : IsJoined(r.bars, status, research, evidence, expected, etf, seen)
    <3>1. r = Status!ReconciledStatus(status, research, evidence, expected, etf)
      BY <2>5, <2>11
    <3> QED BY <2>8, <3>1, ReconciledIsJoined, Zenon
  <2>13. /\ DOMAIN dense.bars = expected
         /\ \A d \in expected :
               /\ dense.bars[d].status = r.bars[d]
               /\ r.bars[d].suspended => dense.bars[d].close = {} /\ dense.bars[d].volume = 0
               /\ ~r.bars[d].suspended => /\ dense.bars[d].close = {research[d].close}
                                          /\ dense.bars[d].volume = research[d].volume
    BY <2>6, <2>8, DenseIsMade
  <2>14. ASSUME NEW d \in expected PROVE Sound(d)
    <3> DEFINE bar == bars[d]
    <3>1. /\ bar.status = r.bars[d] /\ bar.status.suspended \in BOOLEAN
          /\ bar.status.suspended => bar.close = {} /\ bar.volume = 0
          /\ ~bar.status.suspended => /\ bar.close = {research[d].close}
                                      /\ bar.volume = research[d].volume
      BY <2>8, <2>12, <2>13 DEF IsJoined
    <3>2. Status!IsPlaceholder(d, status, research, seen)
              <=> d \in DOMAIN research /\ NotTraded(d)
      <4>1. d \in DOMAIN seen <=> d \in DOMAIN evidence
        BY <2>12 DEF IsJoined
      <4>2. d \in DOMAIN evidence => seen[d] = evidence[d]
        BY <2>12 DEF IsJoined
      <4>3. d \in DOMAIN research => (research[d].volume <= 0 <=> research[d].volume = 0)
        BY <2>2 DEF research
      <4> QED BY <2>10, <2>11, <4>1, <4>2, <4>3 DEF Status!IsPlaceholder, research, evidence
    <3>3. bar.status.suspended <=> d \notin DOMAIN research \/ NotTraded(d)
      BY <2>10, <2>11, <2>12, <3>1, <3>2 DEF IsJoined
    <3>4. ~bar.status.suspended => d \in DOMAIN research /\ d \in DOMAIN in.status
      BY <2>10, <3>3
    <3>5. Status!LastCloseBefore(d, research)
              = {research[e].close : e \in Earlier(DOMAIN research, d)}
      <4>1. Status!Last({x \in DOMAIN research : x < d}) = Earlier(DOMAIN research, d)
        BY DEF Status!Last
      <4> QED BY <4>1, Zenon DEF Status!LastCloseBefore
    <3>6. ASSUME bar.status.suspended,
                 d \notin DOMAIN in.status \/ in.status[d].previous = {}
          PROVE  bar.status.previous = {research[e].close : e \in Earlier(DOMAIN research, d)}
      <4>1. c.bars[d].previous = {}
        BY <2>10, <2>11, <3>6
      <4> QED BY <2>11, <2>12, <3>1, <3>5, <4>1 DEF IsJoined
    <3>7. ~bar.status.suspended =>
              /\ bar.status.previous = in.status[d].previous /\ bar.status.previous # {}
              /\ bar.status.st # {}
      BY <2>10, <2>11, <2>12, <3>1, <3>4 DEF IsJoined
    <3>8. bar.status.st = Status!EffectiveSt(d, seen, etf)
      BY <2>12, <3>1 DEF IsJoined
    <3>9. CASE etf
      <4>1. bar.status.st = {FALSE}
        BY <3>8, <3>9 DEF Status!EffectiveSt
      <4> QED BY <3>1, <3>3, <3>6, <3>7, <3>9, <4>1 DEF research, evidence, etf
    <3>10. CASE ~etf
      <4>1. ~bar.status.suspended =>
               bar.status.st \in {Observed(d)} \cup {Observed(e) : e \in Earlier(life, d)}
        <5> SUFFICES ASSUME ~bar.status.suspended
                     PROVE  bar.status.st \in {Observed(d)}
                                \cup {Observed(e) : e \in Earlier(life, d)}
          OBVIOUS
        <5>1. Status!EffectiveSt(d, seen, etf) = Status!EffectiveSt(d, seen, FALSE)
          BY <3>10 DEF Status!EffectiveSt
        <5>2. IsObservedBy(bar.status.st, d, evidence, expected)
          <6>1. /\ Status!EvidenceIsValid(evidence, research, expected)
                /\ d \in DOMAIN research
                /\ bar.status.st = Status!EffectiveSt(d, seen, FALSE)
            BY <2>8, <3>4, <3>8, <3>10, <5>1
          <6> HIDE DEF bar
          <6>2. /\ DOMAIN seen = DOMAIN evidence \cap expected
                /\ \A x \in DOMAIN seen : seen[x] = evidence[x]
            BY <2>12 DEF IsJoined
          <6> QED BY <2>9, <6>1, <6>2, StIsObserved
        <5>3. CASE d \in DOMAIN evidence /\ bar.status.st = evidence[d].st
          BY <5>3 DEF evidence
        <5>4. ASSUME NEW e \in DOMAIN evidence, e \in expected, e < d,
                     \A x \in expected : x < d => x <= e, bar.status.st = evidence[e].st
              PROVE  bar.status.st \in {Observed(x) : x \in Earlier(life, d)}
          <6>1. e \in Earlier(life, d)
            BY <2>9, <5>4
          <6>2. bar.status.st = Observed(e)
            BY <5>4 DEF evidence
          <6> HIDE DEF bar, Observed, Earlier
          <6> QED BY <6>1, <6>2
        <5> HIDE DEF bar, Observed, Earlier
        <5> QED BY <5>2, <5>3, <5>4 DEF IsObservedBy
      <4> QED BY <3>1, <3>3, <3>6, <3>7, <3>10, <4>1 DEF research, evidence, etf
    <3> QED BY <3>9, <3>10
  <2> QED BY <2>8, <2>9, <2>13, <2>14
<1> QED BY <1>1, StudiesAreMade, PTL

-----------------------------------------------------------------------------
(* The reconciliation of bars: the clusters of a field.                    *)

\* A set of natural numbers that is not empty has a least one.
LEMMA LeastNatural ==
    ASSUME NEW S \in SUBSET Nat, S # {}
    PROVE  Rec!Least(S) \in S /\ \A y \in S : Rec!Least(S) <= y
<1>1. PICK x \in S : \A y \in S : ~(<<y, x>> \in OpToRel(<, Nat))
  BY NatLessThanWellFounded, WFMin
<1>2. \A y \in S : ~(y < x)
  BY <1>1 DEF OpToRel
<1>3. \A y \in S : x <= y
  BY <1>2
<1> QED BY <1>3 DEF Rec!Least

\* How the clusters come about, row after row.
Sorts(f, rows, field, rule, last) ==
    f = [n \in 0..last |->
            IF n = 0 THEN <<>>
            ELSE IF rows[n][field] = {} THEN f[n - 1]
            ELSE Rec!Placed(f[n - 1], Rec!Candidate(rows[n], field), rule)]

\* This recursion is well founded.
LEMMA SortsExist ==
    ASSUME NEW rows, NEW field, NEW rule, NEW last \in Nat
    PROVE  \E f : Sorts(f, rows, field, rule, last)
<1> DEFINE P == {n \in Nat : \A f : ~Sorts(f, rows, field, rule, n)}
           More(f, n) == IF rows[n + 1][field] = {} THEN f[n]
                         ELSE Rec!Placed(f[n], Rec!Candidate(rows[n + 1], field), rule)
<1> SUFFICES ASSUME P # {} PROVE FALSE
  OBVIOUS
<1>1. PICK n \in P : \A m \in P : n <= m
  BY LeastNatural
<1>2. n # 0
  <2> DEFINE g == [m \in 0..0 |-> <<>>]
  <2>1. Sorts(g, rows, field, rule, 0)
    <3>1. \A m \in 0..0 : m = 0
      OBVIOUS
    <3> QED BY <3>1 DEF Sorts
  <2> QED BY <1>1, <2>1
<1>3. PICK f : Sorts(f, rows, field, rule, n - 1)
  <2>1. n - 1 \in Nat /\ n - 1 \notin P
    BY <1>1, <1>2
  <2> QED BY <2>1
<1>4. PICK k \in Nat : n = k + 1
  BY <1>1, <1>2
<1>5. Sorts(f, rows, field, rule, k)
  BY <1>3, <1>4
<1> DEFINE g == [m \in 0..(k + 1) |-> IF m = k + 1 THEN More(f, k) ELSE f[m]]
<1>6. ASSUME NEW m \in 0..(k + 1)
      PROVE  g[m] = IF m = 0 THEN <<>>
                    ELSE IF rows[m][field] = {} THEN g[m - 1]
                    ELSE Rec!Placed(g[m - 1], Rec!Candidate(rows[m], field), rule)
  <2>1. CASE m = k + 1
    <3>1. m # 0 /\ m - 1 = k /\ m - 1 \in 0..(k + 1) /\ m - 1 # k + 1
      BY <2>1
    <3>2. g[m - 1] = f[k]
      BY <3>1
    <3>3. g[m] = More(f, k)
      BY <2>1
    <3> HIDE DEF g
    <3> QED BY <2>1, <3>1, <3>2, <3>3
  <2>2. CASE m = 0
    <3>1. f[0] = <<>>
      BY <1>5 DEF Sorts
    <3>2. g[0] = f[0]
      OBVIOUS
    <3> HIDE DEF g
    <3> QED BY <2>2, <3>1, <3>2
  <2>3. CASE m # k + 1 /\ m # 0
    <3>1. m \in 0..k /\ m - 1 \in 0..k
      BY <2>3
    <3>2. f[m] = IF m = 0 THEN <<>>
                 ELSE IF rows[m][field] = {} THEN f[m - 1]
                 ELSE Rec!Placed(f[m - 1], Rec!Candidate(rows[m], field), rule)
      BY <1>5, <3>1, Zenon DEF Sorts
    <3>3. g[m] = f[m] /\ g[m - 1] = f[m - 1]
      BY <3>1
    <3> HIDE DEF g
    <3> QED BY <2>3, <3>2, <3>3
  <2> QED BY <2>1, <2>2, <2>3
<1>7. Sorts(g, rows, field, rule, k + 1)
  <2>1. g = [m \in 0..(k + 1) |-> g[m]]
    OBVIOUS
  <2> HIDE DEF g
  <2> QED BY <1>6, <2>1 DEF Sorts
<1> HIDE DEF g
<1> QED BY <1>1, <1>4, <1>7

\* The rows that give the field, of the first so many.
Given(rows, field, last) == {m \in 1..last : rows[m][field] # {}}

ValueIn(row, field) == Rec!Candidate(row, field).value

\* Clusters that hold what these rows give the field, one for each value.
Sorted(clusters, rows, field, given) ==
    /\ clusters \in Seq(Seq({Rec!Candidate(rows[m], field) : m \in 1..Len(rows)}))
    /\ \A i \in 1..Len(clusters) :
          /\ Len(clusters[i]) # 0
          /\ \A j \in 1..Len(clusters[i]) :
                /\ clusters[i][j].value = clusters[i][1].value
                /\ \E m \in given :
                      clusters[i][j] = Rec!Candidate(rows[m], field)
    /\ \A i, j \in 1..Len(clusters) : clusters[i][1].value = clusters[j][1].value => i = j
    /\ \A m \in given :
          \E i \in 1..Len(clusters) : \E j \in 1..Len(clusters[i]) :
              clusters[i][j] = Rec!Candidate(rows[m], field)

\* Among the values of a field, to be equivalent is to be equal.
Distinguishes(rule, rows, field) ==
    \A m, n \in Given(rows, field, Len(rows)) :
        LET v == ValueIn(rows[m], field)
            w == ValueIn(rows[n], field)
        IN  Rec!Equivalent(v, w, rule) <=> v = w

\* One more row keeps it so.
LEMMA PlacedIsSorted ==
    ASSUME NEW rows, Len(rows) \in Nat, NEW field, NEW rule, Distinguishes(rule, rows, field),
           NEW n \in 0..(Len(rows) - 1), NEW clusters, Sorted(clusters, rows, field, Given(rows, field, n)),
           rows[n + 1][field] # {}
    PROVE  Sorted(Rec!Placed(clusters, Rec!Candidate(rows[n + 1], field), rule),
                  rows, field, Given(rows, field, n + 1))
<1> DEFINE All == {Rec!Candidate(rows[m], field) : m \in 1..Len(rows)}
<1>1. PICK c : c = Rec!Candidate(rows[n + 1], field)
  OBVIOUS
<1>2. PICK S : S = All
  OBVIOUS
<1>3. c \in S /\ n + 1 \in Given(rows, field, n + 1)
  BY <1>1, <1>2 DEF Given
<1>4. Given(rows, field, n + 1) = Given(rows, field, n) \cup {n + 1}
  BY DEF Given
<1>5. clusters \in Seq(Seq(S))
  BY <1>2 DEF Sorted
<1> DEFINE G == Given(rows, field, n)
<1> HIDE DEF All
<1>6. \A i \in 1..Len(clusters) :
          /\ clusters[i] \in Seq(S) /\ Len(clusters[i]) \in Nat /\ Len(clusters[i]) # 0
          /\ \A j \in 1..Len(clusters[i]) :
                /\ clusters[i][j].value = clusters[i][1].value
                /\ \E m \in G : clusters[i][j] = Rec!Candidate(rows[m], field)
  BY <1>5 DEF Sorted
<1>7. \A i, j \in 1..Len(clusters) : clusters[i][1].value = clusters[j][1].value => i = j
  BY DEF Sorted
<1>8. \A m \in G : \E i \in 1..Len(clusters) : \E j \in 1..Len(clusters[i]) :
          clusters[i][j] = Rec!Candidate(rows[m], field)
  BY DEF Sorted
<1> DEFINE fits == {i \in DOMAIN clusters : Rec!Equivalent(c.value, clusters[i][1].value, rule)}
<1>9. \A i \in 1..Len(clusters) :
          i \in fits <=> clusters[i][1].value = c.value
  <2> TAKE i \in 1..Len(clusters)
  <2>1. PICK m \in G : clusters[i][1] = Rec!Candidate(rows[m], field)
    BY <1>6
  <2>2. m \in Given(rows, field, Len(rows)) /\ n + 1 \in Given(rows, field, Len(rows))
    BY <2>1 DEF Given
  <2>3. Rec!Equivalent(ValueIn(rows[n + 1], field), ValueIn(rows[m], field), rule)
            <=> ValueIn(rows[n + 1], field) = ValueIn(rows[m], field)
    BY <2>2, Zenon DEF Distinguishes
  <2>4. i \in DOMAIN clusters
    BY <1>5
  <2> QED BY <1>1, <2>1, <2>3, <2>4 DEF ValueIn
<1>10. DOMAIN clusters = 1..Len(clusters) /\ Len(clusters) \in Nat
  BY <1>5
<1>11. fits \subseteq 1..Len(clusters)
  BY <1>10
<1> DEFINE new == IF fits = {} THEN Append(clusters, <<c>>)
                  ELSE [clusters EXCEPT ![Rec!Least(fits)] = Append(@, c)]
<1>12. Rec!Placed(clusters, c, rule) = new
  BY Zenon DEF Rec!Placed
<1>13. CASE fits = {}
  <2>0. PICK one \in Seq(S) : one = <<c>> /\ Len(one) = 1 /\ one[1] = c
    <3>1. <<c>> \in Seq(S) /\ Len(<<c>>) = 1 /\ <<c>>[1] = c
      BY <1>3
    <3> QED BY <3>1
  <2>1. new = Append(clusters, one)
    BY <1>13, <2>0
  <2> HIDE DEF new, fits
  <2>2. /\ new \in Seq(Seq(S)) /\ Len(new) = Len(clusters) + 1
        /\ \A i \in 1..Len(clusters) : new[i] = clusters[i]
        /\ new[Len(clusters) + 1] = one
    BY <1>5, <2>1
  <2> HIDE DEF G
  <2>3. PICK last : last = Len(clusters) + 1
    OBVIOUS
  <2>4. \A i \in 1..last : i = last \/ i \in 1..Len(clusters)
    BY <1>10, <2>3
  <2>5. Len(new[last]) = 1 /\ new[last][1] = c
    BY <2>0, <2>2, <2>3
  <2>6. ASSUME NEW i \in 1..last PROVE Len(new[i]) # 0
    <3>1. CASE i = last
      BY <2>5, <3>1
    <3>2. CASE i \in 1..Len(clusters)
      <4>1. new[i] = clusters[i]
        BY <2>2, <3>2
      <4> QED BY <1>6, <3>2, <4>1
    <3> QED BY <2>4, <3>1, <3>2
  <2>7. ASSUME NEW i \in 1..last, NEW j \in 1..Len(new[i])
        PROVE  /\ new[i][j].value = new[i][1].value
               /\ \E m \in G \cup {n + 1} : new[i][j] = Rec!Candidate(rows[m], field)
    <3>1. CASE i = last
      <4>1. Len(new[i]) = 1
        BY <2>5, <3>1
      <4>2. j = 1
        BY <4>1
      <4> QED BY <1>1, <2>5, <3>1, <4>2
    <3>2. CASE i \in 1..Len(clusters)
      <4>1. new[i] = clusters[i]
        BY <2>2, <3>2
      <4> QED BY <1>6, <3>2, <4>1
    <3> QED BY <2>4, <3>1, <3>2
  <2>8. ASSUME NEW i \in 1..last, NEW j \in 1..last, new[i][1].value = new[j][1].value
        PROVE  i = j
    <3>1. \A k \in 1..Len(clusters) : clusters[k][1].value # c.value
      BY <1>9, <1>13
    <3> QED BY <1>7, <2>2, <2>4, <2>5, <2>8, <3>1
  <2>9. ASSUME NEW m \in G \cup {n + 1}
        PROVE  \E i \in 1..last : \E j \in 1..Len(new[i]) :
                  new[i][j] = Rec!Candidate(rows[m], field)
    <3>1. CASE m = n + 1
      <4>1. last \in 1..last /\ 1 \in 1..Len(new[last])
        BY <1>10, <2>3, <2>5
      <4> QED BY <1>1, <2>5, <3>1, <4>1
    <3>2. CASE m \in G
      <4>1. PICK i \in 1..Len(clusters) : \E j \in 1..Len(clusters[i]) :
                clusters[i][j] = Rec!Candidate(rows[m], field)
        BY <1>8, <3>2
      <4>2. i \in 1..last /\ new[i] = clusters[i]
        BY <1>10, <2>2, <2>3
      <4> QED BY <4>1, <4>2
    <3> QED BY <3>1, <3>2
  <2>10. Sorted(new, rows, field, G \cup {n + 1})
    <3>1. new \in Seq(Seq(All)) /\ Len(new) = last
      BY <1>2, <2>2, <2>3
    <3> QED BY <2>6, <2>7, <2>8, <2>9, <3>1 DEF Sorted, All
  <2> QED BY <1>1, <1>4, <1>12, <2>10 DEF G
<1>14. CASE fits # {}
  <2>1. PICK at : at = Rec!Least(fits)
    OBVIOUS
  <2>2. at \in 1..Len(clusters) /\ clusters[at][1].value = c.value
    <3>1. fits \in SUBSET Nat
      BY <1>11
    <3>2. at \in fits
      <4> HIDE DEF fits
      <4> QED BY <1>14, <2>1, <3>1, LeastNatural
    <3> QED BY <1>9, <1>11, <3>2
  <2>3. new = [clusters EXCEPT ![at] = Append(@, c)]
    BY <1>14, <2>1
  <2> HIDE DEF new, fits, G
  <2>4. /\ new \in Seq(Seq(S)) /\ Len(new) = Len(clusters)
        /\ \A i \in 1..Len(clusters) : i # at => new[i] = clusters[i]
        /\ new[at] = Append(clusters[at], c)
    BY <1>3, <1>5, <1>6, <1>10, <2>2, <2>3
  <2>5. PICK size \in Nat : size = Len(clusters[at]) /\ size # 0
    BY <1>6, <2>2
  <2>6. /\ Len(new[at]) = size + 1 /\ new[at][size + 1] = c
        /\ \A j \in 1..size : new[at][j] = clusters[at][j]
    BY <1>3, <1>6, <2>2, <2>4, <2>5
  <2>7. ASSUME NEW i \in 1..Len(clusters)
        PROVE  Len(new[i]) # 0 /\ new[i][1] = clusters[i][1]
    <3>1. CASE i = at
      <4>1. 1 \in 1..size /\ size + 1 # 0
        BY <2>5
      <4> QED BY <2>6, <3>1, <4>1
    <3>2. CASE i # at
      <4>1. new[i] = clusters[i]
        BY <2>4, <3>2
      <4> QED BY <1>6, <4>1
    <3> QED BY <3>1, <3>2
  <2>8. ASSUME NEW i \in 1..Len(clusters), NEW j \in 1..Len(new[i])
        PROVE  /\ new[i][j].value = new[i][1].value
               /\ \E m \in G \cup {n + 1} : new[i][j] = Rec!Candidate(rows[m], field)
    <3>1. CASE i = at
      <4>1. j = size + 1 \/ j \in 1..size
        BY <2>5, <2>6, <3>1
      <4>2. CASE j = size + 1
        BY <1>1, <2>2, <2>6, <2>7, <3>1, <4>2
      <4>3. CASE j \in 1..size
        <5>1. new[i][j] = clusters[i][j] /\ j \in 1..Len(clusters[i])
          BY <2>5, <2>6, <3>1, <4>3
        <5> QED BY <1>6, <2>7, <5>1
      <4> QED BY <4>1, <4>2, <4>3
    <3>2. CASE i # at
      <4>1. new[i] = clusters[i]
        BY <2>4, <3>2
      <4> QED BY <1>6, <4>1
    <3> QED BY <3>1, <3>2
  <2>9. \A i, j \in 1..Len(clusters) : new[i][1].value = new[j][1].value => i = j
    BY <1>7, <2>7
  <2>10. ASSUME NEW m \in G \cup {n + 1}
         PROVE  \E i \in 1..Len(clusters) : \E j \in 1..Len(new[i]) :
                   new[i][j] = Rec!Candidate(rows[m], field)
    <3>1. CASE m = n + 1
      <4>1. size + 1 \in 1..Len(new[at])
        BY <2>5, <2>6
      <4> QED BY <1>1, <2>2, <2>6, <3>1, <4>1
    <3>2. CASE m \in G
      <4>0. PICK i \in 1..Len(clusters) : \E j \in 1..Len(clusters[i]) :
                clusters[i][j] = Rec!Candidate(rows[m], field)
        BY <1>8, <3>2
      <4>1. PICK j \in 1..Len(clusters[i]) : clusters[i][j] = Rec!Candidate(rows[m], field)
        BY <4>0
      <4>2. CASE i = at
        <5>1. j \in 1..Len(new[i]) /\ new[i][j] = clusters[i][j]
          BY <2>5, <2>6, <4>2
        <5> QED BY <4>1, <5>1
      <4>3. CASE i # at
        BY <2>4, <4>1, <4>3
      <4> QED BY <4>2, <4>3
    <3> QED BY <3>1, <3>2
  <2>11. Sorted(new, rows, field, G \cup {n + 1})
    <3>1. new \in Seq(Seq(All)) /\ Len(new) = Len(clusters)
      BY <1>2, <2>4
    <3> QED BY <2>7, <2>8, <2>9, <2>10, <3>1 DEF Sorted, All
  <2> QED BY <1>1, <1>4, <1>12, <2>11 DEF G
<1> QED BY <1>13, <1>14

\* The clusters of a field hold all that is given, one for each value.
LEMMA ClustersAreSorted ==
    ASSUME NEW rows, Len(rows) \in Nat, NEW field, NEW rule, Distinguishes(rule, rows, field)
    PROVE  Sorted(Rec!ClustersOf(rows, field, rule), rows, field, Given(rows, field, Len(rows)))
<1> DEFINE f == CHOOSE g : Sorts(g, rows, field, rule, Len(rows))
<1>1. Rec!ClustersOf(rows, field, rule) = f[Len(rows)]
  BY DEF Rec!ClustersOf, Sorts
<1>2. Sorts(f, rows, field, rule, Len(rows))
  <2>1. \E g : Sorts(g, rows, field, rule, Len(rows))
    BY SortsExist
  <2> QED BY <2>1
<1> HIDE DEF f
<1> DEFINE P == {n \in 0..Len(rows) : ~Sorted(f[n], rows, field, Given(rows, field, n))}
<1>3. P = {}
  <2> SUFFICES ASSUME P # {} PROVE FALSE
    OBVIOUS
  <2>1. PICK n \in P : \A m \in P : n <= m
    <3>1. P \in SUBSET Nat
      OBVIOUS
    <3> HIDE DEF P
    <3> QED BY <3>1, LeastNatural
  <2>2. n # 0
    <3>1. f[0] = <<>>
      BY <1>2 DEF Sorts
    <3>2. Sorted(<<>>, rows, field, Given(rows, field, 0))
      BY DEF Sorted, Given
    <3> QED BY <2>1, <3>1, <3>2
  <2>3. PICK k \in 0..(Len(rows) - 1) : n = k + 1
    BY <2>1, <2>2
  <2>4. Sorted(f[k], rows, field, Given(rows, field, k))
    BY <2>1, <2>3
  <2>5. f[k + 1] = IF rows[k + 1][field] = {} THEN f[k]
                   ELSE Rec!Placed(f[k], Rec!Candidate(rows[k + 1], field), rule)
    <3>1. k + 1 \in 0..Len(rows) /\ k + 1 # 0 /\ (k + 1) - 1 = k
      BY <2>3
    <3> QED BY <1>2, <3>1 DEF Sorts
  <2>6. CASE rows[k + 1][field] = {}
    <3>1. Given(rows, field, k + 1) = Given(rows, field, k)
      BY <2>6 DEF Given
    <3>2. Sorted(f[k], rows, field, Given(rows, field, k + 1))
      BY <2>4, <3>1
    <3> QED BY <2>1, <2>3, <2>5, <2>6, <3>2
  <2>7. CASE rows[k + 1][field] # {}
    <3>1. Sorted(f[k + 1], rows, field, Given(rows, field, k + 1))
      BY <2>4, <2>5, <2>7, PlacedIsSorted
    <3> QED BY <2>1, <2>3, <3>1
  <2> QED BY <2>6, <2>7
<1> QED BY <1>1, <1>3

-----------------------------------------------------------------------------
(* The reconciliation of bars: the winner.                                 *)

\* The backends that report a value.
BackendsFor(rows, field, v) ==
    {Rec!BackendGroup(rows[n].provider) : n \in {m \in DOMAIN rows : rows[m][field] = {v}}}

\* A set of clusters, one for each value of a field.
Distinct(clusters, rows, field) ==
    /\ IsFiniteSet(clusters)
    /\ \A c \in clusters :
          /\ Len(c) \in Nat /\ Len(c) # 0 /\ DOMAIN c = 1..Len(c)
          /\ \A j \in 1..Len(c) : c[j].value = c[1].value
          /\ Rec!BackendsOf(c) = BackendsFor(rows, field, c[1].value)
          /\ \E m \in DOMAIN rows : rows[m][field] = {c[1].value}
    /\ \A c, d \in clusters : c[1].value = d[1].value => c = d
    /\ \A m \in DOMAIN rows : \A v \in rows[m][field] : \E c \in clusters : c[1].value = v

\* A row gives a field at most one value.
IsSingle(rows, field) ==
    \A m \in DOMAIN rows : \A v, w \in rows[m][field] : v = w

\* What a row with one value gives.
LEMMA SingleValue ==
    ASSUME NEW rows, NEW field, IsSingle(rows, field), NEW m \in DOMAIN rows,
           rows[m][field] # {}
    PROVE  /\ rows[m][field] = {ValueIn(rows[m], field)}
           /\ Rec!Candidate(rows[m], field).provider = rows[m].provider
<1>1. PICK v : v \in rows[m][field]
  OBVIOUS
<1>2. rows[m][field] = {v}
  BY <1>1 DEF IsSingle
<1> QED BY <1>2 DEF ValueIn, Rec!Candidate

\* The clusters of a field are such a set.
LEMMA ClustersAreDistinct ==
    ASSUME NEW rows, Len(rows) \in Nat, DOMAIN rows = 1..Len(rows), NEW field, NEW rule,
           Distinguishes(rule, rows, field), IsSingle(rows, field)
    PROVE  LET sequence == Rec!ClustersOf(rows, field, rule)
           IN  Distinct({sequence[n] : n \in DOMAIN sequence}, rows, field)
<1>1. PICK s : s = Rec!ClustersOf(rows, field, rule)
  OBVIOUS
<1> DEFINE G == Given(rows, field, Len(rows))
           C == {s[n] : n \in DOMAIN s}
<1>2. Sorted(s, rows, field, G)
  BY <1>1, ClustersAreSorted
<1>3. PICK S : s \in Seq(Seq(S))
  BY <1>2 DEF Sorted
<1>4. /\ DOMAIN s = 1..Len(s) /\ Len(s) \in Nat
      /\ \A i \in 1..Len(s) : /\ Len(s[i]) \in Nat /\ DOMAIN s[i] = 1..Len(s[i])
                              /\ s[i] \in Seq(S)
  BY <1>3
<1>5. \A i \in 1..Len(s) :
          /\ Len(s[i]) # 0
          /\ \A j \in 1..Len(s[i]) :
                /\ s[i][j].value = s[i][1].value
                /\ \E m \in G : s[i][j] = Rec!Candidate(rows[m], field)
  BY <1>2 DEF Sorted
<1>6. \A m \in G : \E i \in 1..Len(s) : \E j \in 1..Len(s[i]) :
          s[i][j] = Rec!Candidate(rows[m], field)
  BY <1>2 DEF Sorted
<1>7. \A i, j \in 1..Len(s) : s[i][1].value = s[j][1].value => i = j
  BY <1>2 DEF Sorted
<1>8. \A m \in G : /\ m \in DOMAIN rows /\ rows[m][field] = {ValueIn(rows[m], field)}
                   /\ Rec!Candidate(rows[m], field).provider = rows[m].provider
                   /\ Rec!Candidate(rows[m], field).value = ValueIn(rows[m], field)
  BY SingleValue DEF Given, ValueIn
<1>9. \A m \in DOMAIN rows : \A v \in rows[m][field] : m \in G
  BY DEF Given
<1> HIDE DEF G
<1>10. IsFiniteSet(C)
  <2> DEFINE f == [i \in 1..Len(s) |-> s[i]]
  <2>1. f \in Surjection(1..Len(s), C)
    BY <1>4 DEF Surjection
  <2>2. IsFiniteSet(1..Len(s))
    BY <1>4, FS_Interval
  <2> HIDE DEF f, C
  <2> QED BY <2>1, <2>2, FS_Surjection
<1>11. ASSUME NEW i \in 1..Len(s)
       PROVE  /\ Rec!BackendsOf(s[i]) = BackendsFor(rows, field, s[i][1].value)
              /\ \E m \in DOMAIN rows : rows[m][field] = {s[i][1].value}
  <2>1. PICK v : v = s[i][1].value
    OBVIOUS
  <2>2. 1 \in 1..Len(s[i])
    BY <1>4, <1>5
  <2>3. ASSUME NEW j \in 1..Len(s[i])
        PROVE  \E m \in DOMAIN rows : rows[m][field] = {v} /\ s[i][j].provider = rows[m].provider
    <3>1. PICK m \in G : s[i][j] = Rec!Candidate(rows[m], field)
      BY <1>5
    <3>2. s[i][j].value = v
      BY <1>5, <2>1
    <3> QED BY <1>8, <3>1, <3>2
  <2>4. ASSUME NEW m \in DOMAIN rows, rows[m][field] = {v}
        PROVE  \E j \in 1..Len(s[i]) : s[i][j].provider = rows[m].provider
    <3>1. m \in G /\ ValueIn(rows[m], field) = v
      <4>1. m \in G
        BY <1>9, <2>4
      <4>2. rows[m][field] = {ValueIn(rows[m], field)}
        BY <1>8, <4>1
      <4> QED BY <2>4, <4>1, <4>2
    <3>2. PICK k \in 1..Len(s) : \E j \in 1..Len(s[k]) : s[k][j] = Rec!Candidate(rows[m], field)
      BY <1>6, <3>1
    <3>3. PICK j \in 1..Len(s[k]) : s[k][j] = Rec!Candidate(rows[m], field)
      BY <3>2
    <3>4. s[k][1].value = v
      BY <1>5, <1>8, <3>1, <3>3
    <3>5. k = i
      BY <1>7, <2>1, <3>4
    <3> QED BY <1>8, <3>1, <3>3, <3>5
  <2>5. Rec!BackendsOf(s[i]) = {Rec!BackendGroup(s[i][j].provider) : j \in 1..Len(s[i])}
    BY <1>4 DEF Rec!BackendsOf
  <2>6. BackendsFor(rows, field, v)
            = {Rec!BackendGroup(s[i][j].provider) : j \in 1..Len(s[i])}
    <3>1. ASSUME NEW b \in BackendsFor(rows, field, v)
          PROVE  b \in {Rec!BackendGroup(s[i][j].provider) : j \in 1..Len(s[i])}
      <4>1. PICK m \in DOMAIN rows : rows[m][field] = {v} /\ b = Rec!BackendGroup(rows[m].provider)
        BY DEF BackendsFor
      <4>2. PICK j \in 1..Len(s[i]) : s[i][j].provider = rows[m].provider
        BY <2>4, <4>1
      <4> QED BY <4>1, <4>2
    <3>2. ASSUME NEW j \in 1..Len(s[i])
          PROVE  Rec!BackendGroup(s[i][j].provider) \in BackendsFor(rows, field, v)
      <4>1. PICK m \in DOMAIN rows : rows[m][field] = {v} /\ s[i][j].provider = rows[m].provider
        BY <2>3
      <4> QED BY <4>1 DEF BackendsFor
    <3> QED BY <3>1, <3>2
  <2>7. \E m \in DOMAIN rows : rows[m][field] = {v}
    BY <2>2, <2>3
  <2> QED BY <2>1, <2>5, <2>6, <2>7
<1>12. ASSUME NEW c \in C
       PROVE  /\ Len(c) \in Nat /\ Len(c) # 0 /\ DOMAIN c = 1..Len(c)
              /\ \A j \in 1..Len(c) : c[j].value = c[1].value
              /\ Rec!BackendsOf(c) = BackendsFor(rows, field, c[1].value)
              /\ \E m \in DOMAIN rows : rows[m][field] = {c[1].value}
  <2>1. PICK i \in 1..Len(s) : c = s[i]
    BY <1>4
  <2> HIDE DEF C
  <2> QED BY <1>4, <1>5, <1>11, <2>1
<1>13. ASSUME NEW c \in C, NEW d \in C, c[1].value = d[1].value
       PROVE  c = d
  <2>1. PICK i \in 1..Len(s), j \in 1..Len(s) : c = s[i] /\ d = s[j]
    BY <1>4
  <2> QED BY <1>7, <1>13, <2>1
<1>14. ASSUME NEW m \in DOMAIN rows, NEW v \in rows[m][field]
       PROVE  \E c \in C : c[1].value = v
  <2>1. m \in G /\ ValueIn(rows[m], field) = v
    BY <1>8, <1>9
  <2>2. PICK i \in 1..Len(s) : \E j \in 1..Len(s[i]) : s[i][j] = Rec!Candidate(rows[m], field)
    BY <1>6, <2>1
  <2>3. s[i][1].value = v
    BY <1>5, <1>8, <2>1, <2>2
  <2>4. s[i] \in C
    BY <1>4
  <2> QED BY <2>3, <2>4
<1>15. Distinct(C, rows, field)
  <2> HIDE DEF C
  <2> QED BY <1>10, <1>12, <1>13, <1>14 DEF Distinct
<1> QED BY <1>1, <1>15

\* The instance counts the elements of a set as this module does.
LEMMA CountsAgree ==
    \A S : Rec!Cardinality(S) = Cardinality(S)
BY DEF Rec!Cardinality, Cardinality

\* The support of a cluster is a number, no greater than that of all rows together.
LEMMA SupportIsBounded ==
    ASSUME NEW rows, Len(rows) \in Nat, DOMAIN rows = 1..Len(rows), NEW field
    PROVE  \E most \in Nat : \A v :
              /\ Cardinality(BackendsFor(rows, field, v)) \in Nat
              /\ Cardinality(BackendsFor(rows, field, v)) <= most
<1> DEFINE f == [n \in DOMAIN rows |-> Rec!BackendGroup(rows[n].provider)]
           T == {f[n] : n \in DOMAIN rows}
<1>1. f \in Surjection(DOMAIN rows, T)
  BY DEF Surjection
<1>2. \A n \in DOMAIN rows : f[n] = Rec!BackendGroup(rows[n].provider)
  OBVIOUS
<1>3. IsFiniteSet(DOMAIN rows)
  BY FS_Interval
<1> HIDE DEF f
<1>4. IsFiniteSet(T)
  <2> HIDE DEF T
  <2> QED BY <1>1, <1>3, FS_Surjection
<1>5. \A v : BackendsFor(rows, field, v) \in SUBSET T
  BY <1>2 DEF BackendsFor
<1> HIDE DEF T
<1>6. Cardinality(T) \in Nat
  BY <1>4, FS_CardinalityType
<1>7. \A v : IsFiniteSet(BackendsFor(rows, field, v))
             /\ Cardinality(BackendsFor(rows, field, v)) <= Cardinality(T)
  BY <1>4, <1>5, FS_Subset
<1>8. \A v : Cardinality(BackendsFor(rows, field, v)) \in Nat
  BY <1>7, FS_CardinalityType
<1> QED BY <1>6, <1>7, <1>8

\* A cluster has a best placed provider, and its value is the one its members share.
LEMMA ClusterHasValue ==
    ASSUME NEW c, Len(c) \in Nat, Len(c) # 0, DOMAIN c = 1..Len(c),
           \A j \in 1..Len(c) : c[j].value = c[1].value,
           NEW rule, Len(rule.priorities) \in Nat,
           DOMAIN rule.priorities = 1..Len(rule.priorities)
    PROVE  /\ Rec!BestPriority(c, rule) \in Nat
           /\ Rec!ValueOf(c, rule) = c[1].value
<1>1. \A p : Rec!Priority(p, rule.priorities) \in Nat
  <2> TAKE p
  <2> DEFINE Places == {n \in DOMAIN rule.priorities : rule.priorities[n] = p}
                          \cup {Len(rule.priorities) + 1}
  <2>1. Places \in SUBSET Nat /\ Places # {}
    OBVIOUS
  <2> HIDE DEF Places
  <2>2. Rec!Least(Places) \in Nat
    BY <2>1, LeastNatural
  <2> QED BY <2>2 DEF Rec!Priority, Places
<1> DEFINE Priorities == {Rec!Priority(c[n].provider, rule.priorities) : n \in DOMAIN c}
<1>2. Priorities \in SUBSET Nat /\ Priorities # {}
  <2>1. 1 \in DOMAIN c
    OBVIOUS
  <2> QED BY <1>1, <2>1
<1>3. Rec!BestPriority(c, rule) \in Priorities
  <2> HIDE DEF Priorities
  <2>1. Rec!Least(Priorities) \in Priorities
    BY <1>2, LeastNatural
  <2> QED BY <2>1 DEF Rec!BestPriority, Priorities
<1>4. PICK n \in DOMAIN c :
          Rec!BestPriority(c, rule) = Rec!Priority(c[n].provider, rule.priorities)
  BY <1>3
<1> DEFINE IsBest(m) == Rec!Priority(m.provider, rule.priorities) = Rec!BestPriority(c, rule)
           best == CHOOSE m \in {c[k] : k \in DOMAIN c} : IsBest(m)
<1>5. best \in {c[k] : k \in DOMAIN c}
  <2>1. c[n] \in {c[k] : k \in DOMAIN c} /\ IsBest(c[n])
    BY <1>4
  <2> HIDE DEF IsBest
  <2> QED BY <2>1
<1>6. Rec!ValueOf(c, rule) = best.value
  BY DEF Rec!ValueOf
<1> HIDE DEF best, Priorities
<1> QED BY <1>2, <1>3, <1>5, <1>6

\* Two are more than one.
LEMMA TwoAreMore ==
    ASSUME NEW S, IsFiniteSet(S), NEW x \in S, NEW y \in S, x # y
    PROVE  Cardinality(S) > 1
<1>1. Cardinality(S) \in Nat /\ Cardinality(S) # 0 /\ Cardinality(S) # 1
  BY FS_CardinalityType, FS_EmptySet, FS_Singleton
<1> QED BY <1>1

\* Where there is a consensus the winner's value has the backends that are asked for, and
\* more than any other.
LEMMA WinnerIsBacked ==
    ASSUME NEW rows, Len(rows) \in Nat, DOMAIN rows = 1..Len(rows), NEW field,
           NEW C, Distinct(C, rows, field),
           NEW rule, Len(rule.priorities) \in Nat,
           DOMAIN rule.priorities = 1..Len(rule.priorities),
           rule.minimum \in Nat, rule.minimum > 1, Rec!ConsensusMet(C, rule)
    PROVE  LET v == Rec!ValueOf(Rec!Winner(C, rule), rule)
           IN  /\ Cardinality(BackendsFor(rows, field, v)) >= rule.minimum
               /\ \A m \in DOMAIN rows : \A w \in rows[m][field] \ {v} :
                     Cardinality(BackendsFor(rows, field, w))
                         < Cardinality(BackendsFor(rows, field, v))
<1> DEFINE Enough == Rec!Eligible(C, rule)
           best == {c \in Enough : \A d \in Enough : Rec!Support(d) <= Rec!Support(c)}
<1>1. PICK most \in Nat : \A v : /\ Cardinality(BackendsFor(rows, field, v)) \in Nat
                                 /\ Cardinality(BackendsFor(rows, field, v)) <= most
  BY SupportIsBounded
<1>2. \A c \in C : /\ Rec!Support(c) = Cardinality(BackendsFor(rows, field, c[1].value))
                   /\ Rec!Support(c) \in Nat /\ Rec!Support(c) <= most
  <2> TAKE c \in C
  <2>1. Rec!BackendsOf(c) = BackendsFor(rows, field, c[1].value)
    BY DEF Distinct
  <2>2. Rec!Support(c) = Cardinality(BackendsFor(rows, field, c[1].value))
    BY <2>1, CountsAgree DEF Rec!Support
  <2> QED BY <1>1, <2>2
<1>3. /\ Enough # {} /\ Enough \subseteq C
      /\ \A c \in C : c \in Enough <=> Rec!Support(c) >= rule.minimum
  BY DEF Rec!ConsensusMet, Rec!Eligible
<1>4. ~(Cardinality(best) > 1)
  <2>1. ~(rule.minimum > 1 /\ Rec!Cardinality(best) > 1)
    BY Zenon DEF Rec!ConsensusMet
  <2> QED BY <2>1, CountsAgree
<1> HIDE DEF Enough
<1>5. PICK w \in best : TRUE
  <2> DEFINE Counts == {Rec!Support(c) : c \in Enough}
  <2>1. Counts \in SUBSET Nat /\ Counts # {} /\ \A x \in Counts : x <= most
    BY <1>2, <1>3
  <2>2. PICK x \in Counts : \A y \in Counts : y <= x
    <3> HIDE DEF Counts
    <3> QED BY <2>1, LargestExists
  <2>3. PICK c \in Enough : x = Rec!Support(c)
    BY <2>2
  <2>4. \A d \in Enough : Rec!Support(d) \in Counts
    OBVIOUS
  <2> HIDE DEF Counts
  <2> QED BY <2>2, <2>3, <2>4
<1>6. best = {w}
  <2>1. IsFiniteSet(best)
    <3>1. IsFiniteSet(C) /\ best \in SUBSET C
      BY <1>3 DEF Distinct
    <3> HIDE DEF best
    <3> QED BY <3>1, FS_Subset
  <2> HIDE DEF best
  <2> QED BY <1>4, <1>5, <2>1, TwoAreMore
<1>7. w \in C /\ Len(w) \in Nat /\ Len(w) # 0 /\ DOMAIN w = 1..Len(w)
      /\ \A j \in 1..Len(w) : w[j].value = w[1].value
  BY <1>3, <1>5 DEF Distinct
<1>8. Rec!BestPriority(w, rule) \in Nat /\ Rec!ValueOf(w, rule) = w[1].value
  BY <1>7, ClusterHasValue
<1>9. Rec!Winner(C, rule) = w
  <2> DEFINE Leads(c, S) == \A d \in S : Rec!BestPriority(c, rule) <= Rec!BestPriority(d, rule)
  <2>1. Rec!Winner(C, rule) = CHOOSE c \in best : Leads(c, best)
    BY <1>3 DEF Rec!Winner, Enough
  <2>2. Leads(w, {w})
    BY <1>8
  <2> HIDE DEF Leads, best
  <2>3. (CHOOSE c \in {w} : Leads(c, {w})) = w
    BY <2>2
  <2> QED BY <1>6, <2>1, <2>3
<1>10. Rec!Support(w) >= rule.minimum /\ \A d \in Enough : Rec!Support(d) <= Rec!Support(w)
  BY <1>3, <1>5
<1>11. ASSUME NEW d \in C, d # w PROVE Rec!Support(d) < Rec!Support(w)
  <2>1. CASE d \notin Enough
    <3>1. ~(Rec!Support(d) >= rule.minimum)
      BY <1>3, <2>1
    <3> QED BY <1>2, <1>7, <1>10, <3>1
  <2>2. CASE d \in Enough
    <3>1. d \notin best
      <4> HIDE DEF best
      <4> QED BY <1>6, <1>11
    <3>2. PICK e \in Enough : ~(Rec!Support(e) <= Rec!Support(d))
      BY <2>2, <3>1
    <3>3. Rec!Support(e) <= Rec!Support(w) /\ e \in C
      BY <1>3, <1>10
    <3> QED BY <1>2, <1>7, <3>2, <3>3
  <2> QED BY <2>1, <2>2
<1>12. ASSUME NEW m \in DOMAIN rows, NEW u \in rows[m][field], u # w[1].value
       PROVE  Cardinality(BackendsFor(rows, field, u))
                  < Cardinality(BackendsFor(rows, field, w[1].value))
  <2>1. PICK d \in C : d[1].value = u
    BY DEF Distinct
  <2>2. Rec!Support(d) < Rec!Support(w)
    BY <1>11, <1>12, <2>1
  <2> QED BY <1>2, <1>7, <2>1, <2>2
<1>13. Cardinality(BackendsFor(rows, field, w[1].value)) >= rule.minimum
  BY <1>2, <1>7, <1>10
<1> QED BY <1>8, <1>9, <1>12, <1>13

\* A field of bars is well given: a list of rows, each with at most one value, and values
\* that are equivalent only when they are equal.
WellGiven(rows, field, rule) ==
    /\ Len(rows) \in Nat /\ DOMAIN rows = 1..Len(rows)
    /\ IsSingle(rows, field) /\ Distinguishes(rule, rows, field)

\* A rule that asks for more than one backend.
AsksForMore(rule) ==
    /\ rule.minimum \in Nat /\ rule.minimum > 1
    /\ Len(rule.priorities) \in Nat
    /\ DOMAIN rule.priorities = 1..Len(rule.priorities)

\* A value selected without a conflict has the backends it needs, and more than any other.
LEMMA SelectedIsBacked ==
    ASSUME NEW rows, NEW field, NEW rule, WellGiven(rows, field, rule), AsksForMore(rule),
           ~Rec!Selected(rows, field, rule).conflict
    PROVE  \E v : /\ Rec!Selected(rows, field, rule).value = {v}
                  /\ Cardinality(BackendsFor(rows, field, v)) >= rule.minimum
                  /\ \A m \in DOMAIN rows : \A w \in rows[m][field] \ {v} :
                        Cardinality(BackendsFor(rows, field, w))
                            < Cardinality(BackendsFor(rows, field, v))
<1>1. PICK sequence : sequence = Rec!ClustersOf(rows, field, rule)
  OBVIOUS
<1>2. PICK C : C = {sequence[n] : n \in DOMAIN sequence}
  OBVIOUS
<1>3. Distinct(C, rows, field)
  BY <1>1, <1>2, ClustersAreDistinct DEF WellGiven
<1>4. Rec!Selected(rows, field, rule)
          = IF C = {} THEN [value |-> {}, conflict |-> rule.minimum > 1]
            ELSE [value |-> {Rec!ValueOf(Rec!Winner(C, rule), rule)},
                  conflict |-> ~Rec!ConsensusMet(C, rule)]
  BY <1>1, <1>2, Zenon DEF Rec!Selected
<1>5. C # {}
  <2> SUFFICES ASSUME C = {} PROVE FALSE
    OBVIOUS
  <2>1. Rec!Selected(rows, field, rule) = [value |-> {}, conflict |-> rule.minimum > 1]
    BY <1>4
  <2>2. (rule.minimum > 1) = TRUE
    BY DEF AsksForMore
  <2>3. Rec!Selected(rows, field, rule) = [value |-> {}, conflict |-> TRUE]
    BY <2>1, <2>2, Zenon
  <2> QED BY <2>3
<1>6. /\ Rec!ConsensusMet(C, rule)
      /\ Rec!Selected(rows, field, rule).value = {Rec!ValueOf(Rec!Winner(C, rule), rule)}
  <2>1. PICK selected : selected = Rec!Selected(rows, field, rule)
    OBVIOUS
  <2>2. selected = [value |-> {Rec!ValueOf(Rec!Winner(C, rule), rule)},
                    conflict |-> ~Rec!ConsensusMet(C, rule)]
    BY <1>4, <1>5, <2>1, Zenon
  <2>3. selected.value = {Rec!ValueOf(Rec!Winner(C, rule), rule)}
    BY <2>2
  <2>4. ~selected.conflict => Rec!ConsensusMet(C, rule)
    BY <2>2, Zenon
  <2> QED BY <2>1, <2>3, <2>4
<1>7. PICK v : v = Rec!ValueOf(Rec!Winner(C, rule), rule)
  OBVIOUS
<1>8. /\ Cardinality(BackendsFor(rows, field, v)) >= rule.minimum
      /\ \A m \in DOMAIN rows : \A w \in rows[m][field] \ {v} :
            Cardinality(BackendsFor(rows, field, w)) < Cardinality(BackendsFor(rows, field, v))
  BY <1>3, <1>6, <1>7, WinnerIsBacked DEF WellGiven, AsksForMore
<1> QED BY <1>6, <1>7, <1>8

\* Prices, and suspensions for a simulation, ask for two backends.
LEMMA RulesAskForTwo ==
    ASSUME NEW field, NEW readiness,
           \/ field = "price"
           \/ field = "suspended" /\ readiness = "simulation"
    PROVE  LET rule == Rec!FieldRule(field, readiness)
           IN  /\ AsksForMore(rule) /\ rule.minimum = 2
               /\ rule.tolerance = IF field = "price" THEN 2 ELSE 0
<1>1. /\ Len(Rec!MarketPriority) = 5 /\ DOMAIN Rec!MarketPriority = 1..5
      /\ Len(Rec!StatusPriority) = 4 /\ DOMAIN Rec!StatusPriority = 1..4
  BY DEF Rec!MarketPriority, Rec!StatusPriority
<1>2. CASE field = "price"
  <2>1. Rec!FieldRule(field, readiness)
            = [priorities |-> Rec!MarketPriority, minimum |-> 2, tolerance |-> 2]
    BY <1>2 DEF Rec!FieldRule
  <2> QED BY <1>1, <1>2, <2>1 DEF AsksForMore
<1>3. CASE field = "suspended" /\ readiness = "simulation"
  <2>1. Rec!FieldRule(field, readiness)
            = [priorities |-> Rec!StatusPriority, minimum |-> 2, tolerance |-> 0]
    BY <1>3 DEF Rec!FieldRule
  <2> QED BY <1>1, <1>3, <2>1 DEF AsksForMore
<1> QED BY <1>2, <1>3

\* The rows of bars are well given.
LEMMA BarsAreWellGiven ==
    ASSUME NEW in \in BarInputs, NEW k \in DOMAIN in.group
    PROVE  /\ WellGiven(in.group[k], "price", Rec!FieldRule("price", in.readiness))
           /\ in.readiness = "simulation" =>
                 WellGiven(in.group[k], "suspended", Rec!FieldRule("suspended", in.readiness))
<1>1. PICK rows : rows = in.group[k]
  OBVIOUS
<1>2. /\ Len(rows) \in Nat /\ DOMAIN rows = 1..Len(rows)
      /\ \A n \in DOMAIN rows : \A v, w \in rows[n].price : v = w /\ v \in Int /\ v % 4 = 0
      /\ \A n \in DOMAIN rows : rows[n].suspended \in {{}, {0}, {1}}
  <2> DEFINE IsRows(r) ==
               /\ Len(r) \in Nat /\ DOMAIN r = 1..Len(r)
               /\ \A n \in DOMAIN r : /\ \A v, w \in r[n].price : v = w /\ v \in Int /\ v % 4 = 0
                                      /\ r[n].suspended \in {{}, {0}, {1}}
  <2>1. IsRows(in.group[k])
    BY Zenon, BarInputsAssumption
  <2>2. IsRows(rows)
    BY <1>1, <2>1, Zenon
  <2> QED BY <2>2
<1>3. /\ IsSingle(rows, "price") /\ IsSingle(rows, "suspended")
  BY <1>2 DEF IsSingle
<1>4. Distinguishes(Rec!FieldRule("price", in.readiness), rows, "price")
  <2>1. PICK rule : rule = Rec!FieldRule("price", in.readiness)
    OBVIOUS
  <2>2. rule.tolerance = 2
    BY <2>1, RulesAskForTwo
  <2>3. \A v, w \in Int : v % 4 = 0 /\ w % 4 = 0 => (v - w \in -2..2 <=> v = w)
    OBVIOUS
  <2>4. \A n \in Given(rows, "price", Len(rows)) :
            ValueIn(rows[n], "price") \in Int /\ ValueIn(rows[n], "price") % 4 = 0
    <3> TAKE n \in Given(rows, "price", Len(rows))
    <3>1. n \in DOMAIN rows /\ rows[n]["price"] # {}
      BY <1>2 DEF Given
    <3>2. rows[n]["price"] = {ValueIn(rows[n], "price")}
      BY <1>3, <3>1, SingleValue
    <3> QED BY <1>2, <3>1, <3>2
  <2>5. Distinguishes(rule, rows, "price")
    BY <2>2, <2>3, <2>4 DEF Distinguishes, Rec!Equivalent
  <2> QED BY <2>1, <2>5
<1>5. ASSUME in.readiness = "simulation"
      PROVE  Distinguishes(Rec!FieldRule("suspended", in.readiness), rows, "suspended")
  <2>1. PICK rule : rule = Rec!FieldRule("suspended", in.readiness)
    OBVIOUS
  <2>2. rule.tolerance = 0
    BY <1>5, <2>1, RulesAskForTwo
  <2>3. \A n \in Given(rows, "suspended", Len(rows)) : ValueIn(rows[n], "suspended") \in 0..1
    <3> TAKE n \in Given(rows, "suspended", Len(rows))
    <3>1. n \in DOMAIN rows /\ rows[n]["suspended"] # {}
      BY <1>2 DEF Given
    <3>2. rows[n]["suspended"] = {ValueIn(rows[n], "suspended")}
      BY <1>3, <3>1, SingleValue
    <3> QED BY <1>2, <3>1, <3>2
  <2>4. Distinguishes(rule, rows, "suspended")
    BY <2>2, <2>3 DEF Distinguishes, Rec!Equivalent
  <2> QED BY <2>1, <2>4
<1> QED BY <1>1, <1>2, <1>3, <1>4, <1>5 DEF WellGiven

\* A claim covers the scope of some keys if and only if it covers each of them.
LEMMA CoversEach ==
    ASSUME NEW keys, \A k \in keys : k[2] \in Int,
           \E k, l \in keys : \A m \in keys : m[2] \in k[2]..l[2],
           NEW claim, claim.first \in Int, claim.last \in Int
    PROVE  Rec!CoversScope(claim, Rec!ScopeOf(keys)) <=>
              \A k \in keys :
                 /\ claim.first <= k[2] /\ k[2] <= claim.last
                 /\ claim.instruments = {} \/ k[1] \in claim.instruments
<1> DEFINE dates == {k[2] : k \in keys}
<1>1. PICK k \in keys : \E l \in keys : \A m \in keys : m[2] \in k[2]..l[2]
  OBVIOUS
<1>2. PICK l \in keys : \A m \in keys : m[2] \in k[2]..l[2]
  BY <1>1
<1>3. \A m \in keys : k[2] <= m[2] /\ m[2] <= l[2] /\ m[2] \in Int
  BY <1>2
<1>4. PICK first : first = Rec!Least(dates)
  OBVIOUS
<1>5. first \in dates /\ \A d \in dates : first <= d
  <2>1. k[2] \in dates /\ \A d \in dates : k[2] <= d
    BY <1>3
  <2> HIDE DEF dates
  <2> QED BY <1>4, <2>1 DEF Rec!Least
<1>6. PICK last : last = CHOOSE d \in dates : \A m \in keys : m[2] <= d
  OBVIOUS
<1>7. last \in dates /\ \A m \in keys : m[2] <= last
  <2>1. l[2] \in dates /\ \A m \in keys : m[2] <= l[2]
    BY <1>3
  <2> HIDE DEF dates
  <2> QED BY <1>6, <2>1
<1>8. PICK scope : scope = Rec!ScopeOf(keys)
  OBVIOUS
<1>9. scope.first = first /\ scope.last = last /\ scope.instruments = {m[1] : m \in keys}
  BY <1>4, <1>6, <1>8 DEF Rec!ScopeOf
<1>10. /\ claim.first <= first <=> \A m \in keys : claim.first <= m[2]
       /\ last <= claim.last <=> \A m \in keys : m[2] <= claim.last
  <2>1. PICK f \in keys : first = f[2]
    BY <1>5
  <2>2. PICK g \in keys : last = g[2]
    BY <1>7
  <2>3. \A m \in keys : first <= m[2] /\ m[2] <= last /\ m[2] \in Int
    BY <1>5, <1>7
  <2> QED BY <2>1, <2>2, <2>3
<1>11. {m[1] : m \in keys} \subseteq claim.instruments
           <=> \A m \in keys : m[1] \in claim.instruments
  OBVIOUS
<1> HIDE DEF dates
<1>12. Rec!CoversScope(claim, scope) <=>
          /\ claim.first <= first /\ last <= claim.last
          /\ claim.instruments = {} \/ {m[1] : m \in keys} \subseteq claim.instruments
  BY <1>9 DEF Rec!CoversScope
<1> QED BY <1>3, <1>8, <1>10, <1>11, <1>12

\* What is ready: each field of each key, and who claims the keys.
LEMMA ReadyIsReconciled ==
    ASSUME NEW in \in BarInputs,
           Rec!Reconciled(in.group, in.claims, in.readiness).ready
    PROVE  /\ Cardinality(Rec!CompleteBackends(in.claims, Rec!ScopeOf(DOMAIN in.group))) >= 2
           /\ \A k \in DOMAIN in.group : \A f \in Rec!Fields :
                 LET row == Rec!ReconciledRow(in.group[k], in.readiness)
                 IN  /\ ~row[f].conflict
                     /\ Rec!Reconciled(in.group, in.claims, in.readiness).rows[k][f] = row[f].value
<1> DEFINE group == in.group
           table == [k \in DOMAIN group |-> Rec!ReconciledRow(group[k], in.readiness)]
           conflicts == {k \in DOMAIN group : \E f \in Rec!Fields : table[k][f].conflict}
           covered == Rec!Cardinality(Rec!CompleteBackends(in.claims, Rec!ScopeOf(DOMAIN group))) >= 2
           rows == [k \in DOMAIN group |-> [f \in Rec!Fields |-> table[k][f].value]]
<1>1. PICK out : out = Rec!Reconciled(group, in.claims, in.readiness)
  OBVIOUS
<1>2. PICK claim : out = [rows |-> rows, ready |-> covered /\ conflicts = {}, claim |-> claim]
  BY <1>1, Zenon DEF Rec!Reconciled
<1>3. out.rows = rows
  <2> HIDE DEF rows, covered, conflicts
  <2> QED BY <1>2
<1>4. covered /\ conflicts = {}
  <2> HIDE DEF rows, covered, conflicts, group
  <2>1. out.ready
    BY <1>1 DEF group
  <2> QED BY <1>2, <2>1, Zenon
<1>5. ASSUME NEW k \in DOMAIN group, NEW f \in Rec!Fields
      PROVE  /\ ~Rec!ReconciledRow(group[k], in.readiness)[f].conflict
             /\ out.rows[k][f] = Rec!ReconciledRow(group[k], in.readiness)[f].value
  <2>1. table[k] = Rec!ReconciledRow(group[k], in.readiness)
    OBVIOUS
  <2>2. ~table[k][f].conflict
    <3> HIDE DEF table
    <3> QED BY <1>4, Zenon
  <2>3. rows[k][f] = table[k][f].value
    <3> HIDE DEF table
    <3> QED OBVIOUS
  <2> HIDE DEF table, rows
  <2> QED BY <1>3, <2>1, <2>2, <2>3
<1>6. Cardinality(Rec!CompleteBackends(in.claims, Rec!ScopeOf(DOMAIN group))) >= 2
  BY <1>4, CountsAgree
<1> QED BY <1>1, <1>5, <1>6

\* A table of bars that is ready has two independent backends behind its coverage, its
\* prices and, for a simulation, its suspensions (ReconciliationService.reconcile), however
\* many rows a key has.
THEOREM ReadyBarsAreCorroborated == DataSpec => []CanonicalBarsAreCorroborated
<1>1. StudyIsMade => CanonicalBarsAreCorroborated
  <2> DEFINE in == study.of
             group == study.of.group
             rows == study.result.rows
             Backends(k, field, v) ==
                {Rec!BackendGroup(group[k][n].provider) :
                    n \in {m \in DOMAIN group[k] : group[k][m][field] = {v}}}
             Reported(k) == UNION {group[k][n].price : n \in DOMAIN group[k]}
             Claiming == {p \in DOMAIN study.of.claims :
                LET claim == study.of.claims[p]
                IN  claim.complete /\ \A k \in DOMAIN group :
                        /\ claim.first <= k[2] /\ k[2] <= claim.last
                        /\ claim.instruments = {} \/ k[1] \in claim.instruments}
             PriceIsSound(k) ==
                  IF rows[k].price = {}
                  THEN /\ \A n \in DOMAIN group[k] : 0 \notin group[k][n].suspended
                       /\ \E n \in DOMAIN group[k] : 1 \in group[k][n].suspended
                  ELSE \A v \in rows[k].price :
                          /\ Cardinality(Backends(k, "price", v)) >= 2
                          /\ \A w \in Reported(k) \ {v} :
                                Cardinality(Backends(k, "price", w))
                                    < Cardinality(Backends(k, "price", v))
             SuspensionIsSound(k) ==
                  \E v \in rows[k].suspended : Cardinality(Backends(k, "suspended", v)) >= 2
  <2> SUFFICES ASSUME StudyIsMade, study.kind = "bars", study.result.ready
               PROVE  /\ Cardinality({Rec!BackendGroup(p) : p \in Claiming}) >= 2
                      /\ \A k \in DOMAIN group : PriceIsSound(k)
                      /\ study.of.readiness = "simulation" =>
                            \A k \in DOMAIN group : SuspensionIsSound(k)
    BY Zenon DEF CanonicalBarsAreCorroborated
  <2>1. /\ in \in BarInputs
        /\ study.result = Rec!Reconciled(in.group, in.claims, in.readiness)
    BY DEF StudyIsMade, Studies, Idle
  <2>2. /\ \A k \in DOMAIN group : k[2] \in Int
        /\ \A k \in DOMAIN group : \A n \in DOMAIN group[k] :
              group[k][n].suspended \in {{}, {0}, {1}}
        /\ \E k, l \in DOMAIN group : \A m \in DOMAIN group : m[2] \in k[2]..l[2]
        /\ \A p \in DOMAIN in.claims : in.claims[p].first \in Int /\ in.claims[p].last \in Int
    BY <2>1, BarInputsAssumption
  <2>3. /\ Cardinality(Rec!CompleteBackends(in.claims, Rec!ScopeOf(DOMAIN group))) >= 2
        /\ \A k \in DOMAIN group : \A f \in Rec!Fields :
              /\ ~Rec!ReconciledRow(group[k], in.readiness)[f].conflict
              /\ rows[k][f] = Rec!ReconciledRow(group[k], in.readiness)[f].value
    BY <2>1, ReadyIsReconciled
  <2>4. {Rec!BackendGroup(p) : p \in Claiming}
            = Rec!CompleteBackends(in.claims, Rec!ScopeOf(DOMAIN group))
    <3>1. ASSUME NEW p \in DOMAIN in.claims
          PROVE  Rec!CoversScope(in.claims[p], Rec!ScopeOf(DOMAIN group)) <=>
                    \A k \in DOMAIN group :
                       /\ in.claims[p].first <= k[2] /\ k[2] <= in.claims[p].last
                       /\ in.claims[p].instruments = {} \/ k[1] \in in.claims[p].instruments
      BY <2>2, CoversEach
    <3>2. Claiming = {p \in DOMAIN in.claims :
              in.claims[p].complete /\ Rec!CoversScope(in.claims[p], Rec!ScopeOf(DOMAIN group))}
      BY <3>1, Zenon
    <3> HIDE DEF Claiming
    <3> QED BY <3>2 DEF Rec!CompleteBackends
  <2>5. ASSUME NEW k \in DOMAIN group, NEW field \in Rec!Fields,
               \/ field = "price" /\ ~Rec!AllKnownRowsSuspended(group[k])
               \/ field = "suspended" /\ in.readiness = "simulation"
        PROVE  \E v : /\ rows[k][field] = {v}
                      /\ Cardinality(Backends(k, field, v)) >= 2
                      /\ \A m \in DOMAIN group[k] : \A w \in group[k][m][field] \ {v} :
                            Cardinality(Backends(k, field, w)) < Cardinality(Backends(k, field, v))
    <3>1. PICK rule : rule = Rec!FieldRule(field, in.readiness)
      OBVIOUS
    <3>2. AsksForMore(rule) /\ rule.minimum = 2
      BY <2>5, <3>1, RulesAskForTwo
    <3>3. WellGiven(group[k], field, rule)
      BY <2>1, <2>5, <3>1, BarsAreWellGiven
    <3>4. Rec!ReconciledRow(group[k], in.readiness)[field] = Rec!Selected(group[k], field, rule)
      BY <2>5, <3>1 DEF Rec!ReconciledRow
    <3>5. /\ ~Rec!Selected(group[k], field, rule).conflict
          /\ rows[k][field] = Rec!Selected(group[k], field, rule).value
      BY <2>3, <3>4
    <3>6. PICK v : /\ Rec!Selected(group[k], field, rule).value = {v}
                   /\ Cardinality(BackendsFor(group[k], field, v)) >= 2
                   /\ \A m \in DOMAIN group[k] : \A w \in group[k][m][field] \ {v} :
                         Cardinality(BackendsFor(group[k], field, w))
                             < Cardinality(BackendsFor(group[k], field, v))
      BY <3>2, <3>3, <3>5, SelectedIsBacked
    <3>7. rows[k][field] = {v}
      BY <3>5, <3>6
    <3> QED BY <3>6, <3>7, Zenon DEF BackendsFor
  <2>6. ASSUME NEW k \in DOMAIN group PROVE PriceIsSound(k)
    <3>1. "price" \in Rec!Fields
      BY DEF Rec!Fields
    <3>2. CASE Rec!AllKnownRowsSuspended(group[k])
      <4>1. Rec!ReconciledRow(group[k], in.readiness)["price"].value = {}
        BY <3>1, <3>2 DEF Rec!ReconciledRow
      <4>2. rows[k].price = {}
        BY <2>3, <3>1, <4>1
      <4>3. /\ \A n \in DOMAIN group[k] :
                  group[k][n].suspended # {} => group[k][n].suspended = {1}
            /\ \E n \in DOMAIN group[k] : group[k][n].suspended # {}
        BY <3>2 DEF Rec!AllKnownRowsSuspended
      <4>4. /\ \A n \in DOMAIN group[k] : 0 \notin group[k][n].suspended
            /\ \E n \in DOMAIN group[k] : 1 \in group[k][n].suspended
        BY <4>3
      <4> QED BY <4>2, <4>4
    <3>3. CASE ~Rec!AllKnownRowsSuspended(group[k])
      <4>1. PICK v : /\ rows[k]["price"] = {v}
                     /\ Cardinality(Backends(k, "price", v)) >= 2
                     /\ \A m \in DOMAIN group[k] : \A w \in group[k][m]["price"] \ {v} :
                           Cardinality(Backends(k, "price", w))
                               < Cardinality(Backends(k, "price", v))
        BY <2>5, <3>1, <3>3
      <4>2. \A w \in Reported(k) \ {v} :
                Cardinality(Backends(k, "price", w)) < Cardinality(Backends(k, "price", v))
        <5> HIDE DEF Backends
        <5> QED BY <4>1
      <4> HIDE DEF Backends, Reported
      <4> QED BY <4>1, <4>2
    <3> QED BY <3>2, <3>3
  <2>7. ASSUME in.readiness = "simulation", NEW k \in DOMAIN group
        PROVE  SuspensionIsSound(k)
    <3>1. "suspended" \in Rec!Fields
      BY DEF Rec!Fields
    <3>2. PICK v : /\ rows[k]["suspended"] = {v}
                   /\ Cardinality(Backends(k, "suspended", v)) >= 2
      BY <2>5, <2>7, <3>1
    <3> HIDE DEF Backends
    <3> QED BY <3>2
  <2> HIDE DEF PriceIsSound, SuspensionIsSound, Claiming
  <2> QED BY <2>3, <2>4, <2>6, <2>7
<1> QED BY <1>1, StudiesAreMade, PTL

-----------------------------------------------------------------------------
(* Price limits.                                                           *)

\* The instance counts the elements of a set as this module does.
LEMMA RuleCountsAgree ==
    \A S : Rules!Cardinality(S) = Cardinality(S)
BY DEF Rules!Cardinality, Cardinality

\* Of two backends one is right when at most one errs.
LEMMA OneIsRight ==
    ASSUME NEW S, IsFiniteSet(S), NEW wrong, Cardinality({b \in S : b \in wrong}) <= 1,
           NEW T, T \subseteq S, Cardinality(T) >= 2
    PROVE  \E b \in T : b \notin wrong
<1> SUFFICES ASSUME T \subseteq wrong PROVE FALSE
  OBVIOUS
<1> DEFINE W == {b \in S : b \in wrong}
<1>1. IsFiniteSet(W) /\ T \in SUBSET W
  BY FS_Subset
<1> HIDE DEF W
<1>2. Cardinality(T) <= Cardinality(W) /\ IsFiniteSet(T)
  BY <1>1, FS_Subset
<1>3. Cardinality(T) \in Nat /\ Cardinality(W) \in Nat
  BY <1>1, <1>2, FS_CardinalityType
<1> QED BY <1>2, <1>3 DEF W

\* A result and whether it is accepted.
LEMMA AcceptedField ==
    ASSUME NEW in, NEW r, NEW result,
           result = [row |-> r, accepted |-> Rules!Audited(r, in.prices, in.required)]
    PROVE  result.accepted <=> Rules!Audited(r, in.prices, in.required)
BY Zenon

\* The result for some limits.
LEMMA LimitFields ==
    ASSUME NEW in
    PROVE  LET r == Rules!Excepted(in.row, in.session, in.prices, in.protected)
           IN  /\ LimitResult(in).row = r
               /\ LimitResult(in).accepted <=> Rules!Audited(r, in.prices, in.required)
<1>1. PICK r : r = Rules!Excepted(in.row, in.session, in.prices, in.protected)
  OBVIOUS
<1>2. LimitResult(in) = [row |-> r, accepted |-> Rules!Audited(r, in.prices, in.required)]
  BY <1>1, Zenon DEF LimitResult
<1>3. LimitResult(in).row = r
  BY <1>2
<1>4. LimitResult(in).accepted <=> Rules!Audited(r, in.prices, in.required)
  BY <1>2, AcceptedField
<1> QED BY <1>1, <1>3, <1>4, Zenon

\* What the audit lets through is true as long as no two backends err: a rule is lifted
\* where the true prices break it and nowhere else, and the bounds of the day asked for are
\* the exchange's (apply_corroborated_historical_limit_exceptions,
\* audit_provider_price_limits), whatever the prices and however many backends there are.
THEOREM AuditedLimitsAreTrue == DataSpec => []LimitsAreTrue
<1>1. StudyIsMade => LimitsAreTrue
  <2> DEFINE in == study.of
             row == study.result.row
             Errs(b) == LET p == in.prices[b] IN
                \/ p.high # in.truth.high \/ p.low # in.truth.low
                \/ p.up \notin {{}, in.truth.up} \/ p.down \notin {{}, in.truth.down}
             broken == \/ \E u \in in.row.up : in.truth.high > u
                       \/ \E d \in in.row.down : in.truth.low < d
             backends == DOMAIN in.prices
             wrong == {b \in backends : Errs(b)}
  <2> SUFFICES ASSUME StudyIsMade, study.kind = "limits", Cardinality(wrong) <= 1,
                      study.result.accepted
               PROVE  /\ row.decision.state = "unbounded" <=> broken /\ ~in.protected
                      /\ in.protected /\ in.required =>
                            row.up = in.truth.up /\ row.down = in.truth.down
    BY Zenon DEF LimitsAreTrue
  <2>1. in \in LimitInputs /\ study.result = LimitResult(in)
    BY DEF StudyIsMade, Studies, Idle
  <2>2. /\ in.row.decision.state = "bounded" /\ in.row.up # {} /\ in.row.down # {}
        /\ IsFiniteSet(backends)
    BY <2>1, LimitInputsAssumption
  <2>3. /\ row = Rules!Excepted(in.row, in.session, in.prices, in.protected)
        /\ Rules!Audited(row, in.prices, in.required)
    BY <2>1, LimitFields
  <2>4. ASSUME NEW T, T \subseteq backends, Cardinality(T) >= 2
        PROVE  \E b \in T : ~Errs(b)
    <3>1. Cardinality({b \in backends : b \in wrong}) <= 1
      <4>1. {b \in backends : b \in wrong} = wrong
        OBVIOUS
      <4> HIDE DEF wrong
      <4> QED BY <4>1
    <3>2. \E b \in T : b \notin wrong
      <4> HIDE DEF wrong, backends
      <4> QED BY <2>2, <2>4, <3>1, OneIsRight
    <3> HIDE DEF Errs
    <3> QED BY <2>4, <3>2
  <2>5. \A b \in backends : ~Errs(b) => (Rules!Outside(in.prices[b], in.row) <=> broken)
    BY DEF Rules!Outside
  <2>6. CASE Rules!IsException(in.row, in.prices, in.protected)
    <3>1. row = [decision |-> Rules!Unbounded(in.session), up |-> {}, down |-> {}]
      BY <2>3, <2>6 DEF Rules!Excepted
    <3>2. row.decision.state = "unbounded"
      BY <3>1 DEF Rules!Unbounded
    <3>3. ~in.protected /\
          Rules!Cardinality({b \in backends : Rules!Outside(in.prices[b], in.row)}) >= 2
      BY <2>6, Zenon DEF Rules!IsException
    <3>4. PICK b \in {x \in backends : Rules!Outside(in.prices[x], in.row)} : ~Errs(b)
      <4> HIDE DEF Errs
      <4> QED BY <2>4, <3>3, RuleCountsAgree
    <3>5. broken
      <4> HIDE DEF Errs, broken
      <4> QED BY <2>5, <3>4
    <3> HIDE DEF broken
    <3> QED BY <3>2, <3>3, <3>5, Zenon
  <2>7. CASE ~Rules!IsException(in.row, in.prices, in.protected)
    <3>1. row = in.row
      BY <2>3, <2>7 DEF Rules!Excepted
    <3>2. row.decision.state = "bounded"
      BY <2>2, <3>1
    <3>3. /\ Rules!Cardinality({b \in backends : ~Rules!Outside(in.prices[b], row)}) >= 2
          /\ in.required => Rules!Cardinality({b \in backends :
                in.prices[b].up = row.up /\ in.prices[b].down = row.down}) >= 2
      BY <2>3, <3>2, Zenon DEF Rules!Audited
    <3>4. PICK b \in {x \in backends : ~Rules!Outside(in.prices[x], row)} : ~Errs(b)
      <4> HIDE DEF Errs
      <4> QED BY <2>4, <3>3, RuleCountsAgree
    <3>5. ~broken
      <4> HIDE DEF Errs, broken
      <4> QED BY <2>5, <3>1, <3>4
    <3>6. ASSUME in.required
          PROVE  row.up = in.truth.up /\ row.down = in.truth.down
      <4>1. PICK x \in {y \in backends : in.prices[y].up = row.up /\ in.prices[y].down = row.down} :
                ~Errs(x)
        <5> HIDE DEF Errs
        <5> QED BY <2>4, <3>3, <3>6, RuleCountsAgree
      <4> QED BY <2>2, <3>1, <4>1
    <3>7. row.decision.state # "unbounded"
      BY <3>2
    <3> HIDE DEF broken
    <3> QED BY <3>5, <3>6, <3>7, Zenon
  <2> QED BY <2>6, <2>7
<1> QED BY <1>1, StudiesAreMade, PTL

-----------------------------------------------------------------------------
(* The dated rule of a stock.                                              *)

\* The one element of a set.
LEMMA TheOne ==
    ASSUME NEW x
    PROVE  (CHOOSE n \in {x} : TRUE) = x
OBVIOUS

\* A price in ticks is the nearest one, half up.
LEMMA RoundedIsNearest ==
    ASSUME NEW p \in Int, NEW percent \in Int
    PROVE  /\ Rules!RoundedToTick(p, percent) \in Int
           /\ 100 * Rules!RoundedToTick(p, percent) - percent * p \in -49..50
<1>1. PICK x \in Int : x = percent * p
  OBVIOUS
<1>2. 2 * p * percent + 100 = 2 * x + 100
  BY <1>1
<1>3. PICK u : u = (2 * x + 100) \div 200
  OBVIOUS
<1>4. u \in Int /\ 200 * u <= 2 * x + 100 /\ 2 * x + 100 < 200 * u + 200
  BY <1>3
<1>5. Rules!RoundedToTick(p, percent) = u
  BY <1>2, <1>3 DEF Rules!RoundedToTick
<1> QED BY <1>1, <1>4, <1>5

\* A rule that has no end to a price or a lower and an upper one, known by some day.
IsRule(decision, session) ==
    /\ decision.state \in {"bounded", "unbounded"}
    /\ decision.upper \in Int /\ decision.lower \in Int
    /\ decision.known <= session

\* The rule of a listed stock was known by the session.
LEMMA StockRuleIsKnown ==
    ASSUME NEW stock, stock.listed \in Nat,
           stock.board = "star" => stock.listed >= 20190722,
           stock.board = "chinext" => stock.listed >= 20091030,
           NEW session \in Nat, stock.listed <= session, session >= 20070104,
           NEW st \in BOOLEAN, NEW n \in Nat
    PROVE  IsRule(Rules!ResolveStock(stock, session, st, {n}), session)
<1> DEFINE Known(known) == known \in Nat /\ known <= session
<1>1. ASSUME NEW ratio \in Int, NEW known, Known(known)
      PROVE  IsRule(Rules!Bounded(ratio, 1, known), session)
  BY SMT, <1>1 DEF Rules!Bounded, IsRule
<1>2. ASSUME NEW known, Known(known)
      PROVE  IsRule(Rules!Unbounded(known), session)
  BY SMT, <1>2 DEF Rules!Unbounded, IsRule
<1>3. ASSUME Known(20140101)
      PROVE  IsRule([Rules!Bounded(0, 1, 20140101) EXCEPT !.upper = 144, !.lower = 64], session)
  BY SMT, <1>3 DEF Rules!Bounded, IsRule
<1>4. Rules!RegistrationStart(stock.board) \in Nat
  BY SMT DEF Rules!RegistrationStart
<1>5. stock.listed >= Rules!RegistrationStart(stock.board)
          => Known(Rules!RegistrationStart(stock.board))
  BY SMT, <1>4
<1>6. stock.listed >= 20140101 => Known(20140101)
  BY SMT
<1>7. stock.board = "star" => Known(20190722)
  BY SMT
<1>8. stock.board = "chinext" => Known(20091030)
  BY SMT
<1>9. /\ session >= 20200824 => Known(20200824)
      /\ Known(20060701) /\ Known(20070104)
      /\ ~(session < 20260706) => Known(20260424)
  BY SMT
<1>10. {n} # {} /\ (CHOOSE k \in {n} : TRUE) = n
  BY SMT, TheOne
<1> DEFINE rule == Rules!ResolveStock(stock, session, st, {n})
           registered == stock.listed >= Rules!RegistrationStart(stock.board)
<1> HIDE DEF Known
<1>11. CASE registered /\ n <= 5
  <2>1. rule = Rules!Unbounded(Rules!RegistrationStart(stock.board))
    BY SMT, <1>10, <1>11 DEF Rules!ResolveStock
  <2> QED BY SMT, <1>2, <1>5, <1>11, <2>1
<1>12. CASE ~(registered /\ n <= 5) /\ n = 1
  <2>1. rule = IF stock.listed >= 20140101
               THEN [Rules!Bounded(0, 1, 20140101) EXCEPT !.upper = 144, !.lower = 64]
               ELSE Rules!Unbounded(20060701)
    BY SMT, <1>10, <1>12 DEF Rules!ResolveStock
  <2> HIDE DEF rule
  <2>2. CASE stock.listed >= 20140101
    BY SMT, <1>3, <1>6, <2>1, <2>2 DEF rule
  <2>3. CASE ~(stock.listed >= 20140101)
    BY SMT, <1>2, <1>9, <2>1, <2>3 DEF rule
  <2> QED BY <2>2, <2>3
<1>13. CASE ~(registered /\ n <= 5) /\ n # 1
  <2>1. \E ratio \in Int, known \in Nat :
            Known(known) /\ rule = Rules!Bounded(ratio, 1, known)
    <3>1. CASE stock.unreformed
      <4>1. rule = Rules!Bounded(5, 1, 20070104)
        BY SMT, <1>10, <1>13, <3>1 DEF Rules!ResolveStock
      <4> QED BY SMT, <1>9, <4>1
    <3>2. CASE ~stock.unreformed /\ stock.board = "star"
      <4>1. rule = Rules!Bounded(20, 1, 20190722)
        BY SMT, <1>10, <1>13, <3>2 DEF Rules!ResolveStock
      <4> QED BY SMT, <1>7, <3>2, <4>1
    <3>3. CASE ~stock.unreformed /\ stock.board = "chinext"
      <4>1. rule = IF session >= 20200824 THEN Rules!Bounded(20, 1, 20200824)
                   ELSE IF st THEN Rules!Bounded(5, 1, 20060701)
                   ELSE Rules!Bounded(10, 1, 20091030)
        BY SMT, <1>10, <1>13, <3>3 DEF Rules!ResolveStock
      <4> HIDE DEF rule
      <4> QED BY SMT, <1>8, <1>9, <3>3, <4>1
    <3>4. CASE ~stock.unreformed /\ stock.board \notin {"star", "chinext"}
      <4>1. rule = IF ~st THEN Rules!Bounded(10, 1, 20060701)
                   ELSE IF session < 20260706 THEN Rules!Bounded(5, 1, 20060701)
                   ELSE Rules!Bounded(10, 1, 20260424)
        BY SMT, <1>10, <1>13, <3>4 DEF Rules!ResolveStock
      <4> HIDE DEF rule
      <4> QED BY SMT, <1>9, <4>1
    <3> QED BY <3>1, <3>2, <3>3, <3>4
  <2> HIDE DEF rule
  <2>2. IsRule(rule, session)
    BY <1>1, <2>1
  <2> QED BY <2>2 DEF rule
<1> QED BY <1>11, <1>12, <1>13

\* The bucket of a session and that of its number decide as they do themselves.
LEMMA BucketsDecide ==
    ASSUME NEW stock, NEW session \in Nat, NEW st \in BOOLEAN, NEW n \in Nat
    PROVE  Rules!ResolveStock(stock, Rules!Representative(Rules!SessionBucket(session)), st,
                              Rules!OrdinalBucket({n}))
               = Rules!ResolveStock(stock, session, st, {n})
<1>1. PICK day : day = Rules!Representative(Rules!SessionBucket(session))
  OBVIOUS
<1>2. /\ day >= 20200824 <=> session >= 20200824
      /\ day < 20260706 <=> session < 20260706
  BY SMT, <1>1 DEF Rules!Representative, Rules!SessionBucket
<1>3. PICK m : m = IF n > 6 THEN 6 ELSE n
  OBVIOUS
<1>4. Rules!OrdinalBucket({n}) = {m}
  BY SMT, <1>3 DEF Rules!OrdinalBucket
<1>5. (m <= 5 <=> n <= 5) /\ (m = 1 <=> n = 1)
  BY SMT, <1>3
<1>6. {m} # {} /\ {n} # {} /\ (CHOOSE k \in {m} : TRUE) = m /\ (CHOOSE k \in {n} : TRUE) = n
  BY SMT, TheOne
<1>7. Rules!ResolveStock(stock, day, st, {m}) = Rules!ResolveStock(stock, session, st, {n})
  BY SMT, <1>2, <1>5, <1>6 DEF Rules!ResolveStock
<1> QED BY SMT, <1>1, <1>4, <1>7

\* The trading days of a stock up to a session are finitely many.
LEMMA DaysAreCounted ==
    ASSUME NEW listed \in Nat, NEW session \in Sessions
    PROVE  LET nth == Cardinality({s \in Sessions : listed <= s /\ s <= session})
           IN  nth \in Nat /\ (nth = 0 <=> session < listed)
<1> DEFINE days == {s \in Sessions : listed <= s /\ s <= session}
<1>1. \A s \in Sessions : s \in Nat
  BY SMT, StockInputsAssumption
<1>2. IsFiniteSet(days)
  <2>1. IsFiniteSet(listed..session) /\ days \in SUBSET (listed..session)
    BY <1>1, FS_Interval
  <2> HIDE DEF days
  <2> QED BY <2>1, FS_Subset
<1>3. days = {} <=> session < listed
  BY <1>1
<1> HIDE DEF days
<1>4. Cardinality(days) \in Nat /\ (Cardinality(days) = 0 <=> days = {})
  BY <1>2, FS_CardinalityType, FS_EmptySet
<1> QED BY <1>3, <1>4 DEF days

\* The number that is looked up is the true one, unless the calendar starts after the
\* listing; then it is six.
LEMMA OrdinalIsTrue ==
    ASSUME NEW in \in StockInputs
    PROVE  LET nth == Cardinality({s \in Sessions : in.stock.listed <= s /\ s <= in.session})
               ordinal == Rules!ListingOrdinal(in.stock, in.calendar, in.session)
           IN  /\ nth = 0 \/ in.session \notin in.calendar => ordinal = {}
               /\ nth # 0 /\ in.session \in in.calendar =>
                     IF \E s \in in.calendar : s <= in.stock.listed THEN ordinal = {nth}
                     ELSE ordinal = {6}
<1> DEFINE listed == in.stock.listed
           days == {s \in Sessions : listed <= s /\ s <= in.session}
           nth == Cardinality(days)
           ordinal == Rules!ListingOrdinal(in.stock, in.calendar, in.session)
<1>1. /\ in.session \in Sessions /\ in.calendar \subseteq Sessions
      /\ \A s \in in.calendar, t \in Sessions : s <= t => t \in in.calendar
      /\ listed \in Nat /\ \A s \in Sessions : s \in Nat
  BY SMT, StockInputsAssumption
<1>2. nth \in Nat /\ (nth = 0 <=> in.session < listed)
  BY <1>1, DaysAreCounted
<1>3. CASE in.session \notin in.calendar
  <2>1. ordinal = {}
    BY <1>3 DEF Rules!ListingOrdinal
  <2> QED BY <1>3, <2>1
<1>4. CASE in.session \in in.calendar
  <2>1. PICK start : start = Rules!Earliest(in.calendar)
    OBVIOUS
  <2>2. start \in in.calendar /\ \A s \in in.calendar : start <= s
    <3>1. in.calendar \in SUBSET Nat /\ in.calendar # {}
      BY <1>1, <1>4
    <3>2. /\ Rec!Least(in.calendar) \in in.calendar
          /\ \A s \in in.calendar : Rec!Least(in.calendar) <= s
      BY <3>1, LeastNatural
    <3> QED BY <2>1, <3>2 DEF Rules!Earliest
  <2>3. listed < start <=> ~\E s \in in.calendar : s <= listed
    BY <1>1, <2>2
  <2>4. nth = 0 => ordinal = {}
    <3>1. in.session < listed => ~(listed < start)
      BY <1>1, <1>4, <2>2
    <3> QED BY <1>2, <1>4, <2>1, <3>1 DEF Rules!ListingOrdinal
  <2>5. ASSUME nth # 0, listed < start PROVE ordinal = {6}
    BY <1>4, <2>1, <2>5 DEF Rules!ListingOrdinal
  <2>6. ASSUME nth # 0, ~(listed < start) PROVE ordinal = {nth}
    <3>1. days = {s \in in.calendar : listed <= s /\ s <= in.session}
      BY <1>1, <2>2, <2>6
    <3>2. ~(in.session < listed)
      BY <1>2, <2>6
    <3>3. ordinal = {Rules!Cardinality({s \in in.calendar : listed <= s /\ s <= in.session})}
      BY <1>4, <2>1, <2>6, <3>2 DEF Rules!ListingOrdinal
    <3> QED BY <3>1, <3>3, RuleCountsAgree
  <2> HIDE DEF nth, ordinal
  <2> QED BY <1>4, <2>3, <2>4, <2>5, <2>6 DEF nth, ordinal
<1> QED BY <1>3, <1>4

\* What is decided about a stock, when its ST state is known.
LEMMA StockIsDecided ==
    ASSUME NEW in \in StockInputs
    PROVE  LET nth == Cardinality({s \in Sessions : in.stock.listed <= s /\ s <= in.session})
               seen == nth > 5 \/ \E s \in in.calendar : s <= in.stock.listed
               decision == Rules!StockDecision(in.stock, in.calendar, in.session, in.st = {TRUE})
           IN  /\ nth = 0 \/ in.session \notin in.calendar => decision = Rules!Refused
               /\ seen /\ nth # 0 /\ in.session \in in.calendar =>
                     /\ decision = Rules!ResolveStock(in.stock, in.session, in.st = {TRUE}, {nth})
                     /\ IsRule(decision, in.session)
<1>1. PICK nth : nth = Cardinality({s \in Sessions : in.stock.listed <= s /\ s <= in.session})
  OBVIOUS
<1> DEFINE st == in.st = {TRUE}
<1>2. st \in BOOLEAN
  OBVIOUS
<1>3. PICK ordinal : ordinal = Rules!ListingOrdinal(in.stock, in.calendar, in.session)
  OBVIOUS
<1> DEFINE decision == Rules!StockDecision(in.stock, in.calendar, in.session, st)
<1>4. decision = Rules!ResolveStock(in.stock,
                     Rules!Representative(Rules!SessionBucket(in.session)), st,
                     Rules!OrdinalBucket(ordinal))
  BY <1>3 DEF Rules!StockDecision
<1> HIDE DEF decision, st
<1>5. /\ in.session \in Sessions /\ in.session \in Nat /\ in.stock.listed \in Nat
      /\ in.session >= 20070104
      /\ in.stock.board = "star" => in.stock.listed >= 20190722
      /\ in.stock.board = "chinext" => in.stock.listed >= 20091030
  BY SMT, StockInputsAssumption
<1>6. nth \in Nat /\ (nth = 0 <=> in.session < in.stock.listed)
  BY SMT, <1>1, <1>5, DaysAreCounted
<1>7. /\ nth = 0 \/ in.session \notin in.calendar => ordinal = {}
      /\ nth # 0 /\ in.session \in in.calendar =>
            IF \E s \in in.calendar : s <= in.stock.listed THEN ordinal = {nth}
            ELSE ordinal = {6}
  BY <1>1, <1>3, OrdinalIsTrue
<1>8. \A n \in Nat : Rules!ResolveStock(in.stock,
                        Rules!Representative(Rules!SessionBucket(in.session)), st,
                        Rules!OrdinalBucket({n}))
                     = Rules!ResolveStock(in.stock, in.session, st, {n})
  <2>1. in.session \in Nat
    BY <1>5
  <2> QED BY <1>2, <2>1, BucketsDecide, Zenon
<1>9. ASSUME nth = 0 \/ in.session \notin in.calendar
      PROVE  decision = Rules!Refused
  <2>1. Rules!OrdinalBucket(ordinal) = {}
    BY SMT, <1>7, <1>9 DEF Rules!OrdinalBucket
  <2> QED BY SMT, <1>4, <2>1 DEF Rules!ResolveStock
<1>10. ASSUME nth > 5 \/ \E s \in in.calendar : s <= in.stock.listed,
              nth # 0, in.session \in in.calendar
       PROVE  /\ decision = Rules!ResolveStock(in.stock, in.session, st, {nth})
              /\ IsRule(decision, in.session)
  <2>1. decision = Rules!ResolveStock(in.stock, in.session, st, {nth})
    <3>1. CASE ordinal = {nth}
      BY SMT, <1>4, <1>6, <1>8, <3>1
    <3>2. CASE ordinal = {6} /\ nth > 5
      <4>1. Rules!OrdinalBucket({6}) = {6} /\ Rules!OrdinalBucket({nth}) = {6}
        BY SMT, <1>6, <3>2 DEF Rules!OrdinalBucket
      <4> QED BY SMT, <1>4, <1>6, <1>8, <3>2, <4>1
    <3> QED BY SMT, <1>7, <1>10, <3>1, <3>2
  <2>2. in.stock.listed <= in.session
    BY SMT, <1>5, <1>6, <1>10
  <2>3. IsRule(Rules!ResolveStock(in.stock, in.session, st, {nth}), in.session)
    BY SMT, <1>2, <1>5, <1>6, <2>2, StockRuleIsKnown
  <2> QED BY SMT, <2>1, <2>3
<1> QED BY <1>1, <1>9, <1>10, Zenon DEF decision, st

\* The rule of a stock is that of its session.
LEMMA StockIsDated == StudyIsMade /\ study.kind = "stock" => StockRuleIsDated
<1> DEFINE in == study.of
           nth == Cardinality({s \in Sessions : in.stock.listed <= s /\ s <= in.session})
           decision == study.result.decision
           seen == nth > 5 \/ \E s \in in.calendar : s <= in.stock.listed
           Nearest(limits, percent) == \A p \in in.previous, u \in limits :
               100 * u - percent * p \in -49..50
           Dated ==
               /\ decision = Rules!ResolveStock(in.stock, in.session, in.st = {TRUE}, {nth})
               /\ decision.known <= in.session
               /\ Nearest(study.result.up, decision.upper)
               /\ Nearest(study.result.down, decision.lower)
               /\ (study.result.up = {}) = (in.suspended \/ decision.state = "unbounded")
<1> SUFFICES ASSUME StudyIsMade, study.kind = "stock", seen, in.st # {}
             PROVE  IF nth = 0 \/ in.session \notin in.calendar THEN decision.state = "refused"
                    ELSE Dated \/ (decision.state = "refused" /\ in.previous = {})
  BY Zenon DEF StockRuleIsDated
<1>1. in \in StockInputs /\ study.result = StockResult(in)
  BY DEF StudyIsMade, Studies, Idle
<1>2. PICK rule :
          rule = Rules!StockDecision(in.stock, in.calendar, in.session, in.st = {TRUE})
  OBVIOUS
<1>3. PICK bar : bar = [suspended |-> in.suspended, st |-> in.st, previous |-> in.previous]
  OBVIOUS
<1>4. study.result = Rules!Materialized(bar, rule)
  BY <1>1, <1>2, <1>3 DEF StockResult
<1>5. bar.st # {} /\ bar.suspended = in.suspended /\ bar.previous = in.previous
  BY <1>3
<1>6. in.suspended \in BOOLEAN /\ \A p, q \in in.previous : p = q /\ p \in Int
  BY SMT, <1>1, StockInputsAssumption
<1>7. PICK up : up = {Rules!RoundedToTick(p, rule.upper) : p \in in.previous}
  OBVIOUS
<1>8. PICK down : down = {Rules!RoundedToTick(p, rule.lower) : p \in in.previous}
  OBVIOUS
<1>9. study.result =
          IF rule.state = "bounded" /\ ~in.suspended
          THEN IF in.previous = {}
               THEN [decision |-> Rules!Refused, up |-> {}, down |-> {}]
               ELSE [decision |-> rule, up |-> up, down |-> down]
          ELSE [decision |-> rule, up |-> {}, down |-> {}]
  BY <1>4, <1>5, <1>7, <1>8 DEF Rules!Materialized
<1> HIDE DEF in
<1>10. CASE nth = 0 \/ in.session \notin in.calendar
  <2>1. rule = Rules!Refused
    BY <1>1, <1>2, <1>10, StockIsDecided
  <2>2. rule.state = "refused"
    BY <2>1 DEF Rules!Refused
  <2>3. decision = rule
    BY <1>9, <2>2
  <2> QED BY <1>10, <2>2, <2>3
<1>11. CASE nth # 0 /\ in.session \in in.calendar
  <2>1. /\ rule = Rules!ResolveStock(in.stock, in.session, in.st = {TRUE}, {nth})
        /\ IsRule(rule, in.session)
    BY <1>1, <1>2, <1>11, StockIsDecided
  <2>2. CASE rule.state = "bounded" /\ ~in.suspended /\ in.previous = {}
    <3>1. decision.state = "refused"
      BY <1>9, <2>2 DEF Rules!Refused
    <3> QED BY <1>11, <2>2, <3>1
  <2>3. CASE rule.state = "bounded" /\ ~in.suspended /\ in.previous # {}
    <3>1. decision = rule /\ study.result.up = up /\ study.result.down = down
      BY <1>9, <2>3
    <3>2. ASSUME NEW percent \in Int, NEW p \in in.previous, NEW q \in in.previous
          PROVE  100 * Rules!RoundedToTick(q, percent) - percent * p \in -49..50
      BY <1>6, RoundedIsNearest
    <3>3. Nearest(up, rule.upper) /\ Nearest(down, rule.lower)
      <4>1. rule.upper \in Int /\ rule.lower \in Int
        BY <2>1 DEF IsRule
      <4>2. ASSUME NEW p \in in.previous, NEW u \in up
            PROVE  100 * u - rule.upper * p \in -49..50
        <5>1. PICK q \in in.previous : u = Rules!RoundedToTick(q, rule.upper)
          BY <1>7
        <5> QED BY <3>2, <4>1, <5>1
      <4>3. ASSUME NEW p \in in.previous, NEW d \in down
            PROVE  100 * d - rule.lower * p \in -49..50
        <5>1. PICK q \in in.previous : d = Rules!RoundedToTick(q, rule.lower)
          BY <1>8
        <5> QED BY <3>2, <4>1, <5>1
      <4> QED BY <4>2, <4>3
    <3>4. up # {} /\ rule.state # "unbounded"
      BY <1>7, <2>3
    <3>5. rule.known <= in.session
      BY <2>1 DEF IsRule
    <3> HIDE DEF Nearest
    <3> QED BY <1>11, <2>1, <2>3, <3>1, <3>3, <3>4, <3>5
  <2>4. CASE ~(rule.state = "bounded" /\ ~in.suspended)
    <3>1. decision = rule /\ study.result.up = {} /\ study.result.down = {}
      BY <1>9, <2>4
    <3>2. rule.known <= in.session /\ (in.suspended \/ rule.state = "unbounded")
      BY <1>6, <2>1, <2>4 DEF IsRule
    <3>3. Nearest({}, rule.upper) /\ Nearest({}, rule.lower)
      OBVIOUS
    <3> HIDE DEF Nearest
    <3> QED BY <1>11, <2>1, <3>1, <3>2, <3>3
  <2> QED BY <2>2, <2>3, <2>4
<1> QED BY <1>10, <1>11

-----------------------------------------------------------------------------
(* The dated rules of an ETF.                                              *)

\* The ratio the limits of a day show is the one they were made with.
LEMMA RatioIsObserved ==
    ASSUME NEW p \in Nat, p > 10, NEW ratio \in {10, 20}
    PROVE  Etf!ObservedRatio(p, Rules!RoundedToTick(p, 100 + ratio),
                             Rules!RoundedToTick(p, 100 - ratio)) = {ratio}
<1>1. PICK up \in Int : /\ up = Rules!RoundedToTick(p, 100 + ratio)
                        /\ 100 * up - (100 + ratio) * p \in -49..50
  <2>1. PICK percent \in Int : percent = 100 + ratio
    BY SMT
  <2>2. p \in Int
    BY SMT
  <2>3. /\ Rules!RoundedToTick(p, percent) \in Int
        /\ 100 * Rules!RoundedToTick(p, percent) - percent * p \in -49..50
    BY ONLY <2>1, <2>2, RoundedIsNearest
  <2> QED BY ONLY <2>1, <2>3
<1>2. PICK down \in Int : /\ down = Rules!RoundedToTick(p, 100 - ratio)
                          /\ 100 * down - (100 - ratio) * p \in -49..50
  <2>1. PICK percent \in Int : percent = 100 - ratio
    BY SMT
  <2>2. p \in Int
    BY SMT
  <2>3. /\ Rules!RoundedToTick(p, percent) \in Int
        /\ 100 * Rules!RoundedToTick(p, percent) - percent * p \in -49..50
    BY ONLY <2>1, <2>2, RoundedIsNearest
  <2> QED BY ONLY <2>1, <2>3
<1>3. CASE ratio = 10
  <2>1. 100 * (up - p) - 10 * p \in -49..50 /\ 100 * (p - down) - 10 * p \in -50..49
    BY SMT, <1>1, <1>2, <1>3
  <2>2. up > p /\ down < p
    BY SMT, <2>1
  <2> QED BY SMT, <1>1, <1>2, <1>3, <2>1, <2>2 DEF Etf!ObservedRatio
<1>4. CASE ratio = 20
  <2>1. 100 * (up - p) - 20 * p \in -49..50 /\ 100 * (p - down) - 20 * p \in -50..49
    BY SMT, <1>1, <1>2, <1>4
  <2>2. up > p /\ down < p
    BY SMT, <2>1
  <2> QED BY SMT, <1>1, <1>2, <1>4, <2>1, <2>2 DEF Etf!ObservedRatio
<1> QED BY SMT, <1>3, <1>4

\* Of the days on which rules start the last one that has come is the one whose rule
\* applies.
LEMMA OneStartApplies ==
    ASSUME NEW starts \in SUBSET Nat, NEW session \in Nat, \E s \in starts : s <= session
    PROVE  \E now \in starts :
              /\ now <= session
              /\ \A s \in starts : s <= session => s <= now
              /\ \A s \in starts :
                    (s <= session /\ \A e \in Etf!EndOf(starts, s) : session <= e) <=> s = now
<1> DEFINE past == {s \in starts : s <= session}
<1>1. PICK now \in past : \A s \in past : s <= now
  <2>1. past \in SUBSET Nat /\ past # {} /\ \A s \in past : s <= session
    OBVIOUS
  <2> HIDE DEF past
  <2> QED BY <2>1, LargestExists
<1>2. ASSUME NEW s \in starts, s <= session, \A e \in Etf!EndOf(starts, s) : session <= e
      PROVE  s = now
  <2> SUFFICES ASSUME s # now PROVE FALSE
    OBVIOUS
  <2> DEFINE later == {x \in starts : x > s}
  <2>1. now \in later
    <3>1. s <= now /\ s \in Nat /\ now \in Nat /\ now \in starts
      BY <1>1, <1>2
    <3> QED BY <3>1
  <2>0. later \in SUBSET Nat
    OBVIOUS
  <2>2. PICK next \in later : \A y \in later : next <= y
    <3> HIDE DEF later
    <3>1. Rec!Least(later) \in later /\ \A y \in later : Rec!Least(later) <= y
      BY <2>0, <2>1, LeastNatural
    <3> QED BY <3>1
  <2>3. next - 1 \in Etf!EndOf(starts, s)
    BY <2>2 DEF Etf!EndOf
  <2> QED BY <1>1, <1>2, <2>1, <2>2, <2>3
<1>3. ASSUME NEW e \in Etf!EndOf(starts, now)
      PROVE  session <= e
  <2>1. PICK next \in starts : next > now /\ e = next - 1
    BY DEF Etf!EndOf
  <2>2. ~(next <= session)
    BY <1>1, <2>1
  <2> QED BY <2>1, <2>2
<1> QED BY <1>1, <1>2, <1>3

\* The days on which the rules of an ETF start.
LEMMA StartsAre ==
    ASSUME NEW listed \in Nat, NEW ratio, NEW class
    PROVE  LET starts == Etf!Breakpoints(listed, ratio, class)
           IN  /\ starts \in SUBSET Nat /\ listed \in starts
               /\ \A s \in starts :
                     /\ listed <= s
                     /\ s \in {listed, Etf!TwentyPercentEffective, Etf!CrossBorderEffective}
               /\ ratio = 20 /\ listed < Etf!TwentyPercentEffective =>
                     Etf!TwentyPercentEffective \in starts
               /\ class = "cross_border" /\ listed < Etf!CrossBorderEffective =>
                     Etf!CrossBorderEffective \in starts
               /\ IsFiniteSet(starts)
<1> DEFINE starts == Etf!Breakpoints(listed, ratio, class)
<1>1. Etf!TwentyPercentEffective \in Nat /\ Etf!CrossBorderEffective \in Nat
  BY SMT DEF Etf!TwentyPercentEffective, Etf!CrossBorderEffective
<1>2. \A s \in starts : /\ s \in Nat /\ listed <= s
                        /\ s \in {listed, Etf!TwentyPercentEffective, Etf!CrossBorderEffective}
  BY SMT, <1>1 DEF Etf!Breakpoints
<1>3. /\ listed \in starts
      /\ ratio = 20 /\ listed < Etf!TwentyPercentEffective =>
            Etf!TwentyPercentEffective \in starts
      /\ class = "cross_border" /\ listed < Etf!CrossBorderEffective =>
            Etf!CrossBorderEffective \in starts
  BY SMT DEF Etf!Breakpoints
<1> HIDE DEF starts
<1>4. IsFiniteSet(starts)
  <2> DEFINE most == listed + Etf!TwentyPercentEffective + Etf!CrossBorderEffective
  <2>1. most \in Nat /\ \A s \in starts : s <= most
    BY SMT, <1>1, <1>2
  <2> HIDE DEF most
  <2>2. starts \in SUBSET Nat
    BY SMT, <1>2
  <2> QED BY <2>1, <2>2, FS_BoundedSetOfNaturals
<1> QED BY SMT, <1>2, <1>3, <1>4 DEF starts

\* A rule of an ETF is prepared and may be reused.
LEMMA RuleIsPrepared ==
    ASSUME NEW listed \in Nat, NEW ratio \in {10, 20},
           NEW class \in {"domestic", "cross_border", "same_day"},
           NEW s \in Etf!Breakpoints(listed, ratio, class)
    PROVE  LET rule == Etf!RuleFrom(s, listed, ratio, class)
           IN  /\ Rules!Prepared(rule)
               /\ rule.start = s /\ rule.end = Etf!EndOf(Etf!Breakpoints(listed, ratio, class), s)
               /\ rule.known \in Nat /\ rule.known <= s
               /\ rule.ratio = IF ratio = 20 /\ s < 20200824 THEN 10 ELSE ratio
               /\ rule.delay = IF class = "domestic" \/ (class = "cross_border" /\ s < 20150119)
                               THEN 1 ELSE 0
<1>1. PICK starts : starts = Etf!Breakpoints(listed, ratio, class)
  OBVIOUS
<1>2. PICK rule : rule = Etf!RuleFrom(s, listed, ratio, class)
  OBVIOUS
<1>3. /\ starts \in SUBSET Nat /\ s \in starts /\ listed <= s
      /\ s \in {listed, 20200824, 20150119}
  BY SMT, <1>1, StartsAre DEF Etf!TwentyPercentEffective, Etf!CrossBorderEffective
<1>4. /\ rule.start = s /\ rule.end = Etf!EndOf(starts, s)
      /\ rule.known = IF s = 20200824 THEN 20200612 ELSE IF s = 20150119 THEN 20150109 ELSE listed
      /\ rule.ratio = IF ratio = 20 /\ s < 20200824 THEN 10 ELSE ratio
      /\ rule.delay = IF class = "cross_border" /\ s < 20150119 THEN 1
                      ELSE IF class = "domestic" THEN 1 ELSE 0
  BY SMT, <1>1, <1>2 DEF Etf!RuleFrom, Etf!Settlement, Etf!TwentyPercentEffective,
      Etf!TwentyPercentKnown, Etf!CrossBorderEffective, Etf!CrossBorderKnown
<1>5. rule.known \in Nat /\ rule.known <= s
  BY SMT, <1>3, <1>4
<1>6. \A e \in rule.end : s <= e
  <2> TAKE e \in rule.end
  <2>1. PICK next \in starts : next > s /\ e = next - 1
    BY SMT, <1>4 DEF Etf!EndOf
  <2> QED BY SMT, <1>3, <2>1
<1>7. rule.delay >= 0 /\ rule.ratio \in 1..99
  BY SMT, <1>4
<1>8. Rules!Prepared(rule)
  BY SMT, <1>4, <1>5, <1>6, <1>7 DEF Rules!Prepared
<1> QED BY SMT, <1>1, <1>2, <1>4, <1>5, <1>8

\* The multipliers of the start that applies are those of the session.
LEMMA MultipliersAreThoseOfTheDay ==
    ASSUME NEW listed \in Nat, NEW session \in Nat, listed <= session,
           NEW ratio \in {10, 20}, NEW class \in {"domestic", "cross_border", "same_day"},
           NEW now \in Etf!Breakpoints(listed, ratio, class), now <= session,
           \A s \in Etf!Breakpoints(listed, ratio, class) : s <= session => s <= now
    PROVE  /\ (IF ratio = 20 /\ now < 20200824 THEN 10 ELSE ratio)
                 = IF ratio = 20 /\ session >= 20200824 THEN 20 ELSE 10
           /\ (IF class = "domestic" \/ (class = "cross_border" /\ now < 20150119)
               THEN 1 ELSE 0)
                 = IF \/ class = "same_day"
                      \/ class = "cross_border" /\ session >= 20150119
                   THEN 0 ELSE 1
<1>1. PICK starts : starts = Etf!Breakpoints(listed, ratio, class)
  OBVIOUS
<1>2. /\ now \in Nat /\ listed <= now
      /\ ratio = 20 /\ listed < 20200824 => 20200824 \in starts
      /\ class = "cross_border" /\ listed < 20150119 => 20150119 \in starts
  BY SMT, <1>1, StartsAre DEF Etf!TwentyPercentEffective, Etf!CrossBorderEffective
<1>3. \A s \in starts : s <= session => s <= now
  BY SMT, <1>1
<1>4. ratio = 20 => (now < 20200824 <=> session < 20200824)
  BY SMT, <1>2, <1>3
<1>5. class = "cross_border" => (now < 20150119 <=> session < 20150119)
  BY SMT, <1>2, <1>3
<1>6. (IF ratio = 20 /\ now < 20200824 THEN 10 ELSE ratio)
         = IF ratio = 20 /\ session >= 20200824 THEN 20 ELSE 10
  BY SMT, <1>2, <1>4
<1>7. (IF class = "domestic" \/ (class = "cross_border" /\ now < 20150119) THEN 1 ELSE 0)
         = IF \/ class = "same_day"
              \/ class = "cross_border" /\ session >= 20150119
           THEN 0 ELSE 1
  BY SMT, <1>2, <1>5
<1> QED BY SMT, <1>6, <1>7

\* Cardinality is the same in each of the modules.
LEMMA EtfCountsAgree == \A S : Etf!Cardinality(S) = Cardinality(S)
BY DEF Etf!Cardinality, Cardinality

\* A rule that stands for one start each: as many rules as starts.
LEMMA AsManyRulesAsStarts ==
    ASSUME NEW starts, IsFiniteSet(starts), NEW ruleOf,
           \A s \in starts : ruleOf[s].start = s,
           NEW rules, rules = {ruleOf[s] : s \in starts}
    PROVE  /\ {r.start : r \in rules} = starts
           /\ Cardinality({r.start : r \in rules}) = Cardinality(rules)
<1> DEFINE f == [s \in starts |-> ruleOf[s]]
<1>1. {r.start : r \in rules} = starts
  OBVIOUS
<1>2. f \in Bijection(starts, rules)
  BY DEF Bijection, Injection, Surjection, IsInjective
<1>3. Cardinality(starts) = Cardinality(rules)
  BY <1>2, FS_Bijection DEF ExistsBijection
<1> QED BY <1>1, <1>3

\* The rules of an ETF may be reused.
LEMMA RulesAreReusable ==
    ASSUME NEW listed \in Nat, NEW ratio \in {10, 20},
           NEW class \in {"domestic", "cross_border", "same_day"}, NEW rules,
           rules = {Etf!RuleFrom(s, listed, ratio, class) :
                       s \in Etf!Breakpoints(listed, ratio, class)}
    PROVE  Etf!Reusable(rules, listed) /\ \A r \in rules : Rules!Prepared(r)
<1>1. PICK starts : starts = Etf!Breakpoints(listed, ratio, class)
  OBVIOUS
<1> DEFINE RuleOf(s) == Etf!RuleFrom(s, listed, ratio, class)
<1>2. \A s \in starts : /\ Rules!Prepared(RuleOf(s))
                        /\ RuleOf(s).start = s
                        /\ RuleOf(s).end = Etf!EndOf(starts, s)
                        /\ RuleOf(s).known <= s
                        /\ RuleOf(s).ratio \in {10, 20}
                        /\ RuleOf(s).delay \in {0, 1}
  <2> TAKE s \in starts
  <2>1. s \in Etf!Breakpoints(listed, ratio, class)
    BY ONLY <1>1, s \in starts
  <2>2. PICK rule : rule = RuleOf(s)
    OBVIOUS
  <2>3. /\ Rules!Prepared(rule)
        /\ rule.start = s /\ rule.end = Etf!EndOf(starts, s)
        /\ rule.known <= s
        /\ rule.ratio = IF ratio = 20 /\ s < 20200824 THEN 10 ELSE ratio
        /\ rule.delay = IF class = "domestic" \/ (class = "cross_border" /\ s < 20150119)
                        THEN 1 ELSE 0
    BY SMT, <1>1, <2>1, <2>2, RuleIsPrepared
  <2>4. rule.ratio \in {10, 20} /\ rule.delay \in {0, 1}
    BY SMT, <2>3
  <2> HIDE DEF RuleOf
  <2> QED BY SMT, <2>2, <2>3, <2>4
<1>3. IsFiniteSet(starts) /\ listed \in starts /\ \A s \in starts : listed <= s
  BY SMT, <1>1, StartsAre
<1>4. rules = {RuleOf(s) : s \in starts}
  BY SMT, <1>1
<1> HIDE DEF RuleOf
<1>5. /\ {r.start : r \in rules} = starts
      /\ Cardinality({r.start : r \in rules}) = Cardinality(rules)
  <2> DEFINE ruleOf == [s \in starts |-> RuleOf(s)]
  <2>1. \A s \in starts : ruleOf[s] = RuleOf(s)
    OBVIOUS
  <2>2. \A s \in starts : ruleOf[s].start = s
    BY ONLY <1>2, <2>1
  <2>3. rules = {ruleOf[s] : s \in starts}
    BY ONLY <1>4, <2>1
  <2> HIDE DEF ruleOf
  <2>4. PICK g : g = ruleOf
    OBVIOUS
  <2>5. IsFiniteSet(starts) /\ (\A s \in starts : g[s].start = s) /\ rules = {g[s] : s \in starts}
    BY ONLY <1>3, <2>2, <2>3, <2>4
  <2> QED BY ONLY <2>5, AsManyRulesAsStarts
<1>6. Etf!Cardinality({r.start : r \in rules}) = Etf!Cardinality(rules)
  BY ONLY <1>5, EtfCountsAgree
<1>7. \A r \in rules : /\ r.known <= r.start /\ r.ratio \in {10, 20} /\ r.delay \in {0, 1}
                       /\ r.end = Etf!EndOf(starts, r.start)
                       /\ Rules!Prepared(r)
  BY ONLY <1>2, <1>4
<1>8. rules # {}
  BY ONLY <1>3, <1>4
<1> QED BY <1>3, <1>5, <1>6, <1>7, <1>8 DEF Etf!Reusable

\* Of some rules of an ETF this one alone has the session, with its multipliers.
TheOneOf(rule, rules, session, ratio, class) ==
    /\ {r \in rules : r.start <= session /\ \A e \in r.end : session <= e} = {rule}
    /\ rule.known \in Nat /\ rule.known <= session
    /\ rule.ratio = IF ratio = 20 /\ session >= 20200824 THEN 20 ELSE 10
    /\ rule.delay = IF \/ class = "same_day"
                       \/ class = "cross_border" /\ session >= 20150119
                    THEN 0 ELSE 1

\* The rule of an ETF that applies on a session: there is one, with the multipliers of
\* the session, and it was known.
LEMMA OneRuleApplies ==
    ASSUME NEW listed \in Nat, NEW session \in Nat, listed <= session,
           NEW ratio \in {10, 20}, NEW class \in {"domestic", "cross_border", "same_day"},
           NEW rules,
           rules = {Etf!RuleFrom(s, listed, ratio, class) :
                       s \in Etf!Breakpoints(listed, ratio, class)}
    PROVE  \E rule : TheOneOf(rule, rules, session, ratio, class)
<1>1. PICK starts : starts = Etf!Breakpoints(listed, ratio, class)
  OBVIOUS
<1> DEFINE RuleOf(s) == Etf!RuleFrom(s, listed, ratio, class)
<1>2. \A s \in starts : /\ RuleOf(s).start = s
                        /\ RuleOf(s).end = Etf!EndOf(starts, s)
                        /\ RuleOf(s).known \in Nat /\ RuleOf(s).known <= s
  BY SMT, <1>1, RuleIsPrepared
<1>3. starts \in SUBSET Nat /\ listed \in starts
  BY SMT, <1>1, StartsAre
<1>4. PICK now \in starts :
          /\ now <= session
          /\ \A s \in starts : s <= session => s <= now
          /\ \A s \in starts :
                (s <= session /\ \A e \in Etf!EndOf(starts, s) : session <= e) <=> s = now
  <2>1. \E s \in starts : s <= session
    BY ONLY <1>3, listed <= session
  <2> QED BY ONLY <1>3, <2>1, session \in Nat, OneStartApplies
<1>5. PICK rule : rule = RuleOf(now)
  OBVIOUS
<1>6. /\ rule.ratio = IF ratio = 20 /\ now < 20200824 THEN 10 ELSE ratio
      /\ rule.delay = IF class = "domestic" \/ (class = "cross_border" /\ now < 20150119)
                      THEN 1 ELSE 0
  BY SMT, <1>1, <1>5, RuleIsPrepared
<1>7. /\ rule.ratio = IF ratio = 20 /\ session >= 20200824 THEN 20 ELSE 10
      /\ rule.delay = IF \/ class = "same_day"
                         \/ class = "cross_border" /\ session >= 20150119
                      THEN 0 ELSE 1
  <2>1. \A s \in Etf!Breakpoints(listed, ratio, class) : s <= session => s <= now
    BY ONLY <1>1, <1>4
  <2>2. now \in Etf!Breakpoints(listed, ratio, class) /\ now <= session
    BY ONLY <1>1, <1>4
  <2> QED BY SMT, <1>6, <2>1, <2>2, MultipliersAreThoseOfTheDay
<1>8. rules = {RuleOf(s) : s \in starts}
  BY SMT, <1>1
<1>9. rule.known \in Nat /\ rule.known <= session
  <2> HIDE DEF RuleOf
  <2>1. rule.known \in Nat /\ rule.known <= now /\ now \in Nat /\ now <= session
    BY ONLY <1>2, <1>3, <1>4, <1>5
  <2> QED BY ONLY <2>1, session \in Nat, SMT
<1>10. {r \in rules : r.start <= session /\ \A e \in r.end : session <= e} = {rule}
  <2> HIDE DEF RuleOf
  <2>1. \A s \in starts : (/\ RuleOf(s).start <= session
                           /\ \A e \in RuleOf(s).end : session <= e) <=> s = now
    BY ONLY <1>2, <1>4
  <2> QED BY ONLY <1>5, <1>8, <2>1
<1>11. TheOneOf(rule, rules, session, ratio, class)
  BY SMT, <1>7, <1>9, <1>10 DEF TheOneOf
<1> QED BY ONLY <1>11

\* So of an ETF the rules are those of the dates.
LEMMA EtfIsDated == StudyIsMade /\ study.kind = "etf" => EtfRuleIsDated
<1> SUFFICES ASSUME StudyIsMade, study.kind = "etf" PROVE EtfRuleIsDated
  OBVIOUS
<1>1. study.of \in EtfInputs /\ study.result = EtfResult(study.of)
  BY DEF StudyIsMade, Studies, Idle
<1>2. PICK in : in = study.of
  OBVIOUS
<1>3. PICK result : result = study.result
  OBVIOUS
<1>4. /\ in.listed \in Nat /\ in.session \in Nat /\ in.listed <= in.session
      /\ in.class \in {"domestic", "cross_border", "same_day"} /\ in.ratio \in {10, 20}
      /\ in.previous \in Nat /\ in.previous > 10
  BY ONLY <1>1, <1>2, EtfInputsAssumption
<1>5. PICK rules : rules = {Etf!RuleFrom(s, in.listed, in.ratio, in.class) :
                               s \in Etf!Breakpoints(in.listed, in.ratio, in.class)}
  OBVIOUS
<1>6. rules = Etf!Built(in.listed, in.class, in.previous,
                        Rules!RoundedToTick(in.previous, 100 + in.ratio),
                        Rules!RoundedToTick(in.previous, 100 - in.ratio))
  <2>1. Etf!ObservedRatio(in.previous, Rules!RoundedToTick(in.previous, 100 + in.ratio),
                          Rules!RoundedToTick(in.previous, 100 - in.ratio)) = {in.ratio}
    BY ONLY <1>4, RatioIsObserved
  <2> QED BY ONLY <1>5, <2>1 DEF Etf!Built
<1>7. /\ result.rules = rules
      /\ result.decision = Rules!EtfDecision(rules, in.session)
      /\ result.reusable = Etf!Reusable(rules, in.listed)
  BY ONLY <1>1, <1>2, <1>3, <1>6 DEF EtfResult
<1>8. Etf!Reusable(rules, in.listed) /\ \A r \in rules : Rules!Prepared(r)
  BY ONLY <1>4, <1>5, RulesAreReusable
<1>9. PICK rule :
          /\ {r \in rules : /\ r.start <= in.session
                            /\ \A e \in r.end : in.session <= e} = {rule}
          /\ rule.known \in Nat /\ rule.known <= in.session
          /\ rule.ratio = IF in.ratio = 20 /\ in.session >= 20200824 THEN 20 ELSE 10
          /\ rule.delay = IF \/ in.class = "same_day"
                             \/ in.class = "cross_border" /\ in.session >= 20150119
                          THEN 0 ELSE 1
  <2>1. PICK listed, session, ratio, class :
            listed = in.listed /\ session = in.session /\ ratio = in.ratio /\ class = in.class
    OBVIOUS
  <2>2. /\ listed \in Nat /\ session \in Nat /\ listed <= session
        /\ ratio \in {10, 20} /\ class \in {"domestic", "cross_border", "same_day"}
        /\ rules = {Etf!RuleFrom(s, listed, ratio, class) :
                       s \in Etf!Breakpoints(listed, ratio, class)}
    BY ONLY <1>4, <1>5, <2>1
  <2>3. \E rule : TheOneOf(rule, rules, session, ratio, class)
    BY ONLY <2>2, OneRuleApplies
  <2>4. PICK rule : TheOneOf(rule, rules, in.session, in.ratio, in.class)
    BY ONLY <2>1, <2>3
  <2> QED BY ONLY <2>4, SMT DEF TheOneOf
<1>10. Cardinality({rule}) = 1 /\ Rules!Cardinality({rule}) = 1
  BY ONLY FS_Singleton, RuleCountsAgree
<1>11. result.decision = Rules!Bounded(rule.ratio, rule.delay, rule.known)
  <2>1. {r \in rules : Rules!Applies(r, in.session)} = {rule}
    BY SMT, <1>9 DEF Rules!Applies
  <2> QED BY ONLY <1>7, <1>8, <1>10, <2>1 DEF Rules!EtfDecision
<1>12. result.reusable
  BY ONLY <1>7, <1>8
<1>13. /\ result.reusable
       /\ Cardinality({r \in result.rules : /\ r.start <= in.session
                                            /\ \A e \in r.end : in.session <= e}) = 1
       /\ \A r \in {r \in result.rules : /\ r.start <= in.session
                                         /\ \A e \in r.end : in.session <= e} :
             /\ r.ratio = IF in.ratio = 20 /\ in.session >= 20200824 THEN 20 ELSE 10
             /\ r.delay = IF \/ in.class = "same_day"
                             \/ in.class = "cross_border" /\ in.session >= 20150119
                          THEN 0 ELSE 1
             /\ r.known <= in.session
             /\ result.decision =
                   Rules!Bounded(IF in.ratio = 20 /\ in.session >= 20200824 THEN 20 ELSE 10,
                                 IF \/ in.class = "same_day"
                                    \/ in.class = "cross_border" /\ in.session >= 20150119
                                 THEN 0 ELSE 1, r.known)
  BY SMT, <1>7, <1>9, <1>10, <1>11, <1>12
<1> QED BY SMT, <1>2, <1>3, <1>13 DEF EtfRuleIsDated

\* The rules and limits of a day are those of its date (RulesAreDated,
\* trade_rules.py and etf_rules.py).
THEOREM RulesAreTheirDates == DataSpec => []RulesAreDated
<1>1. StudyIsMade => RulesAreDated
  BY StockIsDated, EtfIsDated DEF RulesAreDated
<1> QED BY <1>1, StudiesAreMade, PTL

-----------------------------------------------------------------------------
(* Corporate actions and factors.                                          *)

\* What the proofs need of the types of actions and factors: their fields, their dates,
\* and whole rights.
IsAction(a) ==
    /\ DOMAIN a = {"type", "ex", "pay", "listing", "known", "cash", "shares", "rights",
                   "price", "restructuring"}
    /\ a.ex \in Int /\ a.rights \in Int
IsFactor(f) ==
    /\ DOMAIN f = {"provider", "effective", "known", "cash", "shares", "rights", "price",
                   "multiplier"}
    /\ f.effective \in Int /\ f.rights \in Int

\* The terms of the property: what changes a holding, what has the economics of another.
IsMaterial(f) == f.cash # 0 \/ f.shares # 0 \/ f.rights # 0
SameTerms(f, g) ==
    /\ f.cash = g.cash /\ f.shares = g.shares
    /\ f.rights = 0 <=> g.rights = 0
    /\ f.rights # 0 => f.price = g.price
MaterialOn(factors, d) == {f \in factors : f.effective = d /\ IsMaterial(f)}
OnDate(actions, d) == {a \in actions : a.ex = d}
NoneHolds(actions) == \A a \in actions : a.type = "stock" /\ a.restructuring

\* The rights of a group are a number.
LEMMA RightsAreWhole ==
    ASSUME NEW group, \A a \in group : IsAction(a)
    PROVE  Events!GroupEconomics(group).rights \in Int
<1>1. PICK rights : rights = Events!OfType(group, "rights")
  OBVIOUS
<1>2. Events!GroupEconomics(group).rights
          = IF rights = {} THEN 0 ELSE (CHOOSE a \in rights : TRUE).rights
  BY <1>1 DEF Events!GroupEconomics
<1>3. CASE rights = {}
  BY <1>2, <1>3
<1>4. CASE rights # {}
  <2>1. PICK a \in rights : a = CHOOSE b \in rights : TRUE
    BY <1>4
  <2>2. IsAction(a)
    BY <1>1 DEF Events!OfType
  <2> QED BY <1>2, <1>4, <2>1, <2>2 DEF IsAction
<1> QED BY <1>3, <1>4

\* What proves a group has its economics but for the rights nobody took up.
LEMMA ProofIsSame ==
    ASSUME NEW group, \A a \in group : IsAction(a), NEW f, Events!Proves(group, f)
    PROVE  LET e == Events!GroupEconomics(group) IN
           SameTerms(f, e) /\ f.rights <= e.rights /\ (IsMaterial(f) <=> IsMaterial(e))
<1>1. PICK rights : rights = Events!OfType(group, "rights")
  OBVIOUS
<1>2. PICK e : e = Events!GroupEconomics(group)
  OBVIOUS
<1>3. /\ e.rights = IF rights = {} THEN 0 ELSE (CHOOSE a \in rights : TRUE).rights
      /\ e.price = IF rights = {} THEN 0 ELSE (CHOOSE a \in rights : TRUE).price
  BY <1>1, <1>2 DEF Events!GroupEconomics
<1>4. /\ f.cash = e.cash /\ f.shares = e.shares
      /\ IF rights = {} THEN f.rights = 0 ELSE f.rights \in 1..e.rights /\ f.price = e.price
  BY <1>1, <1>2 DEF Events!Proves
<1>5. e.rights \in Int
  BY <1>2, RightsAreWhole
<1>6. SameTerms(f, e) /\ f.rights <= e.rights /\ (IsMaterial(f) <=> IsMaterial(e))
  <2>1. CASE rights = {}
    <3>1. f.rights = 0 /\ e.rights = 0
      BY <1>3, <1>4, <2>1
    <3> QED BY <1>4, <3>1 DEF SameTerms, IsMaterial
  <2>2. CASE rights # {}
    <3>1. f.rights \in 1..e.rights /\ f.price = e.price
      BY <1>4, <2>2
    <3>2. f.rights # 0 /\ e.rights # 0 /\ f.rights <= e.rights
      BY <1>5, <3>1
    <3> QED BY <1>4, <3>1, <3>2 DEF SameTerms, IsMaterial
  <2> QED BY <2>1, <2>2
<1> QED BY <1>2, <1>6

\* Distances between days are none or some, and within a month is within a month.
LEMMA DaysApart ==
    ASSUME NEW d \in Int, NEW e \in Int
    PROVE  /\ Events!Days(d, e) \in Nat /\ Events!Days(d, e) = Events!Days(e, d)
           /\ Events!Days(d, d) = 0
           /\ Events!Days(d, e) <= 31 => e - d \in -31..31 /\ d - e \in -31..31
BY DEF Events!Days

\* The counts in the module of corporate actions are those of finite sets.
LEMMA EventCountsAgree == \A S : Events!Cardinality(S) = Cardinality(S)
BY DEF Events!Cardinality, Events!IsFiniteSet, Cardinality, IsFiniteSet

\* Of factors of different dates at most two are equally near to a day, so one by count
\* is one.
LEMMA NearestIsOne ==
    ASSUME NEW near, NEW d \in Int, Cardinality(near) = 1, near # {},
           \A f \in near : f.effective \in Int,
           \A f, g \in near : Events!Days(f.effective, d) <= Events!Days(g.effective, d),
           \A f, g \in near : f.effective = g.effective => f = g
    PROVE  \E f : near = {f}
<1>1. PICK f \in near : TRUE
  OBVIOUS
<1>2. \A g \in near : g # f => f.effective - d = d - g.effective
  BY DEF Events!Days
<1>3. \A g, h \in near : g # f /\ h # f => g = h
  <2> SUFFICES ASSUME NEW g \in near, NEW h \in near, g # f, h # f PROVE g = h
    OBVIOUS
  <2>1. g.effective = h.effective
    BY <1>2
  <2> QED BY <2>1
<1>4. IsFiniteSet(near)
  <2>1. PICK g \in near : near \subseteq {f, g}
    BY <1>3
  <2>2. IsFiniteSet({f}) /\ {f, g} = {f} \cup {g}
    BY FS_Singleton
  <2>3. IsFiniteSet({f, g})
    BY <2>2, FS_AddElement
  <2> QED BY <2>1, <2>3, FS_Subset
<1> QED BY <1>4, FS_Singleton

\* What an accepted result says of the actions and factors that were verified.
Agreed(actions, factors, quarantined, out) ==
    /\ \A d \in {a.ex : a \in out.actions} :
          LET e == Events!GroupEconomics(OnDate(out.actions, d)) IN
          /\ Cardinality(MaterialOn(out.factors, d)) = IF IsMaterial(e) THEN 1 ELSE 0
          /\ \A f \in MaterialOn(out.factors, d) : SameTerms(f, e) /\ f.rights <= e.rights
    /\ \A a \in actions : a \in out.actions \/ NoneHolds(OnDate(actions, a.ex))
    /\ \A f \in factors : IsMaterial(f) =>
          \E g \in out.factors : SameTerms(f, g) /\ f.effective - g.effective \in -31..31
    /\ \A f \in factors : OnDate(actions, f.effective) # {}
                            /\ Events!Proves(OnDate(actions, f.effective), f) =>
          \E g \in out.factors : g.effective = f.effective /\ SameTerms(f, g)
    /\ \A a, b \in actions : a.type = b.type /\ a.ex = b.ex => a = b
    /\ \A f, g \in factors : f.effective = g.effective => f = g
    /\ out.quarantined = quarantined

\* What is accepted: the factors say what the actions say, no action is lost but
\* restructurings no holder takes part in, no economics of a factor vanish, and what is
\* proved on its own date stays there (reconcile_corporate_action_factors).
LEMMA VerifiedSays ==
    ASSUME NEW actions, \A a \in actions : IsAction(a),
           NEW factors, \A f \in factors : IsFactor(f),
           NEW quarantined, NEW out,
           out = Events!Verified([actions |-> actions, factors |-> factors,
                                  quarantined |-> quarantined]),
           out.accepted
    PROVE  Agreed(actions, factors, quarantined, out)
<1> DEFINE evidence == [actions |-> actions, factors |-> factors, quarantined |-> quarantined]
           groups == Events!Groups(evidence.actions)
           proof == [d \in DOMAIN groups |-> Events!ProvedBy(groups, evidence.factors, d)]
           matched == {d \in DOMAIN groups : proof[d] # {}}
           ignored == {d \in DOMAIN groups \ matched : Events!IsRestructuring(groups[d])}
           left == evidence.factors \ UNION {proof[d] : d \in matched}
           technical == {f \in left : ~Events!HasEconomics(f)}
           copies == {f \in left : \E d \in matched :
                         Events!Days(d, f.effective) <= Events!Duplicate
                           /\ Events!Proves(groups[d], f)}
           moved(d) == {[f EXCEPT !.effective = d,
                                  !.known = Events!First({a.known : a \in groups[d]})] :
                           f \in proof[d]}
           allowed == /\ DOMAIN groups = matched \cup ignored
                      /\ \A d \in matched : Events!Cardinality(proof[d]) = 1
                      /\ left = technical \cup copies
                      /\ \A a, b \in evidence.actions : a.type = b.type /\ a.ex = b.ex => a = b
                      /\ \A f, g \in evidence.factors : f.effective = g.effective => f = g
           result == [accepted |-> TRUE,
                      actions |-> UNION {groups[d] : d \in matched},
                      factors |-> technical \cup UNION {moved(d) : d \in matched},
                      quarantined |-> evidence.quarantined]
<1>1. evidence.actions = actions /\ evidence.factors = factors
        /\ evidence.quarantined = quarantined
  OBVIOUS
<1>2. out = IF allowed THEN result ELSE Events!Refused
  BY Zenon DEF Events!Verified
<1> HIDE DEF evidence
<1>3. allowed /\ out = result
  <2> HIDE DEF allowed, result
  <2> QED BY <1>2 DEF Events!Refused
<1>4. /\ out.actions = UNION {groups[d] : d \in matched}
      /\ out.factors = technical \cup UNION {moved(d) : d \in matched}
      /\ out.quarantined = quarantined
  <2> HIDE DEF groups, matched, technical, moved
  <2> QED BY <1>1, <1>3
<1>5. /\ DOMAIN groups = matched \cup ignored
      /\ \A d \in matched : Cardinality(proof[d]) = 1
      /\ left = technical \cup copies
      /\ \A a, b \in actions : a.type = b.type /\ a.ex = b.ex => a = b
      /\ \A f, g \in factors : f.effective = g.effective => f = g
  BY <1>1, <1>3, EventCountsAgree
<1>6. /\ DOMAIN groups = {a.ex : a \in actions}
      /\ \A d \in DOMAIN groups : groups[d] = OnDate(actions, d) /\ groups[d] # {} /\ d \in Int
  BY <1>1 DEF Events!Groups, OnDate, IsAction
<1>7. \A d \in DOMAIN groups :
          /\ \A f \in proof[d] : /\ f \in factors /\ Events!Proves(groups[d], f)
                                 /\ Events!Days(f.effective, d) <= 31
          /\ \A f, g \in proof[d] : Events!Days(f.effective, d) <= Events!Days(g.effective, d)
          /\ \A f \in factors : Events!Proves(groups[d], f) /\ f.effective = d => f \in proof[d]
  <2> SUFFICES ASSUME NEW d \in DOMAIN groups
               PROVE  /\ \A f \in proof[d] : /\ f \in factors /\ Events!Proves(groups[d], f)
                                             /\ Events!Days(f.effective, d) <= 31
                      /\ \A f, g \in proof[d] :
                            Events!Days(f.effective, d) <= Events!Days(g.effective, d)
                      /\ \A f \in factors : Events!Proves(groups[d], f) /\ f.effective = d
                                               => f \in proof[d]
    OBVIOUS
  <2> DEFINE viable == {f \in factors : /\ Events!Days(f.effective, d) <= 31
                                        /\ Events!Proves(groups[d], f)}
  <2>1. proof[d] = {f \in viable : \A g \in viable :
                       Events!Days(f.effective, d) <= Events!Days(g.effective, d)}
    BY <1>1 DEF Events!ProvedBy, Events!Matching
  <2>2. \A f \in factors : f.effective = d =>
            /\ Events!Days(f.effective, d) = 0
            /\ \A g \in factors : Events!Days(g.effective, d) \in Nat
    BY <1>6, DaysApart DEF IsFactor
  <2>3. \A f \in factors : Events!Proves(groups[d], f) /\ f.effective = d => f \in viable
    BY <2>2
  <2> QED BY <2>1, <2>2, <2>3
<1>8. /\ \A f \in left : f \in factors
      /\ \A f \in factors \ left : \E d \in matched : f \in proof[d]
      /\ \A d \in matched : d \in DOMAIN groups /\ proof[d] # {}
      /\ \A d \in DOMAIN groups : proof[d] # {} => d \in matched
      /\ \A d \in ignored : NoneHolds(groups[d])
  BY <1>1 DEF Events!IsRestructuring, NoneHolds
<1>9. /\ \A f \in technical : ~IsMaterial(f)
      /\ \A f \in copies : f \in factors /\ \E d \in matched :
            Events!Days(d, f.effective) <= 7 /\ Events!Proves(groups[d], f)
  BY <1>1 DEF Events!HasEconomics, IsMaterial, Events!Duplicate
<1>10. \A d \in matched : \E f, g :
          /\ proof[d] = {f} /\ moved(d) = {g}
          /\ g.effective = d /\ SameTerms(f, g) /\ g.rights = f.rights /\ g.cash = f.cash
          /\ g.shares = f.shares /\ g.price = f.price
  <2> SUFFICES ASSUME NEW d \in matched
               PROVE  \E f, g :
                         /\ proof[d] = {f} /\ moved(d) = {g}
                         /\ g.effective = d /\ SameTerms(f, g) /\ g.rights = f.rights
                         /\ g.cash = f.cash /\ g.shares = f.shares /\ g.price = f.price
    OBVIOUS
  <2>1. PICK f : proof[d] = {f}
    <3>1. \A f \in proof[d] : f \in factors /\ f.effective \in Int
      BY <1>7, <1>8 DEF IsFactor
    <3> QED BY <1>5, <1>6, <1>7, <1>8, <3>1, NearestIsOne
  <2>2. IsFactor(f)
    BY <1>7, <1>8, <2>1
  <2>3. PICK known : known = Events!First({a.known : a \in groups[d]})
    OBVIOUS
  <2>4. PICK g : g = [f EXCEPT !.effective = d, !.known = known]
    OBVIOUS
  <2>5. moved(d) = {g}
    <3> HIDE DEF groups, proof
    <3> QED BY <2>1, <2>3, <2>4
  <2>6. /\ g.effective = d /\ SameTerms(f, g) /\ g.rights = f.rights /\ g.cash = f.cash
        /\ g.shares = f.shares /\ g.price = f.price
    BY ONLY <2>2, <2>4, SMT DEF IsFactor, SameTerms
  <2> QED BY <2>1, <2>5, <2>6
<1> HIDE DEF groups, proof, matched, ignored, left, technical, copies, moved, allowed, result
<1>11. ASSUME NEW d \in {a.ex : a \in out.actions}
       PROVE  LET on == {f \in out.factors : f.effective = d /\ IsMaterial(f)}
                  e == Events!GroupEconomics(OnDate(out.actions, d))
              IN  /\ Cardinality(on) = IF IsMaterial(e) THEN 1 ELSE 0
                  /\ \A f \in on : SameTerms(f, e) /\ f.rights <= e.rights
  <2>1. d \in matched /\ OnDate(out.actions, d) = groups[d]
    BY <1>4, <1>6, <1>8 DEF OnDate
  <2>2. PICK f, g : /\ proof[d] = {f} /\ moved(d) = {g}
                    /\ g.effective = d /\ g.rights = f.rights /\ g.cash = f.cash
                    /\ g.shares = f.shares /\ g.price = f.price
    BY <1>10, <2>1
  <2>3. PICK e : e = Events!GroupEconomics(groups[d])
    OBVIOUS
  <2>4. SameTerms(f, e) /\ f.rights <= e.rights /\ (IsMaterial(f) <=> IsMaterial(e))
    <3>1. \A a \in groups[d] : IsAction(a)
      BY <1>6, <1>8, <2>1 DEF OnDate
    <3>2. Events!Proves(groups[d], f)
      BY <1>7, <1>8, <2>1, <2>2
    <3> QED BY <2>3, <3>1, <3>2, ProofIsSame
  <2>5. SameTerms(g, e) /\ g.rights <= e.rights /\ (IsMaterial(g) <=> IsMaterial(e))
    BY ONLY <2>2, <2>4 DEF SameTerms, IsMaterial
  <2> DEFINE on == {x \in out.factors : x.effective = d /\ IsMaterial(x)}
  <2>6. \A x \in on : x = g
    <3> SUFFICES ASSUME NEW x \in on PROVE x = g
      OBVIOUS
    <3>1. PICK m \in matched : x \in moved(m)
      BY <1>4, <1>9
    <3>2. m = d
      BY <1>10, <3>1
    <3> QED BY <2>2, <3>1, <3>2
  <2>7. g \in out.factors
    BY <1>4, <2>1, <2>2
  <2>8. on = IF IsMaterial(e) THEN {g} ELSE {}
    BY <2>2, <2>5, <2>6, <2>7
  <2>9. Cardinality(on) = IF IsMaterial(e) THEN 1 ELSE 0
    <3> HIDE DEF on
    <3> QED BY <2>8, FS_Singleton, FS_EmptySet
  <2>10. \A x \in on : SameTerms(x, e) /\ x.rights <= e.rights
    BY <2>5, <2>6
  <2> HIDE DEF on
  <2>11. OnDate(out.actions, d) = groups[d]
    BY <2>1
  <2>12. Events!GroupEconomics(OnDate(out.actions, d)) = e
    BY ONLY <2>3, <2>11
  <2> QED BY ONLY <2>9, <2>10, <2>12 DEF on
<1>12. \A a \in actions : a \in out.actions \/ NoneHolds(OnDate(actions, a.ex))
  <2> SUFFICES ASSUME NEW a \in actions
               PROVE  a \in out.actions \/ NoneHolds(OnDate(actions, a.ex))
    OBVIOUS
  <2>1. a.ex \in DOMAIN groups /\ groups[a.ex] = OnDate(actions, a.ex) /\ a \in groups[a.ex]
    BY <1>6 DEF OnDate
  <2> QED BY <1>4, <1>5, <1>8, <2>1
<1>13. \A f \in factors : IsMaterial(f) =>
          \E g \in out.factors : SameTerms(f, g) /\ f.effective - g.effective \in -31..31
  <2> SUFFICES ASSUME NEW f \in factors, IsMaterial(f)
               PROVE  \E g \in out.factors :
                         SameTerms(f, g) /\ f.effective - g.effective \in -31..31
    OBVIOUS
  <2>1. f.effective \in Int
    BY DEF IsFactor
  <2>2. CASE f \in left
    <3>1. PICK d \in matched : Events!Days(d, f.effective) <= 7 /\ Events!Proves(groups[d], f)
      BY <1>5, <1>9, <2>2
    <3>2. d \in Int /\ \A a \in groups[d] : IsAction(a)
      BY <1>6, <1>8 DEF OnDate
    <3>3. f.effective - d \in -31..31
      BY <2>1, <3>1, <3>2 DEF Events!Days
    <3>4. PICK h, g : proof[d] = {h} /\ moved(d) = {g} /\ g.effective = d /\ SameTerms(h, g)
      BY <1>10
    <3>5. Events!Proves(groups[d], h)
      BY <1>7, <1>8, <3>4
    <3>6. PICK e : SameTerms(f, e) /\ SameTerms(h, e)
      BY <3>1, <3>2, <3>5, ProofIsSame
    <3>7. SameTerms(f, g)
      BY ONLY <3>4, <3>6 DEF SameTerms
    <3>8. g \in out.factors
      BY <1>4, <3>4
    <3> QED BY <3>3, <3>4, <3>7, <3>8
  <2>3. CASE f \notin left
    <3>1. PICK d \in matched : f \in proof[d]
      BY <1>8, <2>3
    <3>2. PICK h, g : proof[d] = {h} /\ moved(d) = {g} /\ g.effective = d /\ SameTerms(h, g)
      BY <1>10
    <3>3. d \in Int /\ Events!Days(f.effective, d) <= 31
      BY <1>6, <1>7, <1>8, <3>1
    <3>4. f.effective - d \in -31..31
      BY <2>1, <3>3, DaysApart
    <3>5. g \in out.factors /\ h = f
      BY <1>4, <3>1, <3>2
    <3> QED BY <3>2, <3>4, <3>5
  <2> QED BY <2>2, <2>3
<1>14. \A f \in factors : OnDate(actions, f.effective) # {}
                            /\ Events!Proves(OnDate(actions, f.effective), f) =>
          \E g \in out.factors : g.effective = f.effective /\ SameTerms(f, g)
  <2> SUFFICES ASSUME NEW f \in factors, OnDate(actions, f.effective) # {},
                      Events!Proves(OnDate(actions, f.effective), f)
               PROVE  \E g \in out.factors : g.effective = f.effective /\ SameTerms(f, g)
    OBVIOUS
  <2>1. PICK d : d = f.effective
    OBVIOUS
  <2>2. d \in DOMAIN groups /\ groups[d] = OnDate(actions, d)
    BY <1>6, <2>1 DEF OnDate
  <2>3. f \in proof[d] /\ d \in matched
    BY <1>7, <1>8, <2>1, <2>2
  <2>4. PICK h, g : proof[d] = {h} /\ moved(d) = {g} /\ g.effective = d /\ SameTerms(h, g)
    BY <1>10, <2>3
  <2>5. g \in out.factors /\ h = f
    BY <1>4, <2>3, <2>4
  <2> QED BY <2>1, <2>4, <2>5
<1> QED BY <1>4, <1>5, <1>11, <1>12, <1>13, <1>14 DEF Agreed, MaterialOn

\* A factor that stands for a group is one, on its date.
LEMMA OfficialIsFactor ==
    ASSUME NEW group, \A a \in group : IsAction(a), NEW d \in Int, NEW multiplier
    PROVE  /\ IsFactor(Events!OfficialFactor(group, d, multiplier))
           /\ Events!OfficialFactor(group, d, multiplier).effective = d
<1>1. PICK e : e = Events!GroupEconomics(group)
  OBVIOUS
<1>2. e.rights \in Int
  BY <1>1, RightsAreWhole
<1>3. PICK known : known = Events!First({a.known : a \in group})
  OBVIOUS
<1>4. Events!OfficialFactor(group, d, multiplier)
          = [effective |-> d, known |-> known, cash |-> e.cash, shares |-> e.shares,
             rights |-> e.rights, price |-> e.price, multiplier |-> multiplier,
             provider |-> "canonical"]
  BY <1>1, <1>3, Zenon DEF Events!OfficialFactor
<1> QED BY <1>2, <1>4 DEF IsFactor

\* What a factor stands for are actions, on its date.
LEMMA ActionsOfFactor ==
    ASSUME NEW f, IsFactor(f), NEW etf, NEW a \in Events!ActionsOf(f, etf)
    PROVE  IsAction(a) /\ a.ex = f.effective
<1> DEFINE base == [ex |-> f.effective, pay |-> {}, listing |-> {}, known |-> f.effective,
                    cash |-> 0, shares |-> 0, rights |-> 0, price |-> 0,
                    restructuring |-> FALSE, type |-> "cash"]
           paid == [base EXCEPT !.cash = f.cash, !.pay = {f.effective}]
           Held(type) == [base EXCEPT !.type = type, !.shares = f.shares,
                                      !.listing = {f.effective}]
           offered == [base EXCEPT !.type = "rights", !.rights = f.rights, !.price = f.price,
                                   !.pay = {f.effective}, !.listing = {f.effective}]
<1>1. a = paid \/ a = Held("split") \/ a = Held("stock") \/ a = offered
  BY Zenon DEF Events!ActionsOf
<1>2. CASE a = paid
  BY ONLY <1>2, IsFactor(f) DEF IsFactor, IsAction
<1>3. CASE a = Held("split")
  BY ONLY <1>3, IsFactor(f) DEF IsFactor, IsAction
<1>4. CASE a = Held("stock")
  BY ONLY <1>4, IsFactor(f) DEF IsFactor, IsAction
<1>5. CASE a = offered
  BY ONLY <1>5, IsFactor(f) DEF IsFactor, IsAction
<1> QED BY <1>1, <1>2, <1>3, <1>4, <1>5

\* What is verified of the selected actions and the first source's factors: no action is
\* lost but restructurings, no factor but the quarantined ones, and a group of cash that a
\* factor of its date proves stays alone with it.
CarriedOver(selected, primary, actions, factors, quarantined) ==
    /\ \A a \in actions : IsAction(a)
    /\ \A f \in factors : IsFactor(f)
    /\ \A a \in selected : a \in actions \/ NoneHolds(OnDate(selected, a.ex))
    /\ \A f \in primary : f \in factors \/ f \in quarantined
    /\ \A g \in primary :
          (/\ OnDate(selected, g.effective) # {}
           /\ \A a \in OnDate(selected, g.effective) : a.type = "cash"
           /\ Events!Proves(OnDate(selected, g.effective), g)
           /\ \A f, h \in factors : f.effective = h.effective => f = h) =>
          g \in factors /\ OnDate(actions, g.effective) = OnDate(selected, g.effective)

\* A second source carries all of that over (_apply_corroborating_factor_evidence).
LEMMA CorroboratedKeeps ==
    ASSUME NEW actions, \A a \in actions : IsAction(a),
           NEW factors, \A f \in factors : IsFactor(f),
           NEW secondary, NEW previous, NEW etf, NEW left,
           left = Events!Corroborated(actions, factors, secondary, previous, etf)
    PROVE  CarriedOver(actions, factors, left.actions, left.factors, left.quarantined)
<1> DEFINE groups == Events!Groups(actions)
           recovered == Events!RecoveredFactors(groups, factors, secondary, previous)
           unexplained == {f \in factors : /\ Events!HasEconomics(f)
                                           /\ ~Events!Explained(groups, f, Events!Matching)}
           contradicted == {f \in unexplained : \E r \in recovered :
                               Events!Days(r.effective, f.effective) <= Events!Matching}
           around(f) == {d \in DOMAIN groups : Events!Days(d, f.effective) <= Events!Matching}
           open == {f \in unexplained \ contradicted :
                       \A d \in around(f) : Events!IsRestructuring(groups[d])}
           backed == {f \in open :
               Events!SecondaryFactor(secondary, f.effective, f.multiplier,
                                      Events!Corroborating, 2) # {}}
           replaced == UNION {UNION {groups[d] : d \in around(f)} : f \in backed}
           executable == {f \in backed : Events!ActionsOf(f, etf) # {}}
           made == UNION {Events!ActionsOf(f, etf) : f \in executable}
           quarantined == contradicted \cup (open \ executable)
<1>1. left = [actions |-> (actions \ replaced) \cup made,
              factors |-> (factors \ quarantined) \cup recovered,
              quarantined |-> quarantined]
  BY Zenon DEF Events!Corroborated
<1>2. /\ left.actions = (actions \ replaced) \cup made
      /\ left.factors = (factors \ quarantined) \cup recovered
      /\ left.quarantined = quarantined
  <2> HIDE DEF replaced, made, quarantined, recovered
  <2> QED BY <1>1
<1>3. /\ DOMAIN groups = {a.ex : a \in actions}
      /\ \A d \in DOMAIN groups : groups[d] = OnDate(actions, d) /\ d \in Int
  BY DEF Events!Groups, OnDate, IsAction
<1>4. \A r \in recovered : IsFactor(r)
  <2> HIDE DEF groups
  <2> SUFFICES ASSUME NEW r \in recovered PROVE IsFactor(r)
    OBVIOUS
  <2>1. PICK d, m : d \in DOMAIN groups /\ r = Events!OfficialFactor(groups[d], d, m)
    BY DEF Events!RecoveredFactors
  <2>2. \A a \in groups[d] : IsAction(a)
    BY <1>3, <2>1 DEF OnDate
  <2> QED BY <1>3, <2>1, <2>2, OfficialIsFactor
<1>5. \A f \in executable : f \in factors /\ f \in unexplained /\ f \notin quarantined
  OBVIOUS
<1>6. \A a \in made : \E f \in executable : a \in Events!ActionsOf(f, etf)
  <2> HIDE DEF executable
  <2> QED OBVIOUS
<1>7. \A a \in replaced : NoneHolds(OnDate(actions, a.ex))
  <2> HIDE DEF groups
  <2> SUFFICES ASSUME NEW a \in replaced PROVE NoneHolds(OnDate(actions, a.ex))
    OBVIOUS
  <2>1. PICK f, d : f \in open /\ d \in around(f) /\ a \in groups[d]
    OBVIOUS
  <2>2. Events!IsRestructuring(groups[d]) /\ d \in DOMAIN groups
    BY <2>1
  <2>3. a.ex = d /\ groups[d] = OnDate(actions, d)
    BY <1>3, <2>1, <2>2 DEF OnDate
  <2> QED BY <2>2, <2>3 DEF Events!IsRestructuring, NoneHolds
<1>8. \A f \in quarantined : f \in unexplained
  OBVIOUS
<1>9. \A f \in unexplained : f.effective \in DOMAIN groups =>
          ~Events!Proves(groups[f.effective], f)
  <2> SUFFICES ASSUME NEW f \in unexplained, f.effective \in DOMAIN groups
               PROVE  ~Events!Proves(groups[f.effective], f)
    OBVIOUS
  <2>1. Events!Days(f.effective, f.effective) = 0
    BY DaysApart DEF IsFactor
  <2> QED BY <2>1 DEF Events!Explained, Events!Matching
<1> HIDE DEF groups, recovered, unexplained, contradicted, open, backed, replaced,
             executable, made, quarantined
<1>10. \A a \in left.actions : IsAction(a)
  BY <1>2, <1>5, <1>6, ActionsOfFactor
<1>11. ASSUME NEW g \in factors, OnDate(actions, g.effective) # {},
              \A a \in OnDate(actions, g.effective) : a.type = "cash",
              Events!Proves(OnDate(actions, g.effective), g),
              \A f, h \in left.factors : f.effective = h.effective => f = h
       PROVE  /\ g \in left.factors
              /\ OnDate(left.actions, g.effective) = OnDate(actions, g.effective)
  <2>1. PICK d : d = g.effective
    OBVIOUS
  <2>2. d \in DOMAIN groups /\ groups[d] = OnDate(actions, d)
    BY <1>3, <1>11, <2>1 DEF OnDate
  <2>3. g \notin unexplained /\ g \in left.factors
    BY <1>2, <1>8, <1>9, <1>11, <2>1, <2>2
  <2>4. \A a \in OnDate(actions, d) : a \notin replaced
    <3> SUFFICES ASSUME NEW a \in OnDate(actions, d), a \in replaced PROVE FALSE
      OBVIOUS
    <3>1. a.ex = d /\ a.type = "cash"
      BY <1>11, <2>1 DEF OnDate
    <3> QED BY <1>7, <3>1 DEF NoneHolds
  <2>5. \A a \in made : a.ex # d
    <3> SUFFICES ASSUME NEW a \in made, a.ex = d PROVE FALSE
      OBVIOUS
    <3>1. PICK f \in executable : a \in Events!ActionsOf(f, etf)
      BY <1>6
    <3>2. f.effective = d /\ f \in left.factors
      BY <1>2, <1>5, <3>1, ActionsOfFactor
    <3> QED BY <1>5, <1>11, <2>1, <2>3, <3>2
  <2>6. OnDate(left.actions, d) = OnDate(actions, d)
    BY <1>2, <2>4, <2>5 DEF OnDate
  <2> QED BY <2>1, <2>3, <2>6
<1>12. /\ \A f \in left.factors : IsFactor(f)
       /\ \A a \in actions : a \in left.actions \/ NoneHolds(OnDate(actions, a.ex))
       /\ \A f \in factors : f \in left.factors \/ f \in left.quarantined
  BY <1>2, <1>4, <1>7
<1> QED BY <1>10, <1>11, <1>12 DEF CarriedOver

\* How the cash of a group is added up (MapThenSumSet).
CashOf(it, S) ==
    it = [s \in SUBSET S |->
             IF s = {} THEN 0
             ELSE (CHOOSE x \in s : TRUE).cash + it[s \ {CHOOSE x \in s : TRUE}]]

\* The cash of a group is a sum over its dividends.
LEMMA CashIsSum ==
    ASSUME NEW group, NEW S, S = Events!OfType(group, "cash")
    PROVE  Events!GroupEconomics(group).cash = (CHOOSE it : CashOf(it, S))[S]
<1>1. Events!GroupEconomics(group).cash
          = Events!MapThenSumSet(LAMBDA a : a.cash, Events!OfType(group, "cash"))
  BY DEF Events!GroupEconomics
<1>2. Events!MapThenSumSet(LAMBDA a : a.cash, S) = (CHOOSE it : CashOf(it, S))[S]
  BY DEF Events!MapThenSumSet, Events!MapThenFoldSet, CashOf
<1> QED BY <1>1, <1>2

\* One dividend pays its cash.
LEMMA OneDividend ==
    ASSUME NEW group, NEW a, Events!OfType(group, "cash") = {a}, a.cash \in Int
    PROVE  Events!GroupEconomics(group).cash = a.cash
<1>1. PICK S : S = {a}
  OBVIOUS
<1>2. (CHOOSE x \in {a} : TRUE) = a
  OBVIOUS
<1>3. SUBSET S = {{}, {a}}
  BY <1>1
<1> DEFINE sum == [s \in SUBSET S |-> IF s = {} THEN 0 ELSE a.cash]
<1>4. CashOf(sum, S)
  <2>1. \A s \in SUBSET S : sum[s] =
            IF s = {} THEN 0
            ELSE (CHOOSE x \in s : TRUE).cash + sum[s \ {CHOOSE x \in s : TRUE}]
    <3> SUFFICES ASSUME NEW s \in SUBSET S, s # {}
                 PROVE  sum[s] = (CHOOSE x \in s : TRUE).cash
                                    + sum[s \ {CHOOSE x \in s : TRUE}]
      BY <1>1
    <3>1. s = {a} /\ (CHOOSE x \in s : TRUE) = a /\ s \ {CHOOSE x \in s : TRUE} = {}
      BY <1>2, <1>3
    <3>2. sum[s] = a.cash /\ sum[{}] = 0
      BY <1>3
    <3> QED BY <3>1, <3>2
  <2> QED BY <2>1 DEF CashOf
<1>5. PICK it : it = (CHOOSE g : CashOf(g, S)) /\ CashOf(it, S)
  <2> HIDE DEF sum
  <2> QED BY <1>4
<1>6. it[{}] = 0 /\ it[{a}] = a.cash + it[{a} \ {a}]
  <2>1. {} \in SUBSET S /\ {a} \in SUBSET S /\ {a} # {}
    BY <1>1
  <2>2. \A s \in SUBSET S :
            it[s] = IF s = {} THEN 0
                    ELSE (CHOOSE x \in s : TRUE).cash + it[s \ {CHOOSE x \in s : TRUE}]
    BY <1>5 DEF CashOf
  <2>3. it[{}] = 0
    BY <2>1, <2>2
  <2>4. it[{a}] = (CHOOSE x \in {a} : TRUE).cash + it[{a} \ {CHOOSE x \in {a} : TRUE}]
    BY <2>1, <2>2
  <2> QED BY <1>2, <2>3, <2>4
<1>7. it[{a}] = a.cash
  BY <1>6, {a} \ {a} = {}
<1> QED BY <1>1, <1>5, <1>7, CashIsSum

\* A factor with the cash of a day of nothing else, in place of one that says otherwise.
Replaces(g, f, actions) ==
    /\ g.effective = f.effective
    /\ OnDate(actions, f.effective) # {}
    /\ \A a \in OnDate(actions, f.effective) : a.type = "cash"
    /\ Events!Proves(OnDate(actions, f.effective), g)
    /\ g.cash = Events!GroupEconomics(OnDate(actions, f.effective)).cash

\* Days of cash alone: a fund's own factor of such a day replaces another one
\* (_recover_official_etf_cash_factors).
LEMMA EtfKeeps ==
    ASSUME NEW actions, \A a \in actions : IsAction(a),
           NEW factors, \A f \in factors : IsFactor(f), NEW previous, NEW left,
           left = Events!EtfRecovered(Events!Groups(actions), factors, previous)
    PROVE  /\ \A f \in left : IsFactor(f)
           /\ \A f \in factors : f \in left \/ \E g \in left : Replaces(g, f, actions)
<1> DEFINE groups == Events!Groups(actions)
           exact(d) == {f \in factors : f.effective = d}
           wrong == {d \in DOMAIN groups :
                       /\ \A a \in groups[d] : a.type = "cash"
                       /\ Events!Cardinality(exact(d)) = 1
                       /\ \A f \in exact(d) : ~Events!Proves(groups[d], f)
                       /\ Events!Expected(groups[d], previous) # {}}
           Multiplier(d) == CHOOSE m \in Events!Expected(groups[d], previous) : TRUE
           Own(d) == Events!OfficialFactor(groups[d], d, Multiplier(d))
<1>1. left = {f \in factors : f.effective \notin wrong} \cup {Own(d) : d \in wrong}
  BY Zenon DEF Events!EtfRecovered
<1>2. /\ DOMAIN groups = {a.ex : a \in actions}
      /\ \A d \in DOMAIN groups : groups[d] = OnDate(actions, d) /\ groups[d] # {} /\ d \in Int
  BY DEF Events!Groups, OnDate, IsAction
<1>3. \A d \in wrong : /\ d \in DOMAIN groups
                       /\ \A a \in groups[d] : a.type = "cash"
  OBVIOUS
<1>4. \A d \in wrong : IsFactor(Own(d)) /\ Own(d).effective = d
  <2> SUFFICES ASSUME NEW d \in wrong PROVE IsFactor(Own(d)) /\ Own(d).effective = d
    OBVIOUS
  <2>1. d \in Int /\ \A a \in groups[d] : IsAction(a)
    BY <1>2, <1>3 DEF OnDate
  <2> HIDE DEF groups, Multiplier
  <2> QED BY <2>1, OfficialIsFactor
<1>5. \A d \in wrong : /\ Events!Proves(groups[d], Own(d))
                       /\ Own(d).cash = Events!GroupEconomics(groups[d]).cash
  <2> SUFFICES ASSUME NEW d \in wrong
               PROVE  /\ Events!Proves(groups[d], Own(d))
                      /\ Own(d).cash = Events!GroupEconomics(groups[d]).cash
    OBVIOUS
  <2> HIDE DEF Multiplier
  <2>1. PICK group : group = groups[d] /\ \A a \in group : a.type = "cash"
    BY <1>3
  <2>2. PICK e : e = Events!GroupEconomics(group)
    OBVIOUS
  <2>3. Events!OfType(group, "rights") = {} /\ Events!OfType(group, "split") = {}
    BY <2>1 DEF Events!OfType
  <2>4. e.rights = 0
    BY <2>2, <2>3 DEF Events!GroupEconomics
  <2>5. Events!Cardinality({}) = 0
    BY EventCountsAgree, FS_EmptySet
  <2>6. PICK own : own = Events!OfficialFactor(group, d, Multiplier(d))
    OBVIOUS
  <2>7. own.cash = e.cash /\ own.shares = e.shares /\ own.rights = e.rights
    BY <2>2, <2>6 DEF Events!OfficialFactor
  <2>8. Events!Proves(group, own)
    BY <2>2, <2>3, <2>4, <2>5, <2>7 DEF Events!Proves
  <2>9. own = Own(d)
    BY <2>1, <2>6
  <2> HIDE DEF Own, groups
  <2> QED BY <2>1, <2>2, <2>7, <2>8, <2>9
<1> HIDE DEF groups, wrong, Own
<1>6. \A f \in left : IsFactor(f)
  BY <1>1, <1>4
<1>7. ASSUME NEW f \in factors, f \notin left
      PROVE  \E g \in left : Replaces(g, f, actions)
  <2>1. PICK d \in wrong : d = f.effective
    BY <1>1, <1>7
  <2>2. PICK g : g = Own(d)
    OBVIOUS
  <2>3. g \in left /\ g.effective = d
    BY <1>1, <1>4, <2>2
  <2>4. PICK group : group = groups[d] /\ group = OnDate(actions, d) /\ group # {}
    BY <1>2, <1>3
  <2>5. (\A a \in group : a.type = "cash") /\ Events!Proves(group, g)
           /\ g.cash = Events!GroupEconomics(group).cash
    BY <1>3, <1>5, <2>2, <2>4
  <2> QED BY <2>1, <2>3, <2>4, <2>5 DEF Replaces
<1> QED BY <1>6, <1>7

\* Completion adds dates, nothing else.
LEMMA CompletedSame ==
    ASSUME NEW in \in ActionInputs, NEW a \in in.actions
    PROVE  LET b == Events!Completed(a) IN
           /\ IsAction(b) /\ b.type = a.type /\ b.ex = a.ex /\ b.cash = a.cash
           /\ b.shares = a.shares /\ b.rights = a.rights /\ b.price = a.price
           /\ b.restructuring = a.restructuring
<1>1. /\ IsAction(a) /\ a.type \in {"cash", "stock", "split", "rights"}
  BY ActionInputsAssumption DEF IsAction
<1>2. PICK b : b = Events!Completed(a)
  OBVIOUS
<1>3. b = a \/ b = [a EXCEPT !.pay = {a.ex}] \/ b = [a EXCEPT !.listing = {a.ex}]
  BY <1>1, <1>2 DEF Events!Completed
<1>4. /\ IsAction(b) /\ b.type = a.type /\ b.ex = a.ex /\ b.cash = a.cash
      /\ b.shares = a.shares /\ b.rights = a.rights /\ b.price = a.price
      /\ b.restructuring = a.restructuring
  BY ONLY <1>1, <1>3 DEF IsAction
<1> QED BY <1>2, <1>4

\* The actions and factors the reconciliation starts from.
SelectedOf(in) ==
    {Events!Completed(a) : a \in {b \in in.actions : Events!InScope(in.scope, b.ex)}}
InsideOf(in) == {f \in in.factors : Events!InScope(in.scope, f.effective)}
PrimaryOf(in) ==
    IF in.etf THEN Events!EtfRecovered(Events!Groups(SelectedOf(in)), InsideOf(in), in.previous)
    ELSE InsideOf(in)

\* What is verified in the end has the official actions but restructurings, the factors of
\* the first source but the quarantined ones, and a fund's own cash.
LEMMA EvidenceIsKept ==
    ASSUME NEW in \in ActionInputs
    PROVE  \E actions, factors, quarantined :
              /\ ActionResult(in) = Events!Verified([actions |-> actions, factors |-> factors,
                                                     quarantined |-> quarantined])
              /\ CarriedOver(SelectedOf(in), PrimaryOf(in), actions, factors, quarantined)
              /\ in.secondary = {} => quarantined = {}
<1>1. PICK selected : selected = SelectedOf(in)
  OBVIOUS
<1>2. PICK primary : primary = PrimaryOf(in)
  OBVIOUS
<1>3. PICK second : second = {f \in UNION in.secondary : Events!InScope(in.scope, f.effective)}
  OBVIOUS
<1>4. PICK left : left = Events!Corroborated(selected, primary, second, in.previous, in.etf)
  OBVIOUS
<1>5. ActionResult(in) =
          IF in.secondary = {}
          THEN Events!Verified([actions |-> selected, factors |-> primary, quarantined |-> {}])
          ELSE Events!Verified(left)
  <2>1. ActionResult(in) =
            IF in.secondary = {}
            THEN Events!Verified([actions |-> SelectedOf(in), factors |-> PrimaryOf(in),
                                  quarantined |-> {}])
            ELSE Events!Verified(Events!Corroborated(SelectedOf(in), PrimaryOf(in),
                     {f \in UNION in.secondary : Events!InScope(in.scope, f.effective)},
                     in.previous, in.etf))
    BY Zenon DEF ActionResult, Events!ReconciledActions, SelectedOf, PrimaryOf, InsideOf
  <2> QED BY ONLY <1>1, <1>2, <1>3, <1>4, <2>1
<1>6. \A a \in selected : IsAction(a)
  BY <1>1, CompletedSame DEF SelectedOf
<1>7. \A f \in InsideOf(in) : IsFactor(f)
  BY ActionInputsAssumption DEF InsideOf, IsFactor
<1>8. \A f \in primary : IsFactor(f)
  <2>1. CASE in.etf
    BY <1>1, <1>2, <1>6, <1>7, <2>1, EtfKeeps DEF PrimaryOf
  <2>2. CASE ~in.etf
    BY <1>2, <1>7, <2>2 DEF PrimaryOf
  <2> QED BY <2>1, <2>2
<1>9. CASE in.secondary = {}
  <2>1. ActionResult(in) = Events!Verified([actions |-> selected, factors |-> primary,
                                            quarantined |-> {}])
    BY <1>5, <1>9
  <2>2. CarriedOver(selected, primary, selected, primary, {})
    BY <1>6, <1>8 DEF CarriedOver
  <2> QED BY <1>1, <1>2, <2>1, <2>2
<1>10. CASE in.secondary # {}
  <2>1. PICK actions, factors, quarantined :
            left = [actions |-> actions, factors |-> factors, quarantined |-> quarantined]
    BY <1>4 DEF Events!Corroborated
  <2>2. ActionResult(in) = Events!Verified([actions |-> actions, factors |-> factors,
                                            quarantined |-> quarantined])
    BY <1>5, <1>10, <2>1
  <2>3. left.actions = actions /\ left.factors = factors /\ left.quarantined = quarantined
    BY ONLY <2>1
  <2>4. CarriedOver(selected, primary, actions, factors, quarantined)
    BY <1>4, <1>6, <1>8, <2>3, CorroboratedKeeps
  <2> QED BY <1>1, <1>2, <1>10, <2>2, <2>4
<1> QED BY <1>9, <1>10

\* ActionsAndFactorsAgree of an input and its result.
Agreeing(in, out) ==
    /\ \A d \in {a.ex : a \in out.actions} :
          LET e == Events!GroupEconomics(OnDate(out.actions, d)) IN
          /\ Cardinality(MaterialOn(out.factors, d)) = IF IsMaterial(e) THEN 1 ELSE 0
          /\ \A f \in MaterialOn(out.factors, d) : SameTerms(f, e) /\ f.rights <= e.rights
    /\ \A a \in in.actions : Events!InScope(in.scope, a.ex) =>
          \/ \E b \in out.actions : b.type = a.type /\ b.ex = a.ex /\ SameTerms(a, b)
                                      /\ b.rights = a.rights
          \/ NoneHolds(OnDate(in.actions, a.ex))
    /\ \A f \in in.factors : IsMaterial(f) /\ Events!InScope(in.scope, f.effective) =>
          \/ \E g \in out.factors : SameTerms(f, g) /\ f.effective - g.effective \in -31..31
          \/ in.secondary # {} /\ f \in out.quarantined
          \/ in.etf /\ \E g \in MaterialOn(out.factors, f.effective),
                          a \in OnDate(in.actions, f.effective) :
                a.type = "cash" /\ g.cash = a.cash

\* Accepted actions and factors say the same (ActionsAndFactorsAgree,
\* reconcile_corporate_action_factors).
THEOREM AcceptedEventsAgree == DataSpec => []ActionsAndFactorsAgree
<1>1. ASSUME StudyIsMade, study.kind = "actions", study.result.accepted
      PROVE  ActionsAndFactorsAgree
  <2>1. study.of \in ActionInputs /\ study.result = ActionResult(study.of)
    BY <1>1 DEF StudyIsMade, Studies, Idle
  <2>2. PICK in \in ActionInputs : in = study.of
    BY <2>1
  <2>3. PICK out : out = study.result /\ out = ActionResult(in) /\ out.accepted
    BY <1>1, <2>1, <2>2
  <2>4. PICK actions, factors, quarantined :
            /\ out = Events!Verified([actions |-> actions, factors |-> factors,
                                      quarantined |-> quarantined])
            /\ CarriedOver(SelectedOf(in), PrimaryOf(in), actions, factors, quarantined)
            /\ in.secondary = {} => quarantined = {}
    BY <2>3, EvidenceIsKept
  <2>5. Agreed(actions, factors, quarantined, out)
    BY <2>3, <2>4, VerifiedSays DEF CarriedOver
  <2>6. \A a \in in.actions : Events!InScope(in.scope, a.ex) =>
            \/ \E b \in out.actions : b.type = a.type /\ b.ex = a.ex /\ SameTerms(a, b)
                                        /\ b.rights = a.rights
            \/ NoneHolds(OnDate(in.actions, a.ex))
    <3> SUFFICES ASSUME NEW a \in in.actions, Events!InScope(in.scope, a.ex),
                        ~NoneHolds(OnDate(in.actions, a.ex))
                 PROVE  \E b \in out.actions : b.type = a.type /\ b.ex = a.ex
                                                 /\ SameTerms(a, b) /\ b.rights = a.rights
      OBVIOUS
    <3>1. PICK b : b = Events!Completed(a)
      OBVIOUS
    <3>2. b \in SelectedOf(in)
      BY <3>1 DEF SelectedOf
    <3>3. b.type = a.type /\ b.ex = a.ex /\ SameTerms(a, b) /\ b.rights = a.rights
      BY <3>1, CompletedSame DEF SameTerms
    <3>4. PICK x \in in.actions : x.ex = a.ex /\ ~(x.type = "stock" /\ x.restructuring)
      BY DEF NoneHolds, OnDate
    <3>5. PICK y : /\ y = Events!Completed(x) /\ y.type = x.type /\ y.ex = x.ex
                   /\ y.restructuring = x.restructuring
      BY CompletedSame
    <3>6. y \in SelectedOf(in) /\ y.ex = a.ex /\ ~(y.type = "stock" /\ y.restructuring)
      BY <3>4, <3>5 DEF SelectedOf
    <3>7. b \in actions /\ y \in actions
      BY <2>4, <3>2, <3>3, <3>6 DEF CarriedOver, NoneHolds, OnDate
    <3>8. b \in out.actions
      BY <2>5, <3>3, <3>6, <3>7 DEF Agreed, NoneHolds, OnDate
    <3> QED BY <3>3, <3>8
  <2>7. ASSUME NEW f \in PrimaryOf(in), IsMaterial(f)
        PROVE  \/ \E g \in out.factors : SameTerms(f, g) /\ f.effective - g.effective \in -31..31
               \/ in.secondary # {} /\ f \in out.quarantined
    BY <2>4, <2>5, <2>7 DEF CarriedOver, Agreed
  <2>8. ASSUME NEW f \in InsideOf(in), f \notin PrimaryOf(in)
        PROVE  in.etf /\ \E g \in MaterialOn(out.factors, f.effective),
                            a \in OnDate(in.actions, f.effective) :
                  a.type = "cash" /\ g.cash = a.cash
    <3>1. in.etf
      BY <2>8 DEF PrimaryOf
    <3>2. \A a \in SelectedOf(in) : IsAction(a)
      BY CompletedSame DEF SelectedOf
    <3>3. \A h \in InsideOf(in) : IsFactor(h)
      BY ActionInputsAssumption DEF InsideOf, IsFactor
    <3>4. PICK d : d = f.effective
      OBVIOUS
    <3>5. PICK group : group = OnDate(SelectedOf(in), d)
      OBVIOUS
    <3>6. PICK h \in PrimaryOf(in) :
              /\ h.effective = d /\ group # {} /\ \A a \in group : a.type = "cash"
              /\ Events!Proves(group, h) /\ h.cash = Events!GroupEconomics(group).cash
      <4>1. PICK selected, inside, previous :
                selected = SelectedOf(in) /\ inside = InsideOf(in) /\ previous = in.previous
        OBVIOUS
      <4>2. PICK primary :
                /\ primary = Events!EtfRecovered(Events!Groups(selected), inside, previous)
                /\ primary = PrimaryOf(in)
        BY <3>1, <4>1 DEF PrimaryOf
      <4>3. (\A a \in selected : IsAction(a)) /\ \A x \in inside : IsFactor(x)
        BY <3>2, <3>3, <4>1
      <4>4. \A x \in inside : x \in primary \/ \E g \in primary : Replaces(g, x, selected)
        BY ONLY <4>2, <4>3, EtfKeeps
      <4> QED BY <2>8, <3>4, <3>5, <4>1, <4>2, <4>4 DEF Replaces
    <3>7. h \in factors /\ OnDate(actions, d) = group
      BY <2>4, <2>5, <3>5, <3>6 DEF CarriedOver, Agreed
    <3>8. PICK g \in out.factors : g.effective = d /\ SameTerms(h, g)
      BY <2>5, <3>6, <3>7 DEF Agreed
    <3>9. PICK b \in group : b \in actions /\ b.type = "cash" /\ b.ex = d
      BY <3>6, <3>7 DEF OnDate
    <3>10. \A c \in group : c = b
      BY <2>5, <3>6, <3>7, <3>9 DEF Agreed, OnDate
    <3>11. Events!OfType(group, "cash") = {b}
      BY <3>9, <3>10 DEF Events!OfType
    <3>12. PICK a \in in.actions : b = Events!Completed(a)
      BY <3>5, <3>9 DEF OnDate, SelectedOf
    <3>13. a.type = "cash" /\ a.ex = d /\ a.cash = b.cash
      BY <3>9, <3>12, CompletedSame
    <3>14. a.cash \in Int /\ a.cash # 0
      BY <3>13, ActionInputsAssumption
    <3>15. h.cash = a.cash
      BY <3>6, <3>11, <3>13, <3>14, OneDividend
    <3>16. g.cash = a.cash /\ IsMaterial(g)
      BY ONLY <3>8, <3>14, <3>15 DEF SameTerms, IsMaterial
    <3> QED BY <3>1, <3>4, <3>8, <3>13, <3>16 DEF MaterialOn, OnDate
  <2>9. \A f \in in.factors : IsMaterial(f) /\ Events!InScope(in.scope, f.effective) =>
            \/ \E g \in out.factors : SameTerms(f, g) /\ f.effective - g.effective \in -31..31
            \/ in.secondary # {} /\ f \in out.quarantined
            \/ in.etf /\ \E g \in MaterialOn(out.factors, f.effective),
                            a \in OnDate(in.actions, f.effective) :
                  a.type = "cash" /\ g.cash = a.cash
    BY <2>7, <2>8 DEF InsideOf
  <2>10. Agreeing(in, out)
    BY <2>5, <2>6, <2>9 DEF Agreed, Agreeing
  <2>11. Agreeing(study.of, study.result)
    BY <2>2, <2>3, <2>10
  <2> QED BY ONLY <2>11, Zenon DEF ActionsAndFactorsAgree, Agreeing, MaterialOn, OnDate,
                                   IsMaterial, SameTerms, NoneHolds
<1>2. StudyIsMade => ActionsAndFactorsAgree
  BY <1>1 DEF ActionsAndFactorsAgree
<1> QED BY <1>2, StudiesAreMade, PTL
=============================================================================
