---------------------------- MODULE MarketData ----------------------------
(***************************************************************************)
(* The preparation of canonical market data: the pure steps of              *)
(* fundlab.marketdata - reconciliation of bars, dated trading rules,        *)
(* evidence for price limits, corporate actions and factors, the daily      *)
(* status of a simulation, and what a pinned snapshot shows - each applied  *)
(* to any of its inputs, and the collection of the evidence they take.      *)
(*                                                                         *)
(* study is the input and the result of one application.  The steps have no *)
(* state of their own, so one application is all there is to see; it is     *)
(* kept apart from the collection to make the state space a sum.            *)
(***************************************************************************)
EXTENDS EvidenceCollection, Sequences

CONSTANTS
    Sessions,       \* the trading days there are, as dates
    BarInputs,      \* [group, claims, readiness]
    StockInputs,    \* [stock, calendar, session, st, suspended, previous]
    EtfInputs,      \* [listed, class, ratio, previous, session]
    LimitInputs,    \* [row, session, truth, prices, protected, required]
    ActionInputs,   \* [actions, factors, secondary, scope, previous, etf]
    StatusInputs,   \* [scope, open, research, status, evidence, etf]
    ViewInputs      \* [snapshot, symbols, first, last, asOf]

\* A view is asked about dates in order, of a snapshot whose dates are numbers;
\* another query is refused (adjusted_history).
ASSUME ViewInputsAssumption ==
    \A in \in ViewInputs :
        /\ {in.first, in.last, in.asOf} \subseteq Int
        /\ in.first <= in.last /\ in.last <= in.asOf
        /\ DOMAIN in.snapshot = {"bars", "factors", "actions", "listings", "open"}
        /\ \A k \in DOMAIN in.snapshot.bars : k[2] \in Int

\* Bars are some rows of sessions from a first to a last one, each row with at most one
\* value a field: prices of whole ticks, a suspension that is one or is none; claims are
\* about dates.
ASSUME BarInputsAssumption ==
    \A in \in BarInputs :
        /\ in.readiness \in {"research", "simulation"}
        /\ \A k \in DOMAIN in.group :
              LET rows == in.group[k] IN
              /\ k[2] \in Int
              /\ Len(rows) \in Nat /\ DOMAIN rows = 1..Len(rows)
              /\ \A n \in DOMAIN rows :
                    /\ \A v, w \in rows[n].price : v = w /\ v \in Int /\ v % 4 = 0
                    /\ rows[n].suspended \in {{}, {0}, {1}}
        /\ \E k, l \in DOMAIN in.group : \A m \in DOMAIN in.group : m[2] \in k[2]..l[2]
        /\ \A p \in DOMAIN in.claims :
              in.claims[p].first \in Int /\ in.claims[p].last \in Int

\* A stock is asked about on a trading day from 2007 on, with a calendar that has all of
\* them from some day on; no stock was listed on a board before the board was.
ASSUME StockInputsAssumption ==
    /\ \A s \in Sessions : s \in Nat /\ s >= 20070104
    /\ \A in \in StockInputs :
          /\ in.session \in Sessions /\ in.calendar \subseteq Sessions
          /\ \A s \in in.calendar, t \in Sessions : s <= t => t \in in.calendar
          /\ in.stock.listed \in Nat
          /\ in.stock.board = "star" => in.stock.listed >= 20190722
          /\ in.stock.board = "chinext" => in.stock.listed >= 20091030
          /\ in.suspended \in BOOLEAN
          /\ \A p, q \in in.previous : p = q /\ p \in Nat

\* An ETF is asked about from its listing on, and its close is more than a cent.
ASSUME EtfInputsAssumption ==
    \A in \in EtfInputs :
        /\ in.listed \in Nat /\ in.session \in Nat /\ in.listed <= in.session
        /\ in.class \in {"domestic", "cross_border", "same_day"} /\ in.ratio \in {10, 20}
        /\ in.previous \in Nat /\ in.previous > 10

\* The limits that are looked at are those of an active session under a rule that has
\* some, and finitely many backends report of it.
ASSUME LimitInputsAssumption ==
    \A in \in LimitInputs :
        /\ in.row.decision.state = "bounded" /\ in.row.up # {} /\ in.row.down # {}
        /\ IsFiniteSet(DOMAIN in.prices)

\* Announcements and factors are typed rows of dates and economics, and announced cash is
\* some (schema.py).
ASSUME ActionInputsAssumption ==
    \A in \in ActionInputs :
        /\ in.actions \subseteq
              [type : {"cash", "stock", "split", "rights"}, ex : Int, pay : SUBSET Int,
               listing : SUBSET Int, known : Int, cash : Int, shares : Int, rights : Int,
               price : Int, restructuring : BOOLEAN]
        /\ \A a \in in.actions : a.type = "cash" => a.cash > 0
        /\ in.factors \cup UNION in.secondary \subseteq
              [provider : STRING, effective : Int, known : Int, cash : Int, shares : Int,
               rights : Int, price : Int, multiplier : Int]

\* Of an instrument's status: sessions are numbers, a suspension is one or is none, and
\* no volume is negative (schema.py).
ASSUME StatusInputsAssumption ==
    \A in \in StatusInputs :
        /\ in.open \subseteq Int /\ {in.scope.first, in.scope.last} \subseteq Int
        /\ \A d \in DOMAIN in.status : in.status[d].suspended \in BOOLEAN
        /\ \A d \in DOMAIN in.research : in.research[d].volume \in Nat

Rec == INSTANCE Reconciliation
Rules == INSTANCE TradeRules
Etf == INSTANCE EtfRules
View == INSTANCE PointInTime
Events == INSTANCE CorporateActions
Status == INSTANCE SimulationStatus

VARIABLE study

Idle == [kind |-> "none"]

\* Studies start where one kind of collection would.
Fresh ==
    /\ study = Idle /\ kind = "factors" /\ observed = {}
    /\ \A c \in Collectors : ~Running(c)

Study(kindOfStudy, input, result) ==
    /\ study' = [kind |-> kindOfStudy, of |-> input, result |-> result]
    /\ UNCHANGED vars

StudyBars ==
    Fresh /\ \E in \in BarInputs :
        Study("bars", in, Rec!Reconciled(in.group, in.claims, in.readiness))

StudyStocks ==
    Fresh /\ \E in \in StockInputs :
        LET decision == IF in.st = {} THEN Rules!Refused
                        ELSE Rules!StockDecision(in.stock, in.calendar, in.session, in.st = {TRUE})
        IN  Study("stock", in,
                  Rules!Materialized([suspended |-> in.suspended, st |-> in.st,
                                      previous |-> in.previous], decision))

\* The limits of the day are those of the ratio the ETF really has.
StudyEtfs ==
    Fresh /\ \E in \in EtfInputs :
        LET rules == Etf!Built(in.listed, in.class, in.previous,
                               Rules!RoundedToTick(in.previous, 100 + in.ratio),
                               Rules!RoundedToTick(in.previous, 100 - in.ratio))
        IN  Study("etf", in,
                  [rules |-> rules, decision |-> Rules!EtfDecision(rules, in.session),
                   reusable |-> Etf!Reusable(rules, in.listed)])

StudyLimits ==
    Fresh /\ \E in \in LimitInputs :
        LET row == Rules!Excepted(in.row, in.session, in.prices, in.protected)
        IN  Study("limits", in,
                  [row |-> row, accepted |-> Rules!Audited(row, in.prices, in.required)])

StudyActions ==
    Fresh /\ \E in \in ActionInputs :
        Study("actions", in,
              Events!ReconciledActions(in.actions, in.factors, in.secondary, in.scope,
                                       in.previous, in.etf))

StudyStatus ==
    Fresh /\ \E in \in StatusInputs :
        Study("status", in,
              Status!SimulationBars(in.scope, in.open, in.research, in.status,
                                    in.evidence, in.etf))

\* What a snapshot answers at a point in time.
Seen(snapshot, in) ==
    [history |-> View!AdjustedHistory(snapshot, in.symbols, in.first, in.last, in.asOf),
     session |-> View!Session(snapshot, in.asOf),
     instruments |-> View!InstrumentsAsOf(snapshot, in.asOf),
     next |-> View!NextTradingDay(snapshot, in.asOf)]

StudyViews ==
    Fresh /\ \E in \in ViewInputs : Study("view", in, Seen(in.snapshot, in))

DataInit == Init /\ study = Idle

Collect == study = Idle /\ Next /\ UNCHANGED study

DataNext ==
    \/ Collect
    \/ StudyBars
    \/ StudyStocks
    \/ StudyEtfs
    \/ StudyLimits
    \/ StudyActions
    \/ StudyStatus
    \/ StudyViews

DataSpec == DataInit /\ [][DataNext]_<<vars, study>>

-----------------------------------------------------------------------------
(* Properties.  Each speaks of the result of a study in terms of its input. *)

\* A table of bars that is ready: two independent backends claim to be
\* complete over each of its keys; a price is what two backends report and no
\* other price is reported by as many, or is left out because every row that
\* knows says suspended; and in a simulation two backends say so of the
\* suspension (ReconciliationService.reconcile).
CanonicalBarsAreCorroborated ==
    study.kind = "bars" /\ study.result.ready =>
        LET group == study.of.group
            rows == study.result.rows
            Backends(k, field, v) ==
                {Rec!BackendGroup(group[k][n].provider) :
                    n \in {m \in DOMAIN group[k] : group[k][m][field] = {v}}}
            Reported(k) == UNION {group[k][n].price : n \in DOMAIN group[k]}
            Claiming == {p \in DOMAIN study.of.claims :
                LET claim == study.of.claims[p]
                IN  claim.complete /\ \A k \in DOMAIN group :
                        /\ claim.first <= k[2] /\ k[2] <= claim.last
                        /\ claim.instruments = {} \/ k[1] \in claim.instruments}
        IN  /\ Cardinality({Rec!BackendGroup(p) : p \in Claiming}) >= 2
            /\ \A k \in DOMAIN group :
                  IF rows[k].price = {}
                  THEN /\ \A n \in DOMAIN group[k] : 0 \notin group[k][n].suspended
                       /\ \E n \in DOMAIN group[k] : 1 \in group[k][n].suspended
                  ELSE \A v \in rows[k].price :
                          /\ Cardinality(Backends(k, "price", v)) >= 2
                          /\ \A w \in Reported(k) \ {v} :
                                Cardinality(Backends(k, "price", w))
                                    < Cardinality(Backends(k, "price", v))
            /\ study.of.readiness = "simulation" =>
                  \A k \in DOMAIN group : \E v \in rows[k].suspended :
                      Cardinality(Backends(k, "suspended", v)) >= 2

\* The rule of a stock is that of its very session, its ST state and the
\* true number of the session since the listing, though decisions are shared
\* between sessions and counted on a calendar that may start late; it was
\* known by then, and the bounds are the nearest ticks, half up.  A calendar
\* that starts within the first five sessions is set aside
\* (materialize_daily_trade_rules).
StockRuleIsDated ==
    LET in == study.of
        nth == Cardinality({s \in Sessions : in.stock.listed <= s /\ s <= in.session})
        decision == study.result.decision
        seen == nth > 5 \/ \E s \in in.calendar : s <= in.stock.listed
        Nearest(limits, percent) == \A p \in in.previous, u \in limits :
            100 * u - percent * p \in -49..50
    IN  seen /\ in.st # {} =>
            IF nth = 0 \/ in.session \notin in.calendar THEN decision.state = "refused"
            ELSE \/ /\ decision = Rules!ResolveStock(in.stock, in.session, in.st = {TRUE}, {nth})
                    /\ decision.known <= in.session
                    /\ Nearest(study.result.up, decision.upper)
                    /\ Nearest(study.result.down, decision.lower)
                    /\ (study.result.up = {}) = (in.suspended \/ decision.state = "unbounded")
                 \/ decision.state = "refused" /\ in.previous = {}

\* On every session of an ETF exactly one of its rules applies: the ratio the
\* limits of today show, but ten per cent before the reform of 2020, and a
\* sale on the day for the classes that have it, for cross-border funds since
\* 2015; each was known by then, and the report may be reused
\* (EtfRuleEvidenceBuilder.build, _etf_rule).
EtfRuleIsDated ==
    LET in == study.of
        rules == {r \in study.result.rules : /\ r.start <= in.session
                                             /\ \A e \in r.end : in.session <= e}
        ratio == IF in.ratio = 20 /\ in.session >= 20200824 THEN 20 ELSE 10
        delay == IF \/ in.class = "same_day"
                    \/ in.class = "cross_border" /\ in.session >= 20150119
                 THEN 0 ELSE 1
    IN  /\ study.result.reusable
        /\ Cardinality(rules) = 1
        /\ \A r \in rules :
              /\ r.ratio = ratio /\ r.delay = delay /\ r.known <= in.session
              /\ study.result.decision = Rules!Bounded(ratio, delay, r.known)

RulesAreDated ==
    CASE study.kind = "stock" -> StockRuleIsDated
      [] study.kind = "etf" -> EtfRuleIsDated
      [] OTHER -> TRUE

\* Where at most one backend errs and the audit accepts: the rule is lifted
\* from a session if and only if its true prices break it, never on the day
\* the increment is for, and on that day the bounds are the exchange's own
\* (apply_corroborated_historical_limit_exceptions, audit_provider_price_limits).
LimitsAreTrue ==
    study.kind = "limits" =>
        LET in == study.of
            Errs(b) == LET p == in.prices[b] IN
                \/ p.high # in.truth.high \/ p.low # in.truth.low
                \/ p.up \notin {{}, in.truth.up} \/ p.down \notin {{}, in.truth.down}
            broken == \/ \E u \in in.row.up : in.truth.high > u
                      \/ \E d \in in.row.down : in.truth.low < d
        IN  Cardinality({b \in DOMAIN in.prices : Errs(b)}) <= 1 /\ study.result.accepted =>
                /\ (study.result.row.decision.state = "unbounded") = (broken /\ ~in.protected)
                /\ in.protected /\ in.required =>
                      study.result.row.up = in.truth.up /\ study.result.row.down = in.truth.down

\* Accepted actions and factors say the same: a date of actions that change
\* what one holds has one factor, with their economics, though the market may
\* have taken up fewer rights than were offered, and no factor else; no
\* official action within the scope is lost unless all of its date are
\* restructurings no holder takes part in; and no economics of the first
\* source vanish - they are in a factor nearby, given up with a second
\* source's word, or a fund's own cash replaced them
\* (reconcile_corporate_action_factors).
ActionsAndFactorsAgree ==
    study.kind = "actions" /\ study.result.accepted =>
        LET in == study.of
            out == study.result
            Material(f) == f.cash # 0 \/ f.shares # 0 \/ f.rights # 0
            On(d) == {f \in out.factors : f.effective = d /\ Material(f)}
            Official(d) == {a \in in.actions : a.ex = d}
            Same(f, g) == /\ f.cash = g.cash /\ f.shares = g.shares
                          /\ f.rights = 0 <=> g.rights = 0
                          /\ f.rights # 0 => f.price = g.price
            Near(d, e) == d - e \in -31..31
        IN  /\ \A d \in {a.ex : a \in out.actions} :
                  LET e == Events!GroupEconomics({a \in out.actions : a.ex = d}) IN
                  /\ Cardinality(On(d)) = IF Material(e) THEN 1 ELSE 0
                  /\ \A f \in On(d) : Same(f, e) /\ f.rights <= e.rights
            /\ \A a \in in.actions : Events!InScope(in.scope, a.ex) =>
                  \/ \E b \in out.actions : b.type = a.type /\ b.ex = a.ex /\ Same(a, b)
                                              /\ b.rights = a.rights
                  \/ \A b \in Official(a.ex) : b.type = "stock" /\ b.restructuring
            /\ \A f \in in.factors : Material(f) /\ Events!InScope(in.scope, f.effective) =>
                  \/ \E g \in out.factors : Same(f, g) /\ Near(f.effective, g.effective)
                  \/ in.secondary # {} /\ f \in out.quarantined
                  \/ in.etf /\ \E g \in On(f.effective), a \in Official(f.effective) :
                        a.type = "cash" /\ g.cash = a.cash

\* Accepted daily bars have exactly the open sessions of the instrument's
\* life in the scope; one is active where the research has a price, unless it
\* has no volume and the ST source calls it suspended, and has that price and
\* a previous close; its ST state was observed on it or on the session
\* before; and a suspended one without a previous close of its own has the
\* last close before it (canonicalize_suspension_status,
\* reconcile_simulation_status, build_dense_simulation_bars).
DenseBarsAreSound ==
    study.kind = "status" /\ study.result.accepted =>
        LET in == study.of
            bars == study.result.bars
            life == {d \in in.open : /\ d \in in.scope.first..in.scope.last
                                     /\ d >= in.scope.listed
                                     /\ \A e \in in.scope.delisted : d <= e}
            Before(S, d) == {x \in S : x < d /\ \A y \in S : y < d => y <= x}
            NotTraded(d) == /\ in.research[d].volume = 0
                            /\ d \in DOMAIN in.evidence /\ in.evidence[d].suspended
            Observed(d) == IF d \in DOMAIN in.evidence THEN in.evidence[d].st ELSE {}
        IN  /\ DOMAIN bars = life
            /\ \A d \in life :
                  LET bar == bars[d] IN
                  /\ bar.status.suspended = (d \notin DOMAIN in.research \/ NotTraded(d))
                  /\ IF bar.status.suspended
                     THEN /\ bar.close = {} /\ bar.volume = 0
                          /\ d \notin DOMAIN in.status \/ in.status[d].previous = {} =>
                                bar.status.previous = {in.research[e].close :
                                    e \in Before(DOMAIN in.research, d)}
                     ELSE /\ bar.close = {in.research[d].close}
                          /\ bar.volume = in.research[d].volume
                          /\ bar.status.previous = in.status[d].previous
                          /\ bar.status.previous # {}
                          /\ IF in.etf THEN bar.status.st = {FALSE}
                             ELSE /\ bar.status.st # {}
                                  /\ bar.status.st \in {Observed(d)} \cup
                                        {Observed(e) : e \in Before(life, d)}

\* What is shown at a point in time does not depend on prices after it, on
\* factors that come into effect or are known after it, nor on actions
\* announced after it, and a history that ends earlier is the same history
\* cut off (PointInTimeMarketView, CanonicalMarketData.adjusted_history).
NoLookAhead ==
    study.kind = "view" =>
        LET in == study.of
            all == in.snapshot
            past == [all EXCEPT
                !.bars = [k \in {x \in DOMAIN all.bars : x[2] <= in.asOf} |-> all.bars[k]],
                !.factors = {f \in all.factors : f.effective <= in.asOf /\ f.known <= in.asOf},
                !.actions = {a \in all.actions : a.known <= in.asOf}]
            full == View!AdjustedHistory(all, in.symbols, in.first, in.asOf, in.asOf)
        IN  /\ study.result = Seen(past, in)
            /\ \A k \in DOMAIN study.result.history : study.result.history[k] = full[k]
=============================================================================
