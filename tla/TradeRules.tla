----------------------------- MODULE TradeRules -----------------------------
(***************************************************************************)
(* The daily trading rules of fundlab/marketdata/trade_rules.py: the dated  *)
(* decision about a stock and how decisions are cached, the one explicit    *)
(* rule of an ETF session, the price limits rounded to ticks, and how       *)
(* independent sources correct and audit them.                              *)
(*                                                                         *)
(* Dates are numbers yyyymmdd, prices are ticks, multipliers are per cent;  *)
(* {} is what is missing.  Rule names and lineage are left out: a decision  *)
(* is its state, its multipliers, its delay and the day it is known from.   *)
(***************************************************************************)
EXTENDS Integers, FiniteSets

Earliest(S) == CHOOSE x \in S : \A y \in S : x <= y

Bounded(ratio, delay, known) ==
    [state |-> "bounded", upper |-> 100 + ratio, lower |-> 100 - ratio,
     delay |-> delay, known |-> known]
Unbounded(known) ==
    [state |-> "unbounded", upper |-> 0, lower |-> 0, delay |-> 1, known |-> known]
SuspendedUnknown ==
    [state |-> "unknown", upper |-> 0, lower |-> 0, delay |-> 1, known |-> 20060701]
Refused == [state |-> "refused", upper |-> 0, lower |-> 0, delay |-> 0, known |-> 0]

-----------------------------------------------------------------------------
(* Stocks.  A stock is [board, listed, unreformed]: unreformed is a name of *)
(* the Shanghai exchange that starts with S and not with ST.                *)

RegistrationStart(board) ==
    CASE board = "star" -> 20190722
      [] board = "chinext" -> 20200824
      [] OTHER -> 20230410

\* The dated rule; ordinal counts the sessions since the listing, {} when
\* the calendar does not have the session.
ResolveStock(stock, session, st, ordinal) ==
    LET nth == CHOOSE n \in ordinal : TRUE
        registered == stock.listed >= RegistrationStart(stock.board)
    IN  IF ordinal = {} THEN Refused
        ELSE IF registered /\ nth <= 5 THEN Unbounded(RegistrationStart(stock.board))
        ELSE IF nth = 1 /\ stock.listed >= 20140101
             THEN [Bounded(0, 1, 20140101) EXCEPT !.upper = 144, !.lower = 64]
        ELSE IF nth = 1 THEN Unbounded(20060701)
        ELSE IF stock.unreformed THEN Bounded(5, 1, 20070104)
        ELSE CASE stock.board = "star" -> Bounded(20, 1, 20190722)
               [] stock.board = "chinext" ->
                     IF session >= 20200824 THEN Bounded(20, 1, 20200824)
                     ELSE IF st THEN Bounded(5, 1, 20060701) ELSE Bounded(10, 1, 20091030)
               [] OTHER ->
                     IF ~st THEN Bounded(10, 1, 20060701)
                     ELSE IF session < 20260706 THEN Bounded(5, 1, 20060701)
                     ELSE Bounded(10, 1, 20260424)

\* The number of a session since the listing; a calendar that starts after
\* the listing says six from its first session on.
ListingOrdinal(stock, sessions, session) ==
    IF session \notin sessions THEN {}
    ELSE IF stock.listed < Earliest(sessions) THEN {6}
    ELSE IF session < stock.listed THEN {}
    ELSE {Cardinality({s \in sessions : stock.listed <= s /\ s <= session})}

\* A mutant: the second change of the rules is forgotten.
OneSessionBucket(session) == IF session >= 20200824 THEN 1 ELSE 0

\* What is remembered of a session when its decision is cached, and the
\* session that stands for all the others.
SessionBucket(session) ==
    IF session >= 20260706 THEN 2 ELSE IF session >= 20200824 THEN 1 ELSE 0
Representative(bucket) == CASE bucket = 0 -> 20000101 [] bucket = 1 -> 20200824
                            [] OTHER -> 20260706
OrdinalBucket(ordinal) == {IF n > 6 THEN 6 ELSE n : n \in ordinal}

\* The decision about a stock, from the bucket of its session.
StockDecision(stock, sessions, session, st) ==
    ResolveStock(stock, Representative(SessionBucket(session)), st,
                 OrdinalBucket(ListingOrdinal(stock, sessions, session)))

-----------------------------------------------------------------------------
(* ETFs.  rules is the set of the dated rules of one of them; an end of {}  *)
(* is open.                                                                 *)

Prepared(rule) ==
    /\ rule.end = {} \/ \A e \in rule.end : rule.start <= e
    /\ rule.known <= rule.start
    /\ rule.delay >= 0
    /\ rule.ratio \in 1..99

Applies(rule, session) ==
    rule.start <= session /\ \A e \in rule.end : session <= e

\* Exactly one explicit rule has the session.
EtfDecision(rules, session) ==
    LET matches == {r \in rules : Applies(r, session)}
        rule == CHOOSE r \in matches : TRUE
    IN  IF (\A r \in rules : Prepared(r)) /\ Cardinality(matches) = 1
        THEN Bounded(rule.ratio, rule.delay, rule.known) ELSE Refused

-----------------------------------------------------------------------------
(* Limits.                                                                 *)

\* Half up to whole ticks: (2 u n + d) div 2 d with percent = n / d.
RoundedToTick(units, percent) == (2 * units * percent + 100) \div 200

\* One bar with its rule.  bar is [session, suspended, st, previous]; st and
\* previous may be {}.  A suspended bar whose ST state is unknown executes
\* nothing; an active one is refused, and so is one without previous close.
Materialized(bar, decision) ==
    LET up == {RoundedToTick(p, decision.upper) : p \in bar.previous}
        down == {RoundedToTick(p, decision.lower) : p \in bar.previous}
        bounds == [decision |-> decision, up |-> up, down |-> down]
        none == [bounds EXCEPT !.up = {}, !.down = {}]
    IN  IF bar.st = {}
        THEN [none EXCEPT !.decision = IF bar.suspended THEN SuspendedUnknown ELSE Refused]
        ELSE IF decision.state = "bounded" /\ ~bar.suspended
        THEN IF bar.previous = {} THEN [none EXCEPT !.decision = Refused] ELSE bounds
        ELSE none

-----------------------------------------------------------------------------
(* Evidence of the limits.  prices maps the backends to what they report of *)
(* one active session: [high, low, up, down]; a limit may be {}.            *)

Outside(price, row) ==
    (\E u \in row.up : price.high > u) \/ (\E d \in row.down : price.low < d)

\* A mutant: one source is enough for an exception.
RejectedByOne(row, prices, protected) ==
    /\ row.decision.state = "bounded" /\ ~protected
    /\ \E b \in DOMAIN prices : Outside(prices[b], row)

\* Two backends saw prices outside the bounds of a session that is not the
\* one the increment is for.
IsException(row, prices, protected) ==
    /\ row.decision.state = "bounded" /\ ~protected
    /\ Cardinality({b \in DOMAIN prices : Outside(prices[b], row)}) >= 2

Excepted(row, session, prices, protected) ==
    IF IsException(row, prices, protected)
    THEN [decision |-> Unbounded(session), up |-> {}, down |-> {}]
    ELSE row

\* The audit: two backends inside the bounds, and on the day asked for two
\* that report the very bounds.
Audited(row, prices, required) ==
    row.decision.state = "bounded" =>
        /\ Cardinality({b \in DOMAIN prices : ~Outside(prices[b], row)}) >= 2
        /\ required => Cardinality({b \in DOMAIN prices :
                           prices[b].up = row.up /\ prices[b].down = row.down}) >= 2

-----------------------------------------------------------------------------
(* Quantities.                                                             *)

\* What an order may be: STAR stocks from 200 by one, others by their lot.
OrderQuantity(stock, lot, step) ==
    IF stock.board = "star" THEN [minimum |-> 200, step |-> 1]
    ELSE IF (\A n \in lot : n <= 0) \/ (\E n \in step : n <= 0)
    THEN [minimum |-> 0, step |-> 0]
    ELSE [minimum |-> CHOOSE n \in lot : TRUE,
          step |-> CHOOSE n \in (IF step = {} THEN lot ELSE step) : TRUE]
=============================================================================
