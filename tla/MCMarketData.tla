--------------------------- MODULE MCMarketData ---------------------------
(* Small inputs of every step of the preparation of market data.           *)
EXTENDS MarketData, TLC

CONSTANTS c1, c2, i1, i2, i3, x1, x2

TwoBatches == <<{i1, i2}, {i3}>>
Symmetry == Permutations({c1, c2}) \cup Permutations({i1, i2})

-----------------------------------------------------------------------------
(* Bars: up to four observations of one session, of two prices a tick       *)
(* apart, in any order; and claims about two sessions all agree on.         *)

Providers == {"tickflow", "baostock", "xtquant", "xtquant-legacy-import"}
Orders(n) == {s \in [1..n -> Providers] : \A a, b \in 1..n : a # b => s[a] # s[b]}

Row(provider, price, suspended) ==
    [provider |-> provider, price |-> price, volume |-> {0}, previous_close |-> {0},
     suspended |-> suspended]

RowsOf(n, prices, flags) ==
    {[m \in 1..n |-> Row(order[m], p[m], f[m])] :
        order \in Orders(n), p \in [1..n -> prices], f \in [1..n -> flags]}

Claim(complete, first, last, instruments) ==
    [complete |-> complete, first |-> first, last |-> last, instruments |-> instruments]
Everything == [p \in Providers |-> Claim(TRUE, 1, 2, {})]

DisputedBars ==
    {[group |-> (<<x1, 1>> :> rows), claims |-> Everything, readiness |-> readiness] :
        rows \in RowsOf(2, {{}, {0}, {4}}, {{}, {0}, {1}})
                   \cup RowsOf(3, {{}, {0}, {4}}, {{}, {1}})
                   \cup RowsOf(3, {{0}, {4}}, {{0}, {1}})
                   \cup RowsOf(4, {{0}, {4}}, {{0}}),
        readiness \in {"research", "simulation"}}

ClaimedBars ==
    LET agreed == <<Row("xtquant", {0}, {0}), Row("xtquant-legacy-import", {0}, {0}),
                    Row("baostock", {0}, {0})>>
        group == (<<x1, 1>> :> agreed) @@ (<<x2, 2>> :> agreed)
        some == {Claim(complete, first, last, instruments) : complete \in BOOLEAN,
                    first \in {1, 2}, last \in {1, 2}, instruments \in {{}, {x1}, {x1, x2}}}
        whole == Claim(TRUE, 1, 2, {x1, x2})
    IN  {[group |-> group, readiness |-> "simulation",
          claims |-> ("xtquant" :> a) @@ ("xtquant-legacy-import" :> b) @@ ("baostock" :> c)] :
            a \in some, b \in {whole, Claim(FALSE, 1, 2, {})}, c \in some}

MCBarInputs == DisputedBars \cup ClaimedBars

-----------------------------------------------------------------------------
(* Rules: sessions on both sides of every reform.                          *)

MCSessions ==
    {20131231, 20140102, 20190722, 20200821, 20200824, 20200825, 20200826, 20200827,
     20200828, 20200831, 20230410, 20260703, 20260706}

MCStockInputs ==
    {[stock |-> [board |-> board, listed |-> listed, unreformed |-> unreformed],
      calendar |-> {s \in MCSessions : s >= first}, session |-> session, st |-> st,
      suspended |-> suspended, previous |-> previous] :
        board \in {"main", "star", "chinext"},
        listed \in {20100104, 20131231, 20190722, 20200821, 20200824},
        unreformed \in BOOLEAN, first \in {20131231, 20200825, 20230410},
        session \in MCSessions, st \in {{FALSE}, {TRUE}},
        suspended \in {FALSE}, previous \in {{1005}}}
      \cup
    {[stock |-> [board |-> "main", listed |-> 20131231, unreformed |-> FALSE],
      calendar |-> MCSessions, session |-> session, st |-> st,
      suspended |-> suspended, previous |-> previous] :
        session \in {20131231, 20140102, 20260706}, st \in {{}, {FALSE}, {TRUE}},
        suspended \in BOOLEAN, previous \in {{}, {5}, {15}, {999}, {1000}}}

\* No STAR stock was listed before the board was.
LegalStocks == {in \in MCStockInputs : in.stock.board = "star" => in.stock.listed >= 20190722}

MCEtfInputs ==
    {in \in [listed : {20100104, 20150119, 20190722, 20200824, 20200825},
             class : {"domestic", "cross_border", "same_day"}, ratio : {10, 20},
             previous : {20, 21, 999, 1005},
             session : MCSessions \cup {20150116, 20150119}] : in.listed <= in.session}

\* A close of 100 ticks; the rule may be wrong, and the backends too.
Bar(high, low, limits) == [high |-> high, low |-> low, up |-> limits[1], down |-> limits[2]]
Exchange == <<{110}, {90}>>
Unstated == <<{}, {}>>

MCLimitInputs ==
    {[row |-> [decision |-> [state |-> "bounded", upper |-> up, lower |-> 90, delay |-> 1,
                             known |-> 20060701], up |-> {up}, down |-> {90}],
      session |-> 20200824, truth |-> Bar(high, low, Exchange), protected |-> protected,
      required |-> protected,
      prices |-> [b \in backends |-> IF b = "tickflow" THEN wrong
                                     ELSE Bar(high, low, limits[b])]] :
        up \in {110, 120}, high \in {100, 110, 115}, low \in {85, 90, 100},
        protected \in BOOLEAN,
        backends \in {{"tickflow", "baostock"}, {"tickflow", "baostock", "xtquant"}},
        wrong \in {Bar(h, l, x) : h \in {100, 115}, l \in {85, 100},
                                  x \in {Exchange, Unstated, <<{120}, {90}>>}},
        limits \in [{"baostock", "xtquant"} -> {Exchange, Unstated}]}

-----------------------------------------------------------------------------
(* Corporate actions about a close of 100.                                 *)

Action(type, ex, cash, shares, restructuring) ==
    [type |-> type, ex |-> ex, pay |-> {}, listing |-> {}, known |-> ex - 5, cash |-> cash,
     shares |-> shares, rights |-> 0, price |-> 0, restructuring |-> restructuring]
Factor(provider, effective, cash, shares, multiplier) ==
    [provider |-> provider, effective |-> effective, known |-> effective, cash |-> cash,
     shares |-> shares, rights |-> 0, price |-> 0, multiplier |-> multiplier]

RightsAction(ex, rights, price) ==
    [Action("rights", ex, 0, 0, FALSE) EXCEPT !.rights = rights, !.price = price]
RightsFactor(effective, rights, price, multiplier) ==
    [Factor("xtquant", effective, 0, 0, multiplier) EXCEPT !.rights = rights, !.price = price]

OfficialActions ==
    {Action("cash", 40, 5, 0, FALSE), Action("cash", 45, 5, 0, FALSE),
     Action("stock", 40, 0, 50, FALSE), Action("stock", 40, 0, 50, TRUE),
     Action("stock", 100, 0, 50, TRUE), Action("cash", 200, 5, 0, FALSE),
     RightsAction(40, 20, 50)}

PriceFactors ==
    {Factor("xtquant", 40, 5, 0, 950), Factor("xtquant", 42, 5, 0, 950),
     Factor("xtquant", 38, 5, 0, 950), Factor("xtquant", 60, 5, 50, 633),
     Factor("xtquant", 40, 3, 0, 970), Factor("xtquant", 41, 0, 0, 1001),
     Factor("xtquant", 105, 0, 50, 666), Factor("xtquant", 105, 0, 30, 769),
     Factor("xtquant", 110, 0, -100, 666), RightsFactor(40, 20, 50, 916),
     RightsFactor(43, 10, 50, 954), RightsFactor(39, 10, 40, 945)}

SecondFactors ==
    {Factor("sina", 40, 0, 0, 950), Factor("sina", 102, 0, 0, 770),
     Factor("sina", 40, 0, 0, 633), Factor("tencent", 108, 0, 0, 666)}

AtMost(S, n) == {T \in SUBSET S : Cardinality(T) <= n}

MCActionInputs ==
    {[actions |-> actions, factors |-> factors, secondary |-> secondary,
      scope |-> [listed |-> 10, delisted |-> {}, first |-> 1, last |-> 150],
      previous |-> {100}, etf |-> etf] :
        actions \in AtMost(OfficialActions, 2), factors \in AtMost(PriceFactors, 2),
        secondary \in {{}} \cup {{S} : S \in AtMost(SecondFactors, 1)
                                               \cup {SecondFactors}},
        etf \in BOOLEAN}

-----------------------------------------------------------------------------
(* Status of one instrument on four days.                                  *)

Days4 == 1..4

StatusRows == {[suspended |-> FALSE, st |-> {}, previous |-> {5}],
               [suspended |-> FALSE, st |-> {}, previous |-> {}],
               [suspended |-> TRUE, st |-> {}, previous |-> {}],
               [suspended |-> TRUE, st |-> {}, previous |-> {6}]}

\* The terminal's rows: a trade where there is a price, but any row, if any,
\* on the second day.
StatusOf(research, odd) ==
    [d \in IF odd = {} THEN DOMAIN research ELSE DOMAIN research \cup {2} |->
        IF d = 2 /\ odd # {} THEN CHOOSE row \in odd : TRUE
        ELSE [suspended |-> FALSE, st |-> {}, previous |-> {5}]]

Prices == {[d \in T |-> [close |-> 10 + d, volume |-> IF d \in Z THEN 0 ELSE 7]] :
              T \in SUBSET Days4, Z \in {{}, {3}, {4}}}

Evidences ==
    {[d \in T |-> [suspended |-> d \in Z, st |-> {d >= turn}]] :
        T \in SUBSET Days4, Z \in {{}, {3}, {4}}, turn \in {3, 5}}
      \cup {[d \in Days4 |-> [suspended |-> FALSE, st |-> {}]]}

MCStatusInputs ==
    {[scope |-> scope, open |-> {1, 2, 3, 4, 6}, research |-> research,
      status |-> StatusOf(research, odd), evidence |-> evidence, etf |-> etf] :
        scope \in {[listed |-> 1, delisted |-> {}, first |-> 1, last |-> 4],
                   [listed |-> 2, delisted |-> {4}, first |-> 1, last |-> 6]},
        research \in Prices, odd \in {{}} \cup {{row} : row \in StatusRows},
        evidence \in Evidences, etf \in BOOLEAN}

-----------------------------------------------------------------------------
(* Snapshots of five days.                                                 *)

SnapshotFactors ==
    {[id |-> 1, instrument |-> x1, effective |-> 3, known |-> 2, multiplier |-> 95],
     [id |-> 2, instrument |-> x1, effective |-> 3, known |-> 5, multiplier |-> 99],
     [id |-> 3, instrument |-> x2, effective |-> 4, known |-> 4, multiplier |-> 50]}

SnapshotActions ==
    {[id |-> 1, record |-> 2, ex |-> 3, pay |-> 4, listing |-> 5, known |-> 2],
     [id |-> 2, record |-> 3, ex |-> 3, pay |-> 5, listing |-> 5, known |-> 4]}

MCViewInputs ==
    {in \in {[symbols |-> symbols, first |-> first, last |-> last, asOf |-> asOf,
              snapshot |-> [bars |-> [k \in {x1, x2} \X (1..5) |-> 10 * k[2]],
                            factors |-> factors, actions |-> actions,
                            listings |-> (x1 :> <<1, 9>>) @@ (x2 :> <<3, 4>>),
                            open |-> 1..5]] :
                symbols \in {{x1}, {x1, x2}}, first \in 1..5, last \in 1..5, asOf \in 1..5,
                factors \in SUBSET SnapshotFactors, actions \in SUBSET SnapshotActions} :
        in.first <= in.last /\ in.last <= in.asOf}
=============================================================================
