---------------------------- MODULE PointInTime ----------------------------
(***************************************************************************)
(* What a pinned snapshot answers at a simulated point in time:             *)
(* CanonicalMarketData and PointInTimeMarketView                            *)
(* (fundlab/marketdata/portal.py) and derive_ratio_adjusted_bars            *)
(* (fundlab/marketdata/adjustments.py).                                     *)
(*                                                                         *)
(* A snapshot is a record: bars is a function on keys <<instrument,         *)
(* session>> to raw prices, factors a set of [id, instrument, effective,    *)
(* known, multiplier], actions a set of [id, record, ex, pay, listing,      *)
(* known], listings a function of instruments to <<listed, delisted>>, and  *)
(* open the sessions.  Multipliers are per cent, and a price is kept with   *)
(* its multipliers instead of multiplied out.                               *)
(***************************************************************************)
EXTENDS Integers, FiniteSets

Between(first, last, d) == first <= d /\ d <= last

Window(bars, symbols, first, last) ==
    [k \in {x \in DOMAIN bars : x[1] \in symbols /\ Between(first, last, x[2])} |-> bars[k]]

\* The factors of a query: those of the instruments effective in its dates.
QueriedFactors(factors, symbols, first, last) ==
    {f \in factors : f.instrument \in symbols /\ Between(first, last, f.effective)}

\* A mutant: a factor counts from its effective date on, known or not.
EffectiveFactors(factors, asOf) == {f \in factors : f.effective <= asOf}

\* Effective and known by then.
VisibleFactors(factors, asOf) ==
    {f \in factors : f.effective <= asOf /\ f.known <= asOf}

\* Each price with the factors of its instrument that come into effect
\* after its session.
Adjusted(raw, factors, asOf) ==
    [k \in DOMAIN raw |->
        [price |-> raw[k],
         factors |-> {f \in VisibleFactors(factors, asOf) :
                         f.instrument = k[1] /\ ~(f.effective <= k[2])}]]

\* A query is refused unless first <= last <= asOf.
AdjustedHistory(snapshot, symbols, first, last, asOf) ==
    Adjusted(Window(snapshot.bars, symbols, first, last),
             QueriedFactors(snapshot.factors, symbols, first, asOf), asOf)

\* What a session shows: its raw bars, and of the actions known by then those
\* that have one of their dates on it.
Session(snapshot, session) ==
    LET known == {a \in snapshot.actions : a.known <= session}
    IN  [bars |-> Window(snapshot.bars, DOMAIN snapshot.listings, session, session),
         record |-> {a \in known : a.record = session},
         ex |-> {a \in known : a.ex = session},
         pay |-> {a \in known : a.pay = session},
         listing |-> {a \in known : a.listing = session}]

InstrumentsAsOf(snapshot, asOf) ==
    {i \in DOMAIN snapshot.listings :
        snapshot.listings[i][1] <= asOf /\ asOf <= snapshot.listings[i][2]}

TradingDays(snapshot, first, last) == {d \in snapshot.open : Between(first, last, d)}

NextTradingDay(snapshot, day) ==
    LET later == {d \in snapshot.open : ~(d <= day)}
    IN  {d \in later : \A e \in later : d <= e}
=============================================================================
