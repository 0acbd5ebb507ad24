---------------------------- MODULE TradingKernel ----------------------------
(***************************************************************************)
(* TradingKernel.process_session and submit_intent                         *)
(* (fundlab/trading/kernel.py) over the portfolio of fundlab/trading/      *)
(* state.py: the sessions of one account, one after the other, with        *)
(* whatever bars the market brings and whatever the strategy asks for.     *)
(*                                                                         *)
(* Money is in cents and a price is a number of cents; where the code      *)
(* rounds to cents, ticks or whole shares, so does the model.  A session   *)
(* is processed step by step: one action for each corporate action, one    *)
(* for each order, one for the close.  A ValueError ends the run.          *)
(***************************************************************************)
EXTENDS Integers, Sequences, FiniteSets, FiniteSetsExt, Functions

CONSTANTS
    Instruments,
    LastDay,      \* the exchange's sessions are 1..LastDay
    Snapshots,    \* the sessions at which a snapshot's calendar may end
    MaxGap,       \* how many sessions a daily call may skip
    Actions,      \* the corporate actions, a sequence of Action records
    Bars,         \* the bars an instrument may have in a session
    Intents,      \* the target weights a strategy may ask for, in tenths
    InitialCash,
    Policy,       \* participation (num / den), slippage, partial, block
    Risk,         \* maximum position weight and minimum cash, in tenths
    Fee,          \* commission rate and minimum, stamp duty and levy rates,
                  \* in ten-thousandths
    Digests       \* lot_id, a digest of what the lot came from: an order of
                  \* the lots, which has nothing to do with time

Days == 1..LastDay
ActionIds == DOMAIN Actions

\* No bar, a suspended session, or a traded one.  up and down are the price
\* limits, 0 where the session is unbounded.
Bar == [state : {"missing", "suspended"}]
       \cup [state : {"traded"}, open : Nat, high : Nat, low : Nat, close : Nat,
             up : Nat, down : Nat, volume : Nat, lot : Nat \ {0},
             step : Nat \ {0}, odd : BOOLEAN, delay : Nat]

\* share is the ratio of new shares or the multiplier of a split, as a pair;
\* cash the cents per share.  Dates that do not apply are 0.
Action == [instrument : Instruments,
           type : {"cash_dividend", "stock_dividend", "split", "rights_issue"},
           record : Days, ex : Days, pay : 0..LastDay, listing : 0..LastDay,
           cash : Nat, share : Nat \X (Nat \ {0})]

ASSUME CalendarAssumption ==
    /\ LastDay \in Nat
    /\ Snapshots \subseteq Days
    /\ MaxGap \in Nat
ASSUME MarketAssumption ==
    /\ Bars \subseteq Bar
    /\ Actions \in Seq(Action)
    \* what schema.py requires of a simulation-ready snapshot
    /\ \A b \in Bars : b.state = "traded" =>
         0 < b.low /\ {b.open, b.close} \subseteq b.low..b.high
    /\ \A a \in ActionIds :
         /\ Actions[a].record <= Actions[a].ex
         /\ Actions[a].type = "cash_dividend" => Actions[a].ex <= Actions[a].pay
         /\ Actions[a].type = "stock_dividend" =>
              Actions[a].listing = 0 \/ Actions[a].ex <= Actions[a].listing
         /\ Actions[a].type = "split" =>
              Actions[a].share[1] > 0 /\ Actions[a].listing = Actions[a].ex
ASSUME InitialCashAssumption == InitialCash \in Nat \ {0}
ASSUME PolicyAssumption ==
    /\ Policy \in [num : Nat \ {0}, den : Nat \ {0}, base : Nat, impact : Nat,
                   partial : BOOLEAN, block : BOOLEAN]
    /\ Policy.num <= Policy.den
    /\ Risk \in [maximum : 1..10, minimum : 0..9]
    /\ Fee \in [rate : Nat, minimum : Nat, levy : Nat, stamp : Nat]
ASSUME IntentsAssumption ==
    /\ IsFiniteSet(Instruments)
    /\ \A w \in Intents : DOMAIN w \subseteq Instruments /\ w \in [DOMAIN w -> Nat]
ASSUME DigestsAssumption ==
    /\ Digests \in [Days \X ({0} \cup ActionIds) -> Int]
    /\ \A k, m \in DOMAIN Digests : Digests[k] = Digests[m] => k = m

VARIABLES
    day,          \* the session in progress, or the last one processed
    horizon,      \* the last session of the snapshot's calendar
    pc,           \* where process_session or the loop of _run stands
    bars,         \* the session's bars
    todo,         \* corporate actions still to apply at this open
    due,          \* orders still to execute in this session
    cash, lots, orders, entitlements, prices, realized, dividends, incomplete,
    held          \* the quantities in the checkpoint of every session processed

market == <<day, horizon, bars>>
money == <<cash, realized, dividends>>
vars == <<day, horizon, pc, bars, todo, due, cash, lots, orders, entitlements,
          prices, realized, dividends, incomplete, held>>

-----------------------------------------------------------------------------
(* Arithmetic.                                                             *)

\* money(): ROUND_HALF_UP to cents.
RoundDiv(a, b) == (2 * a + b) \div (2 * b)
CeilDiv(a, b) == (a + b - 1) \div b

Lesser(a, b) == IF a <= b THEN a ELSE b
Greater(a, b) == IF a <= b THEN b ELSE a

\* A mutant: the step is forgotten.
LotFloor(n, lot, step) == IF n < lot THEN 0 ELSE n

\* _round_down_normal_quantity and _is_normal_quantity.
NormalFloor(n, lot, step) ==
    IF n < lot THEN 0 ELSE lot + ((n - lot) \div step) * step

IsNormal(n, lot, step) == n >= lot /\ (n - lot) % step = 0

-----------------------------------------------------------------------------
(* The portfolio.                                                          *)

\* date.max: no session of any calendar.
Never == LastDay + 1

\* source is 0 for a lot that was bought, else the action that distributed
\* it; with the instrument and the session it names the lot.
Lot == [instrument : Instruments, acquired : Days, source : {0} \cup ActionIds,
        quantity : Nat \ {0}, sellable : Days \cup {Never}, cost : Nat]

Order == [instrument : Instruments, side : {"buy", "sell"}, created : Days,
          execution : Days, quantity : Nat \ {0}]

\* adjusted = 0 until the ex-date has moved cost to the new shares.
Entitlement == [action : ActionIds, quantity : Nat, distributed : Nat,
                cost : Nat, adjusted : 0..LastDay]

LotsOf(i) == {l \in lots : l.instrument = i}
QuantityOf(S) == SumFunction([l \in S |-> l.quantity])
CostOf(S) == SumFunction([l \in S |-> l.cost])

Quantity(i) == QuantityOf(LotsOf(i))

\* A mutant: a lot settles at once.
AllLots(i) == LotsOf(i)

\* The lots that sellable_quantity counts and _apply_sell takes from.
SettledLots(i) == {l \in LotsOf(i) : l.sellable <= day}
Sellable(i) == QuantityOf(SettledLots(i))
EntitlementOf(a) == {e \in entitlements : e.action = a}

LotId(l) == Digests[l.acquired, l.source]

\* The order in which lots are sold, and that in which a split sees them.
SoldBefore(l, m) ==
    \/ l.sellable < m.sellable
    \/ l.sellable = m.sellable /\ l.acquired < m.acquired
    \/ l.sellable = m.sellable /\ l.acquired = m.acquired /\ LotId(l) < LotId(m)

\* A mutant: what the rounding leaves is lost.
RoundedShares(S, total, weight, whole, last) ==
    [l \in S |-> IF whole = 0 THEN 0 ELSE RoundDiv(total * weight[l], whole)]

\* total split over the lots of S in proportion to weight[l] / whole, each
\* part rounded to cents and the last lot taking what is left.
Shares(S, total, weight, whole, last) ==
    LET part(l) == IF whole = 0 THEN 0 ELSE RoundDiv(total * weight[l], whole)
    IN  [l \in S |-> IF l = last THEN total - SumFunction([m \in S \ {l} |-> part(m)])
                                 ELSE part(l)]

\* _price_limits, _fill_price and FeeSchedule.calculate.
Within(price, b) ==
    LET p == IF b.up = 0 THEN price ELSE Lesser(price, b.up)
    IN  IF b.down = 0 THEN p ELSE Greater(p, b.down)

FillPrice(side, n, b) ==
    LET v == b.volume * Policy.num
        used == Lesser(n * Policy.den, v)
        whole == 10000 * v * v
        slip == Policy.base * v * v + Policy.impact * used * used
    IN  IF side = "buy"
        THEN Within(Lesser(CeilDiv(b.open * (whole + slip), whole), b.high), b)
        ELSE Within(Greater((b.open * (whole - slip)) \div whole, b.low), b)

Fees(side, amount) ==
    Greater(RoundDiv(amount * Fee.rate, 10000), Fee.minimum)
    + RoundDiv(amount * Fee.levy, 10000)
    + (IF side = "sell" THEN RoundDiv(amount * Fee.stamp, 10000) ELSE 0)

BuyTotal(n, b) ==
    LET amount == FillPrice("buy", n, b) * n IN amount + Fees("buy", amount)

\* Slot 0 is no order, slot 1 the minimum declaration, and each later one a step.
Slot(b, slot) == b.lot + (slot - 1) * b.step

\* Mutants: fees and impact are left out; the highest slot is left out.
AffordableAtMinimum(maximum, b) ==
    NormalFloor(Lesser(maximum, cash \div FillPrice("buy", b.lot, b)), b.lot, b.step)

AffordableBelowMaximum(maximum, b) ==
    LET slots == 1..(maximum - b.lot) \div b.step
        paid == {n \in slots : BuyTotal(Slot(b, n), b) <= cash}
    IN  IF maximum < b.lot \/ paid = {} THEN 0 ELSE Slot(b, Max(paid))

\* _affordable_buy_quantity: a binary search for the largest slot that the
\* cash pays for.
AffordableSlot(b, largest) ==
    LET search[range \in (0..largest) \X (0..largest)] ==
            LET low == range[1]
                high == range[2]
                middle == (low + high + 1) \div 2
            IN  IF low >= high THEN low
                ELSE IF BuyTotal(Slot(b, middle), b) <= cash
                     THEN search[<<middle, high>>]
                     ELSE search[<<low, middle - 1>>]
    IN  search[<<0, largest>>]

AffordableBuyQuantity(maximum, b) ==
    LET slot == AffordableSlot(b, 1 + (maximum - b.lot) \div b.step)
    IN  IF maximum < b.lot \/ slot = 0 THEN 0 ELSE Slot(b, slot)

\* The part of each of the lots S that a sale of n takes, the earliest first.
TakenFrom(S, n) ==
    LET before(l) == QuantityOf({m \in S : SoldBefore(m, l)})
    IN  [l \in S |-> Lesser(l.quantity, Greater(0, n - before(l)))]

\* The cost that goes with m shares of lot l.
CostTaken(l, m) == IF m = l.quantity THEN l.cost ELSE RoundDiv(l.cost * m, l.quantity)

-----------------------------------------------------------------------------
(* The open: corporate actions.                                            *)

Raised == {"buy_exceeds_cash", "sell_exceeds_settled", "cash_negative",
           "cost_negative"}

\* The run fails, and what it had not yet committed of the session with it.
Raise(reason) ==
    /\ pc' = reason
    /\ UNCHANGED <<market, money, lots, orders, entitlements, prices,
                   incomplete, held, todo, due>>

\* A mutant: a reason is not kept.
Forget(reasons) == incomplete' = incomplete

\* _mark_incomplete.
Mark(reasons) == incomplete' = incomplete \cup reasons
Where(reason, holds) == IF holds THEN {reason} ELSE {}

\* The dates of the corporate actions.  Of those that fall on a session all the
\* ex-dates come first, then the payments, then the listings, each in the order of
\* the actions.
Dates == [at : {"ex", "pay", "listing"}, action : ActionIds]
DateOf(t) == LET a == Actions[t.action] IN
    CASE t.at = "ex" -> a.ex [] t.at = "pay" -> a.pay [] t.at = "listing" -> a.listing

Precedes(t, u) ==
    \/ t.at = "ex" /\ u.at # "ex"
    \/ t.at = "pay" /\ u.at = "listing"
    \/ t.at = u.at /\ t.action < u.action

\* The session starts: a daily call may skip sessions, and its snapshot may
\* hold a longer calendar than the one before.
OpenSession(d, h) ==
    /\ pc = "idle"
    /\ day < d /\ d <= day + 1 + MaxGap
    /\ horizon <= h /\ d <= h
    /\ day' = d
    /\ horizon' = h
    /\ bars' \in [Instruments -> Bars]
    /\ todo' = {t \in Dates : DateOf(t) = d}
    /\ pc' = "actions"
    /\ UNCHANGED <<due, money, lots, orders, entitlements, prices, incomplete,
                   held>>

\* Corporate action a is the next to apply, at this date of its own.
Applies(at, type, a) ==
    /\ pc = "actions"
    /\ [at |-> at, action |-> a] \in todo
    /\ \A t \in todo : ~Precedes(t, [at |-> at, action |-> a])
    /\ Actions[a].type = type

\* The first is done.
Applied == /\ todo' = {u \in todo : \E t \in todo : Precedes(t, u)}
           /\ UNCHANGED <<market, pc, due, orders, prices, held>>

\* The position was not recorded, so it cannot take part.
NotEntitled(a) ==
    /\ EntitlementOf(a) = {}
    /\ Mark(Where(<<"missing_entitlement", a>>,
                  Quantity(Actions[a].instrument) > 0))
    /\ Applied
    /\ UNCHANGED <<money, lots, entitlements>>

\* _allocate_share_action_cost: the cost of the old shares is split between
\* them and the new ones, lot by lot.  Which lot is the last depends on all that
\* moved the lots before.  An ex-date comes once, so e is not yet adjusted.
AllocateShareCost(a) ==
    LET i == Actions[a].instrument
        S == LotsOf(i)
        n == Quantity(i)
        new == (n * Actions[a].share[1]) \div Actions[a].share[2]
        total == CostOf(S)
        old == IF n + new = 0 THEN total ELSE RoundDiv(total * n, n + new)
    IN  /\ Applies("ex", "stock_dividend", a)
        /\ \/ NotEntitled(a)
           \/ \E e \in EntitlementOf(a) :
                /\ e.quantity # n
                /\ Mark({<<"position_mismatch", a>>})
                /\ Applied
                /\ UNCHANGED <<money, lots, entitlements>>
           \/ \E e \in EntitlementOf(a), last \in IF S = {} THEN {Never} ELSE S :
                LET cost == Shares(S, old, [l \in S |-> l.cost], total, last) IN
                /\ e.quantity = n
                /\ IF \E l \in S : cost[l] < 0
                   THEN Raise("cost_negative")
                   ELSE /\ lots' = (lots \ S) \cup {[l EXCEPT !.cost = cost[l]] : l \in S}
                        /\ entitlements' = (entitlements \ {e}) \cup
                             {[e EXCEPT !.distributed = new, !.cost = total - old,
                                        !.adjusted = day]}
                        /\ Applied
                        /\ UNCHANGED <<money, incomplete>>

\* A mutant: every lot is rounded down.
SplitFloors(S, ratio) == [l \in S |-> (l.quantity * ratio[1]) \div ratio[2]]

\* The whole shares that a split leaves in each lot of S: rounded down, and
\* one more for the largest fractions until the total is the rounded total.
SplitQuantities(S, ratio) ==
    LET whole(l) == (l.quantity * ratio[1]) \div ratio[2]
        fraction(l) == (l.quantity * ratio[1]) % ratio[2]
        target == (QuantityOf(S) * ratio[1]) \div ratio[2]
        spare == target - SumFunction([l \in S |-> whole(l)])
        ahead(l) == {m \in S : \/ fraction(m) > fraction(l)
                               \/ fraction(m) = fraction(l) /\ LotId(m) < LotId(l)}
    IN  [l \in S |-> whole(l) + (IF Cardinality(ahead(l)) < spare THEN 1 ELSE 0)]

\* _apply_split: every lot is scaled on the ex-date and the cost of the
\* position is shared out again.
ApplySplit(a) ==
    LET i == Actions[a].instrument
        S == LotsOf(i)
        n == QuantityOf(S)
        ratio == Actions[a].share
        target == (n * ratio[1]) \div ratio[2]
        quantity == SplitQuantities(S, ratio)
        kept == {l \in S : quantity[l] > 0}
        last == CHOOSE l \in kept : \A m \in kept \ {l} : SoldBefore(m, l)
        cost == Shares(kept, CostOf(S), quantity, target, last)
        atomic == EntitlementOf(a) = {} /\ n > 0 /\ Actions[a].record = Actions[a].ex
    IN  /\ Applies("ex", "split", a)
        /\ \/ ~atomic /\ NotEntitled(a)
           \/ /\ \E e \in EntitlementOf(a) : e.quantity # n
              /\ Mark({<<"position_mismatch", a>>})
              /\ Applied
              /\ UNCHANGED <<money, lots, entitlements>>
           \/ /\ atomic \/ \E e \in EntitlementOf(a) : e.quantity = n
              /\ IF \E l \in kept : cost[l] < 0
                 THEN Raise("cost_negative")
                 ELSE /\ lots' = (lots \ S) \cup
                           {[l EXCEPT !.quantity = quantity[l], !.cost = cost[l]] :
                              l \in kept}
                      /\ entitlements' = entitlements \ EntitlementOf(a)
                      /\ Mark(Where(<<"fractional_split", a>>,
                                    target * ratio[2] # n * ratio[1]))
                      /\ Applied
                      /\ UNCHANGED money

\* The ex-dates of cash dividends and rights issues only leave an event, and
\* so do the payment and listing dates of the other actions.
NoteAction(a) ==
    /\ \E at \in {"ex", "pay", "listing"}, type \in {Actions[a].type} :
         /\ <<at, type>> \notin {<<"ex", "stock_dividend">>, <<"ex", "split">>,
                              <<"pay", "rights_issue">>, <<"pay", "cash_dividend">>,
                              <<"listing", "stock_dividend">>}
         /\ Applies(at, type, a)
    /\ Applied
    /\ UNCHANGED <<money, lots, entitlements, incomplete>>

\* A mutant: the entitlement stays.
DeclineOnly(a) ==
    /\ Applies("pay", "rights_issue", a)
    /\ Applied
    /\ UNCHANGED <<money, lots, entitlements, incomplete>>

DeclineRights(a) ==
    /\ Applies("pay", "rights_issue", a)
    /\ entitlements' = entitlements \ EntitlementOf(a)
    /\ Applied
    /\ UNCHANGED <<money, lots, incomplete>>

\* A mutant: the position of the payment date is paid for.
PayPosition(a) ==
    LET gross == Quantity(Actions[a].instrument) * Actions[a].cash IN
    /\ Applies("pay", "cash_dividend", a)
    /\ cash' = cash + gross
    /\ dividends' = dividends + gross
    /\ entitlements' = entitlements \ EntitlementOf(a)
    /\ Mark({<<"dividend_tax", a>>})
    /\ Applied
    /\ UNCHANGED <<realized, lots>>

PayDividend(a) ==
    /\ Applies("pay", "cash_dividend", a)
    /\ \/ NotEntitled(a)
       \/ \E e \in EntitlementOf(a) :
            LET gross == e.quantity * Actions[a].cash IN
            /\ cash' = cash + gross
            /\ dividends' = dividends + gross
            /\ entitlements' = entitlements \ {e}
            /\ Mark({<<"dividend_tax", a>>})
            /\ Applied
            /\ UNCHANGED <<realized, lots>>

ListShares(a) ==
    /\ Applies("listing", "stock_dividend", a)
    /\ \/ NotEntitled(a)
       \/ \E e \in EntitlementOf(a) :
            LET ratio == Actions[a].share
                exact == e.quantity * ratio[1] = e.distributed * ratio[2]
            IN  /\ lots' = IF e.distributed = 0 THEN lots
                           ELSE lots \cup
                             {[instrument |-> Actions[a].instrument,
                               acquired |-> day, source |-> a,
                               quantity |-> e.distributed, sellable |-> day,
                               cost |-> e.cost]}
                /\ entitlements' = entitlements \ {e}
                /\ Mark(Where(<<"cost_not_adjusted", a>>, e.adjusted = 0)
                        \cup Where(<<"fractional_share", a>>, ~exact))
                /\ Applied
                /\ UNCHANGED money

-----------------------------------------------------------------------------
(* The open: orders.                                                       *)

\* A mutant: an order that is not due is kept, whatever its expiry.
SelectDue ==
    /\ pc = "actions"
    /\ todo = {}
    /\ due' = {o \in orders : o.execution = day}
    /\ orders' = orders \ due'
    /\ pc' = "orders"
    /\ UNCHANGED <<market, money, lots, entitlements, prices, incomplete, held,
                   todo>>

\* An order is good for its own session only.
SelectOrders ==
    /\ pc = "actions"
    /\ todo = {}
    /\ due' = {o \in orders : o.execution = day}
    /\ orders' = {o \in orders : o.execution > day}
    /\ pc' = "orders"
    /\ UNCHANGED <<market, money, lots, entitlements, prices, incomplete, held,
                   todo>>

\* Sells go before buys; among them the order is that of the instruments'
\* names, which may be any.
IsNext(o) == o \in due /\ (o.side = "buy" => \A p \in due : p.side = "buy")

\* _blocked_reason.
IsBlocked(o, b) ==
    \/ b.state # "traded"
    \/ b.volume = 0
    \/ /\ Policy.block
       /\ \/ o.side = "buy" /\ b.up # 0 /\ b.open >= b.up
          \/ o.side = "sell" /\ b.down # 0 /\ b.open <= b.down

\* A sale of the whole position, which need not be a normal quantity.
IsResidual(o, b) == /\ o.side = "sell"
                    /\ b.odd
                    /\ o.quantity = Quantity(o.instrument)
                    /\ o.quantity = Sellable(o.instrument)

\* What of the order the session's volume, the settled position and the
\* quantity rules let through; cash comes last.
Approved(o, b) ==
    LET n == o.quantity
        volume == b.volume * Policy.num
        normal == NormalFloor(volume \div Policy.den, b.lot, b.step)
        capacity == IF IsResidual(o, b) /\ volume >= n * Policy.den
                    THEN Greater(normal, n) ELSE normal
        traded == Lesser(n, capacity)
        settled == Lesser(traded, Sellable(o.instrument))
        declared == IF o.side = "buy" THEN traded
                    ELSE IF IsResidual(o, b) /\ settled = n THEN n
                    ELSE NormalFloor(settled, b.lot, b.step)
        partial == IF ~Policy.partial /\ declared < n THEN 0 ELSE declared
    IN  IF ~IsResidual(o, b) /\ ~IsNormal(n, b.lot, b.step) THEN 0
        ELSE IF o.side = "buy" /\ partial > 0 THEN AffordableBuyQuantity(partial, b)
        ELSE partial

\* A mutant: what comes to nothing is filled all the same.
FillsWhateverIsLeft(o, b) == ~IsBlocked(o, b)

Fills(o, b) == ~IsBlocked(o, b) /\ Approved(o, b) > 0

Executes(o) == /\ pc = "orders"
               /\ IsNext(o)

Executed(o) == /\ due' = due \ {o}
               /\ UNCHANGED <<market, pc, orders, entitlements, prices,
                              incomplete, held, todo, dividends>>

RejectOrder(o) ==
    /\ Executes(o)
    /\ ~Fills(o, bars[o.instrument])
    /\ Executed(o)
    /\ UNCHANGED <<cash, realized, lots>>

\* _advance_session: the calendar of the snapshot may end before.
SettlesOn(delay) == IF day + delay <= horizon THEN day + delay ELSE Never

Buy(o) ==
    LET b == bars[o.instrument]
        n == Approved(o, b)
        total == BuyTotal(n, b)
    IN  /\ Executes(o)
        /\ o.side = "buy"
        /\ Fills(o, b)
        /\ IF total > cash
           THEN Raise("buy_exceeds_cash")
           ELSE /\ cash' = cash - total
                /\ lots' = lots \cup
                     {[instrument |-> o.instrument, acquired |-> day, source |-> 0,
                       quantity |-> n, sellable |-> SettlesOn(b.delay),
                       cost |-> total]}
                /\ Executed(o)
                /\ UNCHANGED realized

Sell(o) ==
    LET b == bars[o.instrument]
        n == Approved(o, b)
        amount == FillPrice("sell", n, b) * n
        fees == Fees("sell", amount)
        S == SettledLots(o.instrument)
        taken == TakenFrom(S, n)
        cost == SumFunction([l \in S |-> CostTaken(l, taken[l])])
    IN  /\ Executes(o)
        /\ o.side = "sell"
        /\ Fills(o, b)
        /\ IF n > QuantityOf(S) THEN Raise("sell_exceeds_settled")
           ELSE IF cash + amount < fees THEN Raise("cash_negative")
           ELSE /\ cash' = cash + amount - fees
                /\ realized' = realized + amount - fees - cost
                /\ lots' = (lots \ S) \cup
                     {[l EXCEPT !.quantity = @ - taken[l],
                                !.cost = @ - CostTaken(l, taken[l])] :
                        l \in {m \in S : taken[m] < m.quantity}}
                /\ Executed(o)

-----------------------------------------------------------------------------
(* The close.                                                              *)

IsPriced(i) == bars[i].state = "traded" /\ bars[i].close > 0

\* _value_at_close and _capture_entitlements, then the checkpoint.
CloseSession ==
    /\ pc = "orders"
    /\ due = {}
    /\ prices' = [i \in Instruments |-> IF IsPriced(i) THEN bars[i].close
                                                       ELSE prices[i]]
    /\ Mark({<<"missing_price", l.instrument>> :
               l \in {m \in lots : prices'[m.instrument] = 0}})
    /\ entitlements' = entitlements \cup
         {[action |-> a, quantity |-> Quantity(Actions[a].instrument),
           distributed |-> 0, cost |-> 0, adjusted |-> 0] :
            a \in {x \in ActionIds : /\ Actions[x].record = day
                                     /\ EntitlementOf(x) = {}}}
    /\ held' = [d \in DOMAIN held \cup {day} |->
                  IF d = day THEN [i \in Instruments |-> Quantity(i)] ELSE held[d]]
    /\ pc' = "decide"
    /\ UNCHANGED <<market, money, lots, orders, todo, due>>

NoIntent ==
    /\ pc = "decide"
    /\ pc' = "idle"
    /\ UNCHANGED <<market, money, lots, orders, entitlements, prices,
                   incomplete, held, todo, due>>

\* assess_intent: a weight above the maximum is reduced, a sum above what may
\* be invested is refused.
Reduced(w) == [i \in DOMAIN w |-> Lesser(w[i], Risk.maximum)]
IsAccepted(w) ==
    SumFunction(Reduced(w)) <= 10 - Risk.minimum

\* _equity: the close has just set the prices; an instrument that never had one
\* counts for nothing.
Equity == cash + SumFunction([i \in Instruments |-> Quantity(i) * prices[i]])

\* The order that takes the position of i to weight tenths of the equity, or
\* none: target, difference, declaration.
OrderFor(i, weight) ==
    LET b == bars[i]
        n == Quantity(i)
        target == NormalFloor((Equity * weight) \div (10 * b.close), b.lot, b.step)
        sold == IF b.odd /\ target = 0 THEN n
                ELSE NormalFloor(n - target, b.lot, b.step)
        buys == target > n
        quantity == IF buys THEN NormalFloor(target - n, b.lot, b.step) ELSE sold
    IN  {o \in {[instrument |-> i, side |-> IF buys THEN "buy" ELSE "sell",
                 created |-> day, execution |-> day + 1, quantity |-> quantity]} :
           target # n /\ quantity > 0}

SubmitIntent(w) ==
    LET symbols == DOMAIN w \cup {l.instrument : l \in lots}
        closed == {i \in symbols : IsPriced(i)}
        weight(i) == IF i \in DOMAIN w THEN Reduced(w)[i] ELSE 0
        scheduled == IsAccepted(w) /\ day < horizon
    IN  /\ pc = "decide"
        /\ orders' = IF scheduled
                     THEN orders \cup UNION {OrderFor(i, weight(i)) : i \in closed}
                     ELSE orders
        /\ Mark({<<"missing_close", i>> : i \in IF scheduled THEN symbols \ closed
                                                             ELSE {}})
        /\ pc' = "idle"
        /\ UNCHANGED <<market, money, lots, entitlements, prices, held, todo, due>>

-----------------------------------------------------------------------------

Init ==
    /\ day = 0 /\ horizon = 0
    /\ pc = "idle"
    /\ bars = [i \in Instruments |-> [state |-> "missing"]]
    /\ todo = {} /\ due = {}
    /\ cash = InitialCash
    /\ lots = {} /\ orders = {} /\ entitlements = {}
    /\ prices = [i \in Instruments |-> 0]
    /\ realized = 0 /\ dividends = 0
    /\ incomplete = {}
    /\ held = <<>>

ApplyAction(a) ==
    \/ AllocateShareCost(a)
    \/ ApplySplit(a)
    \/ NoteAction(a)
    \/ DeclineRights(a)
    \/ PayDividend(a)
    \/ ListShares(a)

Next ==
    \/ \E d \in Days, h \in Snapshots : OpenSession(d, h)
    \/ \E a \in ActionIds : ApplyAction(a)
    \/ SelectOrders
    \/ \E o \in due : RejectOrder(o)
    \/ \E o \in due : Buy(o)
    \/ \E o \in due : Sell(o)
    \/ CloseSession
    \/ NoIntent
    \/ \E w \in Intents : SubmitIntent(w)

Spec == Init /\ [][Next]_vars

-----------------------------------------------------------------------------
(* Correctness.                                                            *)

TypeOK ==
    /\ day \in 0..LastDay /\ horizon \in 0..LastDay
    /\ pc \in {"idle", "actions", "orders", "decide"} \cup Raised
    /\ bars \in [Instruments -> Bars \cup {[state |-> "missing"]}]
    /\ todo \subseteq Dates
    /\ due \subseteq Order /\ orders \subseteq Order
    /\ cash \in Nat /\ realized \in Int /\ dividends \in Nat
    /\ lots \subseteq Lot /\ entitlements \subseteq Entitlement
    /\ prices \in [Instruments -> Nat]
    /\ DOMAIN held \subseteq Days

\* Every cent is somewhere: cash, the cost of the lots and the cost that waits with
\* the entitlements add up to what was put in, realized and received, through
\* partial sales, distributions and splits with all their rounding
\* (docs/foundation.md, "preserving total basis before later partial sales").
BooksBalance ==
    cash + CostOf(lots) + CostOf(entitlements)
      = InitialCash + realized + dividends

\* The guards of _apply_buy and _apply_sell never raise: what the search for an
\* affordable quantity and the sellable quantity allow, the books can carry, in
\* whatever order the session's orders go.
NoneOverdrawn == pc \notin {"buy_exceeds_cash", "sell_exceeds_settled"}

\* Orders execute while a lot is not settled, or after it: no order touches a lot
\* before its sellable session.
UnsettledLotsStay ==
    [][\A l \in lots : ~(l.sellable <= day) /\ pc = "orders" => l \in lots']_vars

\* What is left pending when a session is over is for the next one, was made at this
\* one's close, and is at most one order for an instrument: no order survives its
\* session, not even one that the account skipped.
OrdersAreForTomorrow ==
    pc = "idle" => \A o \in orders :
        /\ o.created = day /\ o.execution = day + 1
        /\ \A p \in orders : p.instrument = o.instrument => p = o

QuantityAfter(i) == Quantity(i)'

Filled(i) == LET before == Quantity(i)
                 after == Quantity(i)'
             IN  IF before < after THEN after - before ELSE before - after

\* A fill is one that the exchange would take from this account: no more than
\* the order asks or the participation cap lets through, of a normal quantity or
\* the whole position.
FillsAreAllowed ==
    [][\A o \in due \ due' :
         LET b == bars[o.instrument]
             n == Filled(o.instrument)
         IN  n > 0 =>
               /\ b.state = "traded"
               /\ n <= o.quantity
               /\ n * Policy.den <= b.volume * Policy.num
               /\ \/ IsNormal(n, b.lot, b.step)
                  \/ o.side = "sell" /\ b.odd /\ n = Quantity(o.instrument)]_vars

\* The search for the affordable quantity finds the best one: where orders may be
\* filled in part, what a buy order fills is the largest declaration that the order,
\* the cap and the cash allow, though price and fees grow with it and are rounded.
BuysAreMaximal ==
    [][\A o \in due \ due' :
         LET b == bars[o.instrument] IN
         /\ Policy.partial
         /\ o.side = "buy" /\ ~IsBlocked(o, b) /\ IsNormal(o.quantity, b.lot, b.step)
         =>
           \A n \in 1..o.quantity :
             /\ IsNormal(n, b.lot, b.step)
             /\ n * Policy.den <= b.volume * Policy.num
             /\ BuyTotal(n, b) <= cash
             => n <= Filled(o.instrument)]_vars

Discloses(reasons) == reasons \cap incomplete' # {}

\* A split of the position that the run survives, and that nothing keeps from the lots.
SplitsPosition(a) ==
    /\ ApplySplit(a)
    /\ pc' = pc
    /\ ~Discloses({<<"position_mismatch", a>>, <<"missing_entitlement", a>>})

\* The position has its rounded total, and each lot less than one share from its part.
IsProportional(a) ==
    LET i == Actions[a].instrument
        ratio == Actions[a].share
        after(l) == {m \in lots' : /\ m.instrument = i
                                   /\ m.acquired = l.acquired
                                   /\ m.source = l.source}
    IN  /\ QuantityAfter(i) = (Quantity(i) * ratio[1]) \div ratio[2]
        /\ \A l \in LotsOf(i) :
             LET gap == l.quantity * ratio[1] - QuantityOf(after(l)) * ratio[2]
             IN  -ratio[2] < gap /\ gap < ratio[2]

\* A split hands out the rounded total of the position, in proportion to its lots: it
\* rounds every lot down and gives the shares that are left over to the largest
\* fractions, and there are never more of them than there are fractions.
SplitsAreProportional ==
    [][\A a \in ActionIds : SplitsPosition(a) => IsProportional(a)]_vars

\* Every cash dividend pays for what the account held at the close of the record
\* date, exactly once, whatever it bought, sold or had split since
\* (docs/foundation.md:97, "T open: ... apply payable/listed corporate actions").
DividendsArePaid ==
    LET paid == {a \in ActionIds : /\ Actions[a].type = "cash_dividend"
                                   /\ Actions[a].record \in DOMAIN held
                                   /\ Actions[a].pay <= day}
    IN  pc \notin Raised \cup {"actions"} =>
          dividends = SumFunction(
                        [a \in paid |-> held[Actions[a].record][Actions[a].instrument]
                                        * Actions[a].cash])

\* An entitlement is used up on the date that settles it.
EntitlementsAreSettled ==
    pc \notin Raised \cup {"actions"} => \A e \in entitlements :
        LET a == Actions[e.action] IN
        /\ a.type \in {"cash_dividend", "rights_issue"} => day < a.pay
        /\ a.type = "stock_dividend" => a.listing = 0 \/ day < a.listing

\* The position has grown by the new shares of what was held on the record date.
ArrivesInFull(a) ==
    LET i == Actions[a].instrument
        ratio == Actions[a].share
    IN  QuantityAfter(i) - Quantity(i)
          = (held[Actions[a].record][i] * ratio[1]) \div ratio[2]

\* The listing date of a stock dividend brings shares for all that was held on its
\* record date; where trading between record and ex-date or a session the account
\* skipped kept it from that, the portfolio says that it is incomplete.
SharesArrive ==
    [][\A a \in ActionIds :
         ListShares(a) /\ Actions[a].record \in DOMAIN held =>
           \/ ArrivesInFull(a)
           \/ Discloses({<<"cost_not_adjusted", a>>, <<"missing_entitlement", a>>})]_vars

\* A lot can be sold as many sessions after it was bought as its settlement delay
\* says (docs/foundation.md:111, "sellable-session delay (including T+1)").
LotsSettle == \A l \in lots : l.acquired < LastDay => l.sellable # Never
=============================================================================
