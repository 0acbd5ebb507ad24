------------------------- MODULE TradingKernelProofs -------------------------
(***************************************************************************)
(* Theorems about TradingKernel, for every market, calendar, policy and     *)
(* strategy: orders leave unsettled lots and live one session; nothing is   *)
(* overdrawn; the books balance; every fill is allowed; no buy could have   *)
(* been larger; dividends are paid, shares arrive, entitlements are settled *)
(* and splits hand out the whole total.                                     *)
(***************************************************************************)
EXTENDS TradingLotsProofs

-----------------------------------------------------------------------------
(* Settlement.                                                             *)

\* An order takes nothing from a lot that is not settled: only Sell removes lots
\* while orders execute, and it looks at settled ones only.
LEMMA OrdersLeaveUnsettledLots ==
    ASSUME Next, NEW l \in lots, ~(l.sellable <= day), pc = "orders"
    PROVE  l \in lots'
<1>1. ASSUME NEW o \in due, RejectOrder(o) PROVE l \in lots'
  BY <1>1 DEF RejectOrder
<1>2. ASSUME NEW o \in due, Buy(o) PROVE l \in lots'
  BY <1>2 DEF Buy, Raise
<1>3. ASSUME NEW o \in due, Sell(o) PROVE l \in lots'
  <2>1. l \notin SettledLots(o.instrument)
    BY DEF SettledLots
  <2> QED BY <1>3, <2>1 DEF Sell, Raise
<1>4. ASSUME CloseSession PROVE l \in lots'
  BY <1>4 DEF CloseSession
<1> QED
  BY <1>1, <1>2, <1>3, <1>4 DEF Next, OpenSession, ApplyAction, Applies, AllocateShareCost,
     ApplySplit, NoteAction, DeclineRights, PayDividend, ListShares, SelectOrders,
     NoIntent, SubmitIntent

\* UnsettledLotsStay for every market, calendar and strategy: no order touches a lot
\* before its sellable session (_apply_sell).
THEOREM SettlementHolds == Spec => UnsettledLotsStay
<1>1. [Next]_vars => [\A l \in lots : ~(l.sellable <= day) /\ pc = "orders" => l \in lots']_vars
  BY OrdersLeaveUnsettledLots
<1> QED BY <1>1, PTL DEF Spec, UnsettledLotsStay

-----------------------------------------------------------------------------
(* The life of an order.                                                   *)

\* OrdersAreForTomorrow speaks of the time between sessions; this says what it rests
\* on while a session is processed: the orders of the last decision are due by
\* now, and none is left once the due ones have been selected.
OrderLife ==
    /\ day \in Int
    /\ OrdersAreForTomorrow
    /\ pc = "actions" => \A o \in orders : o.execution \in Int /\ o.execution <= day
    /\ pc \in {"orders", "decide"} => orders = {}

\* submit_intent makes at most one order for an instrument, for the next session.
LEMMA OneOrder ==
    ASSUME NEW i, NEW weight, NEW o \in OrderFor(i, weight)
    PROVE  /\ o.instrument = i /\ o.created = day /\ o.execution = day + 1
           /\ \A p \in OrderFor(i, weight) : p = o
BY DEF OrderFor

\* The orders a decision makes are for the next session, one an instrument.
LEMMA DecidedOrders ==
    ASSUME OrderLife, NEW w \in Intents, SubmitIntent(w)
    PROVE  OrderLife'
<1> DEFINE weight(i) == IF i \in DOMAIN w THEN Reduced(w)[i] ELSE 0
           closed == {i \in DOMAIN w \cup {l.instrument : l \in lots} : IsPriced(i)}
           new == UNION {OrderFor(i, weight(i)) : i \in closed}
<1>1. orders = {} /\ UNCHANGED day /\ pc' = "idle"
  BY DEF SubmitIntent, OrderLife, market
<1>2. orders' = {} \/ orders' = new
  BY <1>1 DEF SubmitIntent
<1>3. ASSUME NEW o \in new
      PROVE  /\ o.created = day /\ o.execution = day + 1
             /\ \A p \in new : p.instrument = o.instrument => p = o
  <2>1. PICK i \in closed : o \in OrderFor(i, weight(i))
    OBVIOUS
  <2>2. o.instrument = i /\ o.created = day /\ o.execution = day + 1
    BY <2>1, OneOrder
  <2>3. ASSUME NEW p \in new, p.instrument = o.instrument PROVE p = o
    <3>1. PICK j \in closed : p \in OrderFor(j, weight(j))
      OBVIOUS
    <3>2. p.instrument = j
      BY <3>1, OneOrder
    <3>3. p \in OrderFor(i, weight(i))
      BY <2>2, <2>3, <3>1, <3>2
    <3> QED BY <2>1, <3>3, OneOrder
  <2> QED BY <2>2, <2>3
<1> HIDE DEF new
<1>4. OrdersAreForTomorrow'
  BY <1>1, <1>2, <1>3 DEF OrdersAreForTomorrow
<1> QED BY <1>1, <1>4 DEF OrderLife

\* Every step keeps what is known of the orders.
LEMMA OrderLifeIsInductive ==
    OrderLife /\ [Next]_vars => OrderLife'
<1> SUFFICES ASSUME OrderLife, [Next]_vars PROVE OrderLife'
  OBVIOUS
<1> USE DEF OrderLife, market
<1>1. ASSUME NEW d \in Days, NEW h \in Snapshots, OpenSession(d, h) PROVE OrderLife'
  <2>1. d \in Int /\ day < d /\ pc = "idle" /\ pc' = "actions" /\ day' = d /\ orders' = orders
    BY <1>1, CalendarAssumption DEF OpenSession, Days
  <2>2. \A o \in orders : o.execution = day + 1
    BY <2>1 DEF OrdersAreForTomorrow
  <2> QED BY <2>1, <2>2 DEF OrdersAreForTomorrow
<1>2. ASSUME NEW a \in ActionIds, ApplyAction(a) PROVE OrderLife'
  <2>1. pc = "actions" /\ pc' \in {"actions", "cost_negative"} /\ UNCHANGED <<day, orders>>
    BY <1>2 DEF ApplyAction, AllocateShareCost, ApplySplit, NoteAction, DeclineRights,
       PayDividend, ListShares, NotEntitled, Applies, Applied, Raise
  <2> QED BY <2>1 DEF OrdersAreForTomorrow
<1>3. ASSUME SelectOrders PROVE OrderLife'
  <2>1. pc' = "orders" /\ orders' = {} /\ UNCHANGED day
    BY <1>3 DEF SelectOrders
  <2> QED BY <2>1 DEF OrdersAreForTomorrow
<1>4. ASSUME NEW o \in due, RejectOrder(o) \/ Buy(o) \/ Sell(o) PROVE OrderLife'
  <2>1. /\ pc = "orders" /\ UNCHANGED <<day, orders>>
        /\ pc' \in {"orders", "buy_exceeds_cash", "sell_exceeds_settled", "cash_negative"}
    BY <1>4 DEF RejectOrder, Buy, Sell, Executes, Executed, Raise
  <2> QED BY <2>1 DEF OrdersAreForTomorrow
<1>5. ASSUME CloseSession PROVE OrderLife'
  BY <1>5 DEF CloseSession, OrdersAreForTomorrow
<1>6. ASSUME NoIntent PROVE OrderLife'
  BY <1>6 DEF NoIntent, OrdersAreForTomorrow
<1>7. ASSUME NEW w \in Intents, SubmitIntent(w) PROVE OrderLife'
  BY <1>7, DecidedOrders
<1>8. ASSUME UNCHANGED vars PROVE OrderLife'
  BY <1>8 DEF vars, OrdersAreForTomorrow
<1> QED BY <1>1, <1>2, <1>3, <1>4, <1>5, <1>6, <1>7, <1>8 DEF Next

\* OrdersAreForTomorrow for every market, calendar and strategy: what is pending
\* between sessions was decided at the last close for the session after it, one order
\* for an instrument (process_session, submit_intent).
THEOREM OrdersLiveOneSession == Spec => []OrdersAreForTomorrow
<1>1. Init => OrderLife
  BY DEF Init, OrderLife, OrdersAreForTomorrow
<1>2. OrderLife => OrdersAreForTomorrow
  BY DEF OrderLife
<1> QED BY <1>1, <1>2, OrderLifeIsInductive, PTL DEF Spec

-----------------------------------------------------------------------------
(* What is kept. *)

\* A name stands for one lot: what was bought today is no name of an order still due,
\* and what was distributed is no name of a listing still to come.
Named ==
    /\ \A l, m \in lots : SameName(l, m) => l = m
    /\ \A l \in lots :
         /\ l.acquired <= day
         /\ l.source = 0 /\ l.acquired = day =>
              /\ pc # "actions"
              /\ pc = "orders" => \A o \in due : o.instrument # l.instrument
         /\ l.source # 0 =>
              /\ l.acquired = Actions[l.source].listing
              /\ [at |-> "listing", action |-> l.source] \notin todo

\* Cost waits with an entitlement between the ex-date and the listing date only, for
\* shares that will come.
Waiting ==
    /\ \A t \in todo : DateOf(t) = day
    /\ \A e, f \in entitlements : e.action = f.action => e = f
    /\ \A e \in entitlements : e.cost # 0 =>
         /\ e.distributed # 0
         /\ Actions[e.action].type = "stock_dividend"
         /\ Actions[e.action].ex <= day
         /\ [at |-> "ex", action |-> e.action] \notin todo

\* One order for an instrument, pending or due.
Orderly ==
    /\ \A o, p \in orders : o.instrument = p.instrument => o = p
    /\ \A o, p \in due : o.instrument = p.instrument => o = p

\* The inductive invariant.
Kept == Typed /\ Named /\ Waiting /\ Orderly

\* The costs of two portfolios with nothing in common.
LEMMA CostOfUnion ==
    ASSUME NEW A, NEW B, IsFiniteSet(A), IsFiniteSet(B), A \cap B = {},
           \A x \in A \cup B : x.cost \in Nat
    PROVE  CostOf(A \cup B) = CostOf(A) + CostOf(B)
<1> DEFINE U == A \cup B
           h == [x \in U |-> x.cost]
<1>1. IsFiniteSet(U)
  BY FS_Union
<1>2. CostOf(U) = Sum(h, U) /\ CostOf(A) = Sum(h, A) /\ CostOf(B) = Sum(h, B)
  <2>1. U \in SUBSET U /\ A \in SUBSET U /\ B \in SUBSET U
    OBVIOUS
  <2> HIDE DEF U
  <2> QED BY <1>1, <2>1, CostIs
<1>3. \A x \in A \cup B : h[x] \in Int
  OBVIOUS
<1> HIDE DEF h
<1>4. Sum(h, A \cup B) = Sum(h, A) + Sum(h, B)
  BY <1>3, SumUnion
<1> QED BY <1>2, <1>4

\* The cost of what costs nothing.
LEMMA CostOfNothing ==
    ASSUME NEW A, IsFiniteSet(A), \A x \in A : x.cost = 0
    PROVE  CostOf(A) = 0
<1> DEFINE h == [x \in A |-> x.cost]
<1>1. CostOf(A) = Sum(h, A)
  BY CostIs
<1>2. \A x \in A : h[x] = 0
  OBVIOUS
<1> HIDE DEF h
<1>3. Sum(h, A) = 0
  BY <1>2, SumZero
<1> QED BY <1>1, <1>3 DEF h

\* The cost of one lot or entitlement.
LEMMA CostOfOne ==
    ASSUME NEW x, x.cost \in Nat
    PROVE  IsFiniteSet({x}) /\ CostOf({x}) = x.cost
<1> DEFINE A == {x}
           h == [y \in A |-> y.cost]
<1>1. IsFiniteSet(A)
  BY FS_Singleton
<1>2. CostOf(A) = Sum(h, A)
  BY <1>1, CostIs
<1>3. h[x] = x.cost /\ h[x] \in Int /\ \A y \in A : h[y] \in Int
  OBVIOUS
<1>4. A \ {x} = {} /\ x \in A
  OBVIOUS
<1> HIDE DEF h, A
<1>5. Sum(h, A) = h[x] + Sum(h, A \ {x})
  BY <1>1, <1>3, <1>4, SumRemove
<1>6. Sum(h, A \ {x}) = 0
  BY <1>4, SumEmpty
<1>7. CostOf(A) = x.cost
  BY <1>2, <1>3, <1>5, <1>6
<1> QED BY <1>1, <1>7 DEF A

\* What is used up leaves the rest of the books as they were, and more only if it
\* had a cost.
LEMMA CostLeft ==
    ASSUME NEW A, NEW B \in SUBSET A, IsFiniteSet(A), \A x \in A : x.cost \in Nat
    PROVE  /\ IsFiniteSet(A \ B)
           /\ CostOf(A \ B) = CostOf(A) - CostOf(B) /\ CostOf(B) \in Nat
<1>1. IsFiniteSet(B) /\ IsFiniteSet(A \ B)
  BY FS_Subset
<1>2. (A \ B) \cup B = A /\ (A \ B) \cap B = {}
  OBVIOUS
<1>3. \A x \in (A \ B) \cup B : x.cost \in Nat
  OBVIOUS
<1>4. CostOf((A \ B) \cup B) = CostOf(A \ B) + CostOf(B)
  BY <1>1, <1>2, <1>3, CostOfUnion
<1>5. CostOf(A \ B) \in Nat /\ CostOf(B) \in Nat
  BY <1>1, CostType
<1>6. CostOf(A) = CostOf(A \ B) + CostOf(B)
  <2>1. PICK C : C = A \ B
    OBVIOUS
  <2>2. CostOf(C \cup B) = CostOf(C) + CostOf(B) /\ C \cup B = A
    BY <1>2, <1>4, <2>1
  <2>3. CostOf(A) = CostOf(C) + CostOf(B)
    BY <2>2
  <2> QED BY <2>1, <2>3
<1>7. \A s, t, u \in Int : s = t + u => t = s - u
  OBVIOUS
<1>8. CostOf(A) \in Nat
  BY CostType
<1> QED BY <1>1, <1>5, <1>6, <1>7, <1>8

\* The dates of an action.
LEMMA DateIs ==
    ASSUME NEW a
    PROVE  /\ DateOf([at |-> "ex", action |-> a]) = Actions[a].ex
           /\ DateOf([at |-> "pay", action |-> a]) = Actions[a].pay
           /\ DateOf([at |-> "listing", action |-> a]) = Actions[a].listing
BY DEF DateOf

\* The first of what is to do is done and not done again.
LEMMA AppliedOnce ==
    ASSUME Kept, NEW at \in {"ex", "pay", "listing"}, NEW a, NEW type,
           Applies(at, type, a), Applied
    PROVE  /\ pc = "actions" /\ Actions[a].type = type
           /\ todo' \subseteq todo /\ [at |-> at, action |-> a] \notin todo'
           /\ [at |-> at, action |-> a] \in todo
           /\ DateOf([at |-> at, action |-> a]) = day /\ day \in Days
           /\ UNCHANGED <<market, pc, due, orders, prices, held>>
BY DEF Applies, Applied, Kept, Waiting, Typed

\* What a corporate action may do to the portfolio.
LEMMA ActionKeeps ==
    ASSUME Kept, NEW at \in {"ex", "pay", "listing"}, NEW a \in ActionIds, NEW type,
           Applies(at, type, a), Applied,
           cash' \in Nat, dividends' \in Nat, realized' \in Int,
           lots' \subseteq Lot, IsFiniteSet(lots'),
           \A l, m \in lots' : SameName(l, m) => l = m,
           \A m \in lots' : \/ \E l \in lots : SameName(l, m)
                            \/ at = "listing" /\ m.source = a /\ m.acquired = day,
           entitlements' \subseteq Entitlement, IsFiniteSet(entitlements'),
           \A e, f \in entitlements' : e.action = f.action => e = f,
           \A e \in entitlements' :
              \/ e \in entitlements
              \/ /\ at = "ex" /\ e.action = a
                 /\ e.cost # 0 => e.distributed # 0 /\ type = "stock_dividend"
    PROVE  Kept'
<1>1. /\ pc = "actions" /\ Actions[a].type = type
      /\ todo' \subseteq todo /\ [at |-> at, action |-> a] \notin todo'
      /\ [at |-> at, action |-> a] \in todo
      /\ DateOf([at |-> at, action |-> a]) = day /\ day \in Days
      /\ UNCHANGED <<market, pc, due, orders, prices, held>>
  BY AppliedOnce
<1>2. Typed'
  BY <1>1 DEF Kept, Typed, TypeOK, market
<1>3. day \in Nat /\ UNCHANGED <<day, pc, due>> /\ a # 0
  BY <1>1, ActionsAreFinite DEF Kept, Typed, TypeOK, market
<1>4. ASSUME NEW m \in lots'
      PROVE  /\ m.acquired <= day
             /\ ~(m.source = 0 /\ m.acquired = day)
             /\ m.source # 0 => /\ m.acquired = Actions[m.source].listing
                                /\ [at |-> "listing", action |-> m.source] \notin todo'
  <2>1. CASE \E l \in lots : SameName(l, m)
    BY <1>1, <2>1 DEF Kept, Named, SameName
  <2>2. CASE at = "listing" /\ m.source = a /\ m.acquired = day
    <3>1. Actions[a].listing = day
      BY <1>1, <2>2, DateIs
    <3> QED BY <1>1, <1>3, <2>2, <3>1
  <2> QED BY <2>1, <2>2
<1>5. Named'
  BY <1>1, <1>3, <1>4 DEF Named
<1>6. ASSUME NEW e \in entitlements', e.cost # 0
      PROVE  /\ e.distributed # 0
             /\ Actions[e.action].type = "stock_dividend"
             /\ Actions[e.action].ex <= day
             /\ [at |-> "ex", action |-> e.action] \notin todo'
  <2>1. CASE e \in entitlements
    BY <1>1, <1>6, <2>1 DEF Kept, Waiting
  <2>2. CASE e \notin entitlements
    <3>1. at = "ex" /\ e.action = a
      BY <2>2
    <3>2. Actions[a].ex = day
      BY <1>1, <3>1, DateIs
    <3> QED BY <1>1, <1>3, <1>6, <2>2, <3>1, <3>2
  <2> QED BY <2>1, <2>2
<1>7. Waiting'
  <2>1. \A t \in todo' : DateOf(t) = day'
    BY <1>1, <1>3 DEF Kept, Waiting
  <2>2. \A t : DateOf(t)' = DateOf(t)
    BY DEF DateOf
  <2> QED BY <1>3, <1>6, <2>1 DEF Waiting, DateOf
<1>8. Orderly'
  BY <1>1 DEF Kept, Orderly
<1> QED BY <1>2, <1>5, <1>7, <1>8 DEF Kept

\* A run that fails keeps what it had.
LEMMA RaiseKeeps ==
    ASSUME Kept, pc # "idle", NEW reason \in Raised, Raise(reason)
    PROVE  Kept' /\ (BooksBalance => BooksBalance')
<1>1. /\ pc' \notin {"idle", "actions", "orders", "decide"}
      /\ UNCHANGED <<market, money, lots, orders, entitlements, prices, held, todo, due>>
  BY DEF Raise, Raised
<1>2. Typed'
  BY <1>1 DEF Raise, Kept, Typed, TypeOK, market, money
<1>3. Named' /\ Waiting' /\ Orderly'
  BY <1>1 DEF Kept, Named, Waiting, Orderly, market, DateOf
<1>4. BooksBalance => BooksBalance'
  BY <1>1 DEF BooksBalance, CostOf, money
<1> QED BY <1>2, <1>3, <1>4 DEF Kept

-----------------------------------------------------------------------------
(* Corporate actions that leave the lots as they are, or list new ones.    *)

\* What the invariant says of the portfolio.
LEMMA KeptSets ==
    ASSUME Kept
    PROVE  /\ lots \subseteq Lot /\ IsFiniteSet(lots)
           /\ entitlements \subseteq Entitlement /\ IsFiniteSet(entitlements)
           /\ cash \in Nat /\ dividends \in Nat /\ realized \in Int
           /\ day \in 0..LastDay /\ InitialCash \in Nat
           /\ CostOf(lots) \in Nat /\ CostOf(entitlements) \in Nat
           /\ \A e \in entitlements : e.cost \in Nat /\ e.quantity \in Nat
           /\ \A l \in lots : l.cost \in Nat /\ l.quantity \in Nat \ {0}
           /\ \A l, m \in lots : SameName(l, m) => l = m
           /\ \A e, f \in entitlements : e.action = f.action => e = f
<1>1. /\ lots \subseteq Lot /\ IsFiniteSet(lots)
      /\ entitlements \subseteq Entitlement /\ IsFiniteSet(entitlements)
      /\ cash \in Nat /\ dividends \in Nat /\ realized \in Int
      /\ day \in 0..LastDay
  BY DEF Kept, Typed, TypeOK
<1>2. /\ \A e \in entitlements : e.cost \in Nat /\ e.quantity \in Nat
      /\ \A l \in lots : l.cost \in Nat /\ l.quantity \in Nat \ {0}
  BY <1>1 DEF Lot, Entitlement
<1>3. CostOf(lots) \in Nat /\ CostOf(entitlements) \in Nat
  BY <1>1, <1>2, CostType
<1> QED BY <1>1, <1>2, <1>3, InitialCashAssumption DEF Kept, Named, Waiting

\* A lot has its own name.
LEMMA SameIsSame == \A l : SameName(l, l)
BY DEF SameName

\* Nothing but the list of what to do, and the marks, changes.
LEMMA IdleAction ==
    ASSUME Kept, NEW at \in {"ex", "pay", "listing"}, NEW a \in ActionIds, NEW type,
           Applies(at, type, a), Applied, UNCHANGED <<money, lots, entitlements>>
    PROVE  Kept' /\ (BooksBalance => BooksBalance')
<1>1. UNCHANGED <<cash, realized, dividends, lots, entitlements>>
  BY DEF money
<1>2. Kept'
  BY <1>1, KeptSets, SameIsSame, ActionKeeps
<1>3. BooksBalance => BooksBalance'
  BY <1>1 DEF BooksBalance, CostOf
<1> QED BY <1>2, <1>3

\* The dates that only leave an event.
LEMMA NoteKeeps ==
    ASSUME Kept, NEW a \in ActionIds, NoteAction(a)
    PROVE  Kept' /\ (BooksBalance => BooksBalance')
<1>1. PICK at \in {"ex", "pay", "listing"}, type \in {Actions[a].type} : Applies(at, type, a)
  BY DEF NoteAction
<1>2. Applied /\ UNCHANGED <<money, lots, entitlements>>
  BY DEF NoteAction
<1> QED BY <1>1, <1>2, IdleAction

\* Entitlements of an action that waits with no cost are used up.
LEMMA UsedUp ==
    ASSUME Kept, NEW at \in {"ex", "pay", "listing"}, NEW a \in ActionIds, NEW type,
           type # "stock_dividend",
           Applies(at, type, a), Applied, UNCHANGED realized,
           NEW gross \in Nat, cash' = cash + gross, dividends' = dividends + gross,
           UNCHANGED lots, NEW E \in SUBSET EntitlementOf(a), entitlements' = entitlements \ E
    PROVE  Kept' /\ (BooksBalance => BooksBalance')
<1>1. E \subseteq entitlements /\ entitlements' \subseteq entitlements
  BY DEF EntitlementOf
<1>2. IsFiniteSet(entitlements')
  BY <1>1, KeptSets, FS_Subset
<1>3. cash' \in Nat /\ dividends' \in Nat
  BY KeptSets
<1>4. Kept'
  BY <1>1, <1>2, <1>3, KeptSets, SameIsSame, ActionKeeps
<1>5. CostOf(entitlements)' = CostOf(entitlements)
  <2>1. Actions[a].type # "stock_dividend"
    BY DEF Applies
  <2>2. \A e \in E : e.cost = 0
    BY <1>1, <2>1 DEF Kept, Waiting, EntitlementOf
  <2>3. IsFiniteSet(E)
    BY <1>1, KeptSets, FS_Subset
  <2>4. CostOf(E) = 0
    BY <2>2, <2>3, CostOfNothing
  <2>5. CostOf(entitlements \ E) = CostOf(entitlements) - CostOf(E)
    BY <1>1, KeptSets, CostLeft
  <2>6. CostOf(entitlements \ E) = CostOf(entitlements)
    BY <2>4, <2>5, KeptSets
  <2>7. CostOf(entitlements)' = CostOf(entitlements')
    BY DEF CostOf
  <2> QED BY <2>6, <2>7
<1>6. CostOf(lots)' = CostOf(lots)
  BY DEF CostOf
<1>7. ASSUME BooksBalance PROVE BooksBalance'
  BY <1>5, <1>6, <1>7, KeptSets DEF BooksBalance
<1> QED BY <1>4, <1>7

\* Rights that are declined wait with no cost.
LEMMA DeclineKeeps ==
    ASSUME Kept, NEW a \in ActionIds, DeclineRights(a)
    PROVE  Kept' /\ (BooksBalance => BooksBalance')
<1>1. /\ Applies("pay", "rights_issue", a) /\ Applied
      /\ UNCHANGED <<cash, realized, dividends, lots>>
      /\ entitlements' = entitlements \ EntitlementOf(a)
  BY DEF DeclineRights, money
<1>2. cash' = cash + 0 /\ dividends' = dividends + 0
  BY <1>1, KeptSets
<1> QED BY <1>1, <1>2, UsedUp

\* A dividend comes to the cash and to what was received.
LEMMA PayKeeps ==
    ASSUME Kept, NEW a \in ActionIds, PayDividend(a)
    PROVE  Kept' /\ (BooksBalance => BooksBalance')
<1>1. Applies("pay", "cash_dividend", a)
  BY DEF PayDividend
<1>2. CASE NotEntitled(a)
  <2>1. Applied /\ UNCHANGED <<money, lots, entitlements>>
    BY <1>2 DEF NotEntitled
  <2> QED BY <1>1, <2>1, IdleAction
<1>3. CASE ~NotEntitled(a)
  <2>1. PICK e \in EntitlementOf(a) :
          /\ cash' = cash + e.quantity * Actions[a].cash
          /\ dividends' = dividends + e.quantity * Actions[a].cash
          /\ entitlements' = entitlements \ {e}
          /\ Applied
          /\ UNCHANGED <<realized, lots>>
    BY <1>3 DEF PayDividend
  <2>2. e.quantity * Actions[a].cash \in Nat
    BY <2>1, KeptSets, ActionFields DEF EntitlementOf
  <2> QED BY <1>1, <2>1, <2>2, UsedUp
<1> QED BY <1>2, <1>3

\* The listing date turns the cost that waits into that of a new lot.
LEMMA ListKeeps ==
    ASSUME Kept, NEW a \in ActionIds, ListShares(a)
    PROVE  Kept' /\ (BooksBalance => BooksBalance')
<1>1. Applies("listing", "stock_dividend", a)
  BY DEF ListShares
<1>2. CASE NotEntitled(a)
  <2>1. Applied /\ UNCHANGED <<money, lots, entitlements>>
    BY <1>2 DEF NotEntitled
  <2> QED BY <1>1, <2>1, IdleAction
<1>3. CASE ~NotEntitled(a)
  <2>1. PICK e \in EntitlementOf(a) :
          /\ lots' = IF e.distributed = 0 THEN lots
                     ELSE lots \cup
                       {[instrument |-> Actions[a].instrument,
                         acquired |-> day, source |-> a,
                         quantity |-> e.distributed, sellable |-> day,
                         cost |-> e.cost]}
          /\ entitlements' = entitlements \ {e}
          /\ Applied
          /\ UNCHANGED money
    BY <1>3 DEF ListShares
  <2> DEFINE new == [instrument |-> Actions[a].instrument, acquired |-> day, source |-> a,
                     quantity |-> e.distributed, sellable |-> day, cost |-> e.cost]
  <2>2. /\ pc = "actions" /\ UNCHANGED <<day, pc>>
        /\ [at |-> "listing", action |-> a] \in todo
        /\ Actions[a].listing = day
    BY <1>1, <2>1, AppliedOnce, DateIs DEF market
  <2>3. e \in entitlements /\ e \in Entitlement /\ UNCHANGED <<cash, realized, dividends>>
    BY <2>1, KeptSets DEF EntitlementOf, money
  <2>4. new \in Lot \/ e.distributed = 0
    <3>1. day \in Days
      BY <1>1, <2>1, AppliedOnce
    <3>2. e.distributed \in Nat /\ e.cost \in Nat
      BY <2>3 DEF Entitlement
    <3> QED BY <3>1, <3>2, ActionFields DEF Lot
  <2>5. a # 0 /\ \A l \in lots : ~SameName(l, new)
    <3>1. a # 0
      BY ActionsAreFinite
    <3> QED BY <2>2, <3>1 DEF Kept, Named, SameName
  <2>6. entitlements' \subseteq entitlements /\ IsFiniteSet(entitlements')
    <3>1. entitlements' \subseteq entitlements
      BY <2>1
    <3> QED BY <3>1, KeptSets, FS_Subset
  <2>7. /\ lots' \subseteq Lot /\ IsFiniteSet(lots')
        /\ \A l, m \in lots' : SameName(l, m) => l = m
        /\ CostOf(lots') = CostOf(lots) + (IF e.distributed = 0 THEN 0 ELSE e.cost)
    <3>1. CASE e.distributed = 0
      <4>1. lots' = lots
        BY <2>1, <3>1
      <4>2. CostOf(lots) + 0 = CostOf(lots)
        BY KeptSets
      <4> QED BY <3>1, <4>1, <4>2, KeptSets
    <3>2. CASE e.distributed # 0
      <4>1. lots' = lots \cup {new}
        BY <2>1, <3>2
      <4>2. new \in Lot /\ new.cost = e.cost
        BY <2>4, <3>2
      <4> HIDE DEF new
      <4>3. LET M == lots \cup {new}
            IN  /\ M \subseteq Lot /\ IsFiniteSet(M)
                /\ \A l, k \in M : SameName(l, k) => l = k
                /\ CostOf(M) = CostOf(lots) + new.cost
        BY <2>5, <4>2, KeptSets, LotAdded
      <4> QED BY <3>2, <4>1, <4>2, <4>3
    <3> QED BY <3>1, <3>2
  <2>8. \A m \in lots' : (\E l \in lots : SameName(l, m)) \/ (m.source = a /\ m.acquired = day)
    <3>1. \A m \in lots' : m \in lots \/ m = new
      BY <2>1
    <3>2. new.source = a /\ new.acquired = day
      OBVIOUS
    <3> HIDE DEF new
    <3> QED BY <3>1, <3>2, SameIsSame
  <2>9. Kept'
    <3>1. cash' \in Nat /\ dividends' \in Nat /\ realized' \in Int
      BY <2>3, KeptSets
    <3> HIDE DEF new
    <3>2. entitlements' \subseteq Entitlement
          /\ \A x, y \in entitlements' : x.action = y.action => x = y
      BY <2>6, KeptSets
    <3> QED BY <1>1, <2>1, <2>6, <2>7, <2>8, <3>1, <3>2, ActionKeeps
  <2>10. CostOf(entitlements') = CostOf(entitlements) - e.cost
    <3>1. CostOf({e}) = e.cost
      BY <2>3, CostOfOne DEF Entitlement
    <3>2. CostOf(entitlements \ {e}) = CostOf(entitlements) - CostOf({e})
      <4>1. {e} \in SUBSET entitlements
        BY <2>3
      <4> QED BY <4>1, KeptSets, CostLeft
    <3> QED BY <2>1, <3>1, <3>2
  <2>11. e.distributed = 0 => e.cost = 0
    BY <2>3 DEF Kept, Waiting
  <2>12. CostOf(lots') + CostOf(entitlements') = CostOf(lots) + CostOf(entitlements)
    <3>1. e.cost \in Nat
      BY <2>3 DEF Entitlement
    <3> QED BY <2>7, <2>10, <2>11, <3>1, KeptSets
  <2>13. CostOf(lots)' = CostOf(lots') /\ CostOf(entitlements)' = CostOf(entitlements')
    BY DEF CostOf
  <2>14. CostOf(lots') \in Int /\ CostOf(entitlements') \in Int
    <3>1. e.cost \in Nat
      BY <2>3 DEF Entitlement
    <3> QED BY <2>7, <2>10, <3>1, KeptSets
  <2>15. ASSUME BooksBalance PROVE BooksBalance'
    <3>1. cash + CostOf(lots) + CostOf(entitlements) = InitialCash + realized + dividends
      BY <2>15 DEF BooksBalance
    <3>2. cash + CostOf(lots') + CostOf(entitlements') = InitialCash + realized + dividends
      BY <2>12, <2>14, <3>1, KeptSets
    <3> QED BY <2>3, <2>13, <3>2 DEF BooksBalance
  <2> QED BY <2>9, <2>15
<1> QED BY <1>2, <1>3

-----------------------------------------------------------------------------
(* Stock dividends.                                                        *)

\* What the ex-date of an action may do to what waits: take it out, or have a cost
\* wait for the shares of a stock dividend.
Waits(a) ==
    /\ entitlements' \subseteq Entitlement /\ IsFiniteSet(entitlements')
    /\ \A e, f \in entitlements' : e.action = f.action => e = f
    /\ \A e \in entitlements' :
         \/ e \in entitlements
         \/ /\ e.action = a
            /\ e.cost # 0 => /\ e.distributed # 0
                             /\ Actions[a].type = "stock_dividend"

\* A corporate action that changes lots on its ex-date, and what waits for it.
LEMMA LotsKeep ==
    ASSUME Kept, NEW a \in ActionIds, NEW type, Applies("ex", type, a), Applied,
           UNCHANGED <<cash, realized, dividends>>,
           NEW S, NEW K, NEW quantity, NEW cost,
           Replaces(lots, S, K, quantity, cost, lots'), Waits(a)
    PROVE  Kept' /\ CostOf(lots') = (CostOf(lots) - CostOf(S)) + Sum(cost, K)
<1>1. /\ lots' \subseteq Lot /\ IsFiniteSet(lots')
      /\ \A l, m \in lots' : SameName(l, m) => l = m
      /\ \A m \in lots' : \E l \in lots : SameName(l, m)
      /\ CostOf(lots') = (CostOf(lots) - CostOf(S)) + Sum(cost, K)
  BY LotsChange DEF LotsAre
<1>2. Kept'
  <2>1. Actions[a].type = type
    BY DEF Applies
  <2> QED BY <1>1, <2>1, KeptSets, ActionKeeps DEF Waits
<1> QED BY <1>1, <1>2

\* The books balance after what leaves the sum of the costs as it was.
LEMMA CostMoves ==
    ASSUME Kept, UNCHANGED <<cash, realized, dividends>>,
           CostOf(lots') + CostOf(entitlements') = CostOf(lots) + CostOf(entitlements),
           CostOf(lots') \in Int, CostOf(entitlements') \in Int, BooksBalance
    PROVE  BooksBalance'
<1>1. CostOf(lots)' = CostOf(lots') /\ CostOf(entitlements)' = CostOf(entitlements')
  BY DEF CostOf
<1>2. cash + CostOf(lots) + CostOf(entitlements) = InitialCash + realized + dividends
  BY DEF BooksBalance
<1>3. cash + CostOf(lots') + CostOf(entitlements') = InitialCash + realized + dividends
  BY <1>2, KeptSets
<1> QED BY <1>1, <1>3 DEF BooksBalance

\* _allocate_share_action_cost: what leaves the lots waits with the entitlement.
LEMMA AllocateKeeps ==
    ASSUME Kept, NEW a \in ActionIds, AllocateShareCost(a)
    PROVE  Kept' /\ (BooksBalance => BooksBalance')
<1> DEFINE i == Actions[a].instrument
           S == LotsOf(i)
           n == Quantity(i)
           new == (n * Actions[a].share[1]) \div Actions[a].share[2]
           total == CostOf(S)
           old == IF n + new = 0 THEN total ELSE RoundDiv(total * n, n + new)
           costs(last) == Shares(S, old, [l \in S |-> l.cost], total, last)
           Moved(e, last) ==
             /\ ~\E l \in S : costs(last)[l] < 0
             /\ lots' = (lots \ S) \cup {[l EXCEPT !.cost = costs(last)[l]] : l \in S}
             /\ entitlements' = (entitlements \ {e}) \cup
                  {[e EXCEPT !.distributed = new, !.cost = total - old, !.adjusted = day]}
             /\ Applied
             /\ UNCHANGED money
<1>6. Applies("ex", "stock_dividend", a)
  BY DEF AllocateShareCost
<1>7. CASE Applied /\ UNCHANGED <<money, lots, entitlements>>
  BY <1>6, <1>7, IdleAction
<1>8. CASE \E reason \in Raised : Raise(reason)
  <2>1. pc # "idle"
    BY <1>6 DEF Applies
  <2> QED BY <1>8, <2>1, RaiseKeeps
<1>9. CASE /\ ~(Applied /\ UNCHANGED <<money, lots, entitlements>>)
           /\ ~\E reason \in Raised : Raise(reason)
  <2>1. \E e \in EntitlementOf(a), last \in IF S = {} THEN {Never} ELSE S : Moved(e, last)
    <3>1. ~NotEntitled(a)
      BY <1>9 DEF NotEntitled
    <3>2. "cost_negative" \in Raised
      BY DEF Raised
    <3>3. \E e \in EntitlementOf(a), last \in IF S = {} THEN {Never} ELSE S :
            IF \E l \in S : costs(last)[l] < 0
            THEN Raise("cost_negative")
            ELSE /\ lots' = (lots \ S) \cup {[l EXCEPT !.cost = costs(last)[l]] : l \in S}
                 /\ entitlements' = (entitlements \ {e}) \cup
                      {[e EXCEPT !.distributed = new, !.cost = total - old,
                                 !.adjusted = day]}
                 /\ Applied
                 /\ UNCHANGED <<money, incomplete>>
      BY <1>9, <3>1 DEF AllocateShareCost
    <3>4. ~Raise("cost_negative")
      BY <1>9, <3>2
    <3> QED BY <3>3, <3>4
  <2>2. PICK e \in EntitlementOf(a), last \in IF S = {} THEN {Never} ELSE S : Moved(e, last)
    BY <2>1
  <2>3. PICK cost : cost = costs(last)
    OBVIOUS
  <2>4. PICK f : f = [e EXCEPT !.distributed = new, !.cost = total - old, !.adjusted = day]
    OBVIOUS
  <2>5. /\ \A l \in S : ~(cost[l] < 0)
        /\ lots' = (lots \ S) \cup {[l EXCEPT !.cost = cost[l]] : l \in S}
        /\ entitlements' = (entitlements \ {e}) \cup {f}
        /\ Applied
        /\ UNCHANGED <<cash, realized, dividends>>
    BY <2>2, <2>3, <2>4 DEF money
  <2>6. /\ S \in SUBSET lots /\ IsFiniteSet(S)
        /\ n \in Nat /\ total \in Nat /\ new \in Nat
    <3>1. IsFiniteSet(S) /\ n \in Nat /\ total \in Nat
      BY KeptSets, PositionType
    <3>2. Actions[a].share[1] \in Nat /\ Actions[a].share[2] \in Nat \ {0}
      BY ActionFields
    <3>3. n * Actions[a].share[1] \in Nat
      BY <3>1, <3>2
    <3>4. new \in Nat
      BY <3>2, <3>3, Division
    <3> QED BY <3>1, <3>4 DEF LotsOf
  <2>7. old \in 0..total /\ (new = 0 => old = total)
    <3>1. CASE n + new = 0
      BY <2>6, <3>1
    <3>2. CASE n + new # 0
      <4>1. old = RoundDiv(total * n, n + new) /\ n + new \in Nat \ {0} /\ n <= n + new
        BY <2>6, <3>2
      <4>2. old \in 0..total
        BY <2>6, <4>1, RoundedPart
      <4>3. new = 0 => n + new = n /\ n \in Nat \ {0}
        BY <2>6, <3>2
      <4>4. ASSUME new = 0 PROVE old = total
        <5>1. old = RoundDiv(total * n, n)
          BY <4>1, <4>3, <4>4
        <5> QED BY <2>6, <4>3, <4>4, <5>1, WholeIsExact
      <4> QED BY <4>2, <4>4
    <3> QED BY <3>1, <3>2
  <2>b. cost \in [S -> Int] /\ (S # {} => Sum(cost, S) = old)
    <3>1. PICK weight : weight = [l \in S |-> l.cost]
      OBVIOUS
    <3>2. \A l \in S : weight[l] \in Int
      BY <2>6, <3>1, KeptSets
    <3>3. PICK whole \in Nat, part \in Int : whole = total /\ part = old
      BY <2>6, <2>7
    <3>4. S # {} => last \in S
      OBVIOUS
    <3>5. cost = Shares(S, part, weight, whole, last)
      BY <2>3, <3>1, <3>3
    <3>6. IsFiniteSet(S)
      BY <2>6
    <3> HIDE DEF S, n, new, total, old, costs, Moved
    <3> QED BY <3>2, <3>3, <3>4, <3>5, <3>6, SharesAddUp
  <2>8. \A l \in S : cost[l] \in Nat
    <3>1. cost \in [S -> Int]
      BY <2>b
    <3>2. \A x \in Int : ~(x < 0) => x \in Nat
      OBVIOUS
    <3> QED BY <2>5, <3>1, <3>2
  <2>9. S # {} => Sum(cost, S) = old
    BY <2>b
  <2>10. S = {} => Sum(cost, S) = 0 /\ total = 0
    <3>1. ASSUME S = {} PROVE CostOf(S) = 0
      BY <2>6, <3>1, CostOfNothing
    <3> QED BY <3>1, SumEmpty
  <2>11. Sum(cost, S) = old
    BY <2>6, <2>7, <2>9, <2>10
  <2> HIDE DEF n, new, old, costs, Moved
  <2>12. PICK quantity : quantity = [l \in S |-> l.quantity]
    OBVIOUS
  <2>13. {[l EXCEPT !.cost = cost[l]] : l \in S} = Changed(S, quantity, cost)
    <3>1. ASSUME NEW l \in S
          PROVE  [l EXCEPT !.cost = cost[l]] = [l EXCEPT !.quantity = quantity[l], !.cost = cost[l]]
      <4>1. l \in Lot /\ quantity[l] = l.quantity
        BY <2>6, <2>12, KeptSets
      <4> QED BY <4>1 DEF Lot
    <3> QED BY <3>1 DEF Changed
  <2>14. \A l \in S : quantity[l] \in Nat \ {0}
    BY <2>6, <2>12, KeptSets
  <2>15. e \in entitlements /\ e \in Entitlement /\ e.action = a
    BY KeptSets DEF EntitlementOf
  <2>16. /\ f \in Entitlement /\ f.action = a /\ f.cost = total - old /\ f.distributed = new
         /\ f.cost \in Nat
    <3>1. day \in 0..LastDay /\ total - old \in Nat
      BY <2>6, <2>7, KeptSets
    <3>2. PICK m \in Nat, c \in Nat : m = new /\ c = total - old
      BY <2>6, <3>1
    <3>3. f = [e EXCEPT !.distributed = m, !.cost = c, !.adjusted = day]
      BY <2>4, <3>2
    <3> HIDE DEF total
    <3>4. f \in Entitlement /\ f.action = a /\ f.cost = c /\ f.distributed = m
      BY <2>15, <3>1, <3>3 DEF Entitlement
    <3> QED BY <3>2, <3>4
  <2>17. f.cost # 0 => f.distributed # 0
    BY <2>6, <2>7, <2>16
  <2>18. /\ entitlements' \subseteq Entitlement /\ IsFiniteSet(entitlements')
         /\ IsFiniteSet(entitlements \ {e})
    <3>1. IsFiniteSet(entitlements \ {e})
      BY KeptSets, FS_Subset
    <3>2. IsFiniteSet((entitlements \ {e}) \cup {f})
      BY <3>1, FS_AddElement
    <3> QED BY <2>5, <2>16, <3>1, <3>2, KeptSets
  <2>19. \A x \in entitlements \ {e} : x.action # a
    BY <2>15, KeptSets
  <2>20. \A x, y \in entitlements' : x.action = y.action => x = y
    BY <2>5, <2>16, <2>19, KeptSets
  <2>21. \A x \in entitlements' : x \in entitlements \/ x = f
    BY <2>5
  <2>22. lots' = (lots \ S) \cup Changed(S, quantity, cost)
    BY <2>5, <2>13
  <2>23. Kept' /\ CostOf(lots') = (CostOf(lots) - CostOf(S)) + Sum(cost, S)
    <3>1. Waits(a)
      <4>1. Actions[a].type = "stock_dividend"
        BY <1>6 DEF Applies
      <4> QED BY <2>16, <2>17, <2>18, <2>20, <2>21, <4>1 DEF Waits
    <3>2. Replaces(lots, S, S, quantity, cost, lots')
      BY <2>6, <2>8, <2>14, <2>22, KeptSets DEF Replaces, LotsAre
    <3> QED BY <1>6, <2>5, <3>1, <3>2, LotsKeep
  <2>24. CostOf(entitlements') = CostOf(entitlements) + (total - old)
    <3>1. PICK E : E = entitlements \ {e}
      OBVIOUS
    <3>2. IsFiniteSet(E) /\ IsFiniteSet({f}) /\ CostOf({f}) = f.cost
      BY <2>16, <2>18, <3>1, CostOfOne
    <3>3. E \cap {f} = {}
      BY <2>16, <2>19, <3>1
    <3>4. \A x \in E \cup {f} : x.cost \in Nat
      BY <2>16, <3>1, KeptSets
    <3>5. CostOf(E \cup {f}) = CostOf(E) + CostOf({f})
      BY <3>2, <3>3, <3>4, CostOfUnion
    <3>6. CostOf(E) = CostOf(entitlements)
      <4>1. e.cost = 0
        <5>1. [at |-> "ex", action |-> a] \in todo
          BY <1>6 DEF Applies
        <5> QED BY <2>15, <5>1 DEF Kept, Waiting
      <4>2. CostOf({e}) = 0
        BY <4>1, CostOfOne
      <4>3. {e} \in SUBSET entitlements
        BY <2>15
      <4>4. CostOf(entitlements \ {e}) = CostOf(entitlements) - CostOf({e})
        BY <4>3, KeptSets, CostLeft
      <4> QED BY <3>1, <4>2, <4>4, KeptSets
    <3>7. entitlements' = E \cup {f}
      BY <2>5, <3>1
    <3> QED BY <2>16, <3>2, <3>5, <3>6, <3>7
  <2>25. /\ CostOf(lots') \in Int /\ CostOf(entitlements') \in Int
         /\ CostOf(lots') + CostOf(entitlements') = CostOf(lots) + CostOf(entitlements)
    <3>1. CostOf(lots') = (CostOf(lots) - total) + old
      BY <2>11, <2>23
    <3>2. total \in Int /\ old \in Int
      BY <2>6, <2>7
    <3>3. PICK x \in Int, y \in Int : x = CostOf(lots) /\ y = CostOf(entitlements)
      BY KeptSets
    <3> HIDE DEF total
    <3>4. CostOf(lots') = (x - total) + old /\ CostOf(entitlements') = y + (total - old)
      BY <2>24, <3>1, <3>3
    <3> QED BY <3>2, <3>3, <3>4
  <2> QED BY <2>5, <2>23, <2>25, CostMoves
<1> QED BY <1>7, <1>8, <1>9

-----------------------------------------------------------------------------
(* Splits.                                                                 *)

\* The order in which the lots of an instrument are sold is total: a lot_id is
\* another for every name.
LEMMA SoldInOrder ==
    ASSUME NEW S, S \subseteq Lot, \A l, m \in S : SameName(l, m) => l = m,
           \A l, m \in S : l.instrument = m.instrument
    PROVE  /\ \A l, m \in S : l = m \/ SoldBefore(l, m) \/ SoldBefore(m, l)
           /\ \A l, m, k \in S : SoldBefore(l, m) /\ SoldBefore(m, k) => SoldBefore(l, k)
           /\ \A l \in S : ~SoldBefore(l, l)
<1>1. \A l \in S : l.sellable \in Int /\ l.acquired \in Int /\ LotId(l) \in Int
  <2>1. ASSUME NEW l \in S PROVE l.sellable \in Int /\ l.acquired \in Int /\ LotId(l) \in Int
    <3>1. l.acquired \in Days /\ l.sellable \in Days \cup {Never}
          /\ l.source \in {0} \cup ActionIds
      BY DEF Lot
    <3>2. <<l.acquired, l.source>> \in Days \X ({0} \cup ActionIds)
      BY <3>1
    <3>3. LotId(l) \in Int
      BY <3>2, DigestsAssumption DEF LotId
    <3> QED BY <3>1, <3>3, CalendarAssumption DEF Days, Never
  <2> QED BY <2>1
<1>2. ASSUME NEW l \in S, NEW m \in S, l.acquired = m.acquired, LotId(l) = LotId(m)
      PROVE  l = m
  <2>1. <<l.acquired, l.source>> \in Days \X ({0} \cup ActionIds)
        /\ <<m.acquired, m.source>> \in Days \X ({0} \cup ActionIds)
    BY DEF Lot
  <2>2. <<l.acquired, l.source>> = <<m.acquired, m.source>>
    BY <1>2, <2>1, DigestsAssumption DEF LotId
  <2>3. SameName(l, m)
    BY <2>2 DEF SameName
  <2> QED BY <2>3
<1>3. \A l, m \in S : l = m \/ SoldBefore(l, m) \/ SoldBefore(m, l)
  BY <1>1, <1>2 DEF SoldBefore
<1>4. \A l, m, k \in S : SoldBefore(l, m) /\ SoldBefore(m, k) => SoldBefore(l, k)
  BY <1>1 DEF SoldBefore
<1>5. \A l \in S : ~SoldBefore(l, l)
  BY <1>1 DEF SoldBefore
<1> QED BY <1>3, <1>4, <1>5

\* One of them is sold last.
LEMMA OneIsLast ==
    ASSUME NEW S, IsFiniteSet(S), S # {}, S \subseteq Lot,
           \A l, m \in S : SameName(l, m) => l = m,
           \A l, m \in S : l.instrument = m.instrument
    PROVE  \E l \in S : \A m \in S \ {l} : SoldBefore(m, l)
<1> DEFINE IsLast(l, T) == \A m \in T \ {l} : SoldBefore(m, l)
           P == {T \in SUBSET S : T # {} => \E l \in T : IsLast(l, T)}
<1>1. /\ \A l, m \in S : l = m \/ SoldBefore(l, m) \/ SoldBefore(m, l)
      /\ \A l, m, k \in S : SoldBefore(l, m) /\ SoldBefore(m, k) => SoldBefore(l, k)
  BY SoldInOrder
<1>2. ASSUME NEW T \in SUBSET S, \A x \in T : T \ {x} \in P PROVE T \in P
  <2>1. ASSUME NEW x \in T PROVE \E l \in T : IsLast(l, T)
    <3>1. CASE T \ {x} = {}
      <4>1. IsLast(x, T)
        BY <3>1
      <4> QED BY <4>1
    <3>2. CASE T \ {x} # {}
      <4>1. PICK l \in T \ {x} : IsLast(l, T \ {x})
        BY <1>2, <3>2
      <4>2. CASE SoldBefore(x, l)
        <5>1. IsLast(l, T)
          BY <4>1, <4>2
        <5> QED BY <5>1
      <4>3. CASE SoldBefore(l, x)
        <5>1. \A m \in T \ {x} : m = l \/ SoldBefore(m, l)
          BY <4>1
        <5>2. IsLast(x, T)
          BY <1>1, <4>3, <5>1
        <5> QED BY <5>2
      <4> QED BY <1>1, <4>2, <4>3
    <3> QED BY <3>1, <3>2
  <2> HIDE DEF IsLast
  <2> QED BY <2>1
<1>3. SUBSET S \subseteq P
  <2> HIDE DEF P
  <2> QED BY <1>2, SmallerFirst
<1> QED BY <1>3

\* What a split makes of each lot, and that none goes when the shares get no fewer.
LEMMA SplitType ==
    ASSUME NEW S, \A l \in S : l.quantity \in Nat \ {0},
           NEW ratio, ratio[1] \in Nat, ratio[2] \in Nat \ {0}
    PROVE  \A l \in S : /\ SplitQuantities(S, ratio)[l] \in Nat
                        /\ ratio[1] >= ratio[2] => SplitQuantities(S, ratio)[l] > 0
<1>1. ASSUME NEW l \in S
      PROVE  LET whole == (l.quantity * ratio[1]) \div ratio[2]
             IN  whole \in Nat /\ (ratio[1] >= ratio[2] => whole > 0)
  <2>1. PICK p \in Nat : p = ratio[1]
    OBVIOUS
  <2>2. PICK q \in Nat \ {0} : q = ratio[2]
    OBVIOUS
  <2>3. PICK n \in Nat \ {0} : n = l.quantity
    OBVIOUS
  <2>4. n * p \in Nat /\ (p >= q => n * p >= q)
    OBVIOUS
  <2>5. PICK m : m = n * p
    OBVIOUS
  <2>6. m \div q \in Nat /\ (m >= q => m \div q > 0)
    <3>1. m \in Nat
      BY <2>4, <2>5
    <3>2. m \div q \in Nat /\ m < q * (m \div q) + q
      BY <3>1, Division
    <3> QED BY <3>1, <3>2
  <2> QED BY <2>1, <2>2, <2>3, <2>4, <2>5, <2>6
<1> DEFINE whole(l) == (l.quantity * ratio[1]) \div ratio[2]
           fraction(l) == (l.quantity * ratio[1]) % ratio[2]
           target == (QuantityOf(S) * ratio[1]) \div ratio[2]
           spare == target - SumFunction([l \in S |-> whole(l)])
           ahead(l) == {m \in S : \/ fraction(m) > fraction(l)
                                  \/ fraction(m) = fraction(l) /\ LotId(m) < LotId(l)}
           one(l) == IF Cardinality(ahead(l)) < spare THEN 1 ELSE 0
<1>2. SplitQuantities(S, ratio) = [l \in S |-> whole(l) + one(l)]
  BY DEF SplitQuantities
<1>3. \A l \in S : one(l) \in {0, 1}
  OBVIOUS
<1> HIDE DEF one
<1>4. \A l \in S : whole(l) \in Nat /\ (ratio[1] >= ratio[2] => whole(l) > 0)
  BY <1>1
<1> HIDE DEF whole
<1>5. \A l \in S : SplitQuantities(S, ratio)[l] = whole(l) + one(l)
  BY <1>2
<1> QED BY <1>3, <1>4, <1>5

\* Splits that leave no fewer shares than there were.
Growing == \A a \in ActionIds : Actions[a].type = "split" =>
                                  Actions[a].share[1] >= Actions[a].share[2]

\* _apply_split: the cost of the position is shared out again, and none of it is lost
\* unless every lot is.
LEMMA SplitKeeps ==
    ASSUME Kept, NEW a \in ActionIds, ApplySplit(a)
    PROVE  Kept' /\ (Growing /\ BooksBalance => BooksBalance')
<1> DEFINE S == LotsOf(Actions[a].instrument)
           ratio == Actions[a].share
           target == (QuantityOf(S) * ratio[1]) \div ratio[2]
           quantity == SplitQuantities(S, ratio)
           kept == {l \in S : quantity[l] > 0}
           last == CHOOSE l \in kept : \A m \in kept \ {l} : SoldBefore(m, l)
           cost == Shares(kept, CostOf(S), quantity, target, last)
<1>1. Applies("ex", "split", a)
  BY DEF ApplySplit
<1>2. CASE Applied /\ UNCHANGED <<money, lots, entitlements>>
  BY <1>1, <1>2, IdleAction
<1>3. CASE \E reason \in Raised : Raise(reason)
  <2>1. pc # "idle"
    BY <1>1 DEF Applies
  <2> QED BY <1>3, <2>1, RaiseKeeps
<1>4. CASE /\ ~(Applied /\ UNCHANGED <<money, lots, entitlements>>)
           /\ ~\E reason \in Raised : Raise(reason)
  <2>1. /\ ~\E l \in kept : cost[l] < 0
        /\ lots' = (lots \ S) \cup
             {[l EXCEPT !.quantity = quantity[l], !.cost = cost[l]] : l \in kept}
        /\ entitlements' = entitlements \ EntitlementOf(a)
        /\ Applied
        /\ UNCHANGED money
    <3>1. ~NotEntitled(a)
      BY <1>4 DEF NotEntitled
    <3>2. ~Raise("cost_negative")
      BY <1>4 DEF Raised
    <3>3. IF \E l \in kept : cost[l] < 0
          THEN Raise("cost_negative")
          ELSE /\ lots' = (lots \ S) \cup
                    {[l EXCEPT !.quantity = quantity[l], !.cost = cost[l]] : l \in kept}
               /\ entitlements' = entitlements \ EntitlementOf(a)
               /\ Applied
               /\ UNCHANGED money
      BY <1>4, <3>1 DEF ApplySplit
    <3> QED BY <3>2, <3>3
  <2>2. Changed(kept, quantity, cost)
          = {[l EXCEPT !.quantity = quantity[l], !.cost = cost[l]] : l \in kept}
    BY DEF Changed
  <2>3. /\ S \subseteq lots /\ IsFiniteSet(S) /\ CostOf(S) \in Nat /\ QuantityOf(S) \in Nat
    BY KeptSets, PositionType DEF LotsOf, Quantity
  <2>4. \A l, m \in S : l.instrument = m.instrument
    BY DEF LotsOf
  <2>5. ratio[1] \in Nat /\ ratio[2] \in Nat \ {0}
    BY ActionFields
  <2>6. \A l \in S : l.quantity \in Nat \ {0}
    BY <2>3, KeptSets
  <2> HIDE DEF S
  <2>7. \A l \in S : quantity[l] \in Nat /\ (ratio[1] >= ratio[2] => quantity[l] > 0)
    <3> HIDE DEF ratio
    <3> QED BY <2>5, <2>6, SplitType
  <2>8. target \in Nat
    <3>1. QuantityOf(S) * ratio[1] \in Nat
      BY <2>3, <2>5
    <3> QED BY <2>5, <3>1, Division
  <2> HIDE DEF quantity, target
  <2>9. /\ kept \subseteq S /\ IsFiniteSet(kept)
        /\ \A l \in kept : quantity[l] \in Nat \ {0}
    <3>1. kept \subseteq S
      OBVIOUS
    <3>2. \A l \in kept : quantity[l] \in Nat \ {0}
      BY <2>7
    <3> QED BY <2>3, <3>1, <3>2, FS_Subset
  <2>10. kept # {} => last \in kept
    <3>1. ASSUME kept # {}
          PROVE  \E l \in kept : \A m \in kept \ {l} : SoldBefore(m, l)
      <4> HIDE DEF kept
      <4>1. /\ kept \subseteq Lot
            /\ \A l, m \in kept : SameName(l, m) => l = m
            /\ \A l, m \in kept : l.instrument = m.instrument
        BY <2>3, <2>4, <2>9, KeptSets
      <4> QED BY <2>9, <3>1, <4>1, OneIsLast
    <3> HIDE DEF kept
    <3> QED BY <3>1
  <2>11. Growing => kept = S
    <3>1. Actions[a].type = "split"
      BY <1>1 DEF Applies
    <3>2. Growing => ratio[1] >= ratio[2]
      BY <3>1 DEF Growing
    <3> HIDE DEF ratio
    <3> QED BY <2>7, <3>2
  <2> HIDE DEF kept, last
  <2>12. /\ \A l \in kept : cost[l] \in Int
         /\ last \in kept => Sum(cost, kept) = CostOf(S)
    <3>1. \A l \in kept : quantity[l] \in Int
      BY <2>9
    <3>2. CostOf(S) \in Int
      BY <2>3
    <3>3. PICK total \in Int : total = CostOf(S)
      BY <3>2
    <3>4. LET shares == Shares(kept, total, quantity, target, last)
          IN  /\ shares \in [kept -> Int]
              /\ last \in kept => Sum(shares, kept) = total
      BY <2>8, <2>9, <3>1, SharesAddUp
    <3> QED BY <3>3, <3>4
  <2> HIDE DEF cost
  <2>13. \A l \in kept : cost[l] \in Nat
    <3>1. \A x \in Int : ~(x < 0) => x \in Nat
      OBVIOUS
    <3> QED BY <2>1, <2>12, <3>1
  <2>14. Replaces(lots, S, kept, quantity, cost, lots')
    BY <2>1, <2>2, <2>3, <2>9, <2>13, KeptSets DEF Replaces, LotsAre
  <2>15. EntitlementOf(a) \subseteq entitlements
    BY DEF EntitlementOf
  <2>16. Waits(a)
    <3>1. entitlements' \subseteq entitlements
      BY <2>1
    <3>2. IsFiniteSet(entitlements')
      BY <3>1, KeptSets, FS_Subset
    <3> QED BY <3>1, <3>2, KeptSets DEF Waits
  <2>17. UNCHANGED <<cash, realized, dividends>>
    BY <2>1 DEF money
  <2>18. Kept' /\ CostOf(lots') = (CostOf(lots) - CostOf(S)) + Sum(cost, kept)
    BY <1>1, <2>1, <2>14, <2>16, <2>17, LotsKeep
  <2>19. CostOf(entitlements') = CostOf(entitlements)
    <3>1. PICK E : E = EntitlementOf(a)
      OBVIOUS
    <3>2. Actions[a].type # "stock_dividend"
      BY <1>1 DEF Applies
    <3>3. E \subseteq entitlements /\ \A e \in E : e.action = a
      BY <3>1 DEF EntitlementOf
    <3>4. \A e \in E : e.cost = 0
      BY <3>2, <3>3 DEF Kept, Waiting
    <3>5. IsFiniteSet(E)
      BY <3>3, KeptSets, FS_Subset
    <3>6. CostOf(E) = 0
      BY <3>4, <3>5, CostOfNothing
    <3>7. CostOf(entitlements \ E) = CostOf(entitlements) - CostOf(E)
      BY <3>3, KeptSets, CostLeft
    <3>8. entitlements' = entitlements \ E
      BY <2>1, <3>1
    <3> QED BY <3>6, <3>7, <3>8, KeptSets
  <2>20. ASSUME Growing PROVE Sum(cost, kept) = CostOf(S)
    <3>1. kept = S
      BY <2>11, <2>20
    <3>2. CASE S # {}
      BY <2>10, <2>12, <3>1, <3>2
    <3>3. CASE S = {}
      <4>1. CostOf(S) = 0
        BY <2>3, <3>3, CostOfNothing
      <4> QED BY <3>1, <3>3, <4>1, SumEmpty
    <3> QED BY <3>2, <3>3
  <2>21. ASSUME Growing, BooksBalance PROVE BooksBalance'
    <3>1. CostOf(lots') = (CostOf(lots) - CostOf(S)) + CostOf(S)
      BY <2>18, <2>20, <2>21
    <3>2. CostOf(lots') = CostOf(lots)
      BY <2>3, <3>1, KeptSets
    <3> QED BY <2>17, <2>19, <2>21, <3>2, KeptSets, CostMoves
  <2> QED BY <2>18, <2>21
<1> QED BY <1>2, <1>3, <1>4

-----------------------------------------------------------------------------
(* The session, its orders and its close.                                  *)

\* A session starts: what falls on it was not done before.
LEMMA OpenKeeps ==
    ASSUME Kept, NEW d \in Days, NEW h \in Snapshots, OpenSession(d, h)
    PROVE  Kept' /\ (BooksBalance => BooksBalance')
<1>1. /\ day' = d /\ day < d /\ horizon' = h /\ pc' = "actions"
      /\ bars' \in [Instruments -> Bars]
      /\ todo' = {t \in Dates : DateOf(t) = d}
      /\ UNCHANGED <<due, cash, realized, dividends, lots, orders, entitlements, prices, held>>
  BY DEF OpenSession, money
<1>2. day \in 0..LastDay /\ d \in 0..LastDay /\ h \in 0..LastDay /\ LastDay \in Nat
  BY KeptSets, CalendarAssumption DEF Days
<1>3. Typed'
  BY <1>1, <1>2 DEF Kept, Typed, TypeOK
<1>4. \A t \in todo' : DateOf(t) = d
  BY <1>1
<1>5. Named'
  <2>1. ASSUME NEW l \in lots
        PROVE  /\ l.acquired <= d /\ l.acquired # d
               /\ l.source # 0 => /\ l.acquired = Actions[l.source].listing
                                  /\ [at |-> "listing", action |-> l.source] \notin todo'
    <3>1. /\ l.acquired <= day /\ l.acquired \in Int
          /\ l.source # 0 => l.acquired = Actions[l.source].listing
      <4>1. l \in Lot
        BY KeptSets
      <4>2. l.acquired \in Int
        BY <4>1, CalendarAssumption DEF Lot, Days
      <4>3. l.acquired <= day /\ (l.source # 0 => l.acquired = Actions[l.source].listing)
        BY DEF Kept, Named
      <4> QED BY <4>2, <4>3
    <3>2. l.acquired <= d /\ l.acquired # d
      BY <1>1, <1>2, <3>1
    <3> QED BY <1>4, <3>1, <3>2, DateIs
  <2> QED BY <1>1, <2>1 DEF Kept, Named
<1>6. Waiting'
  <2>1. ASSUME NEW e \in entitlements, e.cost # 0
        PROVE  /\ Actions[e.action].ex <= d
               /\ [at |-> "ex", action |-> e.action] \notin todo'
    <3>1. Actions[e.action].ex <= day /\ Actions[e.action].ex \in Int
      <4>1. e.action \in ActionIds
        BY KeptSets DEF Entitlement
      <4>2. Actions[e.action].ex \in Days
        BY <4>1, ActionFields
      <4>3. Actions[e.action].ex <= day
        BY <2>1 DEF Kept, Waiting
      <4> QED BY <4>2, <4>3, CalendarAssumption DEF Days
    <3>2. Actions[e.action].ex <= d /\ Actions[e.action].ex # d
      BY <1>1, <1>2, <3>1
    <3> QED BY <1>4, <3>2, DateIs
  <2> QED BY <1>1, <1>4, <2>1 DEF Kept, Waiting, DateOf
<1>7. Orderly'
  BY <1>1 DEF Kept, Orderly
<1>8. BooksBalance => BooksBalance'
  BY <1>1 DEF BooksBalance, CostOf
<1> QED BY <1>3, <1>5, <1>6, <1>7, <1>8 DEF Kept

\* Orders change hands, and nothing else.
LEMMA OrdersMove ==
    ASSUME Kept, pc # "idle",
           UNCHANGED <<day, horizon, bars, cash, realized, dividends, lots, entitlements,
                       prices, held, todo>>,
           \/ pc = "actions" /\ pc' = "orders" /\ due' \subseteq orders
           \/ pc = "orders" /\ pc' = "orders" /\ due' \subseteq due
           \/ pc = "decide" /\ pc' = "idle" /\ due' = due,
           orders' \subseteq Order,
           \A o, p \in orders' : o.instrument = p.instrument => o = p
    PROVE  Kept' /\ (BooksBalance => BooksBalance')
<1>1. due' \subseteq orders \/ due' \subseteq due
  OBVIOUS
<1>2. Typed'
  BY <1>1 DEF Kept, Typed, TypeOK
<1>3. Named'
  BY DEF Kept, Named
<1>4. Waiting'
  BY DEF Kept, Waiting, DateOf
<1>5. Orderly'
  BY <1>1 DEF Kept, Orderly
<1>6. BooksBalance => BooksBalance'
  BY DEF BooksBalance, CostOf
<1> QED BY <1>2, <1>3, <1>4, <1>5, <1>6 DEF Kept

\* The orders that are due leave the pending ones.
LEMMA SelectKeeps ==
    ASSUME Kept, SelectOrders
    PROVE  Kept' /\ (BooksBalance => BooksBalance')
<1>1. orders' \subseteq orders /\ due' \subseteq orders
  BY DEF SelectOrders
<1>2. /\ orders' \subseteq Order
      /\ \A o, p \in orders' : o.instrument = p.instrument => o = p
  BY <1>1 DEF Kept, Typed, TypeOK, Orderly
<1>3. /\ pc = "actions" /\ pc' = "orders"
      /\ UNCHANGED <<day, horizon, bars, cash, realized, dividends, lots, entitlements,
                     prices, held, todo>>
  BY DEF SelectOrders, market, money
<1> QED BY <1>1, <1>2, <1>3, OrdersMove

\* A rejected order is gone.
LEMMA RejectKeeps ==
    ASSUME Kept, NEW o \in due, RejectOrder(o)
    PROVE  Kept' /\ (BooksBalance => BooksBalance')
<1>1. /\ pc = "orders" /\ pc' = "orders" /\ due' \subseteq due /\ orders' = orders
      /\ UNCHANGED <<day, horizon, bars, cash, realized, dividends, lots, entitlements,
                     prices, held, todo>>
  BY DEF RejectOrder, Executes, Executed, market
<1>2. /\ orders' \subseteq Order
      /\ \A x, p \in orders' : x.instrument = p.instrument => x = p
  BY <1>1 DEF Kept, Typed, TypeOK, Orderly
<1> QED BY <1>1, <1>2, OrdersMove

\* A session with no decision.
LEMMA NoIntentKeeps ==
    ASSUME Kept, NoIntent
    PROVE  Kept' /\ (BooksBalance => BooksBalance')
<1>1. /\ pc = "decide" /\ pc' = "idle" /\ due' = due /\ orders' = orders
      /\ UNCHANGED <<day, horizon, bars, cash, realized, dividends, lots, entitlements,
                     prices, held, todo>>
  BY DEF NoIntent, market, money
<1>2. /\ orders' \subseteq Order
      /\ \A x, p \in orders' : x.instrument = p.instrument => x = p
  BY <1>1 DEF Kept, Typed, TypeOK, Orderly
<1> QED BY <1>1, <1>2, OrdersMove

\* What has a price has it from a bar that was traded.
LEMMA PricedIsTraded ==
    ASSUME Kept, NEW i \in Instruments, bars[i].state = "traded"
    PROVE  bars[i] \in TradedBar
<1>1. bars[i] \in Bars \cup {[state |-> "missing"]}
  BY DEF Kept, Typed, TypeOK
<1> QED BY <1>1 DEF TradedBar

\* The orders of a decision are orders.
LEMMA DecidedAreOrders ==
    ASSUME Kept, day \in Days, day + 1 \in Days,
           NEW i \in Instruments, IsPriced(i), NEW weight \in Nat,
           NEW o \in OrderFor(i, weight)
    PROVE  o \in Order
<1>1. bars[i] \in TradedBar /\ bars[i].close > 0
  BY PricedIsTraded DEF IsPriced
<1>2. PICK b \in TradedBar : b = bars[i]
  BY <1>1
<1>3. /\ b.lot \in Nat \ {0} /\ b.step \in Nat \ {0} /\ b.close \in Nat \ {0}
  BY <1>1, <1>2, BarFields
<1>4. \A j \in Instruments : Quantity(j) \in Nat
  BY KeptSets, PositionType
<1>5. Equity \in Int
  <2> DEFINE worth == [j \in Instruments |-> Quantity(j) * prices[j]]
  <2>1. \A j \in Instruments : prices[j] \in Nat
    BY DEF Kept, Typed, TypeOK
  <2>2. worth \in [Instruments -> Int]
    BY <1>4, <2>1
  <2>3. Equity = cash + SumFunction(worth)
    BY DEF Equity
  <2> HIDE DEF worth
  <2>4. SumFunction(worth) \in Int
    BY <2>2, SumOfFunction, SumIsInt, IntentsAssumption
  <2> QED BY <2>3, <2>4, KeptSets
<1> DEFINE n == Quantity(i)
           wanted == (Equity * weight) \div (10 * b.close)
           target == NormalFloor(wanted, b.lot, b.step)
           sold == IF b.odd /\ target = 0 THEN n
                   ELSE NormalFloor(n - target, b.lot, b.step)
           buys == target > n
           quantity == IF buys THEN NormalFloor(target - n, b.lot, b.step) ELSE sold
<1>6. o = [instrument |-> i, side |-> IF buys THEN "buy" ELSE "sell",
           created |-> day, execution |-> day + 1, quantity |-> quantity] /\ quantity > 0
  BY <1>2 DEF OrderFor
<1>7. wanted \in Int
  <2>1. Equity * weight \in Int /\ 10 * b.close \in Nat \ {0}
    BY <1>3, <1>5
  <2> QED BY <2>1, Division
<1> HIDE DEF wanted
<1>8. \A m \in Int : NormalFloor(m, b.lot, b.step) \in Nat
  <2>1. PICK lot \in Nat \ {0}, step \in Nat \ {0} : lot = b.lot /\ step = b.step
    BY <1>3
  <2>2. \A m \in Int : NormalFloor(m, lot, step) \in Nat
    BY NormalFloorType
  <2> QED BY <2>1, <2>2
<1>9. target \in Nat /\ n \in Nat
  BY <1>4, <1>7, <1>8
<1> HIDE DEF n, target
<1>10. target - n \in Int /\ n - target \in Int
  BY <1>9
<1>11. quantity \in Nat
  BY <1>8, <1>9, <1>10
<1> HIDE DEF quantity, buys
<1>12. (IF buys THEN "buy" ELSE "sell") \in {"buy", "sell"}
  OBVIOUS
<1> QED BY <1>6, <1>11, <1>12 DEF Order

\* submit_intent makes orders and nothing else.
LEMMA SubmitKeeps ==
    ASSUME Kept, OrderLife, NEW w \in Intents, SubmitIntent(w)
    PROVE  Kept' /\ (BooksBalance => BooksBalance')
<1>1. /\ pc = "decide" /\ pc' = "idle" /\ due' = due
      /\ UNCHANGED <<day, horizon, bars, cash, realized, dividends, lots, entitlements,
                     prices, held, todo>>
  BY DEF SubmitIntent, market, money
<1>2. \A x, p \in orders' : x.instrument = p.instrument => x = p
  <2>1. OrderLife'
    BY DecidedOrders
  <2> QED BY <1>1, <2>1 DEF OrderLife, OrdersAreForTomorrow
<1> DEFINE symbols == DOMAIN w \cup {l.instrument : l \in lots}
           closed == {i \in symbols : IsPriced(i)}
           weight(i) == IF i \in DOMAIN w THEN Reduced(w)[i] ELSE 0
           new == UNION {OrderFor(i, weight(i)) : i \in closed}
<1>3. orders' = orders \/ (day < horizon /\ orders' = orders \cup new)
  BY DEF SubmitIntent
<1>4. orders \subseteq Order
  BY DEF Kept, Typed, TypeOK
<1>5. ASSUME day < horizon, NEW o \in new PROVE o \in Order
  <2>1. PICK i \in closed : o \in OrderFor(i, weight(i))
    OBVIOUS
  <2>2. i \in Instruments /\ IsPriced(i)
    BY KeptSets, IntentsAssumption DEF Lot
  <2>3. weight(i) \in Nat
    <3>1. CASE i \in DOMAIN w
      <4>1. weight(i) = Lesser(w[i], Risk.maximum)
        BY <3>1 DEF Reduced
      <4>2. w[i] \in Nat /\ Risk.maximum \in Nat
        BY <3>1, IntentsAssumption, ConstantTypes
      <4> QED BY <4>1, <4>2 DEF Lesser
    <3>2. CASE i \notin DOMAIN w
      BY <3>2
    <3> QED BY <3>1, <3>2
  <2>4. day \in Days /\ day + 1 \in Days
    <3>1. day \in Days /\ horizon \in 0..LastDay
      BY <1>1 DEF Kept, Typed, TypeOK
    <3> QED BY <1>5, <3>1, CalendarAssumption DEF Days
  <2> HIDE DEF weight
  <2> QED BY <2>1, <2>2, <2>3, <2>4, DecidedAreOrders
<1> HIDE DEF new
<1>6. orders' \subseteq Order
  BY <1>3, <1>4, <1>5
<1> QED BY <1>1, <1>2, <1>6, OrdersMove

\* The close records positions: no cost is in an entitlement yet.
LEMMA CloseKeeps ==
    ASSUME Kept, CloseSession
    PROVE  Kept' /\ (BooksBalance => BooksBalance')
<1> DEFINE recorded == {x \in ActionIds : Actions[x].record = day /\ EntitlementOf(x) = {}}
           entry == [a \in ActionIds |->
                       [action |-> a, quantity |-> Quantity(Actions[a].instrument),
                        distributed |-> 0, cost |-> 0, adjusted |-> 0]]
           new == {entry[a] : a \in recorded}
<1>1. /\ pc = "orders" /\ pc' = "decide"
      /\ UNCHANGED <<day, horizon, bars, cash, realized, dividends, lots, orders, todo, due>>
      /\ prices' = [i \in Instruments |-> IF IsPriced(i) THEN bars[i].close ELSE prices[i]]
      /\ DOMAIN held' = DOMAIN held \cup {day}
  BY DEF CloseSession, market, money
<1>2. entitlements' = entitlements \cup new
  BY DEF CloseSession
<1>3. prices' \in [Instruments -> Nat]
  <2>1. ASSUME NEW i \in Instruments, IsPriced(i) PROVE bars[i].close \in Nat
    BY <2>1, PricedIsTraded, BarFields DEF IsPriced
  <2>2. \A i \in Instruments : prices[i] \in Nat
    BY DEF Kept, Typed, TypeOK
  <2> QED BY <1>1, <2>1, <2>2
<1>4. ASSUME NEW a \in ActionIds
      PROVE  entry[a] \in Entitlement /\ entry[a].cost = 0 /\ entry[a].action = a
  <2>1. Quantity(Actions[a].instrument) \in Nat
    BY KeptSets, PositionType
  <2>2. LastDay \in Nat
    BY CalendarAssumption
  <2>3. entry[a] = [action |-> a, quantity |-> Quantity(Actions[a].instrument),
                    distributed |-> 0, cost |-> 0, adjusted |-> 0]
    OBVIOUS
  <2> HIDE DEF entry
  <2> QED BY <2>1, <2>2, <2>3 DEF Entitlement
<1> HIDE DEF entry
<1>5. recorded \subseteq ActionIds /\ IsFiniteSet(recorded)
  BY ActionsAreFinite, FS_Subset
<1>6. IsFiniteSet(new)
  BY <1>5, ImageIsFinite
<1>7. \A e \in entitlements, a \in recorded : e.action # a
  BY DEF EntitlementOf
<1> HIDE DEF recorded
<1>8. /\ new \subseteq Entitlement /\ \A e \in new : e.cost = 0
      /\ \A e \in new, f \in entitlements : e.action # f.action
      /\ \A e, f \in new : e.action = f.action => e = f
  BY <1>4, <1>5, <1>7
<1> HIDE DEF new
<1>9. entitlements' \subseteq Entitlement /\ IsFiniteSet(entitlements')
  BY <1>2, <1>6, <1>8, KeptSets, FS_Union
<1>10. Typed'
  <2>1. day \in Days
    BY <1>1 DEF Kept, Typed
  <2>2. DOMAIN held' \subseteq Days
    BY <1>1, <2>1 DEF Kept, Typed, TypeOK
  <2> QED BY <1>1, <1>3, <1>9, <2>1, <2>2 DEF Kept, Typed, TypeOK
<1>11. Named'
  BY <1>1 DEF Kept, Named
<1>12. Waiting'
  <2>1. \A e, f \in entitlements' : e.action = f.action => e = f
    BY <1>2, <1>8, KeptSets
  <2>2. \A e \in entitlements' : e.cost # 0 => e \in entitlements
    BY <1>2, <1>8
  <2> QED BY <1>1, <2>1, <2>2 DEF Kept, Waiting, DateOf
<1>13. Orderly'
  BY <1>1 DEF Kept, Orderly
<1>14. CostOf(entitlements') = CostOf(entitlements)
  <2>1. entitlements \cap new = {}
    BY <1>8
  <2>2. \A x \in entitlements \cup new : x.cost \in Nat
    BY <1>8, KeptSets
  <2>3. CostOf(entitlements \cup new) = CostOf(entitlements) + CostOf(new)
    <3>1. PICK E : E = entitlements
      OBVIOUS
    <3>2. CostOf(E \cup new) = CostOf(E) + CostOf(new)
      BY <1>6, <2>1, <2>2, <3>1, KeptSets, CostOfUnion
    <3> QED BY <3>1, <3>2
  <2>4. CostOf(new) = 0
    BY <1>6, <1>8, CostOfNothing
  <2> QED BY <1>2, <2>3, <2>4, KeptSets
<1>15. CostOf(lots') = CostOf(lots)
  BY <1>1
<1>16. BooksBalance => BooksBalance'
  BY <1>1, <1>14, <1>15, KeptSets, CostMoves
<1> QED BY <1>10, <1>11, <1>12, <1>13, <1>16 DEF Kept

-----------------------------------------------------------------------------
(* Fills.                                                                  *)

\* An order that fills does so in a bar that is traded, within what is allowed.
LEMMA OrderFills ==
    ASSUME Kept, NEW o \in due, Fills(o, bars[o.instrument])
    PROVE  LET b == bars[o.instrument]
               n == Approved(o, b)
           IN  /\ o \in Order /\ o.instrument \in Instruments
               /\ b \in TradedBar /\ b.volume > 0
               /\ n \in Nat \ {0} /\ Allowed(o, b, n)
<1>1. o \in Order /\ o.instrument \in Instruments /\ o.quantity \in Nat
  BY DEF Kept, Typed, TypeOK, Order
<1>2. PICK b : b = bars[o.instrument]
  OBVIOUS
<1>3. PICK n : n = Approved(o, b)
  OBVIOUS
<1>4. b.state = "traded" /\ b.volume # 0 /\ n > 0
  BY <1>2, <1>3 DEF Fills, IsBlocked
<1>5. b \in TradedBar
  BY <1>1, <1>2, <1>4, PricedIsTraded
<1>6. b.volume > 0
  BY <1>4, <1>5, BarFields
<1>7. Allowed(o, b, n)
  BY <1>1, <1>3, <1>5, KeptSets, ApprovedIsAllowed
<1>8. n \in Nat \ {0}
  <2>1. n \in 0..o.quantity
    BY <1>7 DEF Allowed
  <2> QED BY <1>1, <1>4, <2>1
<1> QED BY <1>1, <1>2, <1>3, <1>5, <1>6, <1>7, <1>8

\* Nothing of an order is left to do when it was executed.
LEMMA OrderDone ==
    ASSUME Kept, pc = "orders", NEW o \in due, Executed(o),
           cash' \in Nat, realized' \in Int, LotsAre(lots'),
           \A m \in lots' : \/ \E l \in lots : SameName(l, m)
                            \/ m.source = 0 /\ m.acquired = day
                               /\ m.instrument = o.instrument
    PROVE  Kept'
<1>1. /\ due' = due \ {o}
      /\ UNCHANGED <<day, horizon, bars, pc, orders, entitlements, prices, held, todo, dividends>>
  BY DEF Executed, market
<1>2. Typed'
  BY <1>1 DEF Kept, Typed, TypeOK, LotsAre
<1>3. ASSUME NEW m \in lots'
      PROVE  /\ m.acquired <= day
             /\ m.source = 0 /\ m.acquired = day => \A p \in due' : p.instrument # m.instrument
             /\ m.source # 0 => /\ m.acquired = Actions[m.source].listing
                                /\ [at |-> "listing", action |-> m.source] \notin todo
  <2>1. ASSUME NEW l \in lots, SameName(l, m)
        PROVE  /\ m.acquired <= day
               /\ m.source = 0 /\ m.acquired = day => \A p \in due' : p.instrument # m.instrument
               /\ m.source # 0 => /\ m.acquired = Actions[m.source].listing
                                  /\ [at |-> "listing", action |-> m.source] \notin todo
    BY <1>1, <2>1 DEF Kept, Named, SameName
  <2>2. CASE m.source = 0 /\ m.acquired = day /\ m.instrument = o.instrument
    <3>1. \A p \in due' : p.instrument # o.instrument
      BY <1>1 DEF Kept, Orderly
    <3>2. day \in Int
      BY KeptSets
    <3> QED BY <2>2, <3>1, <3>2
  <2> QED BY <2>1, <2>2
<1>4. Named'
  BY <1>1, <1>3 DEF Named, LotsAre
<1>5. Waiting'
  BY <1>1 DEF Kept, Waiting, DateOf
<1>6. Orderly'
  BY <1>1 DEF Kept, Orderly
<1> QED BY <1>2, <1>4, <1>5, <1>6 DEF Kept

\* _apply_buy: the cash pays for what the search has found, and the cost is in the lot.
LEMMA BuyKeeps ==
    ASSUME Kept, NEW o \in due, Buy(o)
    PROVE  Kept' /\ pc' = pc /\ (BooksBalance => BooksBalance')
<1>1. PICK b : b = bars[o.instrument]
  OBVIOUS
<1>2. PICK n : n = Approved(o, b)
  OBVIOUS
<1>3. PICK total : total = BuyTotal(n, b)
  OBVIOUS
<1>4. /\ o \in Order /\ o.instrument \in Instruments
      /\ b \in TradedBar /\ b.volume > 0
      /\ n \in Nat \ {0} /\ Allowed(o, b, n)
  BY <1>1, <1>2, OrderFills DEF Buy
<1>5. o.side = "buy" /\ pc = "orders"
  BY DEF Buy, Executes
<1>6. total \in Nat /\ total <= cash
  BY <1>3, <1>4, <1>5, BuyTotalType DEF Allowed
<1>7. PICK m : m = [instrument |-> o.instrument, acquired |-> day, source |-> 0,
                    quantity |-> n, sellable |-> SettlesOn(b.delay), cost |-> total]
  OBVIOUS
<1>8. /\ cash' = cash - total /\ lots' = lots \cup {m}
      /\ Executed(o) /\ UNCHANGED realized
  <2>1. ~(total > cash)
    BY <1>6, KeptSets
  <2> QED BY <1>1, <1>2, <1>3, <1>7, <2>1 DEF Buy
<1>9. m \in Lot /\ m.cost = total
  <2>1. day \in Days /\ horizon \in 0..LastDay /\ b.delay \in Nat
    BY <1>4, <1>5, BarFields DEF Kept, Typed, TypeOK
  <2>2. SettlesOn(b.delay) \in Days \cup {Never}
    BY <2>1, CalendarAssumption DEF SettlesOn, Days
  <2> QED BY <1>4, <1>6, <1>7, <2>1, <2>2 DEF Lot
<1>10. \A l \in lots : ~SameName(l, m)
  BY <1>5, <1>7 DEF Kept, Named, SameName
<1>11. LotsAre(lots') /\ CostOf(lots') = CostOf(lots) + total
  <2>1. PICK L : L = lots
    OBVIOUS
  <2>2. L \in SUBSET Lot /\ IsFiniteSet(L) /\ \A l, k \in L : SameName(l, k) => l = k
    BY <2>1, KeptSets
  <2>3. LET M == L \cup {m}
        IN  /\ M \subseteq Lot /\ IsFiniteSet(M)
            /\ \A l, k \in M : SameName(l, k) => l = k
            /\ CostOf(M) = CostOf(L) + m.cost
    BY <1>9, <1>10, <2>1, <2>2, LotAdded
  <2> QED BY <1>8, <1>9, <2>1, <2>3 DEF LotsAre
<1>12. Kept'
  <2>1. cash' \in Nat /\ realized' \in Int
    BY <1>6, <1>8, KeptSets
  <2>2. \A k \in lots' : k \in lots \/ k = m
    BY <1>8
  <2>3. m.source = 0 /\ m.acquired = day /\ m.instrument = o.instrument
    BY <1>7
  <2> QED BY <1>5, <1>8, <1>11, <2>1, <2>2, <2>3, SameIsSame, OrderDone
<1>13. ASSUME BooksBalance PROVE BooksBalance'
  <2>1. UNCHANGED <<entitlements, dividends>>
    BY <1>8 DEF Executed
  <2>2. CostOf(lots)' = CostOf(lots') /\ CostOf(entitlements)' = CostOf(entitlements)
    BY <2>1 DEF CostOf
  <2>3. cash + CostOf(lots) + CostOf(entitlements) = InitialCash + realized + dividends
    BY <1>13 DEF BooksBalance
  <2> QED BY <1>6, <1>8, <1>11, <2>1, <2>2, <2>3, KeptSets DEF BooksBalance
<1>14. pc' = pc
  BY <1>8 DEF Executed
<1> QED BY <1>12, <1>13, <1>14

\* What a sale takes of a lot, and the cost that goes with it.
LEMMA TakenType ==
    ASSUME NEW S, IsFiniteSet(S), \A l \in S : l.quantity \in Nat \ {0} /\ l.cost \in Nat,
           NEW n \in Nat
    PROVE  \A l \in S : LET m == TakenFrom(S, n)[l]
                        IN  /\ m \in 0..l.quantity
                            /\ CostTaken(l, m) \in 0..l.cost
                            /\ m = l.quantity => CostTaken(l, m) = l.cost
<1>1. ASSUME NEW l \in S
      PROVE  LET m == TakenFrom(S, n)[l]
             IN  /\ m \in 0..l.quantity
                 /\ CostTaken(l, m) \in 0..l.cost
                 /\ m = l.quantity => CostTaken(l, m) = l.cost
  <2>1. PICK B : B = {m \in S : SoldBefore(m, l)}
    OBVIOUS
  <2>2. QuantityOf(B) \in Nat
    <3>1. B \subseteq S
      BY <2>1
    <3>2. IsFiniteSet(B) /\ \A x \in B : x.quantity \in Nat
      BY <3>1, FS_Subset
    <3> QED BY <3>2, QuantityType
  <2>3. PICK m : m = TakenFrom(S, n)[l]
    OBVIOUS
  <2>4. m = Lesser(l.quantity, Greater(0, n - QuantityOf(B)))
    BY <2>1, <2>3 DEF TakenFrom
  <2>5. PICK q \in Nat \ {0} : q = l.quantity
    OBVIOUS
  <2>6. PICK c \in Nat : c = l.cost
    OBVIOUS
  <2>7. m \in 0..q
    BY <2>2, <2>4, <2>5 DEF Lesser, Greater
  <2>8. RoundDiv(c * m, q) \in 0..c
    <3>1. m \in Nat /\ m <= q
      BY <2>7
    <3> QED BY <3>1, RoundedPart
  <2>9. CostTaken(l, m) = IF m = q THEN c ELSE RoundDiv(c * m, q)
    BY <2>5, <2>6 DEF CostTaken
  <2>10. CostTaken(l, m) \in 0..c /\ (m = q => CostTaken(l, m) = c)
    BY <2>8, <2>9
  <2> QED BY <2>3, <2>5, <2>6, <2>7, <2>10
<1> QED BY <1>1

\* The lots of L after a sale of n out of S.
Sold(L, S, n, M) ==
    M = (L \ S) \cup
          {[l EXCEPT !.quantity = @ - TakenFrom(S, n)[l],
                     !.cost = @ - CostTaken(l, TakenFrom(S, n)[l])] :
             l \in {m \in S : TakenFrom(S, n)[m] < m.quantity}}

\* A lot is sold down to what is left of it.
LEMMA LotsSold ==
    ASSUME NEW L, LotsAre(L), NEW S, S \subseteq L, NEW n \in Nat, NEW M, Sold(L, S, n, M)
    PROVE  LET cost == SumFunction([l \in S |-> CostTaken(l, TakenFrom(S, n)[l])])
           IN  /\ LotsAre(M) /\ \A m \in M : \E l \in L : SameName(l, m)
               /\ cost \in Int /\ CostOf(M) = CostOf(L) - cost
               /\ QuantityOf(M) = QuantityOf(L) - Sum(TakenFrom(S, n), S)
               /\ Sum(TakenFrom(S, n), S) \in Int
<1>1. PICK taken : taken = TakenFrom(S, n)
  OBVIOUS
<1>2. PICK c : c = [l \in S |-> CostTaken(l, taken[l])]
  OBVIOUS
<1>3. PICK quantity : quantity = [l \in S |-> l.quantity - taken[l]]
  OBVIOUS
<1>4. PICK left : left = [l \in S |-> l.cost - c[l]]
  OBVIOUS
<1>5. PICK K : K = {m \in S : taken[m] < m.quantity}
  OBVIOUS
<1>6. IsFiniteSet(S) /\ \A l \in S : l \in Lot /\ l.quantity \in Nat \ {0} /\ l.cost \in Nat
  <2>1. IsFiniteSet(S)
    BY FS_Subset DEF LotsAre
  <2>2. \A l \in S : l \in Lot
    BY DEF LotsAre
  <2> QED BY <2>1, <2>2 DEF Lot
<1>7. /\ \A l \in S : taken[l] \in 0..l.quantity
      /\ \A l \in S : c[l] \in 0..l.cost
      /\ \A l \in S : taken[l] = l.quantity => c[l] = l.cost
  BY <1>1, <1>2, <1>6, TakenType
<1>8. ASSUME NEW l \in S
      PROVE  /\ c[l] \in Int /\ left[l] \in Nat /\ left[l] \in Int
             /\ l.cost = c[l] + left[l]
             /\ taken[l] \in Int /\ quantity[l] \in Int
             /\ l.quantity = taken[l] + quantity[l]
             /\ l \in K => quantity[l] \in Nat \ {0}
             /\ l \notin K => left[l] = 0 /\ quantity[l] = 0
  <2>1. PICK q \in Nat \ {0}, p \in Nat : q = l.quantity /\ p = l.cost
    BY <1>6
  <2>2. PICK m, d : m = taken[l] /\ d = c[l]
    OBVIOUS
  <2>3. m \in 0..q /\ d \in 0..p /\ (m = q => d = p)
    <3>1. taken[l] \in 0..l.quantity
      BY <1>7
    <3>2. c[l] \in 0..l.cost
      BY <1>7
    <3>3. taken[l] = l.quantity => c[l] = l.cost
      BY <1>7
    <3> QED BY <2>1, <2>2, <3>1, <3>2, <3>3
  <2>4. quantity[l] = q - m /\ left[l] = p - d
    BY <1>3, <1>4, <2>1, <2>2
  <2>5. l \in K <=> m < q
    BY <1>5, <2>1, <2>2
  <2>6. /\ d \in Int /\ p - d \in Nat /\ p - d \in Int /\ p = d + (p - d)
        /\ m \in Int /\ q - m \in Int /\ q = m + (q - m)
        /\ m < q => q - m \in Nat \ {0}
        /\ ~(m < q) => p - d = 0 /\ q - m = 0
    BY <2>3
  <2> QED BY <2>1, <2>2, <2>4, <2>5, <2>6
<1>8a. /\ \A l \in S : c[l] \in Int /\ left[l] \in Int
       /\ \A l \in S : taken[l] \in Int /\ quantity[l] \in Int
  BY <1>8
<1>9. \A l \in K : quantity[l] \in Nat \ {0} /\ left[l] \in Nat
  <2>1. ASSUME NEW l \in K PROVE quantity[l] \in Nat \ {0} /\ left[l] \in Nat
    <3>1. l \in S
      BY <1>5
    <3> QED BY <1>8, <3>1
  <2> QED BY <2>1
<1>10. M = (L \ S) \cup Changed(K, quantity, left)
  <2>1. ASSUME NEW l \in K
        PROVE  [l EXCEPT !.quantity = @ - taken[l], !.cost = @ - CostTaken(l, taken[l])]
                 = [l EXCEPT !.quantity = quantity[l], !.cost = left[l]]
    <3>1. l \in S
      BY <1>5
    <3>2. quantity[l] = l.quantity - taken[l] /\ left[l] = l.cost - CostTaken(l, taken[l])
      BY <1>2, <1>3, <1>4, <3>1
    <3>3. l \in Lot
      BY <1>6, <3>1
    <3> QED BY <3>2, <3>3 DEF Lot
  <2>2. {[l EXCEPT !.quantity = @ - taken[l], !.cost = @ - CostTaken(l, taken[l])] : l \in K}
          = Changed(K, quantity, left)
    BY <2>1 DEF Changed
  <2>3. M = (L \ S) \cup
              {[l EXCEPT !.quantity = @ - taken[l], !.cost = @ - CostTaken(l, taken[l])] :
                 l \in K}
    BY <1>1, <1>5 DEF Sold
  <2> QED BY <2>2, <2>3
<1>11. Replaces(L, S, K, quantity, left, M)
  BY <1>5, <1>9, <1>10 DEF Replaces
<1>12. /\ LotsAre(M) /\ \A m \in M : \E l \in L : SameName(l, m)
       /\ CostOf(M) = (CostOf(L) - CostOf(S)) + Sum(left, K)
       /\ QuantityOf(M) = (QuantityOf(L) - QuantityOf(S)) + Sum(quantity, K)
  BY <1>11, LotsChange
<1>13. /\ SumFunction(c) = Sum(c, S) /\ Sum(c, S) \in Int
       /\ Sum(taken, S) \in Int
  <2>1. c \in [S -> Int]
    BY <1>2, <1>8a
  <2> QED BY <1>6, <1>8a, <2>1, SumOfFunction, SumIsInt
<1>14. K \in SUBSET S /\ IsFiniteSet(K) /\ S \in SUBSET S
  BY <1>5, <1>6, FS_Subset
<1>15. CostOf(S) = Sum(c, S) + Sum(left, K)
  <2>1. PICK h : h = [l \in S |-> l.cost]
    OBVIOUS
  <2>2. CostOf(S) = Sum(h, S)
    BY <1>6, <1>14, <2>1, CostIs
  <2>3. \A l \in S : c[l] \in Int /\ left[l] \in Int /\ h[l] = c[l] + left[l]
    <3>1. ASSUME NEW l \in S
          PROVE  c[l] \in Int /\ left[l] \in Int /\ h[l] = c[l] + left[l]
      <4>1. h[l] = l.cost
        BY <2>1
      <4> QED BY <1>8, <4>1
    <3> QED BY <3>1
  <2>4. \A l \in S \ K : left[l] = 0
    BY <1>8
  <2> QED BY <1>6, <1>14, <2>2, <2>3, <2>4, SumParts
<1>16. QuantityOf(S) = Sum(taken, S) + Sum(quantity, K)
  <2>1. PICK h : h = [l \in S |-> l.quantity]
    OBVIOUS
  <2>2. QuantityOf(S) = Sum(h, S)
    BY <1>6, <1>14, <2>1, QuantityIs
  <2>3. \A l \in S : taken[l] \in Int /\ quantity[l] \in Int /\ h[l] = taken[l] + quantity[l]
    <3>1. ASSUME NEW l \in S
          PROVE  taken[l] \in Int /\ quantity[l] \in Int /\ h[l] = taken[l] + quantity[l]
      <4>1. h[l] = l.quantity
        BY <2>1
      <4> QED BY <1>8, <4>1
    <3> QED BY <3>1
  <2>4. \A l \in S \ K : quantity[l] = 0
    BY <1>8
  <2> QED BY <1>6, <1>14, <2>2, <2>3, <2>4, SumParts
<1>17. /\ CostOf(L) \in Int /\ Sum(left, K) \in Int
       /\ QuantityOf(L) \in Int /\ Sum(quantity, K) \in Int
  <2>1. IsFiniteSet(L) /\ \A l \in L : l.cost \in Nat /\ l.quantity \in Nat
    BY DEF LotsAre, Lot
  <2>2. \A l \in K : left[l] \in Int /\ quantity[l] \in Int
    BY <1>8a, <1>14
  <2> QED BY <1>14, <2>1, <2>2, CostType, QuantityType, SumIsInt
<1>18. /\ CostOf(M) = CostOf(L) - Sum(c, S)
       /\ QuantityOf(M) = QuantityOf(L) - Sum(taken, S)
  BY <1>12, <1>13, <1>15, <1>16, <1>17
<1> QED BY <1>1, <1>2, <1>12, <1>13, <1>18

\* _apply_sell: the cost that leaves the lots is realized with the proceeds.
LEMMA SellKeeps ==
    ASSUME Kept, NEW o \in due, Sell(o)
    PROVE  Kept' /\ pc' # "sell_exceeds_settled" /\ pc' # "buy_exceeds_cash"
           /\ (BooksBalance => BooksBalance')
<1>1. PICK b : b = bars[o.instrument]
  OBVIOUS
<1>2. PICK n : n = Approved(o, b)
  OBVIOUS
<1>3. PICK S : S = SettledLots(o.instrument)
  OBVIOUS
<1>4. PICK amount : amount = FillPrice("sell", n, b) * n
  OBVIOUS
<1>5. PICK fees : fees = Fees("sell", amount)
  OBVIOUS
<1>6. PICK cost : cost = SumFunction([l \in S |-> CostTaken(l, TakenFrom(S, n)[l])])
  OBVIOUS
<1>7. /\ o \in Order /\ o.instrument \in Instruments
      /\ b \in TradedBar /\ b.volume > 0
      /\ n \in Nat \ {0} /\ Allowed(o, b, n)
  BY <1>1, <1>2, OrderFills DEF Sell
<1>8. o.side = "sell" /\ pc = "orders"
  BY DEF Sell, Executes
<1>9. n <= QuantityOf(S) /\ S \subseteq lots /\ QuantityOf(S) \in Nat
  <2>1. n <= Sellable(o.instrument) /\ Sellable(o.instrument) \in Nat
    BY <1>7, <1>8, KeptSets, PositionType DEF Allowed
  <2> QED BY <1>3, <2>1 DEF Sellable, SettledLots, LotsOf
<1>10. CASE Raise("cash_negative")
  <2>1. Kept' /\ (BooksBalance => BooksBalance')
    <3>1. "cash_negative" \in Raised /\ pc # "idle"
      BY <1>8 DEF Raised
    <3> QED BY <1>10, <3>1, RaiseKeeps
  <2>2. pc' = "cash_negative"
    BY <1>10 DEF Raise
  <2> QED BY <2>1, <2>2
<1>11. CASE ~Raise("cash_negative")
  <2>1. /\ ~(cash + amount < fees)
        /\ cash' = cash + amount - fees
        /\ realized' = realized + amount - fees - cost
        /\ Sold(lots, S, n, lots')
        /\ Executed(o)
    <3>1. ~(n > QuantityOf(S))
      BY <1>7, <1>9
    <3> QED BY <1>1, <1>2, <1>3, <1>4, <1>5, <1>6, <1>11, <3>1 DEF Sell, Sold
  <2>2. amount \in Nat /\ fees \in Nat
    <3>1. FillPrice("sell", n, b) \in Nat
      BY <1>7, FillPriceType
    <3>2. amount \in Nat
      BY <1>4, <1>7, <3>1
    <3> QED BY <1>5, <3>2, FeesType
  <2>3. /\ LotsAre(lots') /\ \A m \in lots' : \E l \in lots : SameName(l, m)
        /\ cost \in Int /\ CostOf(lots') = CostOf(lots) - cost
    <3>1. LotsAre(lots)
      BY KeptSets DEF LotsAre
    <3>2. n \in Nat
      BY <1>7
    <3> QED BY <1>6, <1>9, <2>1, <3>1, <3>2, LotsSold
  <2>4. cash' \in Nat /\ realized' \in Int
    BY <2>1, <2>2, <2>3, KeptSets
  <2>5. Kept'
    BY <1>8, <2>1, <2>3, <2>4, OrderDone
  <2>6. ASSUME BooksBalance PROVE BooksBalance'
    <3>1. UNCHANGED <<entitlements, dividends>>
      BY <2>1 DEF Executed
    <3>2. CostOf(lots)' = CostOf(lots') /\ CostOf(entitlements)' = CostOf(entitlements)
      BY <3>1 DEF CostOf
    <3>3. cash + CostOf(lots) + CostOf(entitlements) = InitialCash + realized + dividends
      BY <2>6 DEF BooksBalance
    <3> QED BY <2>1, <2>2, <2>3, <3>1, <3>2, <3>3, KeptSets DEF BooksBalance
  <2>7. pc' = "orders"
    BY <1>8, <2>1 DEF Executed
  <2> QED BY <2>5, <2>6, <2>7
<1> QED BY <1>10, <1>11

-----------------------------------------------------------------------------
(* The books.                                                              *)

\* An empty portfolio has it all.
LEMMA KeptAtFirst == Init => Kept /\ NoneOverdrawn /\ BooksBalance
<1> SUFFICES ASSUME Init PROVE Kept /\ NoneOverdrawn /\ BooksBalance
  OBVIOUS
<1>1. IsFiniteSet({})
  BY FS_EmptySet
<1>2. CostOf({}) = 0
  BY <1>1, CostOfNothing
<1>3. TypeOK
  <2>1. LastDay \in Nat /\ InitialCash \in Nat
    BY CalendarAssumption, InitialCashAssumption
  <2>2. DOMAIN held \subseteq Days
    BY DEF Init
  <2>3. /\ bars \in [Instruments -> Bars \cup {[state |-> "missing"]}]
        /\ prices \in [Instruments -> Nat]
    BY DEF Init
  <2> QED BY <2>1, <2>2, <2>3 DEF Init, TypeOK
<1>4. Typed
  BY <1>1, <1>3 DEF Init, Typed
<1>5. Named /\ Waiting /\ Orderly
  BY DEF Init, Named, Waiting, Orderly
<1>6. NoneOverdrawn
  BY DEF Init, NoneOverdrawn
<1>7. BooksBalance
  BY <1>2, InitialCashAssumption DEF Init, BooksBalance
<1> QED BY <1>4, <1>5, <1>6, <1>7 DEF Kept

\* Every step keeps what is known of the portfolio, and the books balanced; no order
\* is stopped by what the books cannot carry.
LEMMA KeptIsInductive ==
    ASSUME Kept, OrderLife, [Next]_vars
    PROVE  /\ Kept'
           /\ NoneOverdrawn => NoneOverdrawn'
           /\ Growing /\ BooksBalance => BooksBalance'
<1> DEFINE Goal == /\ Kept'
                   /\ NoneOverdrawn => NoneOverdrawn'
                   /\ Growing /\ BooksBalance => BooksBalance'
<1>1. ASSUME NEW d \in Days, NEW h \in Snapshots, OpenSession(d, h) PROVE Goal
  <2>1. pc' = "actions"
    BY <1>1 DEF OpenSession
  <2> QED BY <1>1, <2>1, OpenKeeps DEF NoneOverdrawn
<1>2. ASSUME NEW a \in ActionIds, ApplyAction(a) PROVE Goal
  <2>1. Kept' /\ (Growing /\ BooksBalance => BooksBalance')
    BY <1>2, AllocateKeeps, SplitKeeps, NoteKeeps, DeclineKeeps, PayKeeps, ListKeeps
       DEF ApplyAction
  <2>2. pc' \in {"actions", "cost_negative"}
    BY <1>2 DEF ApplyAction, AllocateShareCost, ApplySplit, NoteAction, DeclineRights,
       PayDividend, ListShares, NotEntitled, Applies, Applied, Raise
  <2> QED BY <2>1, <2>2 DEF NoneOverdrawn
<1>3. ASSUME SelectOrders PROVE Goal
  <2>1. pc' = "orders"
    BY <1>3 DEF SelectOrders
  <2> QED BY <1>3, <2>1, SelectKeeps DEF NoneOverdrawn
<1>4. ASSUME NEW o \in due, RejectOrder(o) PROVE Goal
  <2>1. pc' = "orders"
    BY <1>4 DEF RejectOrder, Executes, Executed
  <2> QED BY <1>4, <2>1, RejectKeeps DEF NoneOverdrawn
<1>5. ASSUME NEW o \in due, Buy(o) PROVE Goal
  <2>1. pc = "orders"
    BY <1>5 DEF Buy, Executes
  <2> QED BY <1>5, <2>1, BuyKeeps DEF NoneOverdrawn
<1>6. ASSUME NEW o \in due, Sell(o) PROVE Goal
  BY <1>6, SellKeeps DEF NoneOverdrawn
<1>7. ASSUME CloseSession PROVE Goal
  <2>1. pc' = "decide"
    BY <1>7 DEF CloseSession
  <2> QED BY <1>7, <2>1, CloseKeeps DEF NoneOverdrawn
<1>8. ASSUME NoIntent PROVE Goal
  <2>1. pc' = "idle"
    BY <1>8 DEF NoIntent
  <2> QED BY <1>8, <2>1, NoIntentKeeps DEF NoneOverdrawn
<1>9. ASSUME NEW w \in Intents, SubmitIntent(w) PROVE Goal
  <2>1. pc' = "idle"
    BY <1>9 DEF SubmitIntent
  <2> QED BY <1>9, <2>1, SubmitKeeps DEF NoneOverdrawn
<1>10. ASSUME UNCHANGED vars PROVE Goal
  <2>1. UNCHANGED <<day, pc, bars, todo, due, cash, lots, orders, entitlements, prices,
                    realized, dividends, held, horizon>>
    BY <1>10 DEF vars
  <2>2. Kept'
    BY <2>1 DEF Kept, Typed, TypeOK, Named, Waiting, Orderly, DateOf
  <2>3. NoneOverdrawn => NoneOverdrawn'
    BY <2>1 DEF NoneOverdrawn
  <2>4. BooksBalance => BooksBalance'
    BY <2>1 DEF BooksBalance, CostOf
  <2> QED BY <2>2, <2>3, <2>4
<1> QED BY <1>1, <1>2, <1>3, <1>4, <1>5, <1>6, <1>7, <1>8, <1>9, <1>10 DEF Next

\* What the kernel's invariants rest on holds from the first state on.
LEMMA OrderLifeAtFirst == Init => OrderLife
BY DEF Init, OrderLife, OrdersAreForTomorrow

\* TypeOK for every market, calendar, policy and strategy: in particular no quantity and
\* no cost of a lot is ever negative (Lot.__post_init__, Portfolio.__post_init__).
THEOREM KernelTypes == Spec => []TypeOK
<1>1. Init => Kept /\ OrderLife
  BY KeptAtFirst, OrderLifeAtFirst
<1>2. Kept /\ OrderLife /\ [Next]_vars => Kept' /\ OrderLife'
  BY KeptIsInductive, OrderLifeIsInductive
<1>3. Kept => TypeOK
  BY DEF Kept, Typed
<1> QED BY <1>1, <1>2, <1>3, PTL DEF Spec

\* NoneOverdrawn for every market, calendar, policy and strategy: what
\* _affordable_buy_quantity finds the cash always pays for, and what _approved sells is
\* always settled, so that the guards of _apply_buy and _apply_sell never raise.
THEOREM NothingIsOverdrawn == Spec => []NoneOverdrawn
<1>1. Init => Kept /\ OrderLife /\ NoneOverdrawn
  BY KeptAtFirst, OrderLifeAtFirst
<1>2. Kept /\ OrderLife /\ NoneOverdrawn /\ [Next]_vars
        => Kept' /\ OrderLife' /\ NoneOverdrawn'
  BY KeptIsInductive, OrderLifeIsInductive
<1> QED BY <1>1, <1>2, PTL DEF Spec

\* BooksBalance where no split leaves fewer shares than there were, for every market,
\* calendar, policy and strategy: no rounding of a sale, a distribution or a split makes
\* or loses a cent.
THEOREM EveryCentIsSomewhere == Growing => (Spec => []BooksBalance)
<1> SUFFICES ASSUME Growing PROVE Spec => []BooksBalance
  OBVIOUS
<1>1. Init => Kept /\ OrderLife /\ BooksBalance
  BY KeptAtFirst, OrderLifeAtFirst
<1>2. Kept /\ OrderLife /\ BooksBalance /\ [Next]_vars
        => Kept' /\ OrderLife' /\ BooksBalance'
  BY KeptIsInductive, OrderLifeIsInductive
<1> QED BY <1>1, <1>2, PTL DEF Spec

-----------------------------------------------------------------------------
(* What a fill takes.                                                      *)

\* A sale takes what it is of, if there is that much (_apply_sell, the loop over the
\* lots in the order in which they were settled).
LEMMA TakenTotal ==
    ASSUME NEW S, IsFiniteSet(S), S \subseteq Lot,
           \A l, m \in S : SameName(l, m) => l = m,
           \A l, m \in S : l.instrument = m.instrument,
           NEW n \in Nat
    PROVE  Sum(TakenFrom(S, n), S) = Lesser(n, QuantityOf(S))
<1> DEFINE P == {T \in SUBSET S : Sum(TakenFrom(T, n), T) = Lesser(n, QuantityOf(T))}
<1>1. /\ \A l, m, k \in S : SoldBefore(l, m) /\ SoldBefore(m, k) => SoldBefore(l, k)
      /\ \A l \in S : ~SoldBefore(l, l)
  BY SoldInOrder
<1>2. \A l \in S : l.quantity \in Nat \ {0} /\ l.cost \in Nat
  BY DEF Lot
<1>3. ASSUME NEW T \in SUBSET S PROVE IsFiniteSet(T) /\ QuantityOf(T) \in Nat
  <2>1. IsFiniteSet(T)
    BY FS_Subset
  <2>2. \A l \in T : l.quantity \in Nat
    BY <1>2
  <2> QED BY <2>1, <2>2, QuantityType
<1>4. ASSUME NEW T \in SUBSET S, \A x \in T : T \ {x} \in P PROVE T \in P
  <2>1. CASE T = {}
    <3>1. Sum(TakenFrom(T, n), T) = 0
      BY <2>1, SumEmpty
    <3>2. QuantityOf(T) = 0
      <4>1. QuantityOf(T) = Sum([l \in T |-> l.quantity], T)
        BY <1>3, QuantityIs
      <4> QED BY <2>1, <4>1, SumEmpty
    <3>3. Lesser(n, 0) = 0
      BY DEF Lesser
    <3> QED BY <3>1, <3>2, <3>3
  <2>2. CASE T # {}
    <3>1. PICK x \in T : \A m \in T \ {x} : SoldBefore(m, x)
      <4>1. /\ IsFiniteSet(T) /\ T \subseteq Lot
            /\ \A l, m \in T : SameName(l, m) => l = m
            /\ \A l, m \in T : l.instrument = m.instrument
        BY <1>3
      <4> QED BY <2>2, <4>1, OneIsLast
    <3>2. PICK U \in SUBSET S : U = T \ {x}
      OBVIOUS
    <3>3. PICK taken : taken = TakenFrom(T, n)
      OBVIOUS
    <3>4. PICK before : before = TakenFrom(U, n)
      OBVIOUS
    <3>5. Sum(before, U) = Lesser(n, QuantityOf(U))
      BY <1>4, <3>2, <3>4
    <3>6. ASSUME NEW l \in U PROVE taken[l] = before[l]
      <4>1. {m \in T : SoldBefore(m, l)} = {m \in U : SoldBefore(m, l)}
        <5>1. ~SoldBefore(x, l)
          BY <1>1, <3>1, <3>2
        <5> QED BY <3>2, <5>1
      <4>2. l \in T
        BY <3>2
      <4> QED BY <3>3, <3>4, <4>1, <4>2 DEF TakenFrom
    <3>7. taken[x] = Lesser(x.quantity, Greater(0, n - QuantityOf(U)))
      <4>1. {m \in T : SoldBefore(m, x)} = U
        BY <1>1, <3>1, <3>2
      <4> QED BY <3>3, <4>1 DEF TakenFrom
    <3>8. \A l \in T : taken[l] \in Int
      <4>1. \A l \in T : l.quantity \in Nat \ {0} /\ l.cost \in Nat
        BY <1>2
      <4>2. \A l \in T : taken[l] \in 0..l.quantity
        BY <1>3, <3>3, <4>1, TakenType
      <4> QED BY <4>1, <4>2
    <3>9. Sum(taken, T) = taken[x] + Sum(taken, U)
      BY <1>3, <3>2, <3>8, SumRemove
    <3>10. Sum(taken, U) = Sum(before, U)
      BY <1>3, <3>6, SumSame
    <3>11. QuantityOf(T) = x.quantity + QuantityOf(U)
      <4>1. PICK h : h = [l \in T |-> l.quantity]
        OBVIOUS
      <4>2. QuantityOf(T) = Sum(h, T) /\ QuantityOf(U) = Sum(h, U)
        <5>1. T \in SUBSET T /\ U \in SUBSET T
          BY <3>2
        <5> QED BY <1>3, <4>1, <5>1, QuantityIs
      <4>3. \A l \in T : h[l] \in Int
        BY <1>2, <4>1
      <4>4. Sum(h, T) = h[x] + Sum(h, U)
        BY <1>3, <3>2, <4>3, SumRemove
      <4> QED BY <4>1, <4>2, <4>4
    <3>12. Sum(taken, T) = Lesser(n, QuantityOf(T))
      <4>1. PICK q \in Nat : q = x.quantity
        BY <1>2
      <4>2. PICK r \in Nat : r = QuantityOf(U)
        BY <1>3
      <4>3. Lesser(q, Greater(0, n - r)) + Lesser(n, r) = Lesser(n, q + r)
        BY DEF Lesser, Greater
      <4> QED BY <3>5, <3>7, <3>9, <3>10, <3>11, <4>1, <4>2, <4>3
    <3> QED BY <3>3, <3>12
  <2> QED BY <2>1, <2>2
<1>5. SUBSET S \subseteq P
  <2> HIDE DEF P
  <2> QED BY <1>4, SmallerFirst
<1> QED BY <1>5

\* A buy brings the position what was approved.
LEMMA BuyFills ==
    ASSUME Kept, NEW o \in due, Buy(o), pc' = "orders"
    PROVE  Filled(o.instrument) = Approved(o, bars[o.instrument])
<1>1. PICK b : b = bars[o.instrument]
  OBVIOUS
<1>2. PICK n : n = Approved(o, b)
  OBVIOUS
<1>3. PICK total : total = BuyTotal(n, b)
  OBVIOUS
<1>4. /\ o \in Order /\ o.instrument \in Instruments
      /\ b \in TradedBar /\ b.volume > 0
      /\ n \in Nat \ {0} /\ Allowed(o, b, n)
  BY <1>1, <1>2, OrderFills DEF Buy
<1>5. o.side = "buy" /\ pc = "orders"
  BY DEF Buy, Executes
<1>6. total \in Nat
  BY <1>3, <1>4, BuyTotalType
<1>7. PICK m : m = [instrument |-> o.instrument, acquired |-> day, source |-> 0,
                    quantity |-> n, sellable |-> SettlesOn(b.delay), cost |-> total]
  OBVIOUS
<1>8. lots' = lots \cup {m}
  BY <1>1, <1>2, <1>3, <1>7 DEF Buy, Raise
<1>9. m \in Lot /\ m.quantity = n /\ m.instrument = o.instrument
  <2>1. day \in Days /\ horizon \in 0..LastDay /\ b.delay \in Nat
    BY <1>4, <1>5, BarFields DEF Kept, Typed, TypeOK
  <2>2. SettlesOn(b.delay) \in Days \cup {Never}
    BY <2>1, CalendarAssumption DEF SettlesOn, Days
  <2> QED BY <1>4, <1>6, <1>7, <2>1, <2>2 DEF Lot
<1>10. \A l \in lots : ~SameName(l, m)
  BY <1>5, <1>7 DEF Kept, Named, SameName
<1>11. PICK L : L = LotsOf(o.instrument)
  OBVIOUS
<1>12. L \in SUBSET Lot /\ IsFiniteSet(L) /\ L \subseteq lots /\ QuantityOf(L) \in Nat
  BY <1>11, KeptSets, PositionType DEF LotsOf, Quantity
<1>13. QuantityOf(L \cup {m}) = QuantityOf(L) + m.quantity
  <2>1. /\ \A l, k \in L : SameName(l, k) => l = k
        /\ \A l \in L : ~SameName(l, m)
    BY <1>10, <1>12, KeptSets
  <2> QED BY <1>9, <1>12, <2>1, LotAdded
<1>14. Quantity(o.instrument)' = QuantityOf(L) + n
  <2>1. {l \in lots' : l.instrument = o.instrument} = L \cup {m}
    BY <1>8, <1>9, <1>11 DEF LotsOf
  <2> QED BY <1>9, <1>13, <2>1 DEF Quantity, LotsOf, QuantityOf
<1>15. Quantity(o.instrument) = QuantityOf(L)
  BY <1>11 DEF Quantity
<1> QED BY <1>1, <1>2, <1>4, <1>12, <1>14, <1>15 DEF Filled

\* A sale takes what was approved from the position.
LEMMA SellFills ==
    ASSUME Kept, NEW o \in due, Sell(o), pc' = "orders"
    PROVE  Filled(o.instrument) = Approved(o, bars[o.instrument])
<1>1. PICK b : b = bars[o.instrument]
  OBVIOUS
<1>2. PICK n : n = Approved(o, b)
  OBVIOUS
<1>3. PICK S : S = SettledLots(o.instrument)
  OBVIOUS
<1>4. PICK L : L = LotsOf(o.instrument)
  OBVIOUS
<1>5. n \in Nat \ {0} /\ Allowed(o, b, n)
  BY <1>1, <1>2, OrderFills DEF Sell
<1>6. o.side = "sell"
  BY DEF Sell
<1>7. n <= QuantityOf(S) /\ QuantityOf(S) \in Nat
  <2>1. n <= Sellable(o.instrument) /\ Sellable(o.instrument) \in Nat
    BY <1>5, <1>6, KeptSets, PositionType DEF Allowed
  <2> QED BY <1>3, <2>1 DEF Sellable
<1>8. S \subseteq L /\ L \subseteq lots /\ IsFiniteSet(S) /\ IsFiniteSet(L)
  BY <1>3, <1>4, KeptSets, PositionType DEF SettledLots, LotsOf
<1>9. Sold(lots, S, n, lots')
  <2>1. ~Raise("cash_negative") /\ ~Raise("sell_exceeds_settled")
    BY DEF Raise
  <2> QED BY <1>1, <1>2, <1>3, <2>1 DEF Sell, Sold
<1>10. PICK M : M = {l \in lots' : l.instrument = o.instrument}
  OBVIOUS
<1>11. Sold(L, S, n, M)
  <2> DEFINE left == {[l EXCEPT !.quantity = @ - TakenFrom(S, n)[l],
                                !.cost = @ - CostTaken(l, TakenFrom(S, n)[l])] :
                        l \in {m \in S : TakenFrom(S, n)[m] < m.quantity}}
  <2>1. lots' = (lots \ S) \cup left
    BY <1>9 DEF Sold
  <2>2. ASSUME NEW l \in S, NEW q, NEW c
        PROVE  [l EXCEPT !.quantity = q, !.cost = c].instrument = o.instrument
    <3>1. l \in Lot /\ l.instrument = o.instrument
      BY <1>4, <1>8, KeptSets DEF LotsOf
    <3> QED BY <3>1 DEF Lot
  <2>3. \A x \in left : x.instrument = o.instrument
    <3>1. ASSUME NEW x \in left PROVE x.instrument = o.instrument
      <4>1. PICK l \in {m \in S : TakenFrom(S, n)[m] < m.quantity} :
              x = [l EXCEPT !.quantity = @ - TakenFrom(S, n)[l],
                            !.cost = @ - CostTaken(l, TakenFrom(S, n)[l])]
        OBVIOUS
      <4> HIDE DEF left
      <4>2. PICK q : q = l.quantity - TakenFrom(S, n)[l]
        OBVIOUS
      <4>3. PICK c : c = l.cost - CostTaken(l, TakenFrom(S, n)[l])
        OBVIOUS
      <4>4. x = [l EXCEPT !.quantity = q, !.cost = c] /\ l \in S
        BY <4>1, <4>2, <4>3
      <4> QED BY <2>2, <4>4
    <3> HIDE DEF left
    <3> QED BY <3>1
  <2> HIDE DEF left
  <2>4. M = (L \ S) \cup left
    BY <1>4, <1>8, <1>10, <2>1, <2>3 DEF LotsOf
  <2> QED BY <2>4 DEF Sold, left
<1>12. /\ QuantityOf(M) = QuantityOf(L) - Sum(TakenFrom(S, n), S)
  <2>1. LotsAre(L)
    BY <1>8, KeptSets DEF LotsAre
  <2>2. n \in Nat
    BY <1>5
  <2> QED BY <1>8, <1>11, <2>1, <2>2, LotsSold
<1>13. Sum(TakenFrom(S, n), S) = n
  <2>1. /\ S \subseteq Lot /\ \A l, m \in S : SameName(l, m) => l = m
        /\ \A l, m \in S : l.instrument = m.instrument
    BY <1>4, <1>8, KeptSets DEF LotsOf
  <2>2. Sum(TakenFrom(S, n), S) = Lesser(n, QuantityOf(S))
    BY <1>5, <1>8, <2>1, TakenTotal
  <2>3. Lesser(n, QuantityOf(S)) = n
    BY <1>7 DEF Lesser
  <2> QED BY <2>2, <2>3
<1>14. Quantity(o.instrument)' = QuantityOf(M) /\ Quantity(o.instrument) = QuantityOf(L)
  BY <1>4, <1>10 DEF Quantity, LotsOf, QuantityOf
<1>15. QuantityOf(L) \in Nat
  BY <1>4, KeptSets, PositionType DEF Quantity
<1> QED BY <1>1, <1>2, <1>5, <1>12, <1>13, <1>14, <1>15 DEF Filled

\* Where the lots stay as they were, nothing was filled.
LEMMA NothingFilled ==
    ASSUME Kept, UNCHANGED lots, NEW i
    PROVE  Filled(i) = 0
<1>1. Quantity(i)' = Quantity(i)
  BY DEF Quantity, LotsOf, QuantityOf
<1>2. Quantity(i) \in Nat
  BY KeptSets, PositionType
<1> QED BY <1>1, <1>2 DEF Filled

\* An order that leaves the due ones has been executed, or the due ones are those of
\* another session.
LEMMA DueSteps ==
    ASSUME Next, NEW o \in due, o \notin due'
    PROVE  \/ UNCHANGED lots /\ (SelectOrders \/ RejectOrder(o))
           \/ Buy(o) /\ pc' = "orders"
           \/ Sell(o) /\ pc' = "orders"
<1>1. ASSUME NEW p \in due, RejectOrder(p) PROVE UNCHANGED lots /\ RejectOrder(o)
  <2>1. p = o
    BY <1>1 DEF RejectOrder, Executed
  <2> QED BY <1>1, <2>1 DEF RejectOrder
<1>2. ASSUME NEW p \in due, Buy(p) PROVE Buy(o) /\ pc' = "orders"
  <2>1. p = o /\ pc' = "orders"
    BY <1>2 DEF Buy, Executes, Executed, Raise
  <2> QED BY <1>2, <2>1
<1>3. ASSUME NEW p \in due, Sell(p) PROVE Sell(o) /\ pc' = "orders"
  <2>1. p = o /\ pc' = "orders"
    BY <1>3 DEF Sell, Executes, Executed, Raise
  <2> QED BY <1>3, <2>1
<1>4. ASSUME SelectOrders PROVE UNCHANGED lots
  BY <1>4 DEF SelectOrders
<1>5. ASSUME NEW a \in ActionIds, ApplyAction(a) PROVE FALSE
  BY <1>5 DEF ApplyAction, AllocateShareCost, ApplySplit, NoteAction, DeclineRights,
     PayDividend, ListShares, NotEntitled, Applied, Raise
<1> QED BY <1>1, <1>2, <1>3, <1>4, <1>5
        DEF Next, OpenSession, CloseSession, NoIntent, SubmitIntent

\* What a step fills of an order is allowed.
LEMMA FillIsAllowed ==
    ASSUME Kept, Next, NEW o \in due, o \notin due'
    PROVE  LET b == bars[o.instrument]
               n == Filled(o.instrument)
           IN  n > 0 => b.state = "traded" /\ Allowed(o, b, n)
<1>1. CASE UNCHANGED lots
  BY <1>1, NothingFilled
<1>2. CASE Buy(o) /\ pc' = "orders"
  <2>1. Filled(o.instrument) = Approved(o, bars[o.instrument])
    BY <1>2, BuyFills
  <2>2. bars[o.instrument] \in TradedBar
        /\ Allowed(o, bars[o.instrument], Approved(o, bars[o.instrument]))
    BY <1>2, OrderFills DEF Buy
  <2> QED BY <2>1, <2>2 DEF TradedBar
<1>3. CASE Sell(o) /\ pc' = "orders"
  <2>1. Filled(o.instrument) = Approved(o, bars[o.instrument])
    BY <1>3, SellFills
  <2>2. bars[o.instrument] \in TradedBar
        /\ Allowed(o, bars[o.instrument], Approved(o, bars[o.instrument]))
    BY <1>3, OrderFills DEF Sell
  <2> QED BY <2>1, <2>2 DEF TradedBar
<1> QED BY <1>1, <1>2, <1>3, DueSteps

\* FillsAreAllowed for every market, policy and strategy: what _approved lets through is
\* what _apply_buy and _apply_sell move, and neither the lots a sale is spread over nor
\* the search for what the cash pays changes it.
THEOREM FillsAreLegal == Spec => FillsAreAllowed
<1>1. Init => Kept /\ OrderLife
  BY KeptAtFirst, OrderLifeAtFirst
<1>2. Kept /\ OrderLife /\ [Next]_vars => Kept' /\ OrderLife'
  BY KeptIsInductive, OrderLifeIsInductive
<1>3. Kept /\ [Next]_vars =>
        [\A o \in due \ due' :
         LET b == bars[o.instrument]
             n == Filled(o.instrument)
         IN  n > 0 =>
               /\ b.state = "traded"
               /\ n <= o.quantity
               /\ n * Policy.den <= b.volume * Policy.num
               /\ \/ IsNormal(n, b.lot, b.step)
                  \/ o.side = "sell" /\ b.odd /\ n = Quantity(o.instrument)]_vars
  BY FillIsAllowed DEF Allowed
<1> QED BY <1>1, <1>2, <1>3, PTL DEF Spec, FillsAreAllowed

-----------------------------------------------------------------------------
(* The best quantity.                                                      *)

\* A quotient grows with what is divided, and so do the rounded ones.
LEMMA DivisionGrows ==
    ASSUME NEW a \in Int, NEW c \in Int, a <= c, NEW b \in Nat \ {0}
    PROVE  /\ a \div b <= c \div b
           /\ RoundDiv(a, b) <= RoundDiv(c, b)
           /\ CeilDiv(a, b) <= CeilDiv(c, b)
<1>1. ASSUME NEW x \in Int, NEW y \in Int, x <= y, NEW d \in Nat \ {0}
      PROVE  x \div d <= y \div d
  <2>1. PICK q \in Int : q = y \div d /\ y < d * q + d
    BY Division
  <2>2. d * q + d = (q + 1) * d
    OBVIOUS
  <2>3. d * q \in Int
    OBVIOUS
  <2>4. x < (q + 1) * d
    BY <1>1, <2>1, <2>2, <2>3
  <2> QED BY <2>1, <2>4, DivisionAtMost
<1>2. 2 * a + b \in Int /\ 2 * c + b \in Int /\ 2 * a + b <= 2 * c + b /\ 2 * b \in Nat \ {0}
  OBVIOUS
<1>3. a + b - 1 \in Int /\ c + b - 1 \in Int /\ a + b - 1 <= c + b - 1
  OBVIOUS
<1> QED BY <1>1, <1>2, <1>3 DEF RoundDiv, CeilDiv

\* A product grows with either factor.
LEMMA ProductGrows ==
    ASSUME NEW a \in Nat, NEW b \in Nat, NEW c \in Nat, NEW d \in Nat, a <= b, c <= d
    PROVE  a * c <= b * d /\ a * c \in Nat /\ b * d \in Nat
<1>1. a * c <= b * c
  OBVIOUS
<1>2. b * c <= b * d
  OBVIOUS
<1>3. a * c \in Nat /\ b * c \in Nat /\ b * d \in Nat
  OBVIOUS
<1> QED BY <1>1, <1>2, <1>3

\* More costs more in fees.
LEMMA FeesGrow ==
    ASSUME NEW a \in Nat, NEW c \in Nat, a <= c
    PROVE  Fees("buy", a) <= Fees("buy", c)
<1>1. PICK w : w = 10000
  OBVIOUS
<1>2. ASSUME NEW r \in Nat
      PROVE  /\ RoundDiv(a * r, w) <= RoundDiv(c * r, w)
             /\ RoundDiv(a * r, w) \in Nat /\ RoundDiv(c * r, w) \in Nat
  <2>1. a * r <= c * r /\ a * r \in Nat /\ c * r \in Nat
    BY ProductGrows
  <2>2. w \in Nat \ {0}
    BY <1>1
  <2>3. PICK x \in Nat, y \in Nat : x = a * r /\ y = c * r /\ x <= y
    BY <2>1
  <2>4. RoundDiv(x, w) <= RoundDiv(y, w)
    BY <2>2, <2>3, DivisionGrows
  <2>5. RoundDiv(x, w) \in Nat /\ RoundDiv(y, w) \in Nat
    BY <2>2, <2>3, RoundDivType
  <2> QED BY <2>3, <2>4, <2>5
<1>3. /\ RoundDiv(a * Fee.rate, w) <= RoundDiv(c * Fee.rate, w)
      /\ RoundDiv(a * Fee.rate, w) \in Nat /\ RoundDiv(c * Fee.rate, w) \in Nat
      /\ RoundDiv(a * Fee.levy, w) <= RoundDiv(c * Fee.levy, w)
      /\ RoundDiv(a * Fee.levy, w) \in Nat /\ RoundDiv(c * Fee.levy, w) \in Nat
  BY <1>2, ConstantTypes
<1>4. \A x, y, z \in Nat : x <= y => Greater(x, z) <= Greater(y, z) /\ Greater(x, z) \in Nat
                                     /\ Greater(y, z) \in Nat
  BY DEF Greater
<1>5. PICK f \in Nat, g \in Nat : /\ f = Greater(RoundDiv(a * Fee.rate, w), Fee.minimum)
                                  /\ g = Greater(RoundDiv(c * Fee.rate, w), Fee.minimum)
                                  /\ f <= g
  <2>1. PICK x \in Nat, y \in Nat : /\ x = RoundDiv(a * Fee.rate, w)
                                    /\ y = RoundDiv(c * Fee.rate, w) /\ x <= y
    BY <1>3
  <2>2. PICK z \in Nat : z = Fee.minimum
    BY ConstantTypes
  <2>3. Greater(x, z) <= Greater(y, z) /\ Greater(x, z) \in Nat /\ Greater(y, z) \in Nat
    BY <1>4, <2>1, <2>2
  <2> QED BY <2>1, <2>2, <2>3
<1>6. /\ Fees("buy", a) = f + RoundDiv(a * Fee.levy, w)
      /\ Fees("buy", c) = g + RoundDiv(c * Fee.levy, w)
  <2>1. \A x \in Nat : x + 0 = x
    OBVIOUS
  <2>2. /\ Fees("buy", a) = f + RoundDiv(a * Fee.levy, w) + 0
        /\ Fees("buy", c) = g + RoundDiv(c * Fee.levy, w) + 0
    BY <1>1, <1>5 DEF Fees
  <2> QED BY <1>3, <1>5, <2>2
<1> QED BY <1>3, <1>5, <1>6

\* The impact of an order grows with it, and so does the price of a buy (_fill_price).
LEMMA FillPriceGrows ==
    ASSUME NEW n \in Nat, NEW m \in Nat, n <= m, NEW b \in TradedBar, b.volume > 0
    PROVE  FillPrice("buy", n, b) <= FillPrice("buy", m, b)
<1> DEFINE v == b.volume * Policy.num
           used(k) == Lesser(k * Policy.den, v)
           whole == 10000 * v * v
           slip(k) == Policy.base * v * v + Policy.impact * used(k) * used(k)
           cost(k) == CeilDiv(b.open * (whole + slip(k)), whole)
           best(k) == Lesser(cost(k), b.high)
<1>1. v \in Nat \ {0}
  BY BarFields, ConstantTypes
<1>2. \A k \in {n, m} : FillPrice("buy", k, b) = Within(best(k), b)
  BY DEF FillPrice
<1> HIDE DEF v
<1>3. used(n) \in Nat /\ used(m) \in Nat /\ used(n) <= used(m)
  <2>1. n * Policy.den <= m * Policy.den /\ n * Policy.den \in Nat /\ m * Policy.den \in Nat
    BY ConstantTypes, ProductGrows
  <2> QED BY <1>1, <2>1 DEF Lesser
<1>4. whole \in Nat \ {0}
  BY <1>1
<1> HIDE DEF used, whole
<1>5. slip(n) \in Nat /\ slip(m) \in Nat /\ slip(n) <= slip(m)
  <2>1. PICK x \in Nat, y \in Nat : x = used(n) /\ y = used(m) /\ x <= y
    BY <1>3
  <2>2. Policy.impact * x <= Policy.impact * y
        /\ Policy.impact * x \in Nat /\ Policy.impact * y \in Nat
    BY <2>1, ConstantTypes, ProductGrows
  <2>3. PICK i \in Nat, j \in Nat : i = Policy.impact * x /\ j = Policy.impact * y /\ i <= j
    BY <2>2
  <2>4. i * x <= j * y /\ i * x \in Nat /\ j * y \in Nat
    BY <2>1, <2>3, ProductGrows
  <2>5. Policy.base * v * v \in Nat
    BY <1>1, ConstantTypes
  <2>6. PICK p \in Nat : p = Policy.base * v * v
    BY <2>5
  <2>7. slip(n) = p + i * x /\ slip(m) = p + j * y
    BY <2>1, <2>3, <2>6
  <2> HIDE DEF slip
  <2> QED BY <2>4, <2>7
<1> HIDE DEF slip
<1>6. /\ b.open * (whole + slip(n)) <= b.open * (whole + slip(m))
      /\ b.open * (whole + slip(n)) \in Nat /\ b.open * (whole + slip(m)) \in Nat
  <2>1. whole + slip(n) \in Nat /\ whole + slip(m) \in Nat
        /\ whole + slip(n) <= whole + slip(m)
    BY <1>4, <1>5
  <2> QED BY <2>1, BarFields, ProductGrows
<1>7. cost(n) \in Nat /\ cost(m) \in Nat /\ cost(n) <= cost(m)
  <2>1. PICK c \in Nat, d \in Nat : /\ c = b.open * (whole + slip(n))
                                    /\ d = b.open * (whole + slip(m)) /\ c <= d
    BY <1>6
  <2>2. PICK w \in Nat \ {0} : w = whole
    BY <1>4
  <2>3. CeilDiv(c, w) <= CeilDiv(d, w)
    BY <2>1, DivisionGrows
  <2>4. CeilDiv(c, w) \in Nat /\ CeilDiv(d, w) \in Nat
    <3>1. c + w - 1 \in Nat /\ d + w - 1 \in Nat
      OBVIOUS
    <3> QED BY <3>1, Division DEF CeilDiv
  <2> QED BY <2>1, <2>2, <2>3, <2>4
<1> HIDE DEF cost
<1>8. best(n) \in Nat /\ best(m) \in Nat /\ best(n) <= best(m)
  BY <1>7, BarFields DEF Lesser
<1> HIDE DEF best
<1>9. Within(best(n), b) <= Within(best(m), b)
  <2>1. PICK u \in Nat, d \in Nat : u = b.up /\ d = b.down
    BY BarFields
  <2> QED BY <1>8, <2>1 DEF Within, Lesser, Greater
<1> QED BY <1>2, <1>9

\* A larger buy costs more, price, rounding, minimum commission and all.
LEMMA BuyTotalGrows ==
    ASSUME NEW n \in Nat, NEW m \in Nat, n <= m, NEW b \in TradedBar, b.volume > 0
    PROVE  BuyTotal(n, b) <= BuyTotal(m, b)
<1>1. PICK p \in Nat, q \in Nat : p = FillPrice("buy", n, b) /\ q = FillPrice("buy", m, b)
  BY FillPriceType
<1>2. p <= q
  BY <1>1, FillPriceGrows
<1>3. p * n <= q * m /\ p * n \in Nat /\ q * m \in Nat
  BY <1>2, ProductGrows
<1>4. Fees("buy", p * n) <= Fees("buy", q * m)
      /\ Fees("buy", p * n) \in Nat /\ Fees("buy", q * m) \in Nat
  BY <1>3, FeesGrow, FeesType
<1> QED BY <1>1, <1>3, <1>4 DEF BuyTotal

\* A normal quantity is a number of steps above the lot.
LEMMA NormalSteps ==
    ASSUME NEW n \in Nat, NEW lot \in Nat \ {0}, NEW step \in Nat \ {0}, IsNormal(n, lot, step)
    PROVE  /\ n - lot \in Nat /\ (n - lot) \div step \in Nat
           /\ n = lot + ((n - lot) \div step) * step
<1>1. n - lot \in Nat /\ (n - lot) % step = 0
  BY DEF IsNormal
<1>2. PICK x \in Nat : x = n - lot
  BY <1>1
<1>3. x % step = 0 => x = step * (x \div step)
  OBVIOUS
<1>4. x \div step \in Nat
  BY Division
<1> QED BY <1>1, <1>2, <1>3, <1>4

\* _round_down_normal_quantity gives the largest normal quantity.
LEMMA NormalFloorIsLargest ==
    ASSUME NEW n \in Nat, NEW m \in Nat, n <= m,
           NEW lot \in Nat \ {0}, NEW step \in Nat \ {0}, IsNormal(n, lot, step)
    PROVE  n <= NormalFloor(m, lot, step)
<1>1. PICK k \in Nat : k = (n - lot) \div step /\ n = lot + k * step
  BY NormalSteps
<1>2. n - lot \in Nat /\ m - lot \in Nat /\ n - lot <= m - lot
  BY NormalSteps
<1>3. PICK j \in Int : j = (m - lot) \div step
  BY <1>2, Division
<1>4. k <= j
  BY <1>1, <1>2, <1>3, DivisionGrows
<1>5. k * step <= j * step
  BY <1>4
<1>6. NormalFloor(m, lot, step) = lot + j * step
  BY <1>2, <1>3 DEF NormalFloor
<1> QED BY <1>1, <1>5, <1>6

\* The search ends at the end of its range, or where the cash does not pay for the next
\* slot.
LEMMA SearchIsComplete ==
    ASSUME NEW b, NEW largest \in Nat, NEW search, Searches(search, b, largest),
           NEW range \in (0..largest) \X (0..largest), range[1] <= range[2]
    PROVE  search[range] = range[2] \/ ~(BuyTotal(Slot(b, search[range] + 1), b) <= cash)
<1> DEFINE Ranges == (0..largest) \X (0..largest)
           A(slot) == BuyTotal(Slot(b, slot), b) <= cash
           Good(w) == search[w] = w[2] \/ ~A(search[w] + 1)
           P == {n \in Nat : \A w \in Ranges : w[1] <= w[2] /\ w[2] - w[1] <= n => Good(w)}
<1>1. ASSUME NEW w \in Ranges, w[1] = w[2] PROVE Good(w)
  <2>1. search[w] = w[1]
    BY <1>1 DEF Searches
  <2> QED BY <1>1, <2>1
<1>2. 0 \in P
  BY <1>1
<1>3. ASSUME NEW n \in Nat, n \in P PROVE n + 1 \in P
  <2>1. ASSUME NEW w \in Ranges, w[1] < w[2], w[2] - w[1] <= n + 1 PROVE Good(w)
    <3>1. Mid(w) \in (w[1] + 1)..w[2]
      BY <2>1, Middle DEF Mid
    <3>2. search[w] = IF A(Mid(w)) THEN search[<<Mid(w), w[2]>>]
                                   ELSE search[<<w[1], Mid(w) - 1>>]
      <4>1. search[w] = IF w[1] >= w[2] THEN w[1]
                        ELSE IF BuyTotal(Slot(b, Mid(w)), b) <= cash
                             THEN search[<<Mid(w), w[2]>>]
                             ELSE search[<<w[1], Mid(w) - 1>>]
        BY DEF Searches
      <4>2. ~(w[1] >= w[2])
        BY <2>1
      <4> QED BY <4>1, <4>2
    <3> DEFINE u == <<Mid(w), w[2]>>
               d == <<w[1], Mid(w) - 1>>
    <3>3. /\ u \in Ranges /\ u[1] <= u[2] /\ u[2] - u[1] <= n
          /\ d \in Ranges /\ d[1] <= d[2] /\ d[2] - d[1] <= n
      BY <2>1, <3>1
    <3>4. /\ search[u] = w[2] \/ ~A(search[u] + 1)
          /\ search[d] = Mid(w) - 1 \/ ~A(search[d] + 1)
      <4>1. Good(u) /\ Good(d)
        <5> HIDE DEF Good, u, d
        <5> QED BY <1>3, <3>3
      <4> QED BY <4>1
    <3>5. (Mid(w) - 1) + 1 = Mid(w)
      BY <3>1
    <3> HIDE DEF A
    <3> QED BY <3>2, <3>4, <3>5
  <2> HIDE DEF Good
  <2>2. \A w \in Ranges : w[1] \in Int /\ w[2] \in Int
    OBVIOUS
  <2> QED BY <1>1, <2>1, <2>2
<1>4. range[2] - range[1] \in P
  <2> HIDE DEF P
  <2>1. range[2] - range[1] \in Nat
    OBVIOUS
  <2> QED BY <1>2, <1>3, <2>1, AllNaturals
<1> QED BY <1>4

\* What _affordable_buy_quantity finds is the largest quantity that the cash pays for.
LEMMA AffordableIsLargest ==
    ASSUME NEW maximum \in Nat, NEW b \in TradedBar, b.volume > 0,
           NEW n \in Nat, n <= maximum, IsNormal(n, b.lot, b.step), BuyTotal(n, b) <= cash,
           cash \in Nat
    PROVE  n <= AffordableBuyQuantity(maximum, b)
<1>1. PICK lot \in Nat \ {0}, step \in Nat \ {0} : lot = b.lot /\ step = b.step
  BY BarFields
<1>a. IsNormal(n, lot, step)
  BY <1>1
<1>b. /\ n - lot \in Nat /\ (n - lot) \div step \in Nat
      /\ n = lot + ((n - lot) \div step) * step
  BY <1>a, NormalSteps
<1>2. PICK k \in Nat : k = (n - lot) \div step /\ n = lot + k * step
  BY <1>b
<1>3. n - lot \in Nat /\ maximum - lot \in Nat /\ n - lot <= maximum - lot
  BY <1>b
<1> DEFINE largest == 1 + (maximum - b.lot) \div b.step
           search == CHOOSE s : Searches(s, b, largest)
           slot == search[<<0, largest>>]
<1>4. k + 1 <= largest /\ largest \in Nat
  <2>1. PICK x \in Nat, y \in Nat : x = n - lot /\ y = maximum - lot /\ x <= y
    BY <1>3
  <2>2. PICK j \in Nat : j = y \div step
    BY Division
  <2>3. x \div step <= y \div step
    BY <2>1, DivisionGrows
  <2>4. k <= j
    BY <1>2, <2>1, <2>2, <2>3
  <2>5. largest = 1 + j
    BY <1>1, <2>1, <2>2
  <2> HIDE DEF largest
  <2> QED BY <2>4, <2>5
<1>5. AffordableBuyQuantity(maximum, b) = IF slot = 0 THEN 0 ELSE lot + (slot - 1) * step
  <2>1. slot = AffordableSlot(b, largest)
    BY SlotIsSearch
  <2>2. ~(maximum < b.lot)
    BY <1>1, <1>3
  <2> HIDE DEF slot, search
  <2> QED BY <1>1, <2>1, <2>2 DEF AffordableBuyQuantity, Slot
<1> HIDE DEF largest
<1>6. Searches(search, b, largest)
  BY <1>4, SearchExists
<1> HIDE DEF search
<1>c. 0 \in 0..largest /\ largest \in 0..largest
  BY <1>4
<1>d. <<0, largest>> \in (0..largest) \X (0..largest)
  BY <1>c
<1>7. slot \in 0..largest
  <2>1. PICK range \in (0..largest) \X (0..largest) : range = <<0, largest>>
    BY <1>d
  <2>2. range[1] <= range[2] /\ range[1] = 0 /\ range[2] = largest
    BY <1>4, <2>1
  <2>3. search[range] \in range[1]..range[2]
    BY <1>4, <1>6, <2>2, SearchIsSound
  <2> QED BY <2>1, <2>2, <2>3
<1>8. slot = largest \/ ~(BuyTotal(Slot(b, slot + 1), b) <= cash)
  <2>1. PICK range \in (0..largest) \X (0..largest) : range = <<0, largest>>
    BY <1>d
  <2>2. range[1] <= range[2] /\ range[2] = largest
    BY <1>4, <2>1
  <2>3. search[range] = range[2] \/ ~(BuyTotal(Slot(b, search[range] + 1), b) <= cash)
    BY <1>4, <1>6, <2>2, SearchIsComplete
  <2> QED BY <2>1, <2>2, <2>3
<1> HIDE DEF slot
<1>9. slot \in Nat
  BY <1>4, <1>7
<1>10. k + 1 <= slot
  <2> SUFFICES ASSUME slot <= k PROVE FALSE
    BY <1>9
  <2>1. slot # largest
    BY <1>4, <1>9
  <2>2. Slot(b, slot + 1) = lot + slot * step
    <3>1. (slot + 1) - 1 = slot
      BY <1>9
    <3> QED BY <1>1, <3>1 DEF Slot
  <2>3. slot * step <= k * step /\ slot * step \in Nat
    BY <1>9, ProductGrows
  <2>4. PICK m \in Nat : m = lot + slot * step /\ m <= n
    BY <1>2, <2>3
  <2>5. BuyTotal(m, b) <= BuyTotal(n, b)
    BY <2>4, BuyTotalGrows
  <2>6. BuyTotal(m, b) \in Nat /\ BuyTotal(n, b) \in Nat
    BY BuyTotalType
  <2> QED BY <1>8, <2>1, <2>2, <2>4, <2>5, <2>6
<1>11. k * step <= (slot - 1) * step
  <2>1. slot - 1 \in Nat /\ k <= slot - 1
    BY <1>9, <1>10
  <2> QED BY <2>1, ProductGrows
<1>12. (slot - 1) * step \in Int /\ slot # 0
  BY <1>9, <1>10
<1> QED BY <1>2, <1>5, <1>11, <1>12
\* What is approved of a buy is the largest quantity that may be filled: the cap lets
\* through the largest normal one, and the cash pays for the largest part of it.
LEMMA ApprovedIsLargest ==
    ASSUME Policy.partial, cash \in Nat, NEW o \in Order, o.side = "buy",
           NEW b \in TradedBar, b.volume > 0, IsNormal(o.quantity, b.lot, b.step),
           NEW n \in 1..o.quantity, IsNormal(n, b.lot, b.step),
           n * Policy.den <= b.volume * Policy.num, BuyTotal(n, b) <= cash
    PROVE  n <= Approved(o, b)
<1>1. PICK lot \in Nat \ {0}, step \in Nat \ {0} : lot = b.lot /\ step = b.step
  BY BarFields
<1>2. PICK den \in Nat \ {0} : den = Policy.den
  BY ConstantTypes
<1>3. PICK volume \in Nat : volume = b.volume * Policy.num
  BY BarFields, ConstantTypes
<1>4. PICK cap \in Nat : cap = volume \div den
  BY Division
<1>5. n \in Nat /\ o.quantity \in Nat /\ n <= o.quantity /\ n > 0
  BY DEF Order
<1>6. n <= cap
  <2>1. volume < den * cap + den
    BY <1>4, Division
  <2>2. n * den <= volume
    BY <1>2, <1>3
  <2>3. n * den < (cap + 1) * den
    BY <1>5, <2>1, <2>2
  <2> QED BY <1>5, <2>3
<1>7. PICK normal \in Nat : normal = NormalFloor(cap, lot, step)
  BY NormalFloorType
<1>8. n <= normal
  <2>1. IsNormal(n, lot, step)
    BY <1>1
  <2> QED BY <1>5, <1>6, <1>7, <2>1, NormalFloorIsLargest
<1>9. PICK traded \in Nat : traded = Lesser(o.quantity, normal)
  BY <1>5 DEF Lesser
<1>10. n <= traded /\ traded > 0
  BY <1>5, <1>8, <1>9 DEF Lesser
<1>11. ~IsResidual(o, b)
  BY DEF IsResidual
<1>12. Approved(o, b) = AffordableBuyQuantity(traded, b)
  <2>1. NormalFloor((b.volume * Policy.num) \div Policy.den, b.lot, b.step) = normal
    BY <1>1, <1>2, <1>3, <1>4, <1>7
  <2> QED BY <1>9, <1>10, <1>11, <2>1 DEF Approved
<1>13. n <= AffordableBuyQuantity(traded, b)
  BY <1>5, <1>10, AffordableIsLargest
<1> QED BY <1>12, <1>13

\* Orders are due while they execute only.
NoneWaits == pc \in {"idle", "actions", "decide"} => due = {}

\* _execute_orders leaves none behind, and nothing else makes one due.
LEMMA NoneWaitsIsInductive ==
    NoneWaits /\ [Next]_vars => NoneWaits'
<1> SUFFICES ASSUME NoneWaits, [Next]_vars PROVE NoneWaits'
  OBVIOUS
<1>1. ASSUME NEW o \in due, RejectOrder(o) \/ Buy(o) \/ Sell(o) PROVE NoneWaits'
  BY <1>1 DEF RejectOrder, Buy, Sell, Executes, Executed, Raise, Raised, NoneWaits
<1>2. ASSUME NEW a \in ActionIds, ApplyAction(a) PROVE NoneWaits'
  BY <1>2 DEF ApplyAction, AllocateShareCost, ApplySplit, NoteAction, DeclineRights,
     PayDividend, ListShares, NotEntitled, Applies, Applied, Raise, NoneWaits
<1> QED
  BY <1>1, <1>2 DEF Next, OpenSession, SelectOrders, CloseSession, NoIntent, SubmitIntent,
     vars, NoneWaits

\* A buy that is executed fills the largest quantity that it may.
LEMMA BuyIsMaximal ==
    ASSUME Kept, NoneWaits, Next, NEW o \in due, o \notin due',
           Policy.partial, o.side = "buy", ~IsBlocked(o, bars[o.instrument]),
           IsNormal(o.quantity, bars[o.instrument].lot, bars[o.instrument].step),
           NEW n \in 1..o.quantity,
           IsNormal(n, bars[o.instrument].lot, bars[o.instrument].step),
           n * Policy.den <= bars[o.instrument].volume * Policy.num,
           BuyTotal(n, bars[o.instrument]) <= cash
    PROVE  n <= Filled(o.instrument)
<1>1. PICK b : b = bars[o.instrument]
  OBVIOUS
<1>2. o \in Order /\ o.instrument \in Instruments /\ cash \in Nat
  BY DEF Kept, Typed, TypeOK, Order
<1>3. b \in TradedBar /\ b.volume > 0
  <2>1. b.state = "traded" /\ b.volume # 0
    BY <1>1 DEF IsBlocked
  <2>2. b \in TradedBar
    BY <1>1, <1>2, <2>1, PricedIsTraded
  <2> QED BY <2>1, <2>2, BarFields
<1>4. n <= Approved(o, b)
  BY <1>1, <1>2, <1>3, ApprovedIsLargest
<1>5. ~SelectOrders
  BY DEF SelectOrders, NoneWaits
<1>6. CASE RejectOrder(o)
  <2>1. ~(Approved(o, b) > 0)
    BY <1>1, <1>6 DEF RejectOrder, Fills
  <2>2. Approved(o, b) \in 0..o.quantity
    BY <1>2, <1>3, KeptSets, ApprovedIsAllowed DEF Allowed
  <2>3. o.quantity \in Nat
    BY <1>2 DEF Order
  <2> QED BY <1>4, <2>1, <2>2, <2>3
<1>7. CASE Buy(o) /\ pc' = "orders"
  BY <1>1, <1>4, <1>7, BuyFills
<1>8. ~Sell(o)
  BY DEF Sell
<1> QED BY <1>5, <1>6, <1>7, <1>8, DueSteps

\* BuysAreMaximal for every market, policy and strategy: the binary search of
\* _affordable_buy_quantity rests on a price and on fees that grow with the quantity, and
\* they do, with every rounding, every limit and the minimum commission.
THEOREM BuysAreTheLargest == Spec => BuysAreMaximal
<1>1. Init => Kept /\ OrderLife /\ NoneWaits
  BY KeptAtFirst, OrderLifeAtFirst DEF Init, NoneWaits
<1>2. Kept /\ OrderLife /\ NoneWaits /\ [Next]_vars => Kept' /\ OrderLife' /\ NoneWaits'
  BY KeptIsInductive, OrderLifeIsInductive, NoneWaitsIsInductive
<1>3. Kept /\ NoneWaits /\ [Next]_vars =>
        [\A o \in due \ due' :
         LET b == bars[o.instrument] IN
         /\ Policy.partial
         /\ o.side = "buy" /\ ~IsBlocked(o, b) /\ IsNormal(o.quantity, b.lot, b.step)
         =>
           \A n \in 1..o.quantity :
             /\ IsNormal(n, b.lot, b.step)
             /\ n * Policy.den <= b.volume * Policy.num
             /\ BuyTotal(n, b) <= cash
             => n <= Filled(o.instrument)]_vars
  BY BuyIsMaximal
<1> QED BY <1>1, <1>2, <1>3, PTL DEF Spec, BuysAreMaximal

-----------------------------------------------------------------------------
(* What corporate actions promise.                                         *)

\* The date that settles what an action promised: its listing or its payment; and
\* whether that is still to come.
Settling(a) == [at |-> IF Actions[a].type = "stock_dividend" THEN "listing" ELSE "pay",
                action |-> a]
Ahead(a) == Settling(a) \in todo \/ day < DateOf(Settling(a))

\* Corporate actions are applied at the open, all of them.
NothingTodo == pc \in {"orders", "decide", "idle"} => todo = {}

\* An entitlement is what the checkpoint of its record date says, and its new shares
\* are computed from that.
Recorded(e) ==
    LET a == Actions[e.action] IN
    /\ a.record \in DOMAIN held
    /\ e.quantity = held[a.record][a.instrument]
    /\ e.adjusted # 0 => e.distributed = (e.quantity * a.share[1]) \div a.share[2]

\* The positions of a session are in the checkpoint once it has closed.
Checkpointed ==
    \A d \in DOMAIN held : /\ held[d] \in [Instruments -> Nat]
                           /\ d <= day
                           /\ d = day => pc \in {"decide", "idle"}

\* Whoever saw the record date has an entitlement until it is settled.
Promised ==
    pc \notin Raised =>
      /\ Checkpointed
      /\ \A e \in entitlements : Recorded(e)
      /\ \A a \in ActionIds :
           Actions[a].type # "split" /\ Actions[a].record \in DOMAIN held /\ Ahead(a)
             => EntitlementOf(a) # {}

\* An action that is applied is taken from what is left to do, and nothing else is.
LEMMA AppliedOnly ==
    ASSUME Kept, NEW at \in {"ex", "pay", "listing"}, NEW a \in ActionIds, NEW type,
           Applies(at, type, a), Applied
    PROVE  todo' = todo \ {[at |-> at, action |-> a]}
<1>1. PICK t : t = [at |-> at, action |-> a]
  OBVIOUS
<1>2. t \in todo /\ \A u \in todo : ~Precedes(u, t)
  BY <1>1 DEF Applies
<1>3. todo \subseteq Dates /\ ActionIds \subseteq Int
  BY ActionsAreFinite DEF Kept, Typed, TypeOK
<1>4. \A u \in todo : u = t \/ Precedes(u, t) \/ Precedes(t, u)
  <2>1. ASSUME NEW u \in todo PROVE u = t \/ Precedes(u, t) \/ Precedes(t, u)
    <3>1. /\ u.at \in {"ex", "pay", "listing"} /\ u.action \in Int
          /\ t.at \in {"ex", "pay", "listing"} /\ t.action \in Int
          /\ u = [at |-> u.at, action |-> u.action] /\ t = [at |-> t.at, action |-> t.action]
      BY <1>2, <1>3 DEF Dates
    <3>2. u.at = t.at /\ u.action = t.action => u = t
      BY <3>1
    <3> QED BY <3>1, <3>2 DEF Precedes
  <2> QED BY <2>1
<1>5. todo' = {u \in todo : \E v \in todo : Precedes(v, u)}
  BY DEF Applied
<1> QED BY <1>1, <1>2, <1>4, <1>5

\* What step of an action uses up its entitlement.
Settles(at, type, a) == type = "split" \/ Settling(a) = [at |-> at, action |-> a]

\* A step at the open keeps the promises if it keeps what is not settled by it.
LEMMA ActionPromises ==
    ASSUME Kept, Promised, NEW at \in {"ex", "pay", "listing"}, NEW a \in ActionIds,
           NEW type, Applies(at, type, a), Applied,
           \A e \in entitlements' : e \in entitlements \/ Recorded(e),
           \A b \in ActionIds : EntitlementOf(b) # {} =>
              \/ EntitlementOf(b)' # {}
              \/ b = a /\ Settles(at, type, a)
    PROVE  Promised'
<1>1. /\ pc = "actions" /\ pc' = pc /\ day' = day /\ held' = held /\ Actions[a].type = type
      /\ pc \notin Raised
  BY DEF Applied, Applies, market, Raised
<1>2. Checkpointed' /\ \A e \in entitlements' : Recorded(e)'
  BY <1>1 DEF Promised, Checkpointed, Recorded
<1>3. ASSUME NEW b \in ActionIds, Actions[b].type # "split",
             Actions[b].record \in DOMAIN held, Ahead(b)'
      PROVE  EntitlementOf(b)' # {}
  <2>1. Settling(b) \in todo' \/ day < DateOf(Settling(b))
    BY <1>1, <1>3 DEF Ahead, Settling, DateOf
  <2>2. todo' = todo \ {[at |-> at, action |-> a]} /\ DateOf([at |-> at, action |-> a]) = day
        /\ day \in Int
    BY AppliedOnly, AppliedOnce DEF Days
  <2>3. Ahead(b)
    BY <2>1, <2>2 DEF Ahead
  <2>4. EntitlementOf(b) # {}
    BY <1>1, <1>3, <2>3 DEF Promised
  <2>5. Settling(b) # [at |-> at, action |-> a]
    BY <2>1, <2>2
  <2> QED BY <1>1, <1>3, <2>4, <2>5 DEF Settles
<1> QED BY <1>1, <1>2, <1>3 DEF Promised

\* The steps that leave the entitlements alone.
LEMMA IdlePromises ==
    ASSUME Kept, Promised, NEW at \in {"ex", "pay", "listing"}, NEW a \in ActionIds,
           NEW type, Applies(at, type, a), Applied, UNCHANGED entitlements
    PROVE  Promised'
BY ActionPromises DEF EntitlementOf

\* An entitlement names one action, and an action has one.
LEMMA OneEntitlement ==
    ASSUME Kept, NEW a, NEW e \in EntitlementOf(a)
    PROVE  /\ e \in entitlements /\ e \in Entitlement /\ e.action = a
           /\ EntitlementOf(a) = {e} /\ a \in ActionIds
BY KeptSets DEF EntitlementOf, Entitlement

\* The steps at the open that use an entitlement up.
UsesUp(a) == \E E \in SUBSET EntitlementOf(a) : entitlements' = entitlements \ E

\* A step that uses an entitlement up keeps the promises to the others.
LEMMA SettlingPromises ==
    ASSUME Kept, Promised, NEW at \in {"ex", "pay", "listing"}, NEW a \in ActionIds,
           NEW type, Applies(at, type, a), Applied,
           Settles(at, type, a),
           UsesUp(a)
    PROVE  Promised'
<1>1. \A b \in ActionIds \ {a} : EntitlementOf(b)' = EntitlementOf(b)
  BY DEF EntitlementOf, UsesUp
<1>2. \A e \in entitlements' : e \in entitlements \/ Recorded(e)
  BY DEF UsesUp
<1>3. \A b \in ActionIds : EntitlementOf(b) # {} =>
         \/ EntitlementOf(b)' # {}
         \/ b = a /\ Settles(at, type, a)
  BY <1>1
<1> QED BY <1>2, <1>3, ActionPromises

\* Corporate actions keep what they promised until they settle it.
LEMMA ActionsArePromised ==
    ASSUME Kept, Promised, NEW a \in ActionIds, ApplyAction(a)
    PROVE  Promised'
<1>1. ASSUME NEW reason \in Raised, Raise(reason) PROVE Promised'
  BY <1>1 DEF Raise, Promised
<1>2. CASE AllocateShareCost(a)
  <2>1. Applies("ex", "stock_dividend", a)
    BY <1>2 DEF AllocateShareCost
  <2>2. CASE Applied /\ UNCHANGED entitlements
    BY <2>1, <2>2, IdlePromises
  <2>3. CASE \E reason \in Raised : Raise(reason)
    BY <1>1, <2>3
  <2>4. CASE ~(Applied /\ UNCHANGED entitlements) /\ ~\E reason \in Raised : Raise(reason)
    <3>0. PICK e \in EntitlementOf(a) : \E f :
            /\ e.quantity = Quantity(Actions[a].instrument)
            /\ \E c : f = [e EXCEPT !.distributed = (Quantity(Actions[a].instrument)
                                                 * Actions[a].share[1]) \div Actions[a].share[2],
                                    !.cost = c, !.adjusted = day]
            /\ entitlements' = (entitlements \ {e}) \cup {f}
            /\ Applied
      BY <1>2, <2>4 DEF AllocateShareCost, NotEntitled, Raised
    <3>1. PICK f :
            /\ e.quantity = Quantity(Actions[a].instrument)
            /\ \E c : f = [e EXCEPT !.distributed = (Quantity(Actions[a].instrument)
                                                 * Actions[a].share[1]) \div Actions[a].share[2],
                                    !.cost = c, !.adjusted = day]
            /\ entitlements' = (entitlements \ {e}) \cup {f}
            /\ Applied
      BY <3>0
    <3>2. f.action = a /\ f.quantity = e.quantity
          /\ f.distributed = (e.quantity * Actions[a].share[1]) \div Actions[a].share[2]
      BY <3>1, OneEntitlement DEF Entitlement
    <3>3. Recorded(e)
      <4>1. pc \notin Raised
        BY <2>1 DEF Applies, Raised
      <4> QED BY <3>1, <4>1, OneEntitlement DEF Promised
    <3>4. Recorded(f)
      BY <3>1, <3>2, <3>3, OneEntitlement DEF Recorded
    <3>5. \A b \in ActionIds : EntitlementOf(b) # {} => EntitlementOf(b)' # {}
      BY <3>1, <3>2, OneEntitlement DEF EntitlementOf
    <3> QED BY <2>1, <3>1, <3>4, <3>5, ActionPromises
  <2> QED BY <2>2, <2>3, <2>4
<1>3. CASE ApplySplit(a)
  <2>1. Applies("ex", "split", a)
    BY <1>3 DEF ApplySplit
  <2>2. CASE Applied /\ UNCHANGED entitlements
    BY <2>1, <2>2, IdlePromises
  <2>3. CASE \E reason \in Raised : Raise(reason)
    BY <1>1, <2>3
  <2>4. CASE ~(Applied /\ UNCHANGED entitlements) /\ ~\E reason \in Raised : Raise(reason)
    <3>1. Applied /\ entitlements' = entitlements \ EntitlementOf(a)
      BY <1>3, <2>4 DEF ApplySplit, NotEntitled, Raised
    <3> QED BY <2>1, <3>1, SettlingPromises DEF UsesUp, Settles
  <2> QED BY <2>2, <2>3, <2>4
<1>4. CASE NoteAction(a)
  BY <1>4, IdlePromises DEF NoteAction
<1>5. CASE DeclineRights(a)
  <2>1. Applies("pay", "rights_issue", a) /\ Applied
        /\ entitlements' = entitlements \ EntitlementOf(a)
    BY <1>5 DEF DeclineRights
  <2>2. Settling(a) = [at |-> "pay", action |-> a]
    BY <2>1 DEF Applies, Settling
  <2> QED BY <2>1, <2>2, SettlingPromises DEF UsesUp, Settles
<1>6. CASE PayDividend(a)
  <2>1. Applies("pay", "cash_dividend", a) /\ Applied
        /\ \/ UNCHANGED entitlements
           \/ \E e \in EntitlementOf(a) : entitlements' = entitlements \ {e}
    BY <1>6 DEF PayDividend, NotEntitled
  <2>2. Settling(a) = [at |-> "pay", action |-> a]
    BY <2>1 DEF Applies, Settling
  <2> QED BY <2>1, <2>2, SettlingPromises, IdlePromises DEF UsesUp, Settles
<1>7. CASE ListShares(a)
  <2>1. Applies("listing", "stock_dividend", a) /\ Applied
        /\ \/ UNCHANGED entitlements
           \/ \E e \in EntitlementOf(a) : entitlements' = entitlements \ {e}
    BY <1>7 DEF ListShares, NotEntitled
  <2>2. Settling(a) = [at |-> "listing", action |-> a]
    BY <2>1 DEF Applies, Settling
  <2> QED BY <2>1, <2>2, SettlingPromises, IdlePromises DEF UsesUp, Settles
<1> QED BY <1>2, <1>3, <1>4, <1>5, <1>6, <1>7 DEF ApplyAction

\* A position is counted by every checkpoint from its session on.
LEMMA PositionsAreNatural ==
    ASSUME Kept PROVE [i \in Instruments |-> Quantity(i)] \in [Instruments -> Nat]
BY KeptSets, PositionType

\* _capture_entitlements: at the close of the record date every action is promised.
LEMMA CloseIsPromised ==
    ASSUME Kept, Promised, CloseSession
    PROVE  Promised'
<1> DEFINE made(x) == [action |-> x, quantity |-> Quantity(Actions[x].instrument),
                       distributed |-> 0, cost |-> 0, adjusted |-> 0]
           now == {x \in ActionIds : Actions[x].record = day /\ EntitlementOf(x) = {}}
<1>1. /\ pc = "orders" /\ pc' = "decide" /\ day' = day /\ todo' = todo
      /\ entitlements' = entitlements \cup {made(x) : x \in now}
      /\ held' = [d \in DOMAIN held \cup {day} |->
                    IF d = day THEN [i \in Instruments |-> Quantity(i)] ELSE held[d]]
  BY DEF CloseSession, market
<1>2. Checkpointed /\ \A e \in entitlements : Recorded(e)
  BY <1>1 DEF Promised, Raised
<1>3. day \notin DOMAIN held /\ day \in Int
  BY <1>1, <1>2, KeptSets DEF Checkpointed
<1>4. Checkpointed'
  BY <1>1, <1>2, <1>3, PositionsAreNatural DEF Checkpointed
<1>5. ASSUME NEW e \in entitlements' PROVE Recorded(e)'
  <2>1. CASE e \in entitlements
    BY <1>1, <1>2, <1>3, <2>1 DEF Recorded
  <2>2. CASE e \notin entitlements
    <3>1. PICK x \in now : e = made(x)
      BY <1>1, <2>2
    <3>2. e.action = x /\ e.quantity = Quantity(Actions[x].instrument) /\ e.adjusted = 0
          /\ Actions[x].record = day /\ Actions[x].instrument \in Instruments
      BY <3>1, ActionFields
    <3>3. day \in DOMAIN held' /\ held'[day] = [i \in Instruments |-> Quantity(i)]
      BY <1>1
    <3> QED BY <3>2, <3>3 DEF Recorded
  <2> QED BY <2>1, <2>2
<1>6. ASSUME NEW b \in ActionIds, Actions[b].type # "split",
             Actions[b].record \in DOMAIN held', Ahead(b)'
      PROVE  EntitlementOf(b)' # {}
  <2>1. CASE EntitlementOf(b) # {}
    BY <1>1, <2>1 DEF EntitlementOf
  <2>2. CASE EntitlementOf(b) = {} /\ Actions[b].record = day
    <3>1. made(b) \in entitlements' /\ made(b).action = b
      BY <1>1, <2>2
    <3> QED BY <3>1 DEF EntitlementOf
  <2>3. CASE Actions[b].record # day
    <3>1. Actions[b].record \in DOMAIN held /\ Ahead(b)
      BY <1>1, <1>6, <2>3 DEF Ahead, Settling, DateOf
    <3> QED BY <1>1, <1>6, <2>1, <3>1 DEF Promised, Raised
  <2> QED BY <2>1, <2>2, <2>3
<1> QED BY <1>1, <1>4, <1>5, <1>6 DEF Promised

\* A new session has everything ahead that falls on it.
LEMMA OpenIsPromised ==
    ASSUME Kept, Promised, NEW d \in Days, NEW h \in Snapshots, OpenSession(d, h)
    PROVE  Promised'
<1>1. /\ pc = "idle" /\ pc' = "actions" /\ day' = d /\ day < d /\ held' = held
      /\ entitlements' = entitlements /\ todo' = {t \in Dates : DateOf(t) = d}
      /\ day \in Int /\ d \in Int
  BY KeptSets DEF OpenSession, Days
<1>2. Checkpointed /\ \A e \in entitlements : Recorded(e)
  BY <1>1 DEF Promised, Raised
<1>3. Checkpointed' /\ \A e \in entitlements' : Recorded(e)'
  <2>1. \A x \in DOMAIN held : x \in Int /\ x <= day
    BY <1>2 DEF Kept, Typed, TypeOK, Checkpointed, Days
  <2> QED BY <1>1, <1>2, <2>1 DEF Checkpointed, Recorded
<1>4. ASSUME NEW b \in ActionIds, Actions[b].type # "split",
             Actions[b].record \in DOMAIN held, Ahead(b)'
      PROVE  EntitlementOf(b)' # {}
  <2>1. DateOf(Settling(b)) \in Int
    <3>1. Actions[b].pay \in Int /\ Actions[b].listing \in Int
      BY ActionFields
    <3>2. DateOf(Settling(b)) = Actions[b].listing \/ DateOf(Settling(b)) = Actions[b].pay
      BY DateIs DEF Settling
    <3> QED BY <3>1, <3>2
  <2>2. Settling(b) \in todo' \/ d < DateOf(Settling(b))
    BY <1>1, <1>4 DEF Ahead, Settling, DateOf
  <2>3. Ahead(b)
    BY <1>1, <2>1, <2>2 DEF Ahead
  <2>4. EntitlementOf(b) # {}
    BY <1>1, <1>4, <2>3 DEF Promised, Raised
  <2> QED BY <1>1, <2>4 DEF EntitlementOf
<1> QED BY <1>1, <1>3, <1>4 DEF Promised

\* Orders and intents promise nothing.
LEMMA PromisesStay ==
    ASSUME Promised, pc' \notin Raised => pc \notin Raised,
           \/ UNCHANGED <<day, todo, entitlements, held, pc>>
           \/ /\ UNCHANGED <<day, todo, entitlements, held>>
              /\ \/ pc = "actions" /\ pc' = "orders"
                 \/ pc = "decide" /\ pc' = "idle"
           \/ pc' \in Raised
    PROVE  Promised'
<1>1. CASE pc' \in Raised
  BY <1>1 DEF Promised
<1>2. CASE pc' \notin Raised
  <2>1. UNCHANGED <<day, todo, entitlements, held>>
    BY <1>2
  <2>2. Promised => (Checkpointed => Checkpointed')
    BY <1>2, <2>1 DEF Checkpointed
  <2>3. \A b : Ahead(b)' = Ahead(b) /\ EntitlementOf(b)' = EntitlementOf(b)
    BY <2>1 DEF Ahead, Settling, DateOf, EntitlementOf
  <2>4. \A e : Recorded(e)' = Recorded(e)
    BY <2>1 DEF Recorded
  <2> QED BY <1>2, <2>1, <2>2, <2>3, <2>4 DEF Promised
<1> QED BY <1>1, <1>2

\* Whatever happens, what was promised stays promised until it is settled.
LEMMA PromisedIsInductive ==
    ASSUME Kept, Promised, [Next]_vars
    PROVE  Promised'
<1>1. ASSUME NEW o \in due, RejectOrder(o) \/ Buy(o) \/ Sell(o) PROVE Promised'
  <2>1. pc = "orders"
    BY <1>1 DEF RejectOrder, Buy, Sell, Executes
  <2>2. \/ UNCHANGED <<day, todo, entitlements, held, pc>>
        \/ pc' \in Raised
    BY <1>1 DEF RejectOrder, Buy, Sell, Executed, Raise, Raised, market
  <2> QED BY <2>1, <2>2, PromisesStay DEF Raised
<1>2. CASE SelectOrders
  <2>1. pc = "actions" /\ pc' = "orders" /\ UNCHANGED <<day, todo, entitlements, held>>
    BY <1>2 DEF SelectOrders, market
  <2> QED BY <2>1, PromisesStay DEF Raised
<1>3. CASE NoIntent
  BY <1>3, PromisesStay DEF NoIntent, market, Raised
<1>4. ASSUME NEW w \in Intents, SubmitIntent(w) PROVE Promised'
  BY <1>4, PromisesStay DEF SubmitIntent, market, Raised
<1>5. CASE UNCHANGED vars
  BY <1>5, PromisesStay DEF vars
<1> QED
  BY <1>1, <1>2, <1>3, <1>4, <1>5, OpenIsPromised, ActionsArePromised, CloseIsPromised
     DEF Next

\* At first nothing is promised.
LEMMA PromisedAtFirst == Init => Promised
BY DEF Init, Promised, Checkpointed

\* The shares that list are new to the portfolio.
LEMMA ListingAdds ==
    ASSUME Kept, NEW a \in ActionIds, Applies("listing", "stock_dividend", a),
           NEW e \in EntitlementOf(a), e.distributed # 0,
           lots' = lots \cup {[instrument |-> Actions[a].instrument,
                               acquired |-> day, source |-> a,
                               quantity |-> e.distributed, sellable |-> day,
                               cost |-> e.cost]}
    PROVE  Quantity(Actions[a].instrument)' = Quantity(Actions[a].instrument) + e.distributed
<1>1. PICK i : i = Actions[a].instrument
  OBVIOUS
<1>2. PICK m : m = [instrument |-> i, acquired |-> day, source |-> a,
                    quantity |-> e.distributed, sellable |-> day, cost |-> e.cost]
  OBVIOUS
<1>3. PICK L : L = LotsOf(i)
  OBVIOUS
<1>4. day \in Days /\ i \in Instruments /\ [at |-> "listing", action |-> a] \in todo
  BY <1>1, ActionFields DEF Applies, Kept, Typed
<1>5. m \in Lot /\ m.instrument = i /\ m.quantity = e.distributed /\ m.source = a
  BY <1>2, <1>4, OneEntitlement DEF Lot, Entitlement
<1>6. L \in SUBSET Lot /\ IsFiniteSet(L) /\ L \subseteq lots
  BY <1>3, KeptSets, PositionType DEF LotsOf
<1>7. \A l \in L : ~SameName(l, m)
  <2>1. a # 0
    BY ActionsAreFinite
  <2> QED BY <1>4, <1>5, <1>6, <2>1 DEF Kept, Named, SameName
<1>8. QuantityOf(L \cup {m}) = QuantityOf(L) + m.quantity
  BY <1>5, <1>6, <1>7, KeptSets, LotAdded
<1>9. {l \in lots' : l.instrument = i} = L \cup {m}
  BY <1>1, <1>2, <1>3, <1>5 DEF LotsOf
<1> QED BY <1>1, <1>3, <1>5, <1>8, <1>9 DEF Quantity, LotsOf, QuantityOf

\* A listing brings what was promised or says that something is missing.
LEMMA ListingIsComplete ==
    ASSUME Kept, Promised, NEW a \in ActionIds, ListShares(a),
           Actions[a].record \in DOMAIN held
    PROVE  \/ ArrivesInFull(a)
           \/ Discloses({<<"cost_not_adjusted", a>>, <<"missing_entitlement", a>>})
<1>1. Applies("listing", "stock_dividend", a)
  BY DEF ListShares
<1>2. Settling(a) \in todo /\ pc = "actions" /\ Actions[a].type = "stock_dividend"
  BY <1>1 DEF Applies, Settling
<1>3. EntitlementOf(a) # {}
  BY <1>2 DEF Promised, Raised, Ahead
<1>4. PICK e \in EntitlementOf(a) :
        /\ lots' = IF e.distributed = 0 THEN lots
                   ELSE lots \cup
                     {[instrument |-> Actions[a].instrument,
                       acquired |-> day, source |-> a,
                       quantity |-> e.distributed, sellable |-> day,
                       cost |-> e.cost]}
        /\ e.adjusted = 0 => <<"cost_not_adjusted", a>> \in incomplete'
  BY <1>3 DEF ListShares, NotEntitled, Mark, Where
<1>5. CASE e.adjusted = 0
  BY <1>4, <1>5 DEF Discloses
<1>6. CASE e.adjusted # 0
  <2>1. PICK i : i = Actions[a].instrument
    OBVIOUS
  <2>2. e.distributed = (held[Actions[a].record][i] * Actions[a].share[1])
                          \div Actions[a].share[2]
    <3>1. Recorded(e) /\ e.action = a
      BY <1>2, OneEntitlement DEF Promised, Raised
    <3> QED BY <1>6, <2>1, <3>1 DEF Recorded
  <2>3. Quantity(i) \in Nat /\ e.distributed \in Nat
    BY KeptSets, PositionType, OneEntitlement DEF Entitlement
  <2>4. Quantity(i)' = Quantity(i) + e.distributed
    <3>1. CASE e.distributed = 0
      <4>1. Quantity(i)' = Quantity(i)
        BY <1>4, <3>1 DEF Quantity, LotsOf, QuantityOf
      <4> QED BY <2>3, <3>1, <4>1
    <3>2. CASE e.distributed # 0
      BY <1>1, <1>4, <2>1, <3>2, ListingAdds
    <3> QED BY <3>1, <3>2
  <2>5. QuantityAfter(i) - Quantity(i) = e.distributed
    BY <2>3, <2>4 DEF QuantityAfter
  <2> QED BY <2>1, <2>2, <2>5 DEF ArrivesInFull
<1> QED BY <1>5, <1>6

\* SharesArrive for every market, calendar and strategy, also where a daily call skips
\* sessions: the entitlement of _capture_entitlements outlives every trade, split and
\* skipped date until _list_stock_dividend, and what it brings is what was held.
THEOREM ListedSharesArrive == Spec => SharesArrive
<1>1. Init => Kept /\ OrderLife /\ Promised
  BY KeptAtFirst, OrderLifeAtFirst, PromisedAtFirst
<1>2. Kept /\ OrderLife /\ Promised /\ [Next]_vars => Kept' /\ OrderLife' /\ Promised'
  BY KeptIsInductive, OrderLifeIsInductive, PromisedIsInductive
<1>3. Kept /\ Promised /\ [Next]_vars =>
        [\A a \in ActionIds :
         ListShares(a) /\ Actions[a].record \in DOMAIN held =>
           \/ ArrivesInFull(a)
           \/ Discloses({<<"cost_not_adjusted", a>>, <<"missing_entitlement", a>>})]_vars
  BY ListingIsComplete
<1> QED BY <1>1, <1>2, <1>3, PTL DEF Spec, SharesArrive

-----------------------------------------------------------------------------
(* Dividends are paid.                                                     *)

\* No session is skipped, and whoever is to be paid is recorded at an earlier close.
Daily == MaxGap = 0
RecordedBefore ==
    \A a \in ActionIds :
      LET x == Actions[a] IN
      /\ x.type \in {"cash_dividend", "rights_issue"} => x.record < x.pay
      /\ x.type = "stock_dividend" => x.listing = 0 \/ x.record < x.listing

\* The dividends that the account has received, and what each brought.
Paid == {a \in ActionIds : /\ Actions[a].type = "cash_dividend"
                           /\ Actions[a].record \in DOMAIN held
                           /\ Actions[a].pay <= day
                           /\ Settling(a) \notin todo}
Gross == [a \in Paid |-> held[Actions[a].record][Actions[a].instrument] * Actions[a].cash]

\* An entitlement that a date will settle waits for that date.
Unsettled(e) ==
    LET a == Actions[e.action] IN
    \/ a.type = "split"
    \/ a.type = "stock_dividend" /\ a.listing = 0
    \/ Ahead(e.action)

\* What is paid is what was held, and what is not paid is not yet due.
PaidOut ==
    pc \notin Raised =>
      /\ \A e \in entitlements : Unsettled(e)
      /\ dividends = SumFunction(Gross)

\* What the account receives, as a function of all actions.
GrossOf(a) == held[Actions[a].record][Actions[a].instrument] * Actions[a].cash

\* What an action brought is a number of cents.
LEMMA GrossType ==
    ASSUME Checkpointed, NEW a \in Paid
    PROVE  GrossOf(a) \in Nat /\ Gross[a] = GrossOf(a)
<1>1. a \in ActionIds /\ Actions[a].record \in DOMAIN held
  BY DEF Paid
<1>2. Actions[a].instrument \in Instruments /\ Actions[a].cash \in Nat
  BY <1>1, ActionFields
<1>3. held[Actions[a].record][Actions[a].instrument] \in Nat
  BY <1>1, <1>2 DEF Checkpointed
<1> QED BY <1>2, <1>3 DEF GrossOf, Gross

\* The sum of what is paid is that of any function that agrees with Gross.
LEMMA GrossIs ==
    ASSUME Checkpointed, NEW f, \A a \in Paid : f[a] = GrossOf(a)
    PROVE  SumFunction(Gross) = Sum(f, Paid) /\ IsFiniteSet(Paid)
<1>1. IsFiniteSet(Paid)
  <2>1. Paid \in SUBSET ActionIds
    BY DEF Paid
  <2> QED BY <2>1, ActionsAreFinite, FS_Subset
<1>2. Gross \in [Paid -> Int] /\ \A a \in Paid : Gross[a] = f[a]
  BY GrossType DEF Gross
<1>3. SumFunction(Gross) = Sum(Gross, Paid)
  BY <1>2, SumOfFunction
<1>4. Sum(Gross, Paid) = Sum(f, Paid)
  BY <1>1, <1>2, SumSame
<1> QED BY <1>1, <1>3, <1>4

\* What has been paid counts once the payment is applied.
LEMMA PaidByAction ==
    ASSUME Kept, NEW at \in {"ex", "pay", "listing"}, NEW a \in ActionIds, NEW type,
           Applies(at, type, a), Applied
    PROVE  Paid' = IF /\ at = "pay" /\ type = "cash_dividend"
                      /\ Actions[a].record \in DOMAIN held
                   THEN Paid \cup {a} ELSE Paid
<1>1. PICK t : t = [at |-> at, action |-> a]
  OBVIOUS
<1>2. todo' = todo \ {t} /\ day' = day /\ held' = held /\ DateOf(t) = day
      /\ Actions[a].type = type /\ t \in todo
  BY <1>1, AppliedOnly, AppliedOnce DEF market, Applied
<1>3. \A b \in ActionIds : Actions[b].type = "cash_dividend" =>
        (Settling(b) = t <=> b = a /\ at = "pay")
  BY <1>1 DEF Settling
<1>4. at = "pay" => Actions[a].pay = day
  BY <1>1, <1>2, DateIs
<1>5. day \in Int
  BY KeptSets DEF Days
<1>6. Paid' = {b \in ActionIds : /\ Actions[b].type = "cash_dividend"
                                 /\ Actions[b].record \in DOMAIN held
                                 /\ Actions[b].pay <= day
                                 /\ Settling(b) \notin todo'}
  BY <1>2 DEF Paid, Settling
<1> QED BY <1>2, <1>3, <1>4, <1>5, <1>6 DEF Paid

\* A step at the open pays out what it should, and what stays is still to come.
LEMMA ActionPays ==
    ASSUME Kept, Promised, PaidOut, NEW at \in {"ex", "pay", "listing"},
           NEW a \in ActionIds, NEW type, Applies(at, type, a), Applied,
           \A e \in entitlements' : \E f \in entitlements : e.action = f.action,
           Settling(a) = [at |-> at, action |-> a] /\ type # "split"
             => EntitlementOf(a)' = {},
           dividends' = dividends + (IF /\ at = "pay" /\ type = "cash_dividend"
                                        /\ Actions[a].record \in DOMAIN held
                                     THEN GrossOf(a) ELSE 0)
    PROVE  PaidOut'
<1>1. /\ pc = "actions" /\ pc' = pc /\ day' = day /\ held' = held /\ Actions[a].type = type
      /\ pc \notin Raised
  BY DEF Applied, Applies, market, Raised
<1>2. Checkpointed /\ (\A e \in entitlements : Unsettled(e)) /\ dividends = SumFunction(Gross)
  BY <1>1 DEF Promised, PaidOut
<1>3. Checkpointed'
  BY <1>1, <1>2 DEF Checkpointed
<1>4. ASSUME NEW e \in entitlements' PROVE Unsettled(e)'
  <2>1. PICK f \in entitlements : e.action = f.action
    OBVIOUS
  <2>2. todo' = todo \ {[at |-> at, action |-> a]}
    BY AppliedOnly
  <2>3. Unsettled(f)
    BY <1>2
  <2>4. CASE Ahead(e.action) /\ Settling(e.action) # [at |-> at, action |-> a]
    BY <1>1, <2>2, <2>4 DEF Ahead, Unsettled, Settling, DateOf
  <2>5. CASE Settling(e.action) = [at |-> at, action |-> a]
    <3>1. e.action = a
      BY <2>5 DEF Settling
    <3>2. CASE type # "split"
      <4>1. EntitlementOf(a)' = {}
        BY <2>5, <3>1, <3>2
      <4> QED BY <3>1, <4>1 DEF EntitlementOf
    <3>3. CASE type = "split"
      BY <1>1, <3>1, <3>3 DEF Unsettled
    <3> QED BY <3>2, <3>3
  <2> QED BY <2>1, <2>3, <2>4, <2>5 DEF Unsettled
<1>5. PICK f : f = [b \in ActionIds |-> GrossOf(b)]
  OBVIOUS
<1>6. \A b \in Paid : f[b] = GrossOf(b) /\ b \in ActionIds
  BY <1>5 DEF Paid
<1>7. \A b \in Paid' : f[b] = GrossOf(b)'
  BY <1>1, <1>5 DEF Paid, GrossOf
<1>8. SumFunction(Gross) = Sum(f, Paid) /\ IsFiniteSet(Paid)
  BY <1>2, <1>6, GrossIs
<1>9. SumFunction(Gross)' = Sum(f, Paid')
  <2>1. PICK P : P = Paid'
    OBVIOUS
  <2>2. IsFiniteSet(P) /\ \A b \in P : b \in ActionIds
    <3>1. P \in SUBSET ActionIds
      BY <2>1 DEF Paid
    <3> QED BY <3>1, ActionsAreFinite, FS_Subset
  <2>3. \A b \in P : f[b] \in Int
    <3>1. \A b \in P : GrossOf(b)' \in Nat
      <4>1. ASSUME NEW b \in P PROVE GrossOf(b)' \in Nat
        <5>1. Actions[b].instrument \in Instruments /\ Actions[b].cash \in Nat
              /\ Actions[b].record \in DOMAIN held'
          BY <2>1, <2>2, ActionFields DEF Paid
        <5>2. held'[Actions[b].record][Actions[b].instrument] \in Nat
          BY <1>3, <5>1 DEF Checkpointed
        <5> QED BY <5>1, <5>2 DEF GrossOf
      <4> QED BY <4>1
    <3> QED BY <1>7, <2>1, <3>1
  <2>4. PICK g : g = [b \in P |-> f[b]]
    OBVIOUS
  <2>5. Gross' = g
    BY <1>7, <2>1, <2>4 DEF Gross, GrossOf
  <2>6. SumFunction(g) = Sum(g, P)
    BY <2>2, <2>3, <2>4, SumOfFunction
  <2>7. Sum(g, P) = Sum(f, P)
    BY <2>2, <2>3, <2>4, SumSame
  <2> QED BY <2>1, <2>5, <2>6, <2>7
<1>10. SumFunction(Gross)' = SumFunction(Gross) +
         (IF at = "pay" /\ type = "cash_dividend" /\ Actions[a].record \in DOMAIN held
          THEN GrossOf(a) ELSE 0)
  <2>1. CASE at = "pay" /\ type = "cash_dividend" /\ Actions[a].record \in DOMAIN held
    <3>1. Paid' = Paid \cup {a}
      BY <2>1, PaidByAction
    <3>2. a \notin Paid
      BY <1>1, <2>1 DEF Paid, Settling, Applies
    <3>3. f[a] = GrossOf(a) /\ f[a] \in Int
      <4>1. a \in Paid' /\ f[a] = GrossOf(a)
        BY <1>5, <3>1
      <4>2. Actions[a].instrument \in Instruments /\ Actions[a].cash \in Nat
        BY ActionFields
      <4>3. held[Actions[a].record][Actions[a].instrument] \in Nat
        BY <1>2, <2>1, <4>2 DEF Checkpointed
      <4> QED BY <4>1, <4>2, <4>3 DEF GrossOf
    <3>4. \A b \in Paid : f[b] \in Int
      BY <1>2, <1>6, GrossType
    <3>5. Sum(f, Paid \cup {a}) = f[a] + Sum(f, Paid) /\ Sum(f, Paid) \in Int
      BY <1>8, <3>2, <3>3, <3>4, SumAdd, SumIsInt
    <3> QED BY <1>8, <1>9, <2>1, <3>1, <3>3, <3>5
  <2>2. CASE ~(at = "pay" /\ type = "cash_dividend" /\ Actions[a].record \in DOMAIN held)
    <3>1. Paid' = Paid
      BY <2>2, PaidByAction
    <3>2. SumFunction(Gross) \in Int
      <4>1. \A b \in Paid : f[b] \in Int
        BY <1>2, <1>6, GrossType
      <4> QED BY <1>8, <4>1, SumIsInt
    <3> QED BY <1>8, <1>9, <2>2, <3>1, <3>2
  <2> QED BY <2>1, <2>2
<1> QED BY <1>1, <1>2, <1>4, <1>10 DEF PaidOut

\* An action whose record date is over is entitled at its settlement.
LEMMA EntitledWhenSettled ==
    ASSUME Kept, Promised, NEW at \in {"pay", "listing"}, NEW a \in ActionIds, NEW type,
           Applies(at, type, a), Settling(a) = [at |-> at, action |-> a],
           type # "split", Actions[a].record \in DOMAIN held
    PROVE  EntitlementOf(a) # {}
<1>1. Settling(a) \in todo /\ pc = "actions" /\ Actions[a].type = type
  BY DEF Applies
<1> QED BY <1>1 DEF Promised, Ahead, Raised

\* Every corporate action leaves what it should be paid, and pays what it should.
LEMMA ActionsPay ==
    ASSUME Kept, Promised, PaidOut, NEW a \in ActionIds, ApplyAction(a)
    PROVE  PaidOut'
<1>1. ASSUME NEW reason \in Raised, Raise(reason) PROVE PaidOut'
  BY <1>1 DEF Raise, PaidOut
<1>2. dividends \in Int
  BY DEF Kept, Typed, TypeOK
<1>3. ASSUME NEW at \in {"ex", "pay", "listing"}, NEW type, Applies(at, type, a), Applied,
             UNCHANGED <<entitlements, dividends>>,
             Settling(a) # [at |-> at, action |-> a] \/ type = "split"
      PROVE  PaidOut'
  <2>1. ~(at = "pay" /\ type = "cash_dividend")
    BY <1>3 DEF Settling, Applies
  <2> QED BY <1>2, <1>3, <2>1, ActionPays
<1>4. ASSUME NEW at \in {"pay", "listing"}, NEW type, Applies(at, type, a), Applied,
             Settling(a) = [at |-> at, action |-> a], type # "split",
             UNCHANGED <<entitlements, dividends>>, EntitlementOf(a) = {}
      PROVE  PaidOut'
  <2>1. Actions[a].record \notin DOMAIN held
    BY <1>4, EntitledWhenSettled
  <2>2. EntitlementOf(a)' = {}
    BY <1>4 DEF EntitlementOf
  <2> QED BY <1>2, <1>4, <2>1, <2>2, ActionPays
<1>5. CASE AllocateShareCost(a)
  <2>1. Applies("ex", "stock_dividend", a) /\ Settling(a) # [at |-> "ex", action |-> a]
    BY <1>5 DEF AllocateShareCost, Settling
  <2>2. CASE Applied /\ UNCHANGED <<entitlements, dividends>>
    BY <1>3, <2>1, <2>2
  <2>3. CASE \E reason \in Raised : Raise(reason)
    BY <1>1, <2>3
  <2>4. CASE ~(Applied /\ UNCHANGED <<entitlements, dividends>>)
             /\ ~\E reason \in Raised : Raise(reason)
    <3>1. /\ Applied /\ UNCHANGED dividends
          /\ \E e \in EntitlementOf(a) : \E d, c :
               entitlements' = (entitlements \ {e}) \cup
                                 {[e EXCEPT !.distributed = d, !.cost = c, !.adjusted = day]}
      BY <1>5, <2>4 DEF AllocateShareCost, NotEntitled, Raised, money
    <3>2. \A e \in entitlements' : \E f \in entitlements : e.action = f.action
      <4>1. PICK e \in EntitlementOf(a) : \E d, c :
               entitlements' = (entitlements \ {e}) \cup
                                 {[e EXCEPT !.distributed = d, !.cost = c, !.adjusted = day]}
        BY <3>1
      <4>2. PICK d, c :
               entitlements' = (entitlements \ {e}) \cup
                                 {[e EXCEPT !.distributed = d, !.cost = c, !.adjusted = day]}
        BY <4>1
      <4>3. [e EXCEPT !.distributed = d, !.cost = c, !.adjusted = day].action = e.action
            /\ e \in entitlements
        BY OneEntitlement DEF Entitlement
      <4> QED BY <4>2, <4>3
    <3> QED BY <1>2, <2>1, <3>1, <3>2, ActionPays
  <2> QED BY <2>2, <2>3, <2>4
<1>6. CASE ApplySplit(a)
  <2>1. Applies("ex", "split", a) /\ Settling(a) # [at |-> "ex", action |-> a]
    BY <1>6 DEF ApplySplit, Settling
  <2>2. CASE \E reason \in Raised : Raise(reason)
    BY <1>1, <2>2
  <2>3. CASE ~\E reason \in Raised : Raise(reason)
    <3>1. /\ Applied /\ UNCHANGED dividends
          /\ entitlements' \subseteq entitlements
      BY <1>6, <2>3 DEF ApplySplit, NotEntitled, Raised, money
    <3> QED BY <1>2, <2>1, <3>1, ActionPays
  <2> QED BY <2>2, <2>3
<1>7. CASE NoteAction(a)
  <2>1. PICK at \in {"ex", "pay", "listing"}, type \in {Actions[a].type} :
          /\ <<at, type>> \notin {<<"ex", "stock_dividend">>, <<"ex", "split">>,
                              <<"pay", "rights_issue">>, <<"pay", "cash_dividend">>,
                              <<"listing", "stock_dividend">>}
          /\ Applies(at, type, a)
    BY <1>7 DEF NoteAction
  <2>2. Applied /\ UNCHANGED <<entitlements, dividends>>
    BY <1>7 DEF NoteAction, money
  <2>3. Settling(a) = [at |-> at, action |-> a] => type = "split"
    BY <2>1, ActionFields DEF Settling
  <2> QED BY <1>3, <2>1, <2>2, <2>3
<1>8. CASE DeclineRights(a)
  <2>1. /\ Applies("pay", "rights_issue", a) /\ Applied /\ UNCHANGED dividends
        /\ entitlements' = entitlements \ EntitlementOf(a)
    BY <1>8 DEF DeclineRights, money
  <2>2. EntitlementOf(a)' = {}
    BY <2>1 DEF EntitlementOf
  <2> QED BY <1>2, <2>1, <2>2, ActionPays
<1>9. CASE PayDividend(a)
  <2>1. /\ Applies("pay", "cash_dividend", a) /\ Applied
        /\ Settling(a) = [at |-> "pay", action |-> a]
    BY <1>9 DEF PayDividend, NotEntitled, Applies, Settling
  <2>2. CASE NotEntitled(a)
    BY <1>4, <2>1, <2>2 DEF NotEntitled, money
  <2>3. ASSUME NEW e \in EntitlementOf(a),
               dividends' = dividends + e.quantity * Actions[a].cash,
               entitlements' = entitlements \ {e}
        PROVE  PaidOut'
    <3>1. EntitlementOf(a)' = {}
      BY <2>3, OneEntitlement DEF EntitlementOf
    <3>2. Recorded(e) /\ e.action = a
      BY <2>1, OneEntitlement DEF Promised, Raised, Applies
    <3>3. Actions[a].record \in DOMAIN held /\ e.quantity * Actions[a].cash = GrossOf(a)
      BY <3>2 DEF Recorded, GrossOf
    <3> QED BY <2>1, <2>3, <3>1, <3>3, ActionPays
  <2> QED BY <1>9, <2>2, <2>3 DEF PayDividend
<1>10. CASE ListShares(a)
  <2>1. /\ Applies("listing", "stock_dividend", a) /\ Applied /\ UNCHANGED dividends
        /\ Settling(a) = [at |-> "listing", action |-> a]
    BY <1>10 DEF ListShares, NotEntitled, Applies, Settling, money
  <2>2. CASE NotEntitled(a)
    BY <1>4, <2>1, <2>2 DEF NotEntitled, money
  <2>3. ASSUME NEW e \in EntitlementOf(a), entitlements' = entitlements \ {e}
        PROVE  PaidOut'
    <3>1. EntitlementOf(a)' = {}
      BY <2>3, OneEntitlement DEF EntitlementOf
    <3> QED BY <1>2, <2>1, <2>3, <3>1, ActionPays
  <2> QED BY <1>10, <2>2, <2>3 DEF ListShares
<1> QED BY <1>5, <1>6, <1>7, <1>8, <1>9, <1>10 DEF ApplyAction

\* A new session settles nothing before its open.
LEMMA OpenPays ==
    ASSUME Daily, Kept, NothingTodo, PaidOut, NEW d \in Days, NEW h \in Snapshots,
           OpenSession(d, h)
    PROVE  PaidOut'
<1>1. /\ pc = "idle" /\ pc' = "actions" /\ day' = d /\ d = day + 1 /\ held' = held
      /\ entitlements' = entitlements /\ todo = {} /\ todo' = {t \in Dates : DateOf(t) = d}
      /\ day \in Int /\ d \in Int /\ dividends' = dividends
  BY KeptSets DEF OpenSession, Days, Daily, NothingTodo, money
<1>2. \A a \in ActionIds :
        /\ Settling(a) \in Dates /\ DateOf(Settling(a)) \in Int
        /\ Actions[a].type = "cash_dividend" => DateOf(Settling(a)) = Actions[a].pay
  <2>1. ASSUME NEW a \in ActionIds
        PROVE  /\ Settling(a) \in Dates /\ DateOf(Settling(a)) \in Int
               /\ Actions[a].type = "cash_dividend" => DateOf(Settling(a)) = Actions[a].pay
    <3>1. Actions[a].pay \in Int /\ Actions[a].listing \in Int
      BY ActionFields
    <3> QED BY <3>1, DateIs DEF Settling, Dates
  <2> QED BY <2>1
<1>3. Paid' = Paid
  <2>1. Paid' = {a \in ActionIds : /\ Actions[a].type = "cash_dividend"
                                   /\ Actions[a].record \in DOMAIN held
                                   /\ Actions[a].pay <= d
                                   /\ Settling(a) \notin todo'}
    BY <1>1 DEF Paid, Settling
  <2>2. \A a \in ActionIds : Actions[a].type = "cash_dividend" =>
          (Settling(a) \in todo' <=> Actions[a].pay = d)
    BY <1>1, <1>2
  <2>3. \A a \in ActionIds : Actions[a].pay \in Int
    BY ActionFields
  <2>4. \A a \in ActionIds : Actions[a].type = "cash_dividend" =>
          ((Actions[a].pay <= d /\ Settling(a) \notin todo')
             <=> (Actions[a].pay <= day /\ Settling(a) \notin todo))
    BY <1>1, <2>2, <2>3
  <2> QED BY <2>1, <2>4 DEF Paid
<1>4. Gross' = Gross
  BY <1>1, <1>3 DEF Gross
<1>5. dividends' = SumFunction(Gross')
  BY <1>1, <1>4 DEF PaidOut, Raised
<1>6. ASSUME NEW e \in entitlements' PROVE Unsettled(e)'
  <2>1. Unsettled(e) /\ e.action \in ActionIds
    BY <1>1, KeptSets DEF PaidOut, Raised, Entitlement
  <2>2. CASE Ahead(e.action)
    <3>1. day < DateOf(Settling(e.action))
      BY <1>1, <2>2 DEF Ahead
    <3>2. d < DateOf(Settling(e.action)) \/ Settling(e.action) \in todo'
      BY <1>1, <1>2, <2>1, <3>1
    <3>3. Ahead(e.action)'
      BY <1>1, <3>2 DEF Ahead, Settling, DateOf
    <3> QED BY <3>3 DEF Unsettled
  <2> QED BY <2>1, <2>2 DEF Unsettled
<1> QED BY <1>5, <1>6 DEF PaidOut

\* A close adds a record date whose payments are still to come.
LEMMA ClosePays ==
    ASSUME RecordedBefore, Kept, Promised, PaidOut, CloseSession
    PROVE  PaidOut'
<1>1. /\ pc = "orders" /\ pc' = "decide" /\ day' = day /\ todo' = todo
      /\ \A e \in entitlements' :
           e \in entitlements \/ (e.action \in ActionIds /\ Actions[e.action].record = day)
      /\ DOMAIN held' = DOMAIN held \cup {day}
      /\ \A d \in DOMAIN held : d # day => held'[d] = held[d]
      /\ dividends' = dividends
      /\ pc \notin Raised
  BY DEF CloseSession, market, money, Raised
<1>2. day \notin DOMAIN held /\ day \in Int
  BY <1>1, KeptSets DEF Promised, Checkpointed
<1>3. \A a \in ActionIds : Actions[a].pay \in Int /\ Actions[a].listing \in Int
  BY ActionFields
<1>4. Paid' = Paid
  <2>1. Paid' = {a \in ActionIds : /\ Actions[a].type = "cash_dividend"
                                   /\ Actions[a].record \in DOMAIN held \cup {day}
                                   /\ Actions[a].pay <= day
                                   /\ Settling(a) \notin todo}
    BY <1>1 DEF Paid, Settling
  <2>2. \A a \in ActionIds : Actions[a].type = "cash_dividend" /\ Actions[a].record = day
          => ~(Actions[a].pay <= day)
    BY <1>2, <1>3 DEF RecordedBefore
  <2> QED BY <2>1, <2>2 DEF Paid
<1>5. Gross' = Gross
  <2>1. \A a \in Paid : held'[Actions[a].record] = held[Actions[a].record]
    BY <1>1, <1>2 DEF Paid
  <2> QED BY <1>4, <2>1 DEF Gross
<1>6. dividends' = SumFunction(Gross')
  BY <1>1, <1>5 DEF PaidOut
<1>7. ASSUME NEW e \in entitlements' PROVE Unsettled(e)'
  <2>1. CASE e \in entitlements
    BY <1>1, <2>1 DEF PaidOut, Unsettled, Ahead, Settling, DateOf
  <2>2. CASE e.action \in ActionIds /\ Actions[e.action].record = day
    <3>1. Actions[e.action].type \in {"cash_dividend", "stock_dividend", "split",
                                      "rights_issue"}
      BY <2>2, ActionFields
    <3>2. DateOf(Settling(e.action)) = IF Actions[e.action].type = "stock_dividend"
                                       THEN Actions[e.action].listing
                                       ELSE Actions[e.action].pay
      BY DateIs DEF Settling
    <3>3. Unsettled(e)
      BY <1>2, <1>3, <2>2, <3>1, <3>2 DEF RecordedBefore, Unsettled, Ahead
    <3> QED BY <1>1, <3>3 DEF Unsettled, Ahead, Settling, DateOf
  <2> QED BY <1>1, <2>1, <2>2
<1> QED BY <1>6, <1>7 DEF PaidOut

\* Orders and intents neither pay nor settle.
LEMMA PayStays ==
    ASSUME PaidOut, pc' \in Raised \/ UNCHANGED <<day, todo, entitlements, held, dividends>>,
           pc' \notin Raised => pc \notin Raised
    PROVE  PaidOut'
<1>1. CASE pc' \in Raised
  BY <1>1 DEF PaidOut
<1>2. CASE pc' \notin Raised
  <2>1. UNCHANGED <<day, todo, entitlements, held, dividends>>
    BY <1>2
  <2>2. Paid' = Paid
    BY <2>1 DEF Paid, Settling
  <2>3. Gross' = Gross
    BY <2>1, <2>2 DEF Gross
  <2>4. \A e \in entitlements : Unsettled(e)' = Unsettled(e)
    BY <2>1 DEF Unsettled, Ahead, Settling, DateOf
  <2> QED BY <1>2, <2>1, <2>3, <2>4 DEF PaidOut
<1> QED BY <1>1, <1>2

\* Every dividend is paid and every entitlement settled, step by step.
LEMMA PaidOutIsInductive ==
    ASSUME Daily, RecordedBefore, Kept, Promised, NothingTodo, PaidOut, [Next]_vars
    PROVE  PaidOut'
<1>1. ASSUME NEW o \in due, RejectOrder(o) \/ Buy(o) \/ Sell(o) PROVE PaidOut'
  <2>1. pc = "orders"
    BY <1>1 DEF RejectOrder, Buy, Sell, Executes
  <2>2. \/ UNCHANGED <<day, todo, entitlements, held, dividends>>
        \/ pc' \in Raised
    BY <1>1 DEF RejectOrder, Buy, Sell, Executed, Raise, Raised, market
  <2> QED BY <2>1, <2>2, PayStays DEF Raised
<1>2. CASE SelectOrders
  BY <1>2, PayStays DEF SelectOrders, market, money, Raised
<1>3. CASE NoIntent
  BY <1>3, PayStays DEF NoIntent, market, money, Raised
<1>4. ASSUME NEW w \in Intents, SubmitIntent(w) PROVE PaidOut'
  BY <1>4, PayStays DEF SubmitIntent, market, money, Raised
<1>5. CASE UNCHANGED vars
  BY <1>5, PayStays DEF vars, market, money
<1> QED
  BY <1>1, <1>2, <1>3, <1>4, <1>5, OpenPays, ActionsPay, ClosePays DEF Next

\* The orders come once the corporate actions are done.
LEMMA NothingTodoIsInductive ==
    ASSUME NothingTodo, [Next]_vars
    PROVE  NothingTodo'
<1>1. ASSUME NEW a \in ActionIds, ApplyAction(a) PROVE NothingTodo'
  BY <1>1 DEF ApplyAction, AllocateShareCost, ApplySplit, NoteAction, DeclineRights,
     PayDividend, ListShares, NotEntitled, Applies, Applied, Raise, Raised, NothingTodo
<1>2. ASSUME NEW o \in due, RejectOrder(o) \/ Buy(o) \/ Sell(o) PROVE NothingTodo'
  BY <1>2 DEF RejectOrder, Buy, Sell, Executes, Executed, Raise, Raised, NothingTodo
<1>3. ASSUME NEW d \in Days, NEW h \in Snapshots, OpenSession(d, h) PROVE NothingTodo'
  BY <1>3 DEF OpenSession, NothingTodo
<1>4. CASE SelectOrders
  BY <1>4 DEF SelectOrders, NothingTodo
<1>5. CASE CloseSession \/ NoIntent \/ UNCHANGED vars
  BY <1>5 DEF CloseSession, NoIntent, vars, NothingTodo
<1>6. ASSUME NEW w \in Intents, SubmitIntent(w) PROVE NothingTodo'
  BY <1>6 DEF SubmitIntent, NothingTodo
<1> QED BY <1>1, <1>2, <1>3, <1>4, <1>5, <1>6 DEF Next

\* At first nothing is paid.
LEMMA PaidOutAtFirst == Init => NothingTodo /\ PaidOut
<1>1. ASSUME Init PROVE dividends = SumFunction(Gross)
  <2>1. Paid = {}
    BY <1>1 DEF Init, Paid
  <2>2. Gross \in [{} -> Int]
    BY <2>1 DEF Gross
  <2>3. SumFunction(Gross) = Sum(Gross, {})
    BY <2>2, SumOfFunction
  <2> QED BY <1>1, <2>3, SumEmpty DEF Init
<1> QED BY <1>1 DEF Init, NothingTodo, PaidOut

\* What the books say once the actions of a session are done.
LEMMA PaidOutIsPaid ==
    ASSUME Kept, NothingTodo, PaidOut
    PROVE  DividendsArePaid /\ EntitlementsAreSettled
<1>1. SUFFICES ASSUME pc \notin Raised \cup {"actions"}
              PROVE  DividendsArePaid /\ EntitlementsAreSettled
  BY DEF DividendsArePaid, EntitlementsAreSettled
<1>2. todo = {}
  BY <1>1 DEF NothingTodo, Kept, Typed, TypeOK
<1>3. DividendsArePaid
  <2>1. Paid = {a \in ActionIds : /\ Actions[a].type = "cash_dividend"
                                  /\ Actions[a].record \in DOMAIN held
                                  /\ Actions[a].pay <= day}
    BY <1>2 DEF Paid
  <2>2. dividends = SumFunction(Gross)
    BY <1>1 DEF PaidOut
  <2> QED BY <2>1, <2>2 DEF DividendsArePaid, Gross
<1>4. EntitlementsAreSettled
  <2>1. ASSUME NEW e \in entitlements
        PROVE  LET a == Actions[e.action] IN
               /\ a.type \in {"cash_dividend", "rights_issue"} => day < a.pay
               /\ a.type = "stock_dividend" => a.listing = 0 \/ day < a.listing
    <3>1. Unsettled(e)
      BY <1>1 DEF PaidOut
    <3>2. DateOf(Settling(e.action)) = IF Actions[e.action].type = "stock_dividend"
                                       THEN Actions[e.action].listing
                                       ELSE Actions[e.action].pay
      BY DateIs DEF Settling
    <3> QED BY <1>2, <3>1, <3>2 DEF Unsettled, Ahead
  <2> QED BY <2>1 DEF EntitlementsAreSettled
<1> QED BY <1>3, <1>4

\* DividendsArePaid for every market, calendar and strategy of a daily account: what
\* _pay_cash_dividend credits is what the checkpoint of the record date counted, once.
\* A session that is skipped may be a payment date, and an action that is paid on its
\* own record date is paid before the close that entitles to it.
THEOREM EveryDividendIsPaid == Daily /\ RecordedBefore => (Spec => []DividendsArePaid)
<1> SUFFICES ASSUME Daily, RecordedBefore PROVE Spec => []DividendsArePaid
  OBVIOUS
<1>1. Init => Kept /\ OrderLife /\ Promised /\ NothingTodo /\ PaidOut
  BY KeptAtFirst, OrderLifeAtFirst, PromisedAtFirst, PaidOutAtFirst
<1>2. Kept /\ OrderLife /\ Promised /\ NothingTodo /\ PaidOut /\ [Next]_vars
        => Kept' /\ OrderLife' /\ Promised' /\ NothingTodo' /\ PaidOut'
  BY KeptIsInductive, OrderLifeIsInductive, PromisedIsInductive, NothingTodoIsInductive,
     PaidOutIsInductive
<1>3. Kept /\ NothingTodo /\ PaidOut => DividendsArePaid
  BY PaidOutIsPaid
<1> QED BY <1>1, <1>2, <1>3, PTL DEF Spec

\* EntitlementsAreSettled under the same conditions: no entitlement outlives the date
\* that _apply_corporate_actions settles it on.
THEOREM EveryEntitlementIsSettled ==
    Daily /\ RecordedBefore => (Spec => []EntitlementsAreSettled)
<1> SUFFICES ASSUME Daily, RecordedBefore PROVE Spec => []EntitlementsAreSettled
  OBVIOUS
<1>1. Init => Kept /\ OrderLife /\ Promised /\ NothingTodo /\ PaidOut
  BY KeptAtFirst, OrderLifeAtFirst, PromisedAtFirst, PaidOutAtFirst
<1>2. Kept /\ OrderLife /\ Promised /\ NothingTodo /\ PaidOut /\ [Next]_vars
        => Kept' /\ OrderLife' /\ Promised' /\ NothingTodo' /\ PaidOut'
  BY KeptIsInductive, OrderLifeIsInductive, PromisedIsInductive, NothingTodoIsInductive,
     PaidOutIsInductive
<1>3. Kept /\ NothingTodo /\ PaidOut => EntitlementsAreSettled
  BY PaidOutIsPaid
<1> QED BY <1>1, <1>2, <1>3, PTL DEF Spec

-----------------------------------------------------------------------------
(* Splits.                                                                 *)

\* The shares of one lot, and of none.
LEMMA OneLot ==
    /\ QuantityOf({}) = 0
    /\ \A m : m.quantity \in Int => QuantityOf({m}) = m.quantity
<1>1. QuantityOf({}) = 0
  <2>1. QuantityOf({}) = Sum([l \in {} |-> l.quantity], {})
    BY DEF QuantityOf, Sum, SumFunction
  <2> QED BY <2>1, SumEmpty
<1>2. ASSUME NEW m, m.quantity \in Int PROVE QuantityOf({m}) = m.quantity
  <2>1. PICK h : h = [l \in {m} |-> l.quantity]
    OBVIOUS
  <2>2. QuantityOf({m}) = Sum(h, {m})
    BY <2>1 DEF QuantityOf, Sum, SumFunction
  <2>3. h[m] = m.quantity /\ {} \cup {m} = {m} /\ IsFiniteSet({})
    BY <2>1, FS_EmptySet
  <2>4. Sum(h, {} \cup {m}) = h[m] + Sum(h, {})
    BY <1>2, <2>3, SumAdd
  <2> QED BY <1>2, <2>2, <2>3, <2>4, SumEmpty
<1> QED BY <1>1, <1>2

\* The lots of L that have the name of l.
Namesakes(L, l) == {m \in L : SameName(l, m)}

\* The lots of one instrument after a change of some of them.
LEMMA PartAfter ==
    ASSUME Kept, NEW i, NEW S, S = LotsOf(i), NEW K \in SUBSET S, NEW quantity, NEW cost,
           Replaces(lots, S, K, quantity, cost, lots')
    PROVE  /\ Quantity(i)' = Sum(quantity, K)
           /\ \A l \in K : QuantityOf(Namesakes(lots', l)) = quantity[l]
           /\ \A l \in S \ K : QuantityOf(Namesakes(lots', l)) = 0
<1>1. /\ lots \subseteq Lot /\ IsFiniteSet(lots)
      /\ \A l, m \in lots : SameName(l, m) => l = m
      /\ \A l \in K : quantity[l] \in Nat \ {0} /\ cost[l] \in Nat
      /\ lots' = (lots \ S) \cup Changed(K, quantity, cost)
  BY DEF Replaces, LotsAre
<1>2. PICK g : g = [l \in K |-> [l EXCEPT !.quantity = quantity[l], !.cost = cost[l]]]
  OBVIOUS
<1>3. Changed(K, quantity, cost) = {g[l] : l \in K}
  BY <1>2 DEF Changed
<1>4. S \in SUBSET lots /\ \A l \in lots : l.instrument = i => l \in S
  BY DEF LotsOf
<1>5. \A l \in K : g[l] \in Lot /\ SameName(l, g[l]) /\ g[l].quantity = quantity[l]
                   /\ g[l].instrument = i /\ l \in lots
  <2>1. ASSUME NEW l \in K
        PROVE  g[l] \in Lot /\ SameName(l, g[l]) /\ g[l].quantity = quantity[l]
               /\ g[l].instrument = i /\ l \in lots
    <3>1. l \in lots /\ l.instrument = i /\ l \in Lot
      BY <1>1 DEF LotsOf
    <3>2. g[l] = [l EXCEPT !.quantity = quantity[l], !.cost = cost[l]]
      BY <1>2
    <3> QED BY <1>1, <3>1, <3>2 DEF Lot, SameName
  <2> QED BY <2>1
<1>6. ASSUME NEW l \in S, NEW m \in lots', SameName(l, m)
      PROVE  l \in K /\ m = g[l]
  <2>1. CASE m \in lots \ S
    <3>1. l = m
      BY <1>1, <1>4, <1>6, <2>1
    <3> QED BY <2>1, <3>1
  <2>2. ASSUME NEW k \in K, m = g[k] PROVE l \in K /\ m = g[l]
    <3>1. SameName(l, k)
      BY <1>5, <1>6, <2>2 DEF SameName
    <3>2. l = k
      BY <1>1, <1>4, <1>5, <3>1
    <3> QED BY <2>2, <3>2
  <2> QED BY <1>1, <1>3, <2>1, <2>2
<1>7. \A l \in K : Namesakes(lots', l) = {g[l]}
  BY <1>1, <1>3, <1>5, <1>6 DEF Namesakes
<1>8. \A l \in S \ K : Namesakes(lots', l) = {}
  BY <1>6 DEF Namesakes
<1>9. {m \in lots' : m.instrument = i} = {g[l] : l \in K}
  <2>1. \A m \in lots \ S : m.instrument # i
    BY <1>4
  <2> QED BY <1>1, <1>3, <1>5, <2>1
<1>10. Quantity(i)' = Sum(quantity, K)
  <2>1. PICK N : N = {g[l] : l \in K}
    OBVIOUS
  <2>2. PICK h : h = [m \in N |-> m.quantity]
    OBVIOUS
  <2>3. IsFiniteSet(K)
    BY <1>1, <1>4, FS_Subset
  <2>4. \A l, m \in K : g[l] = g[m] => l = m
    <3>1. ASSUME NEW l \in K, NEW m \in K, g[l] = g[m] PROVE l = m
      <4>1. SameName(l, m)
        BY <1>5, <3>1 DEF SameName
      <4> QED BY <1>1, <1>5, <4>1
    <3> QED BY <3>1
  <2>5. \A l \in K : quantity[l] \in Int /\ h[g[l]] = quantity[l]
    BY <1>1, <1>5, <2>1, <2>2
  <2>6. IsFiniteSet(N) /\ Sum(h, N) = Sum(quantity, K)
    BY <2>1, <2>3, <2>4, <2>5, SumOfImages
  <2>7. QuantityOf(N) = Sum(h, N)
    BY <2>2 DEF QuantityOf, Sum, SumFunction
  <2>8. Quantity(i)' = QuantityOf(N)
    BY <1>9, <2>1 DEF Quantity, LotsOf, QuantityOf
  <2> QED BY <2>6, <2>7, <2>8
<1>11. \A l \in K : QuantityOf({g[l]}) = quantity[l]
  BY <1>1, <1>5, OneLot
<1>12. QuantityOf({}) = 0
  BY OneLot
<1> QED BY <1>7, <1>8, <1>10, <1>11, <1>12

\* A position of no shares has no lots.
LEMMA NothingHeld ==
    ASSUME Kept, NEW i, Quantity(i) = 0
    PROVE  LotsOf(i) = {}
<1>1. PICK S : S = LotsOf(i)
  OBVIOUS
<1>2. S \in SUBSET Lot /\ IsFiniteSet(S)
  BY <1>1, KeptSets, FS_Subset DEF LotsOf
<1>3. PICK h : h = [l \in S |-> l.quantity]
  OBVIOUS
<1>4. \A l \in S : h[l] \in Nat /\ h[l] # 0
  BY <1>2, <1>3 DEF Lot
<1>5. Sum(h, S) = 0
  BY <1>1, <1>3 DEF Quantity, QuantityOf, Sum, SumFunction
<1>6. ASSUME NEW l \in S PROVE FALSE
  <2>1. IsFiniteSet(S \ {l})
    BY <1>2, FS_Subset
  <2>2. Sum(h, S \ {l}) \in Nat
    BY <1>4, <2>1, SumIsNat
  <2>3. Sum(h, S) = h[l] + Sum(h, S \ {l})
    BY <1>2, <1>4, SumRemove
  <2> QED BY <1>4, <1>5, <2>2, <2>3
<1> QED BY <1>1, <1>6

\* What a split does to the position.
LEMMA SplitIsProportional ==
    ASSUME Kept, NEW a \in ActionIds, SplitsPosition(a)
    PROVE  IsProportional(a)
<1> DEFINE i == Actions[a].instrument
           S == LotsOf(i)
           ratio == Actions[a].share
           target == (QuantityOf(S) * ratio[1]) \div ratio[2]
           quantity == SplitQuantities(S, ratio)
           kept == {l \in S : quantity[l] > 0}
           last == CHOOSE l \in kept : \A m \in kept \ {l} : SoldBefore(m, l)
           cost == Shares(kept, CostOf(S), quantity, target, last)
           after(l) == {m \in lots' : /\ m.instrument = i
                                      /\ m.acquired = l.acquired
                                      /\ m.source = l.source}
           gap(l) == l.quantity * ratio[1] - QuantityOf(after(l)) * ratio[2]
<1>1. ratio[1] \in Nat /\ ratio[2] \in Nat \ {0}
  BY ActionFields
<1>2. \A l \in S : after(l) = Namesakes(lots', l)
  BY DEF SameName, LotsOf, Namesakes
<1>3. IsProportional(a) <=>
        /\ QuantityAfter(i) = (Quantity(i) * ratio[1]) \div ratio[2]
        /\ \A l \in S : -ratio[2] < gap(l) /\ gap(l) < ratio[2]
  BY DEF IsProportional
<1>4. /\ ApplySplit(a) /\ pc' = pc /\ pc = "actions"
      /\ <<"position_mismatch", a>> \notin incomplete'
      /\ <<"missing_entitlement", a>> \notin incomplete'
  BY DEF SplitsPosition, ApplySplit, Applies, Discloses
<1>5. CASE NotEntitled(a)
  <2>1. lots' = lots /\ ~(Quantity(i) > 0)
    BY <1>4, <1>5 DEF NotEntitled, Mark, Where
  <2>2. Quantity(i) = 0
    BY <2>1, PositionType, KeptSets
  <2>3. S = {}
    BY <2>2, NothingHeld
  <2>4. QuantityAfter(i) = 0
    <3>1. Quantity(i)' = Quantity(i)
      BY <2>1 DEF Quantity, LotsOf, QuantityOf
    <3> QED BY <2>2, <3>1 DEF QuantityAfter
  <2>5. (0 * ratio[1]) \div ratio[2] = 0
    BY <1>1
  <2> HIDE DEF ratio, S, i
  <2> QED BY <1>3, <2>2, <2>3, <2>4, <2>5
<1>6. CASE ~NotEntitled(a)
  <2>1. /\ ~\E l \in kept : cost[l] < 0
        /\ lots' = (lots \ S) \cup
             {[l EXCEPT !.quantity = quantity[l], !.cost = cost[l]] : l \in kept}
    <3>1. ~Mark({<<"position_mismatch", a>>})
      BY <1>4 DEF Mark
    <3>2. ~Raise("cost_negative")
      BY <1>4 DEF Raise
    <3>3. IF \E l \in kept : cost[l] < 0
          THEN Raise("cost_negative")
          ELSE /\ lots' = (lots \ S) \cup
                    {[l EXCEPT !.quantity = quantity[l], !.cost = cost[l]] : l \in kept}
               /\ entitlements' = entitlements \ EntitlementOf(a)
               /\ Mark(Where(<<"fractional_split", a>>,
                        target * ratio[2] # QuantityOf(S) * ratio[1]))
               /\ Applied
               /\ UNCHANGED money
      BY <1>4, <1>6, <3>1 DEF ApplySplit
    <3> QED BY <3>2, <3>3
  <2>2. Changed(kept, quantity, cost)
          = {[l EXCEPT !.quantity = quantity[l], !.cost = cost[l]] : l \in kept}
    BY DEF Changed
  <2>3. /\ S \subseteq lots /\ IsFiniteSet(S) /\ CostOf(S) \in Nat /\ QuantityOf(S) \in Nat
        /\ QuantityOf(S) = Quantity(i)
    BY KeptSets, PositionType DEF LotsOf, Quantity
  <2>4. \A l, m \in S : l.instrument = m.instrument
    BY DEF LotsOf
  <2>5. S \subseteq Lot /\ \A l, m \in S : SameName(l, m) => l = m
    BY <2>3, KeptSets
  <2> HIDE DEF S
  <2>6. \A l \in S : quantity[l] \in Nat
    <3>1. \A l \in S : l.quantity \in Nat \ {0}
      BY <2>5 DEF Lot
    <3> HIDE DEF ratio
    <3> QED BY <1>1, <3>1, SplitType
  <2>7. /\ Sum(quantity, S) = target
        /\ \A l \in S : LET g == l.quantity * ratio[1] - quantity[l] * ratio[2]
                        IN  -ratio[2] < g /\ g < ratio[2]
    <3> HIDE DEF ratio
    <3> QED BY <1>1, <2>3, <2>4, <2>5, SplitTotal
  <2>8. target \in Nat
    <3>1. QuantityOf(S) * ratio[1] \in Nat
      BY <1>1, <2>3
    <3> QED BY <1>1, <3>1, Division
  <2> HIDE DEF quantity, target
  <2>9. /\ kept \subseteq S /\ IsFiniteSet(kept)
        /\ \A l \in kept : quantity[l] \in Nat \ {0}
        /\ \A l \in S \ kept : quantity[l] = 0
    <3>1. kept \subseteq S
      OBVIOUS
    <3>2. (\A l \in kept : quantity[l] \in Nat \ {0}) /\ \A l \in S \ kept : quantity[l] = 0
      BY <2>6
    <3> QED BY <2>3, <3>1, <3>2, FS_Subset
  <2> HIDE DEF kept, last
  <2>10. \A l \in kept : cost[l] \in Nat
    <3>1. \A l \in kept : quantity[l] \in Int
      BY <2>9
    <3>2. PICK total \in Int : total = CostOf(S)
      BY <2>3
    <3>3. LET shares == Shares(kept, total, quantity, target, last)
          IN  shares \in [kept -> Int]
      BY <2>8, <2>9, <3>1, SharesAddUp
    <3>4. \A l \in kept : cost[l] \in Int /\ ~(cost[l] < 0)
      BY <2>1, <3>2, <3>3
    <3> HIDE DEF cost
    <3> QED BY <3>4
  <2> HIDE DEF cost
  <2>11. Replaces(lots, S, kept, quantity, cost, lots')
    BY <2>1, <2>2, <2>3, <2>9, <2>10, KeptSets DEF Replaces, LotsAre
  <2>12. /\ Quantity(i)' = Sum(quantity, kept)
         /\ \A l \in kept : QuantityOf(Namesakes(lots', l)) = quantity[l]
         /\ \A l \in S \ kept : QuantityOf(Namesakes(lots', l)) = 0
    <3>1. PICK j : j = i
      OBVIOUS
    <3>2. S = LotsOf(j)
      BY <3>1 DEF S
    <3>3. Quantity(i)' = Quantity(j)'
      BY <3>1
    <3> HIDE DEF i, after, gap
    <3>4. /\ Quantity(j)' = Sum(quantity, kept)
          /\ \A l \in kept : QuantityOf(Namesakes(lots', l)) = quantity[l]
          /\ \A l \in S \ kept : QuantityOf(Namesakes(lots', l)) = 0
      BY <2>9, <2>11, <3>2, PartAfter
    <3> QED BY <3>3, <3>4
  <2>13. Sum(quantity, kept) = Sum(quantity, S)
    <3>1. PICK R : R = S \ kept
      OBVIOUS
    <3>2. IsFiniteSet(R) /\ R \cap kept = {} /\ kept \cup R = S
      BY <2>3, <2>9, <3>1, FS_Subset
    <3>3. Sum(quantity, R) = 0
      BY <2>9, <3>1, <3>2, SumZero
    <3>4. \A l \in kept \cup R : quantity[l] \in Int
      BY <2>6, <3>2
    <3>5. Sum(quantity, kept \cup R) = Sum(quantity, kept) + Sum(quantity, R)
      BY <2>9, <3>2, <3>4, SumUnion
    <3>6. Sum(quantity, kept) \in Int
      BY <2>9, SumIsInt
    <3> QED BY <3>2, <3>3, <3>5, <3>6
  <2>14. QuantityAfter(i) = (Quantity(i) * ratio[1]) \div ratio[2]
    BY <2>3, <2>7, <2>12, <2>13 DEF QuantityAfter, target
  <2>15. \A l \in S : QuantityOf(after(l)) = quantity[l]
    <3>1. \A l \in S : after(l) = Namesakes(lots', l)
      BY <1>2
    <3> HIDE DEF after
    <3> QED BY <2>9, <2>12, <3>1
  <2> HIDE DEF after
  <2> QED BY <1>3, <2>7, <2>14, <2>15
<1> QED BY <1>5, <1>6

\* SplitsAreProportional for every ratio, portfolio and order of the lots: what
\* _apply_split hands out by the largest fractions is the rounded total, and nobody
\* is a share off.
THEOREM SplitsHandOutTheTotal == Spec => SplitsAreProportional
<1>1. Init => Kept /\ OrderLife
  BY KeptAtFirst, OrderLifeAtFirst
<1>2. Kept /\ OrderLife /\ [Next]_vars => Kept' /\ OrderLife'
  BY KeptIsInductive, OrderLifeIsInductive
<1>3. Kept /\ [Next]_vars => [\A a \in ActionIds : SplitsPosition(a) => IsProportional(a)]_vars
  BY SplitIsProportional
<1> QED BY <1>1, <1>2, <1>3, PTL DEF Spec, SplitsAreProportional
=============================================================================
