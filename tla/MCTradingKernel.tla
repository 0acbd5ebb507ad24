-------------------------- MODULE MCTradingKernel --------------------------
(* Instances of TradingKernel for TLC.                                     *)
EXTENDS TradingKernel, TLC

CONSTANTS i1, i2

Traded(open, volume) ==
    [state |-> "traded", open |-> open, high |-> open + 1, low |-> open - 1,
     close |-> open, up |-> 0, down |-> 0, volume |-> volume, lot |-> 2,
     step |-> 1, odd |-> TRUE, delay |-> 1]
Limited(open, up, down) == [Traded(open, 8) EXCEPT !.up = up, !.down = down]

\* Three at first and then in twos, no odd lots, sold on the same session.
Stepped == [Traded(7, 12) EXCEPT !.lot = 3, !.step = 2, !.odd = FALSE, !.delay = 0]

\* Sold two sessions after it was bought.
Slow == [Traded(10, 8) EXCEPT !.delay = 2]
Suspended == [state |-> "suspended"]
Missing == [state |-> "missing"]

\* What sizes and blocks orders, and what moves the equity.
MixedBars == {Slow, Stepped, Limited(9, 11, 9), Missing}
MovingBars == {Traded(10, 8), Traded(6, 6), Limited(11, 11, 9), Suspended, Missing}

\* Tens of cents, percent: the roundings all happen.
MCPolicy == [num |-> 1, den |-> 2, base |-> 200, impact |-> 1000,
             partial |-> TRUE, block |-> TRUE]
MCRisk == [maximum |-> 8, minimum |-> 1]
MCFee == [rate |-> 300, minimum |-> 1, levy |-> 100, stamp |-> 500]

NoActions == <<>>
Corporate(type, record, ex, pay, listing, cents, ratio) ==
    [instrument |-> i1, type |-> type, record |-> record, ex |-> ex, pay |-> pay,
     listing |-> listing, cash |-> cents, share |-> ratio]

\* Bonus shares whose ex-date leaves a session to trade after the record date, and
\* a dividend paid on its ex-date, in four sessions.
Few ==
    << Corporate("stock_dividend", 2, 4, 0, 4, 0, <<1, 2>>),
       Corporate("cash_dividend", 2, 3, 3, 0, 3, <<0, 1>>) >>

\* Splits recorded one session and two sessions before and on the ex-date itself,
\* bonus shares that list after theirs, dividends and rights.
Many ==
    << Corporate("cash_dividend", 2, 3, 4, 0, 3, <<0, 1>>),
       Corporate("rights_issue", 2, 3, 4, 0, 0, <<1, 3>>),
       Corporate("split", 2, 3, 0, 3, 0, <<3, 2>>),
       Corporate("stock_dividend", 3, 4, 0, 5, 0, <<1, 2>>),
       Corporate("cash_dividend", 3, 4, 5, 0, 2, <<0, 1>>),
       Corporate("split", 3, 5, 0, 5, 0, <<5, 4>>),
       Corporate("split", 5, 5, 0, 5, 0, <<4, 3>>) >>

\* Five shares into one.
Consolidation == << Corporate("split", 2, 3, 0, 3, 0, <<1, 5>>) >>

BuyOrSell == [{i1} -> {0, 5, 9}]
TwoWeights == [{i1, i2} -> {0, 4}] \cup [{i1} -> {8}]

ByTime == [k \in Days \X ({0} \cup ActionIds) |-> 10 * k[1] + k[2]]
Backwards == [k \in Days \X ({0} \cup ActionIds) |-> -(10 * k[1] + k[2])]
=============================================================================
