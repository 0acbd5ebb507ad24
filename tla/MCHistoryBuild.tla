--------------------------- MODULE MCHistoryBuild ---------------------------
(* Instances of HistoryBuild for TLC. *)
EXTENDS HistoryBuild, TLC

CONSTANTS b1, b2, i1, i2, Tickflow, Xtquant, Eastmoney

TwoInstruments == <<i1, i2>>
Backends == (Tickflow :> "tickflow" @@ Xtquant :> "qmt" @@ Eastmoney :> "eastmoney")

Row(price, volume, suspended) ==
    [price |-> price, volume |-> volume, suspended |-> suspended]

\* About i2 the second source agrees, or differs in the volume of one session
\* and marks the other as suspended; the third agrees nearly and counts odd
\* lots, then agrees exactly.
Agreed == <<Row(4, 8, FALSE), Row(4, 8, FALSE)>>
Differing == <<Row(4, 20, FALSE), Row(4, 0, TRUE)>>
Near == <<Row(5, 7, FALSE), Row(4, 8, FALSE)>>

InstrumentHistories ==
    [entry \in {Tickflow, Xtquant, Eastmoney} \X {i1, i2} |->
        CASE entry = <<Xtquant, i2>> -> {Agreed, Differing}
          [] entry[1] = Eastmoney -> {Near}
          [] OTHER -> {Agreed}]

BuilderSymmetry == Permutations({b1, b2})

Whole == [size |-> 2, count |-> 1, index |-> 0, refresh |-> FALSE, publish |-> TRUE]
Shard(n) == [size |-> 1, count |-> 2, index |-> n, refresh |-> FALSE, publish |-> FALSE]
WholeAndShard == {Whole, Shard(1)}
=============================================================================
