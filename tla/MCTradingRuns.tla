--------------------------- MODULE MCTradingRuns ---------------------------
(* Instances of TradingRuns for TLC.                                       *)
EXTENDS TradingRuns, TLC

CONSTANTS a1, a2, w1, w2, c1, c2

\* Every snapshot holds every session.
FullCalendar == [c \in Configs |-> Days]

\* c1 pins a snapshot that ends a session early, c2 one with a closed day.
PartialCalendars == (c1 :> 1..(LastDay - 1)) @@ (c2 :> (Days \ {2}))

WorkerSymmetry == Permutations(Workers)
Symmetry == Permutations(Workers) \cup Permutations(Accounts)
=============================================================================
