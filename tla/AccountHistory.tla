--------------------------- MODULE AccountHistory ---------------------------
(***************************************************************************)
(* What the trading repository promises about persistent accounts          *)
(* (docs/foundation.md, "Persistent accounts and replay"), with no runs,   *)
(* workers, attempts or transactions: the history an account stands on is  *)
(* the list of sessions applied to its initial portfolio, it only ever     *)
(* grows at its end, by later sessions, and growing one account leaves     *)
(* every other one alone.                                                  *)
(***************************************************************************)
EXTENDS Integers, Sequences

CONSTANTS Accounts, Configs, LastDay

VARIABLE hist

Days == 1..LastDay

\* One session as it was applied: the day, and the pinned configuration
\* (snapshot, strategy, policies, fees, seed) it was computed under.
Applied == [day : Days, config : Configs]

History == Seq(Applied)

Increasing(h) == \A i, j \in DOMAIN h : i < j => h[i].day < h[j].day

\* g is h followed by at least one more session.
Extends(g, h) == /\ Len(h) < Len(g)
                 /\ \A i \in DOMAIN h : g[i] = h[i]

Init == hist = [a \in Accounts |-> <<>>]

Grow(a) == /\ hist' \in [Accounts -> History]
           /\ Extends(hist'[a], hist[a])
           /\ Increasing(hist'[a])
           /\ \A b \in Accounts \ {a} : hist'[b] = hist[b]

Next == \E a \in Accounts : Grow(a)

Spec == Init /\ [][Next]_hist
=============================================================================
