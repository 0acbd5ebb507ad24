--------------------------- MODULE Reconciliation ---------------------------
(***************************************************************************)
(* How ReconciliationService (fundlab/marketdata/reconciliation.py) makes   *)
(* one table of daily bars out of the rows of several observations.         *)
(*                                                                         *)
(* The rows of one key come in the order of their observations' digests.    *)
(* A row gives a field {} when the source leaves it out, or {v}.  One price *)
(* stands for open, high, low and close; prices are counted in half         *)
(* tolerances, a quarter of the least tick, and volumes in 50 shares; a     *)
(* suspension is 0 or 1.  The relative tolerances, which are far below one  *)
(* unit, the lineage and the other tables are left out.                     *)
(***************************************************************************)
EXTENDS Integers, FiniteSets, Sequences

MarketPriority ==
    <<"tickflow", "eastmoney-efinance", "baostock", "xtquant", "xtquant-legacy-import">>
StatusPriority ==
    <<"baostock", "eastmoney-efinance", "tickflow", "xtquant-legacy-import">>

\* What a provider reads from.
BackendGroup(provider) ==
    CASE provider \in {"eastmoney-efinance", "eastmoney-akshare"} -> "eastmoney"
      [] provider \in {"xtquant", "xtquant-legacy-import"} -> "xtquant"
      [] OTHER -> provider

\* The policy of a readiness: prices and volumes need two backends, and for a
\* simulation the previous close and the suspension do.
FieldRule(field, readiness) ==
    CASE field \in {"price", "volume"} ->
            [priorities |-> MarketPriority, minimum |-> 2, tolerance |-> 2]
      [] field = "previous_close" /\ readiness = "simulation" ->
            [priorities |-> StatusPriority, minimum |-> 2, tolerance |-> 2]
      [] field = "suspended" /\ readiness = "simulation" ->
            [priorities |-> StatusPriority, minimum |-> 2, tolerance |-> 0]
      [] OTHER -> [priorities |-> MarketPriority, minimum |-> 1, tolerance |-> 0]

Fields == {"price", "volume", "previous_close", "suspended"}

-----------------------------------------------------------------------------
(* One field of one key.                                                   *)

Equivalent(left, right, rule) ==
    left - right \in -rule.tolerance .. rule.tolerance

\* What a row gives the field, if anything.
Candidate(row, field) == [provider |-> row.provider, value |-> CHOOSE v \in row[field] : TRUE]

Least(S) == CHOOSE x \in S : \A y \in S : x <= y

\* A candidate joins the first cluster whose first member is equivalent.
Placed(clusters, candidate, rule) ==
    LET fits == {n \in DOMAIN clusters :
                    Equivalent(candidate.value, clusters[n][1].value, rule)}
    IN  IF fits = {} THEN Append(clusters, <<candidate>>)
        ELSE [clusters EXCEPT ![Least(fits)] = Append(@, candidate)]

\* The clusters of all that is given, row after row.
ClustersOf(rows, field, rule) ==
    LET upTo[n \in 0..Len(rows)] ==
            IF n = 0 THEN <<>>
            ELSE IF rows[n][field] = {} THEN upTo[n - 1]
            ELSE Placed(upTo[n - 1], Candidate(rows[n], field), rule)
    IN  upTo[Len(rows)]

\* A mutant: two channels of one backend count as two.
ProvidersOf(cluster) == {cluster[n].provider : n \in DOMAIN cluster}

BackendsOf(cluster) == {BackendGroup(cluster[n].provider) : n \in DOMAIN cluster}
Support(cluster) == Cardinality(BackendsOf(cluster))

Priority(provider, priorities) ==
    Least({n \in DOMAIN priorities : priorities[n] = provider} \cup {Len(priorities) + 1})

BestPriority(cluster, rule) ==
    Least({Priority(cluster[n].provider, rule.priorities) : n \in DOMAIN cluster})

Eligible(clusters, rule) == {c \in clusters : Support(c) >= rule.minimum}

\* A cluster has enough backends, and where more than one is asked for no
\* other has as many.
ConsensusMet(clusters, rule) ==
    LET eligible == Eligible(clusters, rule)
        best == {c \in eligible : \A d \in eligible : Support(d) <= Support(c)}
    IN  eligible # {} /\ ~(rule.minimum > 1 /\ Cardinality(best) > 1)

\* By support, then by priority; what is left is decided by the text of the
\* value, and any fixed choice stands for it.
Winner(clusters, rule) ==
    LET ranked == IF Eligible(clusters, rule) = {} THEN clusters ELSE Eligible(clusters, rule)
        backed == {c \in ranked : \A d \in ranked : Support(d) <= Support(c)}
    IN  CHOOSE c \in backed : \A d \in backed :
            BestPriority(c, rule) <= BestPriority(d, rule)

\* The value of the winning cluster is that of its best placed provider.
ValueOf(cluster, rule) ==
    (CHOOSE c \in {cluster[n] : n \in DOMAIN cluster} :
        Priority(c.provider, rule.priorities) = BestPriority(cluster, rule)).value

\* The selected value, if any, and whether a conflict is reported.
Selected(rows, field, rule) ==
    LET sequence == ClustersOf(rows, field, rule)
        clusters == {sequence[n] : n \in DOMAIN sequence}
    IN  IF clusters = {} THEN [value |-> {}, conflict |-> rule.minimum > 1]
        ELSE [value |-> {ValueOf(Winner(clusters, rule), rule)},
              conflict |-> ~ConsensusMet(clusters, rule)]

-----------------------------------------------------------------------------
(* Tables.                                                                 *)

\* Every row that says something of a suspension says it is suspended.
AllKnownRowsSuspended(rows) ==
    LET known == {n \in DOMAIN rows : rows[n].suspended # {}}
    IN  known # {} /\ \A n \in known : rows[n].suspended = {1}

\* A suspended session has no price, which is no conflict.
ReconciledRow(rows, readiness) ==
    [field \in Fields |->
        IF field = "price" /\ AllKnownRowsSuspended(rows)
        THEN [value |-> {}, conflict |-> FALSE]
        ELSE Selected(rows, field, FieldRule(field, readiness))]

\* A claim covers the scope of the table: its dates and its instruments; one
\* without instruments covers them all.
CoversScope(claim, scope) ==
    /\ claim.first <= scope.first /\ scope.last <= claim.last
    /\ claim.instruments = {} \/ scope.instruments \subseteq claim.instruments

\* The scope of a table of bars is what is in it.
ScopeOf(keys) ==
    [first |-> Least({k[2] : k \in keys}),
     last |-> CHOOSE d \in {k[2] : k \in keys} : \A k \in keys : k[2] <= d,
     instruments |-> {k[1] : k \in keys}]

\* The backends that claim to be complete over the scope.
CompleteBackends(claims, scope) ==
    {BackendGroup(p) : p \in {q \in DOMAIN claims :
        claims[q].complete /\ CoversScope(claims[q], scope)}}

\* What is recorded of bars: group maps keys <<instrument, session>> to rows,
\* claims maps the providers to their claims.
Reconciled(group, claims, readiness) ==
    LET table == [k \in DOMAIN group |-> ReconciledRow(group[k], readiness)]
        conflicts == {k \in DOMAIN group : \E f \in Fields : table[k][f].conflict}
        covered == Cardinality(CompleteBackends(claims, ScopeOf(DOMAIN group))) >= 2
    IN  [rows |-> [k \in DOMAIN group |-> [f \in Fields |-> table[k][f].value]],
         ready |-> covered /\ conflicts = {},
         claim |-> [complete |-> covered /\ conflicts = {},
                    first |-> ScopeOf(DOMAIN group).first,
                    last |-> ScopeOf(DOMAIN group).last,
                    instruments |-> ScopeOf(DOMAIN group).instruments]]
=============================================================================
