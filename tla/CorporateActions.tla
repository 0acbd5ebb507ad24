-------------------------- MODULE CorporateActions --------------------------
(***************************************************************************)
(* How the official corporate actions of one instrument and the factors of  *)
(* one price source prove each other                                        *)
(* (fundlab/marketdata/corporate_actions.py), with what a second source of  *)
(* factors may add.                                                         *)
(*                                                                         *)
(* Dates are days.  An action is [type, ex, pay, listing, known, cash,      *)
(* shares, rights, price, restructuring]; a factor is [effective, known,    *)
(* cash, shares, rights, price, multiplier].  Shares and rights are per     *)
(* hundred held (a split counts the shares it adds), a multiplier is per    *)
(* mille of the previous close, which is one for all days, and {} is what   *)
(* is missing.  The tolerances of the economics are below one unit; lineage *)
(* and digests are left out.                                                *)
(***************************************************************************)
EXTENDS Integers, FiniteSets, FiniteSetsExt

Matching == 31      \* days between an action and the factor that proves it
Duplicate == 7      \* days between an action and another copy of its factor
Corroborating == 60 \* days between two factors of one event

Days(d, e) == IF d < e THEN e - d ELSE d - e
Magnitude(n) == IF n < 0 THEN -n ELSE n
First(S) == CHOOSE x \in S : \A y \in S : x <= y

\* Two multipliers differ by no more than a per cent of the second.
Near(multiplier, other, percent) ==
    100 * Magnitude(multiplier - other) <= percent * other

-----------------------------------------------------------------------------
(* Economics.                                                              *)

OfType(group, type) == {a \in group : a.type = type}

\* What one holds after the actions of one date.
GroupEconomics(group) ==
    LET splits == OfType(group, "split")
        rights == OfType(group, "rights")
    IN  [cash |-> MapThenSumSet(LAMBDA a : a.cash, OfType(group, "cash")),
         shares |-> IF Cardinality(splits) = 1 THEN (CHOOSE a \in splits : TRUE).shares
                    ELSE MapThenSumSet(LAMBDA a : a.shares, OfType(group, "stock")),
         rights |-> IF rights = {} THEN 0 ELSE (CHOOSE a \in rights : TRUE).rights,
         price |-> IF rights = {} THEN 0 ELSE (CHOOSE a \in rights : TRUE).price]

HasEconomics(factor) == factor.cash # 0 \/ factor.shares # 0 \/ factor.rights # 0

\* The factor proves the group: the rights taken up are not more than those
\* offered, all else is equal.
Proves(group, factor) ==
    LET official == GroupEconomics(group)
    IN  /\ factor.cash = official.cash
        /\ factor.shares = official.shares
        /\ Cardinality(OfType(group, "rights")) <= 1
        /\ Cardinality(OfType(group, "split")) <= 1
        /\ IF OfType(group, "rights") = {} THEN factor.rights = 0
           ELSE factor.rights \in 1..official.rights /\ factor.price = official.price

\* The multiplier a previous close gives the actions, if it can be told.
Expected(group, previous) ==
    LET e == GroupEconomics(group)
        denominator == 100 + e.shares + e.rights
        theoretical(p) == 100 * (p - e.cash) + e.rights * e.price
    IN  IF denominator <= 0 THEN {}
        ELSE IF e.cash = 0 /\ e.rights = 0 THEN {100000 \div denominator}
        ELSE {(1000 * theoretical(p)) \div (p * denominator) :
                 p \in {q \in previous : q > 0 /\ theoretical(q) > 0}}

\* A mutant: one restructuring is enough.
AnyRestructuring(group) == \E a \in group : a.type = "stock" /\ a.restructuring

IsRestructuring(group) ==
    group # {} /\ \A a \in group : a.type = "stock" /\ a.restructuring

-----------------------------------------------------------------------------
(* Preparation.  scope is [listed, delisted, first, last]; delisted may be  *)
(* {}.                                                                      *)

InScope(scope, d) ==
    /\ scope.listed <= d /\ \A e \in scope.delisted : d <= e
    /\ scope.first <= d /\ d <= scope.last

\* Cash without a payment date is paid on the ex-date, and shares are listed
\* on the ex-date when the source says earlier or nothing.
Completed(a) ==
    CASE a.type = "cash" /\ a.pay = {} -> [a EXCEPT !.pay = {a.ex}]
      [] a.type = "stock" /\ (\A d \in a.listing : d < a.ex) -> [a EXCEPT !.listing = {a.ex}]
      [] OTHER -> a

Groups(actions) == [d \in {a.ex : a \in actions} |-> {a \in actions : a.ex = d}]

\* Some group within the days of a date is proved by the factor.
Explained(groups, factor, days) ==
    \E d \in DOMAIN groups :
        Days(d, factor.effective) <= days /\ Proves(groups[d], factor)

Proven(group, d, factors) ==
    \E f \in factors : Days(f.effective, d) <= Matching /\ Proves(group, f)

OfficialFactor(group, d, multiplier) ==
    LET e == GroupEconomics(group)
    IN  [effective |-> d, known |-> First({a.known : a \in group}), cash |-> e.cash,
         shares |-> e.shares, rights |-> e.rights, price |-> e.price,
         multiplier |-> multiplier, provider |-> "canonical"]

\* The cash of an ETF on the very day of a factor that says otherwise
\* replaces that factor.
EtfRecovered(groups, factors, previous) ==
    LET exact(d) == {f \in factors : f.effective = d}
        wrong == {d \in DOMAIN groups :
                    /\ \A a \in groups[d] : a.type = "cash"
                    /\ Cardinality(exact(d)) = 1
                    /\ \A f \in exact(d) : ~Proves(groups[d], f)
                    /\ Expected(groups[d], previous) # {}}
    IN  {f \in factors : f.effective \notin wrong}
          \cup {OfficialFactor(groups[d], d, CHOOSE m \in Expected(groups[d], previous) : TRUE) :
                   d \in wrong}

\* The days of the unresolved events that a second source is asked about.
AuditCandidates(groups, factors, previous) ==
    {f.effective : f \in {g \in factors :
        HasEconomics(g) /\ ~Explained(groups, g, Matching)}}
      \cup {d \in DOMAIN groups : /\ ~Proven(groups[d], d, factors)
                                  /\ Expected(groups[d], previous) # {}}

-----------------------------------------------------------------------------
(* A second source.                                                        *)

\* The nearest factor of the second source about an event, and of those the
\* one whose multiplier is; names decide what is left.
SecondaryFactor(secondary, d, multiplier, days, percent) ==
    LET near == {f \in secondary : /\ Days(f.effective, d) <= days
                                   /\ f.multiplier > 0
                                   /\ Near(f.multiplier, multiplier, percent)}
        gap(f) == Magnitude(f.multiplier - multiplier)
        best == {f \in near : \A g \in near :
            \/ Days(f.effective, d) < Days(g.effective, d)
            \/ Days(f.effective, d) = Days(g.effective, d) /\ gap(f) <= gap(g)}
    IN  IF best = {} THEN {} ELSE {CHOOSE f \in best : TRUE}

\* A material factor of the first source contradicts the second one: it may
\* not, unless it has a part of the cash or a third source agrees.
SourcesAgree(group, d, chosen, factors, secondary) ==
    LET material == {f \in factors : Days(f.effective, d) <= Matching /\ HasEconomics(f)}
        cash == GroupEconomics(group).cash
    IN  \/ material = {}
        \/ \E f \in material : Near(f.multiplier, chosen.multiplier, 2)
        \/ \E f \in secondary : /\ f.provider # chosen.provider
                                /\ Days(f.effective, d) <= Matching
                                /\ f.multiplier > 0
                                /\ Near(f.multiplier, chosen.multiplier, 2)
        \/ /\ cash > 0 /\ \A a \in group : a.type = "cash"
           /\ \E f \in material : /\ f.effective = d /\ f.cash \in 1..(cash - 1)
                                  /\ f.shares = 0 /\ f.rights = 0 /\ f.price = 0

\* The factors the second source gives official actions without a proof.
RecoveredFactors(groups, factors, secondary, previous) ==
    UNION {{OfficialFactor(groups[d], d, s.multiplier) :
              s \in {t \in UNION {SecondaryFactor(secondary, d, m, Matching, 3) :
                                    m \in Expected(groups[d], previous)} :
                       SourcesAgree(groups[d], d, t, factors, secondary)}} :
            d \in {e \in DOMAIN groups : ~Proven(groups[e], e, factors)}}

\* The actions a factor stands for; none when the shares would be gone.
ActionsOf(f, etf) ==
    LET base == [ex |-> f.effective, pay |-> {}, listing |-> {}, known |-> f.effective,
                 cash |-> 0, shares |-> 0, rights |-> 0, price |-> 0,
                 restructuring |-> FALSE, type |-> "cash"]
        cash == IF f.cash > 0
                THEN {[base EXCEPT !.cash = f.cash, !.pay = {f.effective}]} ELSE {}
        shares == IF f.shares = 0 THEN {}
                  ELSE {[base EXCEPT !.type = IF etf \/ f.shares < 0 THEN "split" ELSE "stock",
                                     !.shares = f.shares, !.listing = {f.effective}]}
        rights == IF f.rights > 0 /\ f.price > 0
                  THEN {[base EXCEPT !.type = "rights", !.rights = f.rights,
                             !.price = f.price, !.pay = {f.effective},
                             !.listing = {f.effective}]} ELSE {}
    IN  IF 100 + f.shares <= 0 THEN {} ELSE cash \cup shares \cup rights

\* The actions and factors a second source leaves.
Corroborated(actions, factors, secondary, previous, etf) ==
    LET groups == Groups(actions)
        recovered == RecoveredFactors(groups, factors, secondary, previous)
        unexplained == {f \in factors : HasEconomics(f) /\ ~Explained(groups, f, Matching)}
        contradicted == {f \in unexplained : \E r \in recovered :
                            Days(r.effective, f.effective) <= Matching}
        around(f) == {d \in DOMAIN groups : Days(d, f.effective) <= Matching}
        open == {f \in unexplained \ contradicted :
                    \A d \in around(f) : IsRestructuring(groups[d])}
        backed == {f \in open :
            SecondaryFactor(secondary, f.effective, f.multiplier, Corroborating, 2) # {}}
        replaced == UNION {UNION {groups[d] : d \in around(f)} : f \in backed}
        executable == {f \in backed : ActionsOf(f, etf) # {}}
        quarantined == contradicted \cup (open \ executable)
    IN  [actions |-> (actions \ replaced)
                       \cup UNION {ActionsOf(f, etf) : f \in executable},
         factors |-> (factors \ quarantined) \cup recovered,
         quarantined |-> quarantined]

-----------------------------------------------------------------------------
(* The proof.                                                              *)

\* The nearest factors that prove a group; two at one distance are refused.
ProvedBy(groups, factors, d) ==
    LET viable == {f \in factors : Days(f.effective, d) <= Matching /\ Proves(groups[d], f)}
    IN  {f \in viable : \A g \in viable : Days(f.effective, d) <= Days(g.effective, d)}

Refused == [accepted |-> FALSE, actions |-> {}, factors |-> {}, quarantined |-> {}]

\* Every group gets its factor, moved to the ex-date and known since the
\* first announcement; every material factor left over must be a copy.
Verified(evidence) ==
    LET groups == Groups(evidence.actions)
        proof == [d \in DOMAIN groups |-> ProvedBy(groups, evidence.factors, d)]
        matched == {d \in DOMAIN groups : proof[d] # {}}
        ignored == {d \in DOMAIN groups \ matched : IsRestructuring(groups[d])}
        left == evidence.factors \ UNION {proof[d] : d \in matched}
        technical == {f \in left : ~HasEconomics(f)}
        copies == {f \in left : \E d \in matched :
                      Days(d, f.effective) <= Duplicate /\ Proves(groups[d], f)}
        moved(d) == {[f EXCEPT !.effective = d, !.known = First({a.known : a \in groups[d]})] :
                        f \in proof[d]}
    IN  IF /\ DOMAIN groups = matched \cup ignored
           /\ \A d \in matched : Cardinality(proof[d]) = 1
           /\ left = technical \cup copies
           /\ \A a, b \in evidence.actions :
                 a.type = b.type /\ a.ex = b.ex => a = b
           /\ \A f, g \in evidence.factors : f.effective = g.effective => f = g
        THEN [accepted |-> TRUE,
              actions |-> UNION {groups[d] : d \in matched},
              factors |-> technical \cup UNION {moved(d) : d \in matched},
              quarantined |-> evidence.quarantined]
        ELSE Refused

\* secondary is {} when it is not asked for, or {factors}.
ReconciledActions(actions, factors, secondary, scope, previous, etf) ==
    LET selected == {Completed(a) : a \in {b \in actions : InScope(scope, b.ex)}}
        inside == {f \in factors : InScope(scope, f.effective)}
        primary == IF etf THEN EtfRecovered(Groups(selected), inside, previous) ELSE inside
    IN  IF secondary = {}
        THEN Verified([actions |-> selected, factors |-> primary, quarantined |-> {}])
        ELSE Verified(Corroborated(selected, primary,
                 {f \in UNION secondary : InScope(scope, f.effective)}, previous, etf))
=============================================================================
