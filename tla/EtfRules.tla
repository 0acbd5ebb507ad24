------------------------------ MODULE EtfRules ------------------------------
(***************************************************************************)
(* The dated rules of an ETF (fundlab/marketdata/etf_rules.py): built from  *)
(* its exchange class and from the limits of the day, and reused from an    *)
(* earlier report when that one is complete.                                *)
(*                                                                         *)
(* Dates are numbers yyyymmdd and prices are ticks of 0.001.  Digests,      *)
(* counts and the names of the classes are left out: a class is what it     *)
(* says of the settlement.                                                  *)
(***************************************************************************)
EXTENDS Integers, FiniteSets

CrossBorderEffective == 20150119
CrossBorderKnown == 20150109
TwentyPercentEffective == 20200824
TwentyPercentKnown == 20200612

Classes == {"domestic", "cross_border", "same_day"}

\* The sessions to wait before a sale, by the class of today.
Settlement(class) == IF class = "domestic" THEN 1 ELSE 0

\* The ratio whose distance from what the limits of the day show is least,
\* in per mille of the previous close, within two ticks and one per mille.
ObservedRatio(previous, up, down) ==
    LET Gap(ratio) ==
            LET above == 100 * (up - previous) - ratio * previous
                below == 100 * (previous - down) - ratio * previous
            IN  [above |-> IF above < 0 THEN -above ELSE above,
                 below |-> IF below < 0 THEN -below ELSE below]
        Total(ratio) == Gap(ratio).above + Gap(ratio).below
        ratio == IF Total(10) <= Total(20) THEN 10 ELSE 20
    IN  IF previous <= 0 \/ up <= previous \/ down >= previous THEN {}
        ELSE {r \in {ratio} : /\ 10 * Gap(r).above <= 2000 + previous
                              /\ 10 * Gap(r).below <= 2000 + previous}

\* The days on which the rule of an ETF changes.
Breakpoints(listed, ratio, class) ==
    {listed}
      \cup (IF ratio = 20 /\ listed < TwentyPercentEffective
            THEN {TwentyPercentEffective} ELSE {})
      \cup (IF class = "cross_border" /\ listed < CrossBorderEffective
            THEN {CrossBorderEffective} ELSE {})

\* Until the day before the next change.
EndOf(starts, start) ==
    LET later == {s \in starts : s > start}
    IN  {s - 1 : s \in {x \in later : \A y \in later : x <= y}}

RuleFrom(start, listed, ratio, class) ==
    [start |-> start,
     end |-> EndOf(Breakpoints(listed, ratio, class), start),
     known |-> CASE start = TwentyPercentEffective -> TwentyPercentKnown
                 [] start = CrossBorderEffective -> CrossBorderKnown
                 [] OTHER -> listed,
     ratio |-> IF ratio = 20 /\ start < TwentyPercentEffective THEN 10 ELSE ratio,
     delay |-> IF class = "cross_border" /\ start < CrossBorderEffective THEN 1
               ELSE Settlement(class)]

\* The rules of one ETF; none when the limits of the day show no ratio.
Built(listed, class, previous, up, down) ==
    UNION {{RuleFrom(s, listed, r, class) : s \in Breakpoints(listed, r, class)} :
              r \in ObservedRatio(previous, up, down)}

\* An earlier report may be reused: from the listing on, without a gap or an
\* overlap, known in time, and open at the end.
Reusable(rules, listed) ==
    LET starts == {r.start : r \in rules}
    IN  /\ rules # {}
        /\ Cardinality(starts) = Cardinality(rules)
        /\ listed \in starts /\ \A s \in starts : listed <= s
        /\ \A r \in rules :
              /\ r.known <= r.start /\ r.ratio \in {10, 20} /\ r.delay \in {0, 1}
              /\ r.end = EndOf(starts, r.start)
=============================================================================
