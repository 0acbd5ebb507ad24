------------------------- MODULE SimulationStatus -------------------------
(***************************************************************************)
(* How the daily status of one instrument is told from what its sources     *)
(* have and leave out, and how it is joined with the prices of the research *)
(* snapshot (fundlab/marketdata/simulation_data.py).                        *)
(*                                                                         *)
(* Dates are days.  scope is [listed, delisted, first, last], research a    *)
(* function of sessions to [close, volume], status of sessions to           *)
(* [suspended, st, previous], evidence (of the historical ST states) of     *)
(* sessions to [suspended, st]; {} is what is missing.  Duplicate keys,     *)
(* unknown suspensions, lineage and fields that only travel along are left  *)
(* out.                                                                    *)
(***************************************************************************)
EXTENDS Integers, FiniteSets

Refused == [accepted |-> FALSE, bars |-> <<>>]
Accepted(bars) == [accepted |-> TRUE, bars |-> bars]

Last(S) == {x \in S : \A y \in S : y <= x}

\* The open sessions of the instrument's life within the scope.
ExpectedSessions(scope, open) ==
    {d \in open : /\ scope.first <= d /\ d <= scope.last /\ scope.listed <= d
                  /\ \A e \in scope.delisted : d <= e}

ActiveSessions(status) == {d \in DOMAIN status : ~status[d].suspended}

\* An active row without a previous close.
Unpriced(status) == {d \in ActiveSessions(status) : status[d].previous = {}}

\* The terminal's rows: it leaves out the sessions without trade, and those
\* it has are active exactly where the research has a price.
SparseStatusIsValid(status, research, expected) ==
    /\ DOMAIN status \subseteq expected
    /\ ActiveSessions(status) = DOMAIN research
    /\ Unpriced(status) = {}

\* The dense rows.
DenseStatusIsValid(status, research, expected) ==
    SparseStatusIsValid(status, research, expected) /\ DOMAIN status = expected

\* A mutant: every hole in the evidence may be filled from before.
NoGaps(missing, expected, evidence) == {}

\* The holes that the session before does not fill.
UnfillableGaps(missing, expected, evidence) ==
    {d \in missing : \/ d \notin expected
                     \/ Last({e \in expected : e < d}) \cap DOMAIN evidence = {}}

\* The rows of historical ST states: known throughout, and for each session
\* with a price there or on the session before.
EvidenceIsValid(evidence, research, expected) ==
    /\ \A d \in DOMAIN evidence : evidence[d].st # {}
    /\ DOMAIN evidence \subseteq expected
    /\ UnfillableGaps(DOMAIN research \ DOMAIN evidence, expected, evidence) = {}

\* canonicalize_suspension_status: a session neither source has is suspended,
\* with nothing else known of it.
Canonicalized(status, research, expected) ==
    IF \/ ~SparseStatusIsValid(status, research, expected)
       \/ (expected \ DOMAIN status) \cap DOMAIN research # {}
    THEN Refused
    ELSE Accepted([d \in expected |->
             IF d \in DOMAIN status THEN status[d]
             ELSE [suspended |-> TRUE, st |-> {}, previous |-> {}]])

\* A session with a price and no volume that the ST source calls suspended.
IsPlaceholder(d, status, research, evidence) ==
    /\ ~status[d].suspended
    /\ d \in DOMAIN evidence /\ evidence[d].suspended
    /\ d \in DOMAIN research /\ research[d].volume <= 0

\* The last ST state observed up to a session; an ETF has none.
EffectiveSt(d, observed, etf) ==
    IF etf THEN {FALSE}
    ELSE UNION {observed[e].st : e \in Last({x \in DOMAIN observed :
                                               x <= d /\ observed[x].st # {}})}

LastCloseBefore(d, research) ==
    {research[e].close : e \in Last({x \in DOMAIN research : x < d})}

\* reconcile_simulation_status.
ReconciledStatus(status, research, evidence, expected, etf) ==
    LET observed == [d \in DOMAIN evidence \cap expected |-> evidence[d]]
        row(d) ==
            [suspended |-> status[d].suspended \/ IsPlaceholder(d, status, research, observed),
             st |-> EffectiveSt(d, observed, etf),
             previous |-> IF status[d].previous # {} THEN status[d].previous
                          ELSE LastCloseBefore(d, research)]
        dense == [d \in expected |-> row(d)]
    IN  IF \/ ~DenseStatusIsValid(status, research, expected)
           \/ ~etf /\ \E d \in DOMAIN observed : observed[d].st = {}
           \/ \E d \in ActiveSessions(dense) : dense[d].st = {} \/ status[d].previous = {}
        THEN Refused ELSE Accepted(dense)

\* build_dense_simulation_bars: prices of the active sessions, nothing
\* invented for the others.
DenseBars(status, research, expected) ==
    LET active == ActiveSessions(status)
        placeholders == {d \in DOMAIN research : research[d].volume <= 0}
    IN  IF \/ DOMAIN status # expected
           \/ \E d \in active : status[d].st = {} \/ status[d].previous = {}
           \/ ~(active \subseteq DOMAIN research)
           \/ ~(DOMAIN research \ active \subseteq placeholders)
        THEN Refused
        ELSE Accepted([d \in expected |->
                 [status |-> status[d],
                  close |-> IF d \in active THEN {research[d].close} ELSE {},
                  volume |-> IF d \in active THEN research[d].volume ELSE 0]])

\* What the collectors and the two functions make of the sources, in turn.
SimulationBars(scope, open, research, status, evidence, etf) ==
    LET expected == ExpectedSessions(scope, open)
        canonical == Canonicalized(status, research, expected)
        reconciled == ReconciledStatus(canonical.bars, research, evidence, expected, etf)
    IN  IF /\ canonical.accepted
           /\ etf \/ EvidenceIsValid(evidence, research, expected)
           /\ reconciled.accepted
        THEN DenseBars(reconciled.bars, research, expected) ELSE Refused
=============================================================================
