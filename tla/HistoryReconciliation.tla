----------------------- MODULE HistoryReconciliation -----------------------
(***************************************************************************)
(* How one batch of history becomes a partition: what                       *)
(* HistoryDatabaseBuilder._reconcile_partition, _safe_suspension_keys and   *)
(* _independent_consensus_frame (fundlab/marketdata/history.py) keep of the *)
(* rows two or three sources answered.                                     *)
(*                                                                         *)
(* A frame maps keys <<instrument, session>> to rows [price, volume,        *)
(* suspended]; one price stands for open, high, low and close, so a row     *)
(* without volume is a flat one.  Prices are counted in half tolerances, a  *)
(* quarter of the least tick, and volumes in 50 shares.  The relative       *)
(* tolerances, which are far below one unit, the optional fields and        *)
(* duplicate keys are left out.                                            *)
(***************************************************************************)
EXTENDS Integers, FiniteSets

CONSTANTS
    Primary, Secondary, Adjudicator,    \* the providers of a build
    Backend                             \* provider -> what it reads from

ASSUME DistinctProviders ==
    Primary # Secondary /\ Adjudicator \notin {Primary, Secondary}

Pair == {Primary, Secondary}
Fields == {"price", "volume"}

\* 0.0005 CNY and 100 shares.
Tolerance == 2

Distance(v, w) == IF v < w THEN w - v ELSE v - w

\* exact_key: prices to six decimals, volumes half up to 100 shares.
ExactKey(value, field) ==
    IF field = "volume" THEN ((value + 1) \div 2) * 2 ELSE value

InstrumentsOf(keys) == {k[1] : k \in keys}
Restricted(frame, keys) == [k \in DOMAIN frame \cap keys |-> frame[k]]
Keys(frames) == UNION {DOMAIN frames[p] : p \in DOMAIN frames}

-----------------------------------------------------------------------------
(* Rows that take part.                                                    *)

\* A mutant: one mark of suspension hides the turnover of other sources.
AnySuspensionKeys(frames) ==
    {k \in Keys(frames) : \E p \in DOMAIN frames :
        k \in DOMAIN frames[p] /\ frames[p][k].suspended}

\* Marked suspended by a source, and traded according to none.
SafeSuspensionKeys(frames) ==
    {k \in Keys(frames) :
        /\ \E p \in DOMAIN frames : k \in DOMAIN frames[p] /\ frames[p][k].suspended
        /\ \A p \in DOMAIN frames : k \in DOMAIN frames[p] =>
              frames[p][k].suspended \/ frames[p][k].volume = 0}

Active(frames) ==
    [p \in DOMAIN frames |->
        Restricted(frames[p], {k \in DOMAIN frames[p] \ SafeSuspensionKeys(frames) :
                                  ~frames[p][k].suspended})]

-----------------------------------------------------------------------------
(* Three sources.  values maps the providers that have a field to it.      *)

\* The largest set of distinct backends that agree pairwise; of two as large
\* the one whose spread is least in proportion to its values.  What is left
\* is decided by the providers' names: any of them.
Agreeing(values) ==
    {S \in SUBSET DOMAIN values :
        /\ Cardinality(S) >= 2
        /\ Cardinality({Backend[p] : p \in S}) = Cardinality(S)
        /\ \A p, q \in S : Distance(values[p], values[q]) <= Tolerance}

Greatest(S) == CHOOSE x \in S : \A y \in S : y <= x
Scale(values, S) == Greatest({values[p] : p \in S} \cup {1})
Spread(values, S) == Greatest({Distance(values[p], values[q]) : p, q \in S})

Clusters(values) ==
    LET largest == {S \in Agreeing(values) : \A T \in Agreeing(values) :
                       Cardinality(T) <= Cardinality(S)}
    IN  {S \in largest : \A T \in largest :
            Spread(values, S) * Scale(values, T) <= Spread(values, T) * Scale(values, S)}

\* A mutant: the greatest value of the cluster, whoever else has exactly it.
GreatestOfCluster(values, field, cluster) ==
    {CHOOSE p \in cluster : \A q \in cluster : values[q] <= values[p]}

\* The providers of the unique largest group of one exact value, if two
\* backends are in it; else nobody.
Winners(values, field, cluster) ==
    LET group(p) == {q \in cluster : ExactKey(values[q], field) = ExactKey(values[p], field)}
        largest == {group(p) : p \in {q \in cluster : \A r \in cluster :
                       Cardinality(group(r)) <= Cardinality(group(q))}}
        backed == {S \in largest : Cardinality({Backend[p] : p \in S}) >= 2}
    IN  IF Cardinality(backed) = 1 THEN CHOOSE S \in backed : TRUE ELSE {}

\* The value published: of the winners the nearest to the exact value, then
\* the least.
Published(values, field, winners) ==
    LET exact == ExactKey(values[CHOOSE p \in winners : TRUE], field)
        candidates == {values[p] : p \in winners}
        nearest == {v \in candidates : \A w \in candidates :
                       Distance(v, exact) <= Distance(w, exact)}
    IN  CHOOSE v \in nearest : \A w \in nearest : v <= w

\* What a field may become: a value, or nothing when it stays in conflict.
FieldOutcomes(values, field) ==
    IF Clusters(values) = {} THEN {{}}
    ELSE {LET winners == Winners(values, field, S)
          IN  IF winners = {} THEN {} ELSE {Published(values, field, winners)} :
              S \in Clusters(values)}

\* The values of one field of one key, by the providers that have the key.
ValuesOf(frames, k, field) ==
    [p \in {q \in DOMAIN frames : k \in DOMAIN frames[q]} |-> frames[p][k][field]]

\* A key is decided when two backends have it and every field gets a value.
KeyOutcomes(frames, k) ==
    LET present == {p \in DOMAIN frames : k \in DOMAIN frames[p]}
    IN  IF Cardinality({Backend[p] : p \in present}) < 2 THEN {{}}
        ELSE {IF price = {} \/ volume = {} THEN {}
              ELSE {[price |-> v, volume |-> w] : v \in price, w \in volume} :
                price \in FieldOutcomes(ValuesOf(frames, k, "price"), "price"),
                volume \in FieldOutcomes(ValuesOf(frames, k, "volume"), "volume")}

-----------------------------------------------------------------------------
(* A batch.                                                                *)

\* Two sources: the sessions are the same and every field is within tolerance.
PairHasSameKeys(frames, i) ==
    \A k \in Keys(frames) : k[1] = i =>
        (k \in DOMAIN frames[Primary]) = (k \in DOMAIN frames[Secondary])

PairAgrees(frames, k) ==
    \A f \in Fields :
        Distance(frames[Primary][k][f], frames[Secondary][k][f]) <= Tolerance

PairConflicts(frames, i) ==
    \/ ~PairHasSameKeys(frames, i)
    \/ \E k \in DOMAIN frames[Primary] \cap DOMAIN frames[Secondary] :
          k[1] = i /\ ~PairAgrees(frames, k)

PairHasRows(frames, i) ==
    \A p \in Pair : i \in InstrumentsOf(DOMAIN frames[p])

PairRow(frames, k) ==
    [price |-> frames[Primary][k].price, volume |-> frames[Secondary][k].volume]

\* The partition of two answers: the rows of the included instruments; and
\* the instruments a third source should be asked about.
PairPartition(answers, requested) ==
    LET frames == Active(answers)
        included == {i \in requested :
                        PairHasRows(frames, i) /\ ~PairConflicts(frames, i)}
    IN  IF Backend[Primary] = Backend[Secondary] THEN [k \in {} |-> 0]
        ELSE [k \in {x \in DOMAIN frames[Primary] : x[1] \in included} |->
                 PairRow(frames, k)]

ConflictIds(answers, requested) ==
    IF Backend[Primary] = Backend[Secondary] THEN {}
    ELSE {i \in requested : PairConflicts(Active(answers), i)}

\* The partitions three answers may give: the pair decides what it agreed
\* on before, the consensus the instruments asked about, all keys or none.
AdjudicatedPartitions(answers, requested, asked) ==
    LET frames == Active(answers)
        pair == [p \in Pair |->
                    Restricted(frames[p], {k \in DOMAIN frames[p] : k[1] \notin asked})]
        kept == {i \in requested \ asked : PairHasRows(pair, i) /\ ~PairConflicts(pair, i)}
        keys == {k \in Keys(frames) : k[1] \in asked}
        choices == [k \in keys |-> KeyOutcomes(frames, k)]
        all == UNION {choices[k] : k \in keys}
        decided(choice) ==
            {k \in keys : \A x \in keys : x[1] = k[1] => choice[x] # {}}
    IN  {[k \in {x \in DOMAIN pair[Primary] : x[1] \in kept} \cup decided(choice) |->
            IF k \in keys THEN CHOOSE row \in choice[k] : TRUE ELSE PairRow(pair, k)] :
            choice \in {f \in [keys -> all] : \A k \in keys : f[k] \in choices[k]}}
=============================================================================
