------------------------ MODULE HistoryTradesProofs ------------------------
(***************************************************************************)
(* What the partitions of HistoryBuild hold, for any answers of the         *)
(* sources: a session with turnover in a source of a partition is in the    *)
(* partition, if its instrument is, and every row has two backends behind   *)
(* it.  Rests on the invariant of HistoryBuildProofs.                       *)
(***************************************************************************)
EXTENDS HistoryBuildProofs, FiniteSetTheorems

-----------------------------------------------------------------------------
(* Reconciliation.                                                         *)

HidesNoTrade(rows, answers) ==
    \A p \in DOMAIN answers : \A k \in DOMAIN answers[p] :
        (/\ k[1] \in InstrumentsOf(DOMAIN rows)
         /\ ~answers[p][k].suspended /\ answers[p][k].volume > 0) => k \in DOMAIN rows

\* A row with turnover takes part, whatever other sources say of the session.
LEMMA TurnoverIsActive ==
    ASSUME NEW answers, NEW p \in DOMAIN answers, NEW k \in DOMAIN answers[p],
           ~answers[p][k].suspended, answers[p][k].volume > 0
    PROVE  k \in DOMAIN Active(answers)[p]
<1>1. answers[p][k].volume # 0
  OBVIOUS
<1>2. k \notin SafeSuspensionKeys(answers)
  BY <1>1 DEF SafeSuspensionKeys
<1>3. k \in {x \in DOMAIN answers[p] \ SafeSuspensionKeys(answers) : ~answers[p][x].suspended}
  BY <1>2
<1> QED BY <1>3 DEF Active, Restricted

\* What two sources agree on has every active session of either.
LEMMA PairKeepsSessions ==
    ASSUME NEW frames, DOMAIN frames = Pair, NEW i, ~PairConflicts(frames, i),
           NEW p \in Pair, NEW k \in DOMAIN frames[p], k[1] = i
    PROVE  k \in DOMAIN frames[Primary]
<1>1. k \in Keys(frames)
  BY DEF Keys
<1>2. (k \in DOMAIN frames[Primary]) = (k \in DOMAIN frames[Secondary])
  BY <1>1 DEF PairConflicts, PairHasSameKeys
<1> QED BY <1>2 DEF Pair

\* A partition of two sources hides no trade of either.
LEMMA PairHidesNothing ==
    ASSUME NEW answers, DOMAIN answers = Pair, NEW requested
    PROVE  HidesNoTrade(PairPartition(answers, requested), answers)
<1>1. PICK rows : rows = PairPartition(answers, requested)
  OBVIOUS
<1>2. PICK frames : frames = Active(answers)
  OBVIOUS
<1>3. DOMAIN frames = Pair
  BY <1>2 DEF Active
<1>4. ASSUME NEW p \in Pair, NEW k \in DOMAIN answers[p], k[1] \in InstrumentsOf(DOMAIN rows),
             ~answers[p][k].suspended, answers[p][k].volume > 0
      PROVE  k \in DOMAIN rows
  <2>1. k \in DOMAIN frames[p]
    BY <1>2, <1>4, TurnoverIsActive
  <2>2. PICK x \in DOMAIN rows : x[1] = k[1]
    BY <1>4 DEF InstrumentsOf
  <2>3. /\ Backend[Primary] # Backend[Secondary]
        /\ k[1] \in requested /\ PairHasRows(frames, k[1]) /\ ~PairConflicts(frames, k[1])
    BY <1>1, <1>2, <2>2 DEF PairPartition
  <2>4. k \in DOMAIN frames[Primary]
    BY <1>3, <2>1, <2>3, PairKeepsSessions
  <2> QED BY <1>1, <1>2, <2>3, <2>4 DEF PairPartition
<1> QED BY <1>1, <1>4 DEF HidesNoTrade

\* An instrument the third source was asked about has all its sessions or none.
LEMMA ThreeHideNothing ==
    ASSUME NEW answers, DOMAIN answers = Providers, NEW requested, NEW asked,
           InstrumentsOf(DOMAIN answers[Adjudicator]) \subseteq asked,
           NEW rows \in AdjudicatedPartitions(answers, requested, asked)
    PROVE  HidesNoTrade(rows, answers)
<1> DEFINE frames == Active(answers)
           pair == [p \in Pair |->
                       Restricted(frames[p], {k \in DOMAIN frames[p] : k[1] \notin asked})]
           kept == {i \in requested \ asked :
                       PairHasRows(pair, i) /\ ~PairConflicts(pair, i)}
           keys == {k \in Keys(frames) : k[1] \in asked}
           choices == [k \in keys |-> KeyOutcomes(frames, k)]
           all == UNION {choices[k] : k \in keys}
           decided(choice) == {k \in keys : \A x \in keys : x[1] = k[1] => choice[x] # {}}
           made(choice) ==
               [k \in {x \in DOMAIN pair[Primary] : x[1] \in kept} \cup decided(choice) |->
                   IF k \in keys THEN CHOOSE row \in choice[k] : TRUE ELSE PairRow(pair, k)]
<1>1. rows \in {made(choice) :
                   choice \in {f \in [keys -> all] : \A k \in keys : f[k] \in choices[k]}}
  BY DEF AdjudicatedPartitions
<1>2. PICK choice : rows = made(choice)
  <2> HIDE DEF made
  <2> QED BY <1>1
<1>3. DOMAIN rows = {x \in DOMAIN pair[Primary] : x[1] \in kept} \cup decided(choice)
  <2> HIDE DEF decided, kept, keys, pair
  <2> QED BY <1>2
<1>4. /\ frames = Active(answers)
      /\ pair = [p \in Pair |->
             Restricted(frames[p], {k \in DOMAIN frames[p] : k[1] \notin asked})]
      /\ kept = {i \in requested \ asked :
             PairHasRows(pair, i) /\ ~PairConflicts(pair, i)}
      /\ keys = {k \in Keys(frames) : k[1] \in asked}
  OBVIOUS
<1>5. DOMAIN rows = {x \in DOMAIN pair[Primary] : x[1] \in kept}
          \cup {k \in keys : \A x \in keys : x[1] = k[1] => choice[x] # {}}
  BY <1>3
<1> HIDE DEF frames, pair, kept, keys, choices, all, decided, made
<1>6. DOMAIN frames = Providers /\ DOMAIN pair = Pair
  BY <1>4 DEF Active
<1>7. ASSUME NEW p \in Providers, NEW k \in DOMAIN answers[p],
             k[1] \in InstrumentsOf(DOMAIN rows),
             ~answers[p][k].suspended, answers[p][k].volume > 0
      PROVE  k \in DOMAIN rows
  <2>1. k \in DOMAIN frames[p]
    BY <1>4, <1>7, TurnoverIsActive
  <2>2. PICK x \in DOMAIN rows : x[1] = k[1]
    BY <1>7 DEF InstrumentsOf
  <2>3. CASE k[1] \in asked
    <3>1. k \in keys
      BY <1>4, <1>6, <2>1, <2>3 DEF Keys
    <3>2. x[1] \notin kept
      BY <1>4, <2>2, <2>3
    <3>3. \A y \in keys : y[1] = k[1] => choice[y] # {}
      BY <1>5, <2>2, <3>2
    <3> QED BY <1>5, <3>1, <3>3
  <2>4. CASE k[1] \notin asked
    <3>1. k[1] \in kept
      BY <1>4, <1>5, <2>2, <2>4
    <3>2. p # Adjudicator
      <4> SUFFICES ASSUME p = Adjudicator PROVE FALSE
        OBVIOUS
      <4>1. k[1] \in InstrumentsOf(DOMAIN answers[Adjudicator])
        BY <1>7 DEF InstrumentsOf
      <4> QED BY <4>1, <2>4
    <3>3. p \in Pair
      BY <3>2 DEF Providers
    <3>4. k \in DOMAIN pair[p]
      BY <1>4, <2>1, <2>4, <3>3 DEF Restricted
    <3>5. k \in DOMAIN pair[Primary]
      BY <1>4, <1>6, <3>1, <3>3, <3>4, PairKeepsSessions
    <3> QED BY <1>5, <3>1, <3>5
  <2> QED BY <2>3, <2>4
<1> QED BY <1>7 DEF HidesNoTrade

-----------------------------------------------------------------------------
(* What backs a row.                                                       *)

\* A row has two backends behind each of its fields.
RowsAreBacked(rows, answers, asked) ==
    \A k \in DOMAIN rows : \A field \in Fields :
        \E p, r \in DOMAIN answers :
            /\ Backend[p] # Backend[r]
            /\ Supports(answers[p], k, field, rows[k][field], k[1] \in asked)
            /\ Supports(answers[r], k, field, rows[k][field], k[1] \in asked)

\* The values of an answer are numbers.
IsAnswer(answer) ==
    \A k \in DOMAIN answer : \A field \in Fields : answer[k][field] \in Int

\* Two sources that agree back what they agree on, to within the tolerance.
LEMMA PairBacks ==
    ASSUME NEW frames, NEW answers, NEW k, NEW field \in Fields, NEW asked, k[1] \notin asked,
           Backend[Primary] # Backend[Secondary],
           \A p \in Pair : /\ p \in DOMAIN answers /\ IsAnswer(answers[p])
                           /\ k \in DOMAIN frames[p] /\ k \in DOMAIN answers[p]
                           /\ frames[p][k] = answers[p][k]
                           /\ ~answers[p][k].suspended,
           PairAgrees(frames, k)
    PROVE  \E p, r \in DOMAIN answers :
              /\ Backend[p] # Backend[r]
              /\ Supports(answers[p], k, field, PairRow(frames, k)[field], k[1] \in asked)
              /\ Supports(answers[r], k, field, PairRow(frames, k)[field], k[1] \in asked)
<1>1. Primary \in Pair /\ Secondary \in Pair
  BY DEF Pair
<1>2. PICK v : v = answers[Primary][k][field]
  OBVIOUS
<1>3. PICK w : w = answers[Secondary][k][field]
  OBVIOUS
<1>4. v \in Int /\ w \in Int
  BY <1>1, <1>2, <1>3 DEF IsAnswer
<1>5. Distance(v, w) <= Tolerance
  BY <1>1, <1>2, <1>3 DEF PairAgrees
<1>6. PairRow(frames, k)[field] \in {v, w}
  BY <1>1, <1>2, <1>3 DEF PairRow, Fields
<1>7. /\ Distance(v, v) <= Tolerance /\ Distance(w, w) <= Tolerance
      /\ Distance(w, v) <= Tolerance
  BY <1>4, <1>5 DEF Distance, Tolerance
<1>8. PICK x : x = PairRow(frames, k)[field]
  OBVIOUS
<1>9. /\ Supports(answers[Primary], k, field, x, k[1] \in asked)
      /\ Supports(answers[Secondary], k, field, x, k[1] \in asked)
  BY <1>1, <1>2, <1>3, <1>5, <1>6, <1>7, <1>8 DEF Supports
<1> QED BY <1>1, <1>8, <1>9

\* What takes part is a part of what was answered, and not suspended.
LEMMA ActiveIsAnswered ==
    ASSUME NEW answers, NEW p \in DOMAIN answers, NEW k \in DOMAIN Active(answers)[p]
    PROVE  /\ k \in DOMAIN answers[p] /\ Active(answers)[p][k] = answers[p][k]
           /\ ~answers[p][k].suspended
BY DEF Active, Restricted

\* The partition of two sources is backed by both.
LEMMA PairIsBacked ==
    ASSUME NEW answers, DOMAIN answers = Pair, \A p \in Pair : IsAnswer(answers[p]),
           NEW requested
    PROVE  RowsAreBacked(PairPartition(answers, requested), answers, {})
<1>1. PICK rows : rows = PairPartition(answers, requested)
  OBVIOUS
<1>2. PICK frames : frames = Active(answers)
  OBVIOUS
<1>3. DOMAIN frames = Pair /\ Primary \in Pair /\ Secondary \in Pair
  BY <1>2 DEF Active, Pair
<1>4. ASSUME NEW k \in DOMAIN rows, NEW field \in Fields
      PROVE  \E p, r \in DOMAIN answers :
                /\ Backend[p] # Backend[r]
                /\ Supports(answers[p], k, field, rows[k][field], k[1] \in {})
                /\ Supports(answers[r], k, field, rows[k][field], k[1] \in {})
  <2>1. /\ Backend[Primary] # Backend[Secondary]
        /\ k \in DOMAIN frames[Primary] /\ ~PairConflicts(frames, k[1])
        /\ rows[k] = PairRow(frames, k)
    BY <1>1, <1>2 DEF PairPartition
  <2>2. k \in Keys(frames)
    BY <1>3, <2>1 DEF Keys
  <2>3. k \in DOMAIN frames[Secondary]
    BY <2>1, <2>2 DEF PairConflicts, PairHasSameKeys
  <2>4. PairAgrees(frames, k)
    BY <2>1, <2>3 DEF PairConflicts
  <2>5. \A p \in Pair : /\ p \in DOMAIN answers /\ IsAnswer(answers[p])
                        /\ k \in DOMAIN frames[p] /\ k \in DOMAIN answers[p]
                        /\ frames[p][k] = answers[p][k]
                        /\ ~answers[p][k].suspended
    <3> TAKE p \in Pair
    <3>1. k \in DOMAIN frames[p]
      BY <2>1, <2>3 DEF Pair
    <3> QED BY <1>2, <3>1, ActiveIsAnswered
  <2>6. PICK asked : asked = {}
    OBVIOUS
  <2>7. k[1] \notin asked
    BY <2>6
  <2>8. \E p, r \in DOMAIN answers :
           /\ Backend[p] # Backend[r]
           /\ Supports(answers[p], k, field, PairRow(frames, k)[field], k[1] \in asked)
           /\ Supports(answers[r], k, field, PairRow(frames, k)[field], k[1] \in asked)
    BY <2>1, <2>4, <2>5, <2>7, PairBacks
  <2> QED BY <2>1, <2>6, <2>8
<1> QED BY <1>1, <1>4 DEF RowsAreBacked

-----------------------------------------------------------------------------
(* The consensus of three.                                                 *)

\* Among numbers the nearest to one and then the least exists.
LEMMA NearestExists ==
    ASSUME NEW values, NEW x \in values, \A v \in values : v \in Int, NEW exact \in Int
    PROVE  \E v \in values :
              /\ \A w \in values : Distance(v, exact) <= Distance(w, exact)
              /\ \A w \in values :
                    (\A u \in values : Distance(w, exact) <= Distance(u, exact)) => v <= w
<1> DEFINE distances == {Distance(v, exact) : v \in values}
<1>1. distances \in SUBSET Nat /\ distances # {}
  BY DEF Distance
<1>2. PICK d \in distances : \A e \in distances : d <= e
  <2> HIDE DEF distances
  <2>1. PICK d \in distances : \A e \in distances : ~(<<e, d>> \in OpToRel(<, Nat))
    BY <1>1, NatLessThanWellFounded, WFMin
  <2>2. \A e \in distances : e \in Nat /\ d \in Nat /\ ~(e < d)
    BY <1>1, <2>1 DEF OpToRel
  <2> QED BY <2>2
<1>3. PICK v \in values : Distance(v, exact) = d
  BY <1>2
<1>4. \A w \in values : Distance(v, exact) <= Distance(w, exact)
  BY <1>2, <1>3
<1>5. CASE \E u \in values : Distance(u, exact) = d /\ u < v
  <2>1. PICK u \in values : Distance(u, exact) = d /\ u < v
    BY <1>5
  <2>2. \A w \in values : Distance(u, exact) <= Distance(w, exact)
    BY <1>2, <2>1
  <2>3. ASSUME NEW w \in values, Distance(w, exact) <= Distance(u, exact)
        PROVE  u <= w
    <3>1. Distance(w, exact) = d
      <4>1. d <= Distance(w, exact) /\ Distance(w, exact) \in Int /\ d \in Int
        BY <1>2, <1>1
      <4> QED BY <2>1, <2>3, <4>1
    <3> QED BY <1>3, <2>1, <3>1 DEF Distance
  <2> QED BY <2>2, <2>3
<1>6. CASE ~ \E u \in values : Distance(u, exact) = d /\ u < v
  <2>1. ASSUME NEW w \in values, Distance(w, exact) <= Distance(v, exact)
        PROVE  v <= w
    <3>1. Distance(w, exact) = d
      <4>1. d <= Distance(w, exact) /\ Distance(w, exact) \in Int /\ d \in Int
        BY <1>2, <1>1
      <4> QED BY <1>3, <2>1, <4>1
    <3> QED BY <1>6, <3>1
  <2> QED BY <1>4, <2>1
<1> QED BY <1>5, <1>6

\* What is published is the value of one of the winners.
LEMMA PublishedIsReported ==
    ASSUME NEW values, NEW field \in Fields, NEW winners, NEW z \in winners,
           \A p \in winners : values[p] \in Int
    PROVE  \E p \in winners : Published(values, field, winners) = values[p]
<1>1. PICK first : first = CHOOSE p \in winners : TRUE
  OBVIOUS
<1>2. PICK exact : exact = ExactKey(values[first], field)
  OBVIOUS
<1>3. first \in winners /\ exact \in Int
  <2>1. first \in winners
    BY <1>1
  <2>2. values[first] \in Int
    BY <2>1
  <2> QED BY <1>2, <2>1, <2>2 DEF ExactKey
<1>4. PICK candidates : candidates = {values[p] : p \in winners}
  OBVIOUS
<1>5. values[z] \in candidates /\ \A v \in candidates : v \in Int
  BY <1>4
<1>6. PICK nearest : nearest = {v \in candidates : \A w \in candidates :
                                    Distance(v, exact) <= Distance(w, exact)}
  OBVIOUS
<1>7. PICK v \in nearest : \A w \in nearest : v <= w
  BY <1>3, <1>5, <1>6, NearestExists
<1>8. Published(values, field, winners) = CHOOSE x \in nearest : \A w \in nearest : x <= w
  BY <1>1, <1>2, <1>4, <1>6 DEF Published
<1>9. Published(values, field, winners) \in candidates
  <2>1. (CHOOSE x \in nearest : \A w \in nearest : x <= w) \in nearest
    BY <1>7
  <2> QED BY <1>6, <1>8, <2>1
<1> QED BY <1>4, <1>9

\* Two backends at least are two.
LEMMA TwoBackends ==
    ASSUME NEW S, Cardinality({Backend[p] : p \in S}) >= 2
    PROVE  \E p, r \in S : Backend[p] # Backend[r]
<1> SUFFICES ASSUME \A p, r \in S : Backend[p] = Backend[r] PROVE FALSE
  OBVIOUS
<1>1. CASE S = {}
  <2>1. {Backend[p] : p \in S} = {}
    BY <1>1
  <2> QED BY <2>1, FS_EmptySet
<1>2. CASE S # {}
  <2>1. PICK p \in S : TRUE
    BY <1>2
  <2>2. PICK x : x = Backend[p]
    OBVIOUS
  <2>3. {Backend[q] : q \in S} = {x}
    BY <2>1, <2>2
  <2>4. Cardinality({x}) = 1
    BY FS_Singleton
  <2> QED BY <2>3, <2>4
<1> QED BY <1>1, <1>2

\* What a field becomes has two backends with the same exact key.
LEMMA FieldIsBacked ==
    ASSUME NEW values, NEW field \in Fields, \A p \in DOMAIN values : values[p] \in Int,
           NEW outcome \in FieldOutcomes(values, field), NEW v \in outcome
    PROVE  \E p, r \in DOMAIN values :
              /\ Backend[p] # Backend[r]
              /\ ExactKey(values[p], field) = ExactKey(v, field)
              /\ ExactKey(values[r], field) = ExactKey(v, field)
<1>1. PICK cluster \in Clusters(values) :
          outcome = LET winners == Winners(values, field, cluster)
                    IN  IF winners = {} THEN {} ELSE {Published(values, field, winners)}
  BY DEF FieldOutcomes
<1>2. PICK winners : winners = Winners(values, field, cluster)
  OBVIOUS
<1>3. winners # {} /\ v = Published(values, field, winners)
  BY <1>1, <1>2
<1>4. cluster \subseteq DOMAIN values
  BY DEF Clusters, Agreeing
<1> DEFINE group(p) == {q \in cluster : ExactKey(values[q], field) = ExactKey(values[p], field)}
           largest == {group(p) : p \in {q \in cluster : \A r \in cluster :
                          Cardinality(group(r)) <= Cardinality(group(q))}}
           backed == {S \in largest : Cardinality({Backend[p] : p \in S}) >= 2}
<1>5. winners = IF Cardinality(backed) = 1 THEN CHOOSE S \in backed : TRUE ELSE {}
  BY <1>2 DEF Winners
<1>6. winners \in backed
  <2> HIDE DEF backed
  <2>1. backed # {}
    BY <1>3, <1>5, FS_EmptySet
  <2> QED BY <1>3, <1>5, <2>1
<1>7. PICK p \in cluster : winners = group(p)
  BY <1>6
<1>8. \E x, y \in winners : Backend[x] # Backend[y]
  <2>1. Cardinality({Backend[q] : q \in winners}) >= 2
    BY <1>6
  <2> QED BY <2>1, TwoBackends
<1>9. \A q \in winners : q \in DOMAIN values /\ values[q] \in Int
                         /\ ExactKey(values[q], field) = ExactKey(values[p], field)
  BY <1>4, <1>7
<1> HIDE DEF group, largest, backed
<1>10. PICK z \in winners : v = values[z]
  BY <1>3, <1>9, PublishedIsReported
<1> QED BY <1>8, <1>9, <1>10

\* The fields of a decided key are outcomes.
LEMMA KeyIsDecided ==
    ASSUME NEW frames, NEW k, NEW rows \in KeyOutcomes(frames, k), NEW row \in rows,
           NEW field \in Fields
    PROVE  \E outcome \in FieldOutcomes(ValuesOf(frames, k, field), field) :
              row[field] \in outcome
<1> DEFINE prices == FieldOutcomes(ValuesOf(frames, k, "price"), "price")
           volumes == FieldOutcomes(ValuesOf(frames, k, "volume"), "volume")
           few == Cardinality({Backend[p] : p \in {q \in DOMAIN frames :
                                                     k \in DOMAIN frames[q]}}) < 2
<1>1. rows \in IF few THEN {{}}
               ELSE {IF price = {} \/ volume = {} THEN {}
                     ELSE {[price |-> v, volume |-> w] : v \in price, w \in volume} :
                     price \in prices, volume \in volumes}
  BY DEF KeyOutcomes
<1> HIDE DEF prices, volumes, few
<1>2. ~few
  BY ONLY <1>1, row \in rows
<1>3. PICK price \in prices, volume \in volumes :
          rows = IF price = {} \/ volume = {} THEN {}
                 ELSE {[price |-> v, volume |-> w] : v \in price, w \in volume}
  BY ONLY <1>1, <1>2
<1>4. PICK v \in price, w \in volume : row = [price |-> v, volume |-> w]
  BY <1>3
<1>5. row.price \in price /\ row.volume \in volume
  BY <1>4
<1> QED BY <1>3, <1>5 DEF Fields, prices, volumes

\* What an instrument becomes that the third source was asked about is backed exactly, and
\* what the pair kept as before.
LEMMA ThreeAreBacked ==
    ASSUME NEW answers, DOMAIN answers = Providers, \A p \in Providers : IsAnswer(answers[p]),
           NEW requested, NEW asked, Backend[Primary] # Backend[Secondary],
           NEW rows \in AdjudicatedPartitions(answers, requested, asked)
    PROVE  RowsAreBacked(rows, answers, asked)
<1> DEFINE frames == Active(answers)
           pair == [p \in Pair |->
                       Restricted(frames[p], {k \in DOMAIN frames[p] : k[1] \notin asked})]
           kept == {i \in requested \ asked :
                       PairHasRows(pair, i) /\ ~PairConflicts(pair, i)}
           keys == {k \in Keys(frames) : k[1] \in asked}
           choices == [k \in keys |-> KeyOutcomes(frames, k)]
           all == UNION {choices[k] : k \in keys}
           decided(choice) == {k \in keys : \A x \in keys : x[1] = k[1] => choice[x] # {}}
           made(choice) ==
               [k \in {x \in DOMAIN pair[Primary] : x[1] \in kept} \cup decided(choice) |->
                   IF k \in keys THEN CHOOSE row \in choice[k] : TRUE ELSE PairRow(pair, k)]
<1>1. rows \in {made(choice) :
                   choice \in {f \in [keys -> all] : \A k \in keys : f[k] \in choices[k]}}
  BY DEF AdjudicatedPartitions
<1>2. PICK choice \in {f \in [keys -> all] : \A k \in keys : f[k] \in choices[k]} :
          rows = made(choice)
  <2> HIDE DEF made
  <2> QED BY <1>1
<1>3. \A k \in keys : choice[k] \in KeyOutcomes(frames, k)
  BY <1>2
<1>4. \A k \in DOMAIN rows :
          /\ k \in keys => k \in decided(choice) /\ rows[k] = CHOOSE row \in choice[k] : TRUE
          /\ k \notin keys => /\ k \in DOMAIN pair[Primary] /\ k[1] \in kept
                              /\ rows[k] = PairRow(pair, k)
  <2>1. \A k \in {x \in DOMAIN pair[Primary] : x[1] \in kept} : k \notin keys
    <3>1. \A k \in {x \in DOMAIN pair[Primary] : x[1] \in kept} : k[1] \notin asked
      OBVIOUS
    <3> QED BY <3>1
  <2>2. decided(choice) \subseteq keys
    OBVIOUS
  <2> HIDE DEF decided, kept, keys, pair
  <2> QED BY <1>2, <2>1, <2>2
<1>5. \A k \in DOMAIN rows : k \in keys => choice[k] # {}
  BY <1>4
<1>6. /\ frames = Active(answers)
      /\ pair = [p \in Pair |->
             Restricted(frames[p], {k \in DOMAIN frames[p] : k[1] \notin asked})]
      /\ kept = {i \in requested \ asked :
             PairHasRows(pair, i) /\ ~PairConflicts(pair, i)}
      /\ keys = {k \in Keys(frames) : k[1] \in asked}
  OBVIOUS
<1> HIDE DEF frames, pair, kept, keys, choices, all, decided, made
<1>7. DOMAIN frames = Providers /\ DOMAIN pair = Pair /\ Primary \in Pair /\ Secondary \in Pair
  BY <1>6 DEF Active, Pair
<1>8. ASSUME NEW k \in DOMAIN rows, NEW field \in Fields, k \in keys
      PROVE  \E p, r \in DOMAIN answers :
                /\ Backend[p] # Backend[r]
                /\ Supports(answers[p], k, field, rows[k][field], k[1] \in asked)
                /\ Supports(answers[r], k, field, rows[k][field], k[1] \in asked)
  <2>1. PICK row : row = rows[k]
    OBVIOUS
  <2>2. row \in choice[k] /\ choice[k] \in KeyOutcomes(frames, k)
    BY <1>3, <1>4, <1>5, <1>8, <2>1
  <2>3. PICK outcome, value : /\ outcome \in FieldOutcomes(ValuesOf(frames, k, field), field)
                              /\ value \in outcome /\ row[field] = value
    BY <2>2, KeyIsDecided
  <2>6. PICK values : values = ValuesOf(frames, k, field)
    OBVIOUS
  <2>7. \A p \in DOMAIN values :
            /\ p \in DOMAIN answers /\ k \in DOMAIN answers[p] /\ ~answers[p][k].suspended
            /\ values[p] = answers[p][k][field] /\ values[p] \in Int
    <3> SUFFICES ASSUME NEW p \in DOMAIN values
                 PROVE  /\ p \in DOMAIN answers /\ k \in DOMAIN answers[p]
                        /\ ~answers[p][k].suspended
                        /\ values[p] = answers[p][k][field] /\ values[p] \in Int
      OBVIOUS
    <3>1. p \in Providers /\ k \in DOMAIN frames[p] /\ values[p] = frames[p][k][field]
      BY <1>7, <2>6 DEF ValuesOf
    <3>2. /\ k \in DOMAIN answers[p] /\ frames[p][k] = answers[p][k]
          /\ ~answers[p][k].suspended
      BY <1>6, <3>1, ActiveIsAnswered
    <3>3. answers[p][k][field] \in Int
      BY <3>1, <3>2 DEF IsAnswer
    <3> QED BY <3>1, <3>2, <3>3
  <2>8. PICK p, r \in DOMAIN values :
            /\ Backend[p] # Backend[r]
            /\ ExactKey(values[p], field) = ExactKey(value, field)
            /\ ExactKey(values[r], field) = ExactKey(value, field)
    BY <2>3, <2>6, <2>7, FieldIsBacked
  <2>9. k[1] \in asked
    BY <1>6, <1>8
  <2>10. /\ Supports(answers[p], k, field, value, k[1] \in asked)
         /\ Supports(answers[r], k, field, value, k[1] \in asked)
    BY <2>7, <2>8, <2>9 DEF Supports
  <2> QED BY <2>1, <2>3, <2>7, <2>8, <2>10
<1>9. ASSUME NEW k \in DOMAIN rows, NEW field \in Fields, k \notin keys
      PROVE  \E p, r \in DOMAIN answers :
                /\ Backend[p] # Backend[r]
                /\ Supports(answers[p], k, field, rows[k][field], k[1] \in asked)
                /\ Supports(answers[r], k, field, rows[k][field], k[1] \in asked)
  <2>1. /\ k \in DOMAIN pair[Primary] /\ k[1] \notin asked /\ ~PairConflicts(pair, k[1])
        /\ rows[k] = PairRow(pair, k)
    BY <1>4, <1>6, <1>9
  <2>2. k \in Keys(pair)
    BY <1>7, <2>1 DEF Keys
  <2>3. k \in DOMAIN pair[Secondary]
    BY <2>1, <2>2 DEF PairConflicts, PairHasSameKeys
  <2>4. PairAgrees(pair, k)
    BY <2>1, <2>3 DEF PairConflicts
  <2>5. \A p \in Pair : /\ p \in DOMAIN answers /\ IsAnswer(answers[p])
                        /\ k \in DOMAIN pair[p] /\ k \in DOMAIN answers[p]
                        /\ pair[p][k] = answers[p][k]
                        /\ ~answers[p][k].suspended
    <3> SUFFICES ASSUME NEW p \in Pair
                 PROVE  /\ p \in DOMAIN answers /\ IsAnswer(answers[p])
                        /\ k \in DOMAIN pair[p] /\ k \in DOMAIN answers[p]
                        /\ pair[p][k] = answers[p][k]
                        /\ ~answers[p][k].suspended
      OBVIOUS
    <3>1. k \in DOMAIN pair[p] /\ p \in Providers
      BY <2>1, <2>3 DEF Pair, Providers
    <3>2. k \in DOMAIN frames[p] /\ pair[p][k] = frames[p][k]
      BY <1>6, <3>1 DEF Restricted
    <3> QED BY <1>6, <3>1, <3>2, ActiveIsAnswered
  <2>6. \E p, r \in DOMAIN answers :
           /\ Backend[p] # Backend[r]
           /\ Supports(answers[p], k, field, PairRow(pair, k)[field], k[1] \in asked)
           /\ Supports(answers[r], k, field, PairRow(pair, k)[field], k[1] \in asked)
    BY ONLY <2>1, <2>4, <2>5, PairBacks, Backend[Primary] # Backend[Secondary], field \in Fields
  <2> QED BY <2>1, <2>6
<1> QED BY <1>8, <1>9 DEF RowsAreBacked

-----------------------------------------------------------------------------
(* The invariant.                                                          *)

\* An observation answers what was asked, with numbers.
AnswersAreAsked ==
    \A n \in DOMAIN observed :
        /\ InstrumentsOf(DOMAIN observed[n].answer) \subseteq observed[n].ids
        /\ IsAnswer(observed[n].answer)

Open(c, p) == c.sources[p] \in {Asked, Failed} \/ c.sources[p] > 0

\* A build that reconciles two sources does not use the third; one that asks
\* the third has what the two agree on, and asks about the rest.
IsAsking(c) ==
    /\ c.at = "pair" => /\ ~(c.sources[Adjudicator] > 0)
                        /\ \A p \in Pair : Open(c, p)
    /\ c.at = "third" =>
          /\ Backend[Primary] # Backend[Secondary]
          /\ \A p \in Pair : c.sources[p] > 0
          /\ c.rows = PairPartition(Answers(c.sources, Pair), Batch(c))
          /\ Open(c, Adjudicator)
          /\ c.sources[Adjudicator] > 0 =>
                observed[c.sources[Adjudicator]].ids = Requested(c)

IsShown(q) ==
    \A p \in DOMAIN q.sources :
        LET answer == observed[q.sources[p]].answer
        IN  \A k \in DOMAIN answer :
                (k[1] \in PartitionIds(q) /\ ~answer[k].suspended /\ answer[k].volume > 0)
                    => k \in DOMAIN q.rows

IsBacked(q) ==
    RowsAreBacked(q.rows, Answers(q.sources, DOMAIN q.sources), AskedAbout(q))

TInv ==
    /\ AnswersAreAsked
    /\ \A b \in Builders : IsAsking(call[b])
    /\ \A q \in canonical : IsShown(q) /\ IsBacked(q)

-----------------------------------------------------------------------------
(* What stays.                                                             *)

\* The answers a build has do not change.
LEMMA AnswersStay ==
    ASSUME Grows, NEW c, NEW providers, \A p \in providers : Known(c.sources[p], p)
    PROVE  Answers(c.sources, providers)' = Answers(c.sources, providers)
BY DEF Answers, Grows, Known

\* Neither does what a partition shows ...
LEMMA ShownStays ==
    ASSUME Grows, NEW q, IsPartition(q), IsShown(q)
    PROVE  IsShown(q)'
<1>1. \A p \in DOMAIN q.sources : observed'[q.sources[p]] = observed[q.sources[p]]
  BY DEF Grows, IsPartition, Known
<1> QED BY <1>1 DEF IsShown, PartitionIds

\* ... what backs it ...
LEMMA BackedStays ==
    ASSUME Grows, NEW q, IsPartition(q), IsBacked(q)
    PROVE  IsBacked(q)'
<1>1. \A p \in DOMAIN q.sources : observed'[q.sources[p]] = observed[q.sources[p]]
  BY DEF Grows, IsPartition, Known
<1>2. AskedAbout(q)' = AskedAbout(q)
  BY <1>1 DEF AskedAbout
<1>3. Answers(q.sources, DOMAIN q.sources)' = Answers(q.sources, DOMAIN q.sources)
  BY <1>1 DEF Answers
<1> QED BY <1>2, <1>3 DEF IsBacked, RowsAreBacked

\* ... nor what a build asks.
LEMMA AskingStays ==
    ASSUME Grows, NEW c, InBatch(c) => BatchIsOpen(c), IsAsking(c)
    PROVE  IsAsking(c)'
<1>1. CASE c.at = "third"
  <2>1. \A p \in Providers : c.sources[p] > 0 => Known(c.sources[p], p)
    BY <1>1 DEF BatchIsOpen, InBatch
  <2>2. \A p \in Pair : c.sources[p] > 0
    BY <1>1 DEF IsAsking
  <2>3. \A p \in Pair : Known(c.sources[p], p)
    BY <2>1, <2>2 DEF Providers
  <2>4. Answers(c.sources, Pair)' = Answers(c.sources, Pair)
    BY <2>3, AnswersStay
  <2>5. Requested(c)' = Requested(c)
    BY <2>4 DEF Requested
  <2>6. c.sources[Adjudicator] > 0 => Known(c.sources[Adjudicator], Adjudicator)
    BY <2>1 DEF Providers
  <2>7. c.sources[Adjudicator] > 0 =>
            observed'[c.sources[Adjudicator]] = observed[c.sources[Adjudicator]]
    BY <2>6 DEF Grows, Known
  <2> QED BY <1>1, <2>4, <2>5, <2>7 DEF IsAsking, Open, Batch
<1>2. CASE c.at # "third"
  BY <1>2 DEF IsAsking, Open
<1> QED BY <1>1, <1>2

\* A step of one builder keeps the invariant if what it leaves asks, and what
\* it records is shown.
LEMMA AskingStep ==
    ASSUME IInv, TInv, NEW b \in Builders, NEW c, Moves(b, c), Grows, AnswersAreAsked',
           \A q \in canonical' : q \in canonical \/ (IsShown(q)' /\ IsBacked(q)'),
           IsAsking(c)'
    PROVE  TInv'
<1>1. /\ call'[b] = c
      /\ \A d \in Builders \ {b} : call'[d] = call[d]
  BY DEF IInv, CallsAreSound, Moves
<1>2. ASSUME NEW d \in Builders PROVE IsAsking(call[d])'
  <2>1. CASE d = b
    BY <2>1, <1>1
  <2>2. CASE d # b
    <3>1. PICK e : e = call[d]
      OBVIOUS
    <3>2. IsAsking(e) /\ (InBatch(e) => BatchIsOpen(e))
      BY <3>1 DEF TInv, IInv, CallsAreSound, CallIsSound
    <3>3. IsAsking(e)'
      BY <3>2, AskingStays
    <3>4. call'[d] = e
      BY <3>1, <2>2, <1>1
    <3> QED BY <3>3, <3>4
  <2> QED BY <2>1, <2>2
<1>3. ASSUME NEW q \in canonical' PROVE IsShown(q)' /\ IsBacked(q)'
  <2>1. CASE q \in canonical
    BY <2>1, ShownStays, BackedStays DEF IInv, PartitionsAreSound, TInv
  <2> QED BY <2>1
<1> QED BY <1>2, <1>3 DEF TInv

\* A step that observes and records nothing.
LEMMA QuietStep ==
    ASSUME IInv, TInv, NEW b \in Builders, NEW c, Moves(b, c),
           UNCHANGED <<observed, canonical>>, IsAsking(c), InBatch(c) => BatchIsOpen(c)
    PROVE  TInv'
<1>1. Grows /\ AnswersAreAsked'
  BY DEF Grows, TInv, AnswersAreAsked
<1>2. IsAsking(c)'
  BY <1>1, AskingStays
<1> QED BY <1>1, <1>2, AskingStep

\* A build outside a batch asks nobody.
LEMMA NobodyIsAsked ==
    ASSUME IInv, TInv, NEW b \in Builders, NEW c, Moves(b, c),
           UNCHANGED <<observed, canonical>>, c.at \notin {"pair", "third", "checkpoint"}
    PROVE  TInv'
<1>1. IsAsking(c) /\ ~InBatch(c)
  BY DEF IsAsking, InBatch
<1> QED BY <1>1, QuietStep

-----------------------------------------------------------------------------
(* Observations.                                                           *)

\* What is found was asked for.
LEMMA FoundIsAsked ==
    ASSUME ObservedIsLog, NEW provider, NEW ids, Matching(provider, ids) # {}
    PROVE  /\ Max(Matching(provider, ids)) > 0
           /\ observed[Max(Matching(provider, ids))].ids = ids
<1>1. PICK n \in Nat : n = Len(observed)
  BY ObservedTimes
<1>2. Matching(provider, ids) \in SUBSET Nat /\ \A x \in Matching(provider, ids) : x <= n /\ x > 0
  BY <1>1, ObservedTimes DEF Matching
<1>3. Max(Matching(provider, ids)) \in Matching(provider, ids)
  BY <1>2, LargestExists
<1> QED BY <1>2, <1>3 DEF Matching

\* What is observed was asked for.
LEMMA ObservedIsAsked ==
    ASSUME ObservedIsLog, AnswersAreAsked, NEW provider \in Providers \cup {Universe},
           NEW ids, NEW answer, InstrumentsOf(DOMAIN answer) \subseteq ids, IsAnswer(answer),
           Observe(provider, ids, answer)
    PROVE  /\ AnswersAreAsked'
           /\ observed'[Len(observed) + 1].ids = ids
           /\ Len(observed) + 1 > 0
<1>1. /\ DOMAIN observed \subseteq DOMAIN observed'
      /\ \A n \in DOMAIN observed : observed'[n] = observed[n]
  BY ObserveStep
<1>2. PICK e : e = [provider |-> provider, ids |-> ids, answer |-> answer]
  OBVIOUS
<1>3. PICK S : observed \in Seq(S)
  BY DEF ObservedIsLog
<1>4. observed \in Seq(S \cup {e}) /\ observed' = Append(observed, e)
  BY <1>2, <1>3 DEF Observe
<1>5. observed'[Len(observed) + 1] = e /\ Len(observed') = Len(observed) + 1
      /\ Len(observed) \in Nat /\ DOMAIN observed' = 1..(Len(observed) + 1)
  <2>1. e \in S \cup {e}
    OBVIOUS
  <2> QED BY <1>4, <2>1, AppendProperties
<1>6. \A n \in DOMAIN observed' : n \in DOMAIN observed \/ n = Len(observed) + 1
  <2>1. DOMAIN observed = 1..Len(observed)
    BY ObservedTimes
  <2> QED BY <1>5, <2>1
<1>7. AnswersAreAsked'
  BY <1>1, <1>2, <1>5, <1>6 DEF AnswersAreAsked
<1> QED BY <1>2, <1>5, <1>7

\* A source answers about the instruments it was asked about.
LEMMA AnswerIsAsked ==
    ASSUME NEW p, NEW ids, NEW answer \in AnswersOf(p, ids)
    PROVE  InstrumentsOf(DOMAIN answer) \subseteq ids
<1> DEFINE given(history) ==
               [k \in UNION {{i} \X DOMAIN history[i] : i \in ids} |-> history[k[1]][k[2]]]
<1>1. answer \in {given(history) :
          history \in {f \in [ids -> UNION {Histories[<<p, i>>] : i \in ids}] :
                          \A i \in ids : f[i] \in Histories[<<p, i>>]}}
  BY DEF AnswersOf
<1>2. PICK history : answer = given(history)
  <2> HIDE DEF given
  <2> QED BY <1>1
<1>3. \A k \in DOMAIN answer : k[1] \in ids
  BY <1>2
<1> QED BY <1>3 DEF InstrumentsOf

\* What a build requests are instruments of the universe.
LEMMA RequestedAreListed ==
    ASSUME NEW c, c.next \in DOMAIN Selected(c.spec), c.at \in {"pair", "third"}
    PROVE  \A i \in Requested(c) : \E n \in DOMAIN Master : i = Master[n]
<1>1. \A i \in Batch(c) : \E n \in DOMAIN Master : i = Master[n]
  BY DEF Batch, Selected, Chunk
<1>2. Requested(c) \subseteq Batch(c)
  BY DEF Requested, ConflictIds
<1> QED BY <1>1, <1>2

\* A source answers with numbers.
LEMMA AnswerIsNumbers ==
    ASSUME NEW p \in Providers, NEW ids, \A i \in ids : \E n \in DOMAIN Master : i = Master[n],
           NEW answer \in AnswersOf(p, ids)
    PROVE  IsAnswer(answer)
<1> DEFINE given(history) ==
               [k \in UNION {{i} \X DOMAIN history[i] : i \in ids} |-> history[k[1]][k[2]]]
<1>1. answer \in {given(history) :
          history \in {f \in [ids -> UNION {Histories[<<p, i>>] : i \in ids}] :
                          \A i \in ids : f[i] \in Histories[<<p, i>>]}}
  BY DEF AnswersOf
<1>2. PICK history \in {f \in [ids -> UNION {Histories[<<p, i>>] : i \in ids}] :
                          \A i \in ids : f[i] \in Histories[<<p, i>>]} :
          answer = given(history)
  <2> HIDE DEF given
  <2> QED BY <1>1
<1>3. ASSUME NEW k \in DOMAIN answer PROVE answer[k].price \in Int /\ answer[k].volume \in Int
  <2>1. DOMAIN answer = UNION {{i} \X DOMAIN history[i] : i \in ids}
    BY <1>2
  <2>2. PICK i \in ids : \E session \in DOMAIN history[i] : k = <<i, session>>
    BY <2>1
  <2>3. PICK session \in DOMAIN history[i] : k = <<i, session>>
    BY <2>2
  <2>4. answer[k] = history[i][session]
    BY <1>2, <2>3
  <2>5. PICK n \in DOMAIN Master : i = Master[n]
    OBVIOUS
  <2>6. history[i] \in Histories[<<p, Master[n]>>]
    BY <1>2, <2>2, <2>5
  <2>7. history[i][session].price \in Int /\ history[i][session].volume \in Int
    BY <2>2, <2>6, HistoriesAssumption DEF Providers, Pair
  <2> QED BY <2>4, <2>7
<1> QED BY <1>3 DEF IsAnswer, Fields

\* Whom a build has not asked for this batch it does not use, and an
\* observation it uses again is of the same request.
LEMMA LookedForAsks ==
    ASSUME ObservedIsLog, NEW c, NEW l, l = LookedFor(c),
           c = [at |-> c.at, spec |-> c.spec, universe |-> c.universe, next |-> c.next,
                stored |-> c.stored, sources |-> c.sources, rows |-> c.rows],
           NEW p \in Providers
    PROVE  /\ p \notin Wanted(c) => l.sources[p] = c.sources[p]
           /\ p \in Wanted(c) => /\ Open(l, p)
                                 /\ l.sources[p] > 0 => observed[l.sources[p]].ids = Requested(c)
<1>1. PICK sources : sources = [q \in Providers |->
        IF q \notin Wanted(c) THEN c.sources[q]
        ELSE IF Matching(q, Requested(c)) = {} \/ c.spec.refresh THEN Asked
        ELSE Max(Matching(q, Requested(c)))]
  OBVIOUS
<1>2. l = [c EXCEPT !.sources = sources]
  BY <1>1 DEF LookedFor
<1>3. l.sources = sources
  BY <1>2
<1>4. CASE p \notin Wanted(c)
  BY <1>1, <1>3, <1>4
<1>5. CASE p \in Wanted(c) /\ (Matching(p, Requested(c)) = {} \/ c.spec.refresh)
  <2>1. l.sources[p] = Asked /\ ~(Asked > 0)
    BY <1>1, <1>3, <1>5 DEF Asked
  <2> QED BY <1>5, <2>1 DEF Open
<1>6. CASE p \in Wanted(c) /\ ~(Matching(p, Requested(c)) = {} \/ c.spec.refresh)
  <2>1. l.sources[p] = Max(Matching(p, Requested(c)))
    BY <1>1, <1>3, <1>6
  <2>2. l.sources[p] > 0 /\ observed[l.sources[p]].ids = Requested(c)
    BY <1>6, <2>1, FoundIsAsked
  <2> QED BY <1>6, <2>2 DEF Open
<1> QED BY <1>4, <1>5, <1>6

-----------------------------------------------------------------------------
(* The steps.                                                              *)

\* Begin: a build starts outside a batch.
LEMMA BeginAsks ==
    ASSUME IInv, TInv, NEW b \in Builders, NEW spec \in Specs, Begin(b, spec)
    PROVE  TInv'
<1>1. PICK c : Moves(b, c) /\ c.at \in {"universe", "batch"}
  <2>1. CASE Matching(Universe, {}) = {} \/ spec.refresh
    <3>1. PICK c : c = [at |-> "universe", spec |-> spec]
      OBVIOUS
    <3>2. Moves(b, c) /\ c.at = "universe"
      BY <2>1, <3>1 DEF Begin, LookForUniverse
    <3> QED BY <3>2
  <2>2. CASE ~(Matching(Universe, {}) = {} \/ spec.refresh)
    <3>1. PICK c : c = Opened(spec, Max(Matching(Universe, {})))
      OBVIOUS
    <3>2. Moves(b, c) /\ c.at = "batch"
      BY <2>2, <3>1 DEF Begin, LookForUniverse, Opened
    <3> QED BY <3>2
  <2> QED BY <2>1, <2>2
<1> QED BY <1>1, NobodyIsAsked DEF Begin, LookForUniverse

\* ObserveUniverse: a build that has its universe has asked nobody yet.
LEMMA UniverseAsks ==
    ASSUME IInv, TInv, NEW b \in Builders, ObserveUniverse(b)
    PROVE  TInv'
<1>1. Observe(Universe, {}, Empty) /\ UNCHANGED canonical
  BY DEF ObserveUniverse
<1>2. InstrumentsOf(DOMAIN Empty) \subseteq {} /\ IsAnswer(Empty)
  BY DEF InstrumentsOf, Empty, IsAnswer
<1>3. AnswersAreAsked'
  BY <1>1, <1>2, ObservedIsAsked DEF IInv, TInv
<1>4. Grows
  BY <1>1, ObserveStep DEF IInv, Grows
<1>5. PICK c : c = Opened(call[b].spec, Len(observed) + 1)
  OBVIOUS
<1>6. Moves(b, c) /\ c.at = "batch"
  BY <1>5 DEF ObserveUniverse, Opened
<1>7. IsAsking(c)'
  BY <1>6 DEF IsAsking
<1> QED BY <1>1, <1>3, <1>4, <1>6, <1>7, AskingStep

\* OpenBatch: the third source is not used before the pair is reconciled.
LEMMA OpenBatchAsks ==
    ASSUME IInv, TInv, NEW b \in Builders, OpenBatch(b), IInv'
    PROVE  TInv'
<1>1. PICK c : c = call[b]
  OBVIOUS
<1>2. c.at = "batch" /\ InBuild(c) /\ UNCHANGED <<observed, canonical>>
  BY <1>1 DEF OpenBatch, At, InBuild
<1>3. c = [at |-> c.at, spec |-> c.spec, universe |-> c.universe, next |-> c.next,
           stored |-> c.stored, sources |-> c.sources, rows |-> c.rows]
  BY <1>1, <1>2, BuildFields
<1>4. CASE Restorable(c)
  <2>1. PICK e : e = [c EXCEPT !.next = @ + 1]
    OBVIOUS
  <2>2. Moves(b, e)
    BY <1>1, <1>4, <2>1 DEF OpenBatch
  <2>3. e.at = c.at
    BY <1>3, <2>1
  <2> QED BY <1>2, <2>2, <2>3, NobodyIsAsked
<1>5. CASE ~Restorable(c)
  <2>1. PICK d : d = [c EXCEPT !.at = "pair"]
    OBVIOUS
  <2>2. d = [at |-> "pair", spec |-> c.spec, universe |-> c.universe, next |-> c.next,
             stored |-> c.stored, sources |-> c.sources, rows |-> c.rows]
    BY <1>3, <2>1, Changed
  <2>3. PICK f : f = [d EXCEPT !.sources = NoSources]
    OBVIOUS
  <2>4. f = [at |-> "pair", spec |-> c.spec, universe |-> c.universe, next |-> c.next,
             stored |-> c.stored, sources |-> NoSources, rows |-> c.rows]
    BY <2>2, <2>3
  <2>5. PICK e : e = [f EXCEPT !.rows = Empty]
    OBVIOUS
  <2>6. e = [at |-> "pair", spec |-> c.spec, universe |-> c.universe, next |-> c.next,
             stored |-> c.stored, sources |-> NoSources, rows |-> Empty]
    BY <2>4, <2>5
  <2>7. /\ e.at = "pair" /\ e.sources = NoSources
        /\ e = [at |-> e.at, spec |-> e.spec, universe |-> e.universe, next |-> e.next,
                stored |-> e.stored, sources |-> e.sources, rows |-> e.rows]
    BY <2>6
  <2>8. PICK l : l = LookedFor(e)
    OBVIOUS
  <2>9. Moves(b, l)
    BY <1>1, <1>5, <2>1, <2>3, <2>5, <2>8 DEF OpenBatch
  <2>10. Wanted(e) = Pair
    BY <2>7 DEF Wanted
  <2>11. ~(l.sources[Adjudicator] > 0)
    <3>1. l.sources[Adjudicator] = e.sources[Adjudicator]
      BY <2>7, <2>8, <2>10, LookedForAsks, DistinctProviders DEF IInv, Providers, Pair
    <3> QED BY <2>7, <3>1 DEF NoSources, Unasked, Providers
  <2>12. \A p \in Pair : Open(l, p)
    BY <2>7, <2>8, <2>10, LookedForAsks DEF IInv, Providers
  <2>13. l.at = "pair"
    <3>1. PICK sources : l = [e EXCEPT !.sources = sources]
      BY <2>8 DEF LookedFor
    <3> QED BY <2>7, <3>1
  <2>14. IsAsking(l)
    BY <2>11, <2>12, <2>13 DEF IsAsking
  <2>15. BatchIsOpen(l)
    <3>1. call'[b] = l
      BY <2>9 DEF Moves, IInv, CallsAreSound
    <3>2. CallIsSound(call[b])'
      BY DEF IInv, CallsAreSound
    <3>3. BatchIsOpen(l)'
      BY <2>13, <3>1, <3>2 DEF CallIsSound, InBatch
    <3>4. UNCHANGED <<observed, canonical>>
      BY <1>2
    <3> QED BY <3>3, <3>4 DEF BatchIsOpen, Known, Finished, Batch, PartitionIds, PartitionOf
  <2> QED BY <1>2, <2>9, <2>14, <2>15, QuietStep
<1> QED BY <1>4, <1>5

\* Capture: the third source is asked about what the pair does not agree on.
LEMMA CaptureAsks ==
    ASSUME IInv, TInv, NEW b \in Builders, NEW p \in Providers, Capture(b, p)
    PROVE  TInv'
<1>1. PICK c : c = call[b]
  OBVIOUS
<1>2. PICK u : u = Len(observed) + 1
  OBVIOUS
<1>3. c.at \in {"pair", "third"} /\ InBuild(c) /\ InBatch(c) /\ p \in Wanted(c)
  BY <1>1 DEF Capture, Wanted, InBuild, InBatch
<1>4. /\ BatchIsOpen(c) /\ IsAsking(c)
      /\ c = [at |-> c.at, spec |-> c.spec, universe |-> c.universe, next |-> c.next,
              stored |-> c.stored, sources |-> c.sources, rows |-> c.rows]
  BY <1>1, <1>3, BuildFields DEF TInv
<1>5. PICK answer \in AnswersOf(p, Requested(c)) : Observe(p, Requested(c), answer)
  BY <1>1 DEF Capture
<1>6. Grows /\ UNCHANGED canonical
  BY <1>5, ObserveStep DEF Capture, IInv, Grows
<1>7. AnswersAreAsked' /\ observed'[u].ids = Requested(c) /\ u > 0
  <2>1. InstrumentsOf(DOMAIN answer) \subseteq Requested(c)
    BY AnswerIsAsked
  <2>2. IsAnswer(answer)
    <3>1. \A i \in Requested(c) : \E n \in DOMAIN Master : i = Master[n]
      BY <1>3, <1>4, RequestedAreListed DEF BatchIsOpen
    <3> QED BY <3>1, AnswerIsNumbers
  <2> QED BY <1>2, <1>5, <2>1, <2>2, ObservedIsAsked DEF IInv, TInv
<1>8. PICK sources : sources = [c.sources EXCEPT ![p] = u]
  OBVIOUS
<1>9. PICK e : e = [at |-> c.at, spec |-> c.spec, universe |-> c.universe, next |-> c.next,
                    stored |-> c.stored, sources |-> sources, rows |-> c.rows]
  OBVIOUS
<1>10. Moves(b, e)
  <2>1. Moves(b, [c EXCEPT !.sources[p] = u])
    BY <1>1, <1>2 DEF Capture
  <2>2. [c EXCEPT !.sources[p] = u] = [c EXCEPT !.sources = sources]
    BY <1>8
  <2>3. [c EXCEPT !.sources = sources] = e
    BY <1>4, <1>9, Changed
  <2> QED BY <2>1, <2>2, <2>3
<1>11. /\ e.at = c.at /\ e.spec = c.spec /\ e.next = c.next /\ e.sources = sources
       /\ e.rows = c.rows
  BY <1>9
<1>12. /\ sources[p] = u
       /\ \A q \in Providers : q # p => sources[q] = c.sources[q]
  BY <1>4, <1>8 DEF BatchIsOpen
<1>13. IsAsking(c)'
  BY <1>4, <1>6, AskingStays
<1>14. IsAsking(e)'
  <2>1. CASE c.at = "pair"
    <3>1. p \in Pair /\ p # Adjudicator
      BY <1>3, <2>1, DistinctProviders DEF Wanted, Pair
    <3>2. ~(sources[Adjudicator] > 0)
      BY <1>4, <1>12, <2>1, <3>1 DEF IsAsking, Providers
    <3>3. \A q \in Pair : Open(e, q)
      BY <1>4, <1>7, <1>11, <1>12, <2>1 DEF IsAsking, Open, Providers
    <3> QED BY <1>11, <2>1, <3>2, <3>3 DEF IsAsking, Open
  <2>2. CASE c.at = "third"
    <3>1. p = Adjudicator /\ p \notin Pair
      BY <1>3, <2>2, DistinctProviders DEF Wanted, Pair
    <3>2. \A q \in Pair : sources[q] = c.sources[q]
      BY <1>12, <3>1 DEF Providers
    <3>3. Answers(sources, Pair)' = Answers(c.sources, Pair)'
      BY <3>2 DEF Answers
    <3>4. Requested(e)' = Requested(c)'
      BY <1>11, <3>3 DEF Requested, Batch
    <3>5. Requested(c)' = Requested(c)
      <4>1. \A q \in Pair : c.sources[q] > 0
        BY <1>4, <2>2 DEF IsAsking
      <4>2. \A q \in Pair : Known(c.sources[q], q)
        BY <1>4, <4>1 DEF BatchIsOpen, Providers
      <4> QED BY <1>6, <4>2, AnswersStay DEF Requested
    <3>6. Batch(e)' = Batch(c)'
      BY <1>11 DEF Batch
    <3> QED BY <1>7, <1>11, <1>12, <1>13, <2>2, <3>1, <3>2, <3>3, <3>4, <3>5, <3>6
            DEF IsAsking, Open
  <2> QED BY <1>3, <2>1, <2>2
<1> QED BY <1>6, <1>7, <1>10, <1>14, AskingStep

\* SourceFails: a failed source is not used.
LEMMA SourceFailsAsks ==
    ASSUME IInv, TInv, NEW b \in Builders, NEW p \in Providers, SourceFails(b, p)
    PROVE  TInv'
<1>1. PICK c : c = call[b]
  OBVIOUS
<1>2. /\ c.at \in {"pair", "third"} /\ InBuild(c) /\ InBatch(c) /\ p \in Wanted(c)
      /\ UNCHANGED <<observed, canonical>>
  BY <1>1 DEF SourceFails, Wanted, InBuild, InBatch
<1>3. /\ BatchIsOpen(c) /\ IsAsking(c)
      /\ c = [at |-> c.at, spec |-> c.spec, universe |-> c.universe, next |-> c.next,
              stored |-> c.stored, sources |-> c.sources, rows |-> c.rows]
  BY <1>1, <1>2, BuildFields DEF TInv
<1>4. PICK sources : sources = [c.sources EXCEPT ![p] = Failed]
  OBVIOUS
<1>5. PICK e : e = [at |-> c.at, spec |-> c.spec, universe |-> c.universe, next |-> c.next,
                    stored |-> c.stored, sources |-> sources, rows |-> c.rows]
  OBVIOUS
<1>6. Moves(b, e)
  <2>1. Moves(b, [c EXCEPT !.sources[p] = Failed])
    BY <1>1 DEF SourceFails
  <2>2. [c EXCEPT !.sources[p] = Failed] = [c EXCEPT !.sources = sources]
    BY <1>4
  <2>3. [c EXCEPT !.sources = sources] = e
    BY <1>3, <1>5, Changed
  <2> QED BY <2>1, <2>2, <2>3
<1>7. /\ e.at = c.at /\ e.spec = c.spec /\ e.next = c.next /\ e.sources = sources
      /\ e.rows = c.rows /\ e.stored = c.stored
  BY <1>5
<1>8. /\ sources[p] = Failed /\ ~(Failed > 0) /\ DOMAIN sources = Providers
      /\ \A q \in Providers : q # p => sources[q] = c.sources[q]
  BY <1>3, <1>4 DEF BatchIsOpen, Failed
<1>9. IsAsking(e)
  <2>1. CASE c.at = "pair"
    <3>1. p \in Pair /\ p # Adjudicator
      BY <1>2, <2>1, DistinctProviders DEF Wanted, Pair
    <3>2. ~(sources[Adjudicator] > 0)
      BY <1>3, <1>8, <2>1, <3>1 DEF IsAsking, Providers
    <3>3. \A q \in Pair : Open(e, q)
      BY <1>3, <1>7, <1>8, <2>1 DEF IsAsking, Open, Providers
    <3> QED BY <1>7, <2>1, <3>2, <3>3 DEF IsAsking
  <2>2. CASE c.at = "third"
    <3>1. p = Adjudicator /\ p \notin Pair
      BY <1>2, <2>2, DistinctProviders DEF Wanted, Pair
    <3>2. \A q \in Pair : sources[q] = c.sources[q]
      BY <1>8, <3>1 DEF Providers
    <3>3. Answers(sources, Pair) = Answers(c.sources, Pair)
      BY <3>2 DEF Answers
    <3>4. Batch(e) = Batch(c)
      BY <1>7 DEF Batch
    <3> QED BY <1>3, <1>7, <1>8, <2>2, <3>1, <3>2, <3>3, <3>4 DEF IsAsking, Open
  <2> QED BY <1>2, <2>1, <2>2
<1>10. BatchIsOpen(e)
  <2>1. \A q \in Providers : sources[q] > 0 => Known(sources[q], q)
    BY <1>3, <1>8 DEF BatchIsOpen
  <2> QED BY <1>2, <1>3, <1>7, <1>8, <2>1 DEF BatchIsOpen, Finished, Batch, PartitionIds
<1> QED BY <1>2, <1>6, <1>9, <1>10, QuietStep

\* A partition of the rows that hide no trade of its sources shows all of them.
LEMMA MadeIsShown ==
    ASSUME NEW c, NEW used, used = {p \in Providers : c.sources[p] > 0},
           HidesNoTrade(c.rows, Answers(c.sources, used))
    PROVE  IsShown(PartitionOf(c))
<1>1. PICK q : q = PartitionOf(c)
  OBVIOUS
<1>2. q.rows = c.rows /\ q.sources = [p \in used |-> c.sources[p]]
  BY <1>1 DEF PartitionOf
<1>3. PICK answers : answers = Answers(c.sources, used)
  OBVIOUS
<1>4. DOMAIN answers = used /\ \A p \in used : answers[p] = observed[q.sources[p]].answer
  BY <1>2, <1>3 DEF Answers
<1>5. DOMAIN q.sources = used /\ PartitionIds(q) = InstrumentsOf(DOMAIN c.rows)
  BY <1>2 DEF PartitionIds
<1>6. IsShown(q)
  BY <1>2, <1>3, <1>4, <1>5 DEF IsShown, HidesNoTrade
<1> QED BY <1>1, <1>6

\* The rows that its sources back are a partition backed by its sources.
LEMMA MadeIsBacked ==
    ASSUME NEW c, NEW used, used = {p \in Providers : c.sources[p] > 0}, NEW asked,
           asked = IF c.sources[Adjudicator] > 0 THEN observed[c.sources[Adjudicator]].ids ELSE {},
           RowsAreBacked(c.rows, Answers(c.sources, used), asked)
    PROVE  IsBacked(PartitionOf(c))
<1>1. PICK q : q = PartitionOf(c)
  OBVIOUS
<1>2. q.rows = c.rows /\ q.sources = [p \in used |-> c.sources[p]]
  BY <1>1 DEF PartitionOf
<1>3. DOMAIN q.sources = used
  BY <1>2
<1>4. Answers(q.sources, DOMAIN q.sources) = Answers(c.sources, used)
  BY <1>2, <1>3 DEF Answers
<1>5. AskedAbout(q) = asked
  BY <1>2, <1>3 DEF AskedAbout, Providers
<1>6. IsBacked(q)
  BY <1>2, <1>4, <1>5 DEF IsBacked
<1> QED BY <1>1, <1>6

\* A build that records its partition comes to its checkpoint.
LEMMA RecordAsks ==
    ASSUME IInv, TInv, NEW b \in Builders, NEW e, Moves(b, e), e.at = "checkpoint",
           UNCHANGED observed, NEW c, RecordPartition(c), IsShown(PartitionOf(c)),
           IsBacked(PartitionOf(c))
    PROVE  TInv'
<1>1. PICK q : q = PartitionOf(c)
  OBVIOUS
<1>2. \A r \in canonical' : r \in canonical \/ r = q
  BY <1>1 DEF RecordPartition
<1>3. IsShown(q)' /\ IsBacked(q)'
  <2>1. IsShown(q)'
    BY <1>1 DEF IsShown, PartitionIds
  <2>2. AskedAbout(q)' = AskedAbout(q)
    BY DEF AskedAbout
  <2>3. Answers(q.sources, DOMAIN q.sources)' = Answers(q.sources, DOMAIN q.sources)
    BY DEF Answers
  <2> QED BY <1>1, <2>1, <2>2, <2>3 DEF IsBacked, RowsAreBacked
<1>4. Grows /\ AnswersAreAsked'
  BY DEF Grows, TInv, AnswersAreAsked
<1>5. IsAsking(e)'
  BY DEF IsAsking
<1> QED BY <1>2, <1>3, <1>4, <1>5, AskingStep

\* What a build reconciles are numbers.
LEMMA AnswersAreNumbers ==
    ASSUME TInv, NEW c, BatchIsOpen(c), NEW used \in SUBSET Providers,
           \A p \in used : c.sources[p] > 0
    PROVE  /\ DOMAIN Answers(c.sources, used) = used
           /\ \A p \in used : IsAnswer(Answers(c.sources, used)[p])
<1>1. \A p \in used : c.sources[p] \in DOMAIN observed
  BY DEF BatchIsOpen, Known
<1>2. \A p \in used : Answers(c.sources, used)[p] = observed[c.sources[p]].answer
  BY DEF Answers
<1>3. DOMAIN Answers(c.sources, used) = used
  BY DEF Answers
<1> QED BY <1>1, <1>2, <1>3 DEF TInv, AnswersAreAsked

\* ReconcilePair: the third source is asked about what is left, and a build
\* that needs none has what the two agree on.
LEMMA ReconcilePairAsks ==
    ASSUME IInv, TInv, NEW b \in Builders, ReconcilePair(b), IInv'
    PROVE  TInv'
<1>1. PICK c, answers, rows :
        /\ c = call[b] /\ answers = Answers(c.sources, Pair)
        /\ rows = PairPartition(answers, Batch(c))
  OBVIOUS
<1>2. c.at = "pair" /\ InBuild(c) /\ InBatch(c) /\ UNCHANGED observed
  BY <1>1 DEF ReconcilePair, At, InBuild, InBatch
<1>3. /\ BatchIsOpen(c) /\ IsAsking(c)
      /\ c = [at |-> c.at, spec |-> c.spec, universe |-> c.universe, next |-> c.next,
              stored |-> c.stored, sources |-> c.sources, rows |-> c.rows]
  BY <1>1, <1>2, BuildFields DEF TInv
<1>4. PICK paired : paired = [c EXCEPT !.rows = rows]
  OBVIOUS
<1>5. paired = [at |-> "pair", spec |-> c.spec, universe |-> c.universe, next |-> c.next,
                stored |-> c.stored, sources |-> c.sources, rows |-> rows]
  BY <1>2, <1>3, <1>4, Changed
<1>6. \/ /\ Moves(b, [c EXCEPT !.at = "checkpoint", !.sources = NoSources])
         /\ UNCHANGED canonical
      \/ /\ \A p \in Pair : c.sources[p] > 0
         /\ Backend[Primary] # Backend[Secondary]
         /\ Moves(b, LookedFor([paired EXCEPT !.at = "third"])) /\ UNCHANGED canonical
      \/ /\ \A p \in Pair : c.sources[p] > 0
         /\ Moves(b, [paired EXCEPT !.at = "checkpoint"]) /\ RecordPartition(paired)
  <2>1. CASE \E p \in Pair : c.sources[p] = Failed
    BY <1>1, <2>1 DEF ReconcilePair
  <2>2. CASE \A p \in Pair : c.sources[p] # Failed
    <3>1. \A p \in Pair : c.sources[p] # Asked
      BY <1>1 DEF ReconcilePair
    <3>2. \A p \in Pair : c.sources[p] > 0
      BY <1>2, <1>3, <2>2, <3>1 DEF IsAsking, Open
    <3>3. \/ /\ ConflictIds(answers, Batch(c)) # {}
             /\ Moves(b, LookedFor([paired EXCEPT !.at = "third"])) /\ UNCHANGED canonical
          \/ Moves(b, [paired EXCEPT !.at = "checkpoint"]) /\ RecordPartition(paired)
      BY <1>1, <1>4, <2>2 DEF ReconcilePair
    <3>4. ConflictIds(answers, Batch(c)) # {} => Backend[Primary] # Backend[Secondary]
      BY DEF ConflictIds
    <3> QED BY <3>2, <3>3, <3>4
  <2> QED BY <2>1, <2>2
<1>7. CASE Moves(b, [c EXCEPT !.at = "checkpoint", !.sources = NoSources]) /\ UNCHANGED canonical
  <2>1. PICK d : d = [c EXCEPT !.at = "checkpoint"]
    OBVIOUS
  <2>2. d = [at |-> "checkpoint", spec |-> c.spec, universe |-> c.universe, next |-> c.next,
             stored |-> c.stored, sources |-> c.sources, rows |-> c.rows]
    BY <1>3, <2>1, Changed
  <2>3. PICK e : e = [d EXCEPT !.sources = NoSources]
    OBVIOUS
  <2>4. e.at = "checkpoint"
    BY <2>2, <2>3
  <2>5. Moves(b, e)
    BY <1>7, <2>1, <2>3
  <2>6. Grows /\ AnswersAreAsked'
    BY <1>2 DEF Grows, TInv, AnswersAreAsked
  <2>7. IsAsking(e)'
    BY <2>4 DEF IsAsking
  <2> QED BY <1>7, <2>5, <2>6, <2>7, AskingStep
<1>8. CASE /\ \A p \in Pair : c.sources[p] > 0
           /\ Backend[Primary] # Backend[Secondary]
           /\ Moves(b, LookedFor([paired EXCEPT !.at = "third"])) /\ UNCHANGED canonical
  <2>1. PICK d : d = [paired EXCEPT !.at = "third"]
    OBVIOUS
  <2>2. d = [at |-> "third", spec |-> c.spec, universe |-> c.universe, next |-> c.next,
             stored |-> c.stored, sources |-> c.sources, rows |-> rows]
    BY <1>5, <2>1
  <2>3. /\ d.at = "third" /\ d.spec = c.spec /\ d.next = c.next /\ d.sources = c.sources
        /\ d.rows = rows
        /\ d = [at |-> d.at, spec |-> d.spec, universe |-> d.universe, next |-> d.next,
                stored |-> d.stored, sources |-> d.sources, rows |-> d.rows]
    BY <2>2
  <2>4. PICK l : l = LookedFor(d)
    OBVIOUS
  <2>5. l.at = "third" /\ l.spec = c.spec /\ l.next = c.next /\ l.rows = rows
    <3>1. PICK sources : l = [d EXCEPT !.sources = sources]
      BY <2>4 DEF LookedFor
    <3>2. l = [at |-> "third", spec |-> c.spec, universe |-> c.universe, next |-> c.next,
               stored |-> c.stored, sources |-> sources, rows |-> rows]
      BY <2>2, <3>1
    <3> QED BY <3>2
  <2>6. Wanted(d) = {Adjudicator}
    BY <2>3 DEF Wanted
  <2>7. \A p \in Pair : l.sources[p] = c.sources[p]
    <3>1. \A p \in Pair : p \in Providers /\ p \notin Wanted(d)
      BY <2>6, DistinctProviders DEF Pair, Providers
    <3> QED BY <2>3, <2>4, <3>1, LookedForAsks DEF IInv
  <2>8. /\ Open(l, Adjudicator)
        /\ l.sources[Adjudicator] > 0 => observed[l.sources[Adjudicator]].ids = Requested(d)
    <3>1. Adjudicator \in Providers
      BY DEF Providers
    <3> QED BY <2>3, <2>4, <2>6, <3>1, LookedForAsks DEF IInv
  <2>9. Answers(l.sources, Pair) = answers /\ Answers(d.sources, Pair) = answers
    BY <1>1, <2>3, <2>7 DEF Answers
  <2>10. Batch(l) = Batch(c) /\ Batch(d) = Batch(c)
    BY <2>3, <2>5 DEF Batch
  <2>11. Requested(l) = Requested(d)
    BY <2>3, <2>5, <2>9, <2>10 DEF Requested
  <2>12. IsAsking(l)
    BY <1>1, <1>8, <2>5, <2>7, <2>8, <2>9, <2>10, <2>11 DEF IsAsking
  <2>13. Moves(b, l)
    BY <1>8, <2>1, <2>4
  <2>14. BatchIsOpen(l)
    <3>1. call'[b] = l
      BY <2>13 DEF Moves, IInv, CallsAreSound
    <3>2. CallIsSound(call[b])'
      BY DEF IInv, CallsAreSound
    <3>3. BatchIsOpen(l)'
      BY <2>5, <3>1, <3>2 DEF CallIsSound, InBatch
    <3>4. UNCHANGED <<observed, canonical>>
      BY <1>2, <1>8
    <3> QED BY <3>3, <3>4 DEF BatchIsOpen, Known, Finished, Batch, PartitionIds, PartitionOf
  <2> QED BY <1>2, <1>8, <2>12, <2>13, <2>14, QuietStep
<1>9. CASE /\ \A p \in Pair : c.sources[p] > 0
           /\ Moves(b, [paired EXCEPT !.at = "checkpoint"]) /\ RecordPartition(paired)
  <2>1. PICK e : e = [paired EXCEPT !.at = "checkpoint"]
    OBVIOUS
  <2>2. Moves(b, e) /\ e.at = "checkpoint"
    BY <1>5, <1>9, <2>1
  <2>3. paired.sources = c.sources /\ paired.rows = rows
    BY <1>5
  <2>4. Pair = {p \in Providers : paired.sources[p] > 0}
    <3>1. ~(c.sources[Adjudicator] > 0)
      BY <1>2, <1>3 DEF IsAsking
    <3> QED BY <1>9, <2>3, <3>1 DEF Providers
  <2>5. HidesNoTrade(rows, answers)
    <3>1. DOMAIN answers = Pair
      BY <1>1 DEF Answers
    <3> QED BY <1>1, <3>1, PairHidesNothing
  <2>6. HidesNoTrade(paired.rows, Answers(paired.sources, Pair))
    BY <1>1, <2>3, <2>5
  <2>7. IsShown(PartitionOf(paired))
    BY <2>4, <2>6, MadeIsShown
  <2>8. IsBacked(PartitionOf(paired))
    <3>1. DOMAIN answers = Pair /\ \A p \in Pair : IsAnswer(answers[p])
      <4>1. Pair \in SUBSET Providers
        BY DEF Providers
      <4> QED BY <1>1, <1>3, <1>9, <4>1, AnswersAreNumbers
    <3>2. RowsAreBacked(rows, answers, {})
      BY <1>1, <3>1, PairIsBacked
    <3>3. RowsAreBacked(paired.rows, Answers(paired.sources, Pair), {})
      BY <1>1, <2>3, <3>2
    <3>4. ~(paired.sources[Adjudicator] > 0)
      BY <1>2, <1>3, <2>3 DEF IsAsking
    <3> QED BY <2>4, <3>3, <3>4, MadeIsBacked
  <2> QED BY <1>2, <1>9, <2>2, <2>7, <2>8, RecordAsks
<1> QED BY <1>6, <1>7, <1>8, <1>9

\* Adjudicate: with a third source that failed the partition is the pair's.
LEMMA AdjudicateAsks ==
    ASSUME IInv, TInv, NEW b \in Builders, Adjudicate(b)
    PROVE  TInv'
<1>1. PICK c : c = call[b]
  OBVIOUS
<1>2. c.at = "third" /\ InBuild(c) /\ InBatch(c) /\ UNCHANGED observed
  BY <1>1 DEF Adjudicate, At, InBuild, InBatch
<1>3. /\ BatchIsOpen(c) /\ IsAsking(c)
      /\ c = [at |-> c.at, spec |-> c.spec, universe |-> c.universe, next |-> c.next,
              stored |-> c.stored, sources |-> c.sources, rows |-> c.rows]
  BY <1>1, <1>2, BuildFields DEF TInv
<1>4. PICK rows \in IF c.sources[Adjudicator] = Failed THEN {c.rows}
                    ELSE AdjudicatedPartitions(
                             Answers(c.sources, Providers), Batch(c), Requested(c)) :
          /\ RecordPartition([c EXCEPT !.rows = rows])
          /\ Moves(b, [c EXCEPT !.at = "checkpoint", !.rows = rows])
  BY <1>1 DEF Adjudicate
<1>5. PICK d : d = [c EXCEPT !.at = "checkpoint"]
  OBVIOUS
<1>6. d = [at |-> "checkpoint", spec |-> c.spec, universe |-> c.universe, next |-> c.next,
           stored |-> c.stored, sources |-> c.sources, rows |-> c.rows]
  BY <1>3, <1>5, Changed
<1>7. PICK e : e = [d EXCEPT !.rows = rows]
  OBVIOUS
<1>8. Moves(b, e) /\ e.at = "checkpoint"
  BY <1>4, <1>5, <1>6, <1>7
<1>9. PICK made : made = [c EXCEPT !.rows = rows]
  OBVIOUS
<1>10. made.sources = c.sources /\ made.rows = rows
  BY <1>3, <1>9
<1>11. PICK used : used = {p \in Providers : c.sources[p] > 0}
  OBVIOUS
<1>12. HidesNoTrade(rows, Answers(c.sources, used))
  <2>1. CASE c.sources[Adjudicator] = Failed
    <3>1. ~(Failed > 0)
      BY DEF Failed
    <3>2. used = Pair
      BY <1>2, <1>3, <1>11, <2>1, <3>1 DEF IsAsking, Providers
    <3>3. rows = PairPartition(Answers(c.sources, Pair), Batch(c))
      BY <1>2, <1>3, <1>4, <2>1 DEF IsAsking
    <3>4. DOMAIN Answers(c.sources, Pair) = Pair
      BY DEF Answers
    <3> QED BY <3>2, <3>3, <3>4, PairHidesNothing
  <2>2. CASE c.sources[Adjudicator] # Failed
    <3>1. c.sources[Adjudicator] > 0
      BY <1>1, <1>2, <1>3, <2>2 DEF IsAsking, Open, Adjudicate
    <3>2. used = Providers
      BY <1>2, <1>3, <1>11, <3>1 DEF IsAsking, Providers
    <3>3. PICK answers, batch, asked : /\ answers = Answers(c.sources, Providers)
                                       /\ batch = Batch(c) /\ asked = Requested(c)
      OBVIOUS
    <3>4. InstrumentsOf(DOMAIN answers[Adjudicator]) \subseteq asked
      <4>1. answers[Adjudicator] = observed[c.sources[Adjudicator]].answer
        BY <3>3 DEF Answers, Providers
      <4>2. c.sources[Adjudicator] \in DOMAIN observed
        BY <1>3, <3>1 DEF BatchIsOpen, Known, Providers
      <4>3. observed[c.sources[Adjudicator]].ids = asked
        BY <1>2, <1>3, <3>1, <3>3 DEF IsAsking
      <4> QED BY <4>1, <4>2, <4>3 DEF TInv, AnswersAreAsked
    <3>5. rows \in AdjudicatedPartitions(answers, batch, asked)
      BY <1>4, <2>2, <3>3
    <3>6. DOMAIN answers = Providers
      BY <3>3 DEF Answers
    <3>7. HidesNoTrade(rows, answers)
      BY <3>4, <3>5, <3>6, ThreeHideNothing
    <3> QED BY <3>2, <3>3, <3>7
  <2> QED BY <2>1, <2>2
<1>13. IsShown(PartitionOf(made))
  BY <1>10, <1>11, <1>12, MadeIsShown
<1>14. PICK told : told = IF c.sources[Adjudicator] > 0
                          THEN observed[c.sources[Adjudicator]].ids ELSE {}
  OBVIOUS
<1>15. RowsAreBacked(rows, Answers(c.sources, used), told)
  <2>1. DOMAIN Answers(c.sources, used) = used
        /\ \A p \in used : IsAnswer(Answers(c.sources, used)[p])
    BY <1>3, <1>11, AnswersAreNumbers
  <2>2. CASE c.sources[Adjudicator] = Failed
    <3>1. ~(c.sources[Adjudicator] > 0)
      BY <2>2 DEF Failed
    <3>2. used = Pair
      BY <1>2, <1>3, <1>11, <3>1 DEF IsAsking, Providers
    <3>3. rows = PairPartition(Answers(c.sources, Pair), Batch(c)) /\ told = {}
      BY <1>2, <1>3, <1>4, <1>14, <2>2, <3>1 DEF IsAsking
    <3> QED BY <2>1, <3>2, <3>3, PairIsBacked
  <2>3. CASE c.sources[Adjudicator] # Failed
    <3>1. c.sources[Adjudicator] > 0
      BY <1>1, <1>2, <1>3, <2>3 DEF IsAsking, Open, Adjudicate
    <3>2. used = Providers
      BY <1>2, <1>3, <1>11, <3>1 DEF IsAsking, Providers
    <3>3. told = Requested(c) /\ Backend[Primary] # Backend[Secondary]
      BY <1>2, <1>3, <1>14, <3>1 DEF IsAsking
    <3>4. PICK answers, batch : answers = Answers(c.sources, Providers) /\ batch = Batch(c)
      OBVIOUS
    <3>5. rows \in AdjudicatedPartitions(answers, batch, told)
      BY <1>4, <2>3, <3>3, <3>4
    <3>6. RowsAreBacked(rows, answers, told)
      BY <2>1, <3>2, <3>3, <3>4, <3>5, ThreeAreBacked
    <3> QED BY <3>2, <3>4, <3>6
  <2> QED BY <2>2, <2>3
<1>16. IsBacked(PartitionOf(made))
  BY <1>10, <1>11, <1>14, <1>15, MadeIsBacked
<1> QED BY <1>2, <1>4, <1>8, <1>9, <1>13, <1>16, RecordAsks

\* WriteCheckpoint, FinishBuild and Stop leave the batch.
LEMMA LeaveAsks ==
    ASSUME IInv, TInv, NEW b \in Builders, WriteCheckpoint(b) \/ FinishBuild(b) \/ Stop(b)
    PROVE  TInv'
<1>1. CASE WriteCheckpoint(b)
  <2>1. PICK c : c = call[b]
    OBVIOUS
  <2>2. InBuild(c) /\ UNCHANGED <<observed, canonical>>
    BY <1>1, <2>1, CheckpointIsWritten
  <2>3. c = [at |-> c.at, spec |-> c.spec, universe |-> c.universe, next |-> c.next,
             stored |-> c.stored, sources |-> c.sources, rows |-> c.rows]
    BY <2>1, <2>2, BuildFields
  <2>4. PICK stored : Moves(b, [c EXCEPT !.at = "batch", !.next = @ + 1, !.stored = stored])
    BY <1>1, <2>1 DEF WriteCheckpoint
  <2>5. PICK d : d = [c EXCEPT !.at = "batch"]
    OBVIOUS
  <2>6. d = [at |-> "batch", spec |-> c.spec, universe |-> c.universe, next |-> c.next,
             stored |-> c.stored, sources |-> c.sources, rows |-> c.rows]
    BY <2>3, <2>5, Changed
  <2>7. PICK f : f = [d EXCEPT !.next = @ + 1]
    OBVIOUS
  <2>8. f = [at |-> "batch", spec |-> c.spec, universe |-> c.universe,
             next |-> c.next + 1, stored |-> c.stored, sources |-> c.sources,
             rows |-> c.rows]
    BY <2>6, <2>7
  <2>9. PICK e : e = [f EXCEPT !.stored = stored]
    OBVIOUS
  <2>10. e.at = "batch"
    BY <2>8, <2>9
  <2>11. Moves(b, e)
    BY <2>4, <2>5, <2>7, <2>9
  <2> QED BY <2>2, <2>10, <2>11, NobodyIsAsked
<1>2. CASE FinishBuild(b) \/ Stop(b)
  <2>1. PICK c : c = Idle
    OBVIOUS
  <2>2. Moves(b, c) /\ c.at = "idle" /\ UNCHANGED <<observed, canonical>>
    BY <1>2, <2>1 DEF FinishBuild, Stop, Idle
  <2> QED BY <2>2, NobodyIsAsked
<1> QED BY <1>1, <1>2

-----------------------------------------------------------------------------
(* No trade is hidden.                                                     *)

\* A step outside the builds observes and records nothing.
LEMMA OutsideAsks ==
    ASSUME IInv, TInv, UNCHANGED <<observed, canonical, call>>
    PROVE  TInv'
<1>1. Grows /\ AnswersAreAsked'
  BY DEF Grows, TInv, AnswersAreAsked
<1>2. ASSUME NEW b \in Builders PROVE IsAsking(call[b])'
  <2>1. PICK c : c = call[b]
    OBVIOUS
  <2>2. IsAsking(c) /\ (InBatch(c) => BatchIsOpen(c))
    BY <2>1 DEF TInv, IInv, CallsAreSound, CallIsSound
  <2>3. IsAsking(c)'
    BY <1>1, <2>2, AskingStays
  <2> QED BY <2>1, <2>3
<1>3. ASSUME NEW q \in canonical PROVE IsShown(q)' /\ IsBacked(q)'
  BY <1>1, ShownStays, BackedStays DEF IInv, PartitionsAreSound, TInv
<1> QED BY <1>1, <1>2, <1>3 DEF TInv

\* Every step keeps the invariant.
LEMMA NextAsks == IInv /\ IInv' /\ TInv /\ [Next]_vars => TInv'
<1> SUFFICES ASSUME IInv, IInv', TInv, [Next]_vars PROVE TInv'
  OBVIOUS
<1>1. CASE \E b \in Builders, s \in Specs : Begin(b, s)
  BY <1>1, BeginAsks
<1>2. CASE \E b \in Builders : ObserveUniverse(b)
  BY <1>2, UniverseAsks
<1>3. CASE \E b \in Builders : OpenBatch(b)
  BY <1>3, OpenBatchAsks
<1>4. CASE \E b \in Builders, p \in Providers : Capture(b, p)
  BY <1>4, CaptureAsks
<1>5. CASE \E b \in Builders, p \in Providers : SourceFails(b, p)
  BY <1>5, SourceFailsAsks
<1>6. CASE \E b \in Builders : ReconcilePair(b)
  BY <1>6, ReconcilePairAsks
<1>7. CASE \E b \in Builders : Adjudicate(b)
  BY <1>7, AdjudicateAsks
<1>8. CASE \E b \in Builders : WriteCheckpoint(b) \/ FinishBuild(b) \/ Stop(b)
  BY <1>8, LeaveAsks
<1>9. CASE Assemble \/ UNCHANGED vars
  BY <1>9, OutsideAsks DEF Assemble, vars
<1> QED BY <1>1, <1>2, <1>3, <1>4, <1>5, <1>6, <1>7, <1>8, <1>9 DEF Next

\* Hence it holds in every behavior.
LEMMA AskingHolds == Spec => []TInv
<1>1. Init => TInv
  BY DEF Init, TInv, AnswersAreAsked, IsAsking, Idle
<1>2. IInv /\ IInv' /\ TInv /\ [Next]_vars => TInv'
  BY NextAsks
<1> QED BY <1>1, <1>2, InvariantHolds, PTL DEF Spec

\* A session with turnover in a source of a partition, of an instrument of the
\* partition, is in the partition, for any answers, in any order, with any
\* failures: a mark of suspension of another source does not hide it.
THEOREM TradesAreShown == Spec => []NoTradeIsHidden
<1>1. TInv => NoTradeIsHidden
  BY DEF TInv, IsShown, NoTradeIsHidden
<1> QED BY <1>1, AskingHolds, PTL

\* A row of a partition has two backends behind each of its fields, whichever source
\* failed or was asked again: the pair to within the tolerance, or two of three on the
\* same price and number of lots (_reconcile_partition, _independent_consensus_frame).
THEOREM RowsHaveTwoBackends == Spec => []RowsAreCorroborated
<1>1. TInv => RowsAreCorroborated
  <2> SUFFICES ASSUME TInv, NEW q \in canonical, NEW k \in DOMAIN q.rows, NEW field \in Fields
               PROVE  \E p, r \in DOMAIN q.sources :
                         /\ Backend[p] # Backend[r]
                         /\ \A provider \in {p, r} :
                               Supports(observed[q.sources[provider]].answer, k, field,
                                        q.rows[k][field], k[1] \in AskedAbout(q))
    BY DEF RowsAreCorroborated
  <2>1. PICK answers : answers = Answers(q.sources, DOMAIN q.sources)
    OBVIOUS
  <2>2. /\ DOMAIN answers = DOMAIN q.sources
        /\ \A p \in DOMAIN q.sources : answers[p] = observed[q.sources[p]].answer
    BY <2>1 DEF Answers
  <2>3. PICK p, r \in DOMAIN answers :
            /\ Backend[p] # Backend[r]
            /\ Supports(answers[p], k, field, q.rows[k][field], k[1] \in AskedAbout(q))
            /\ Supports(answers[r], k, field, q.rows[k][field], k[1] \in AskedAbout(q))
    BY <2>1 DEF TInv, IsBacked, RowsAreBacked
  <2> QED BY <2>2, <2>3
<1> QED BY <1>1, AskingHolds, PTL

=============================================================================
