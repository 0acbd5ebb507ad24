------------------------- MODULE HistoryBuildProofs -------------------------
(***************************************************************************)
(* What HistoryBuild guarantees for any universe, builds, builders and      *)
(* answers of the sources: finished work is never lost, and a published     *)
(* history has no instrument twice.                                        *)
(***************************************************************************)
EXTENDS HistoryBuild, SequenceTheorems, WellFoundedInduction, TLAPS

-----------------------------------------------------------------------------
(* Batches.                                                                *)

\* The batches of a shard have instruments, and no instrument is in two.
LEMMA BatchesAreDisjoint ==
    ASSUME NEW spec \in Specs, NEW j \in DOMAIN Selected(spec), NEW k \in DOMAIN Selected(spec)
    PROVE  /\ Selected(spec)[j] # {}
           /\ Selected(spec)[j] \cap Selected(spec)[k] # {} => j = k
<1> DEFINE ordinal(n) == spec.index + (n - 1) * spec.count
           at(n) == {m \in DOMAIN Master : (m - 1) \div spec.size = ordinal(n)}
<1>1. PICK size \in Nat, count \in Nat, index \in Nat :
          size = spec.size /\ count = spec.count /\ index = spec.index /\ count > 0 /\ size > 0
  <2>1. IsValid(spec)
    BY SpecsAreValid
  <2>2. spec.size \in 1..100 /\ spec.count \in 1..16 /\ spec.index \in 0..(spec.count - 1)
    BY <2>1 DEF IsValid
  <2>3. spec.count \in Nat /\ spec.size \in Nat
    BY <2>2
  <2>4. spec.count - 1 \in Nat
    BY <2>2
  <2>5. spec.index \in Nat
    BY <2>2, <2>4
  <2>6. spec.count > 0 /\ spec.size > 0
    BY <2>2
  <2> QED BY <2>3, <2>5, <2>6
<1>2. j \in Nat /\ k \in Nat /\ DOMAIN Master \subseteq Nat
  BY MasterAssumption DEF Selected
<1>3. \A n \in DOMAIN Selected(spec) :
          Selected(spec)[n] # {} /\ Selected(spec)[n] = {Master[m] : m \in at(n)}
  BY DEF Selected, Chunk
<1>4. ASSUME Selected(spec)[j] \cap Selected(spec)[k] # {} PROVE j = k
  <2>1. PICK m \in at(j), n \in at(k) : Master[m] = Master[n]
    BY <1>3, <1>4
  <2>2. m = n
    BY <2>1, MasterAssumption
  <2>3. ordinal(j) = ordinal(k)
    BY <2>1, <2>2
  <2>4. (j - 1) * count = (k - 1) * count
    BY <2>3, <1>1, <1>2
  <2>5. ~(j < k)
    BY <2>4, <1>1, <1>2
  <2>6. ~(k < j)
    BY <2>4, <1>1, <1>2
  <2> QED BY <2>5, <2>6, <1>2
<1> QED BY <1>3, <1>4

-----------------------------------------------------------------------------
(* Observations.                                                           *)

\* A bounded set of numbers that is not empty has a largest one.
LEMMA LargestExists ==
    ASSUME NEW S \in SUBSET Nat, NEW n \in Nat, \A x \in S : x <= n, S # {}
    PROVE  Max(S) \in S
<1> DEFINE Gap == {n - x : x \in S}
<1>1. Gap \subseteq Nat /\ Gap # {}
  <2>1. \A x \in S : n - x \in Nat
    OBVIOUS
  <2> QED BY <2>1, Zenon
<1>2. PICK g \in Gap : \A h \in Gap : ~(<<h, g>> \in OpToRel(<, Nat))
  <2> HIDE DEF Gap
  <2> QED BY <1>1, NatLessThanWellFounded, WFMin
<1>3. \A h \in Gap : ~(h < g)
  BY <1>1, <1>2 DEF OpToRel
<1>4. PICK x \in S : g = n - x
  OBVIOUS
<1>5. \A y \in S : x >= y
  <2> TAKE y \in S
  <2>1. n - y \in Gap
    OBVIOUS
  <2>2. ~(n - y < n - x)
    BY <2>1, <1>3, <1>4
  <2> QED BY <2>2
<1> QED BY <1>5 DEF Max

ObservedIsLog ==
    /\ \E S : observed \in Seq(S)
    /\ Len(observed) <= MaxObserved
    /\ \A n \in DOMAIN observed : observed[n].provider \in Providers \cup {Universe}

\* The numbers of the observations are 1 to their count, within the bound.
LEMMA ObservedTimes ==
    ASSUME ObservedIsLog
    PROVE  /\ Len(observed) \in Nat
           /\ DOMAIN observed = 1..Len(observed)
           /\ DOMAIN observed \subseteq 1..MaxObserved
<1>1. PICK S : observed \in Seq(S)
  BY DEF ObservedIsLog
<1>2. Len(observed) \in Nat /\ DOMAIN observed = 1..Len(observed)
  BY <1>1
<1> QED BY <1>2, MaxObservedAssumption DEF ObservedIsLog

\* What is found is an observation of the provider that was asked.
LEMMA FoundIsKnown ==
    ASSUME ObservedIsLog, NEW provider, NEW ids, Matching(provider, ids) # {}
    PROVE  Known(Max(Matching(provider, ids)), provider)
<1>1. PICK n \in Nat : n = Len(observed)
  BY ObservedTimes
<1>2. Matching(provider, ids) \in SUBSET Nat
  BY <1>1, ObservedTimes DEF Matching
<1>3. \A x \in Matching(provider, ids) : x <= n
  BY <1>1, ObservedTimes DEF Matching
<1>4. Max(Matching(provider, ids)) \in Matching(provider, ids)
  BY <1>2, <1>3, LargestExists
<1> QED BY <1>4 DEF Matching, Known

\* An observation is added at the end, and none is lost.
LEMMA ObserveStep ==
    ASSUME ObservedIsLog, NEW provider \in Providers \cup {Universe}, NEW ids, NEW answer,
           Observe(provider, ids, answer)
    PROVE  /\ ObservedIsLog'
           /\ DOMAIN observed \subseteq DOMAIN observed'
           /\ \A n \in DOMAIN observed : observed'[n] = observed[n]
           /\ Len(observed) + 1 \in DOMAIN observed'
           /\ Len(observed) + 1 \in 1..MaxObserved
           /\ Len(observed) + 1 \notin DOMAIN observed
           /\ observed'[Len(observed) + 1].provider = provider
<1> DEFINE e == [provider |-> provider, ids |-> ids, answer |-> answer]
<1>1. PICK S : observed \in Seq(S)
  BY DEF ObservedIsLog
<1>2. observed \in Seq(S \cup {e}) /\ e \in S \cup {e}
  BY <1>1
<1>3. observed' = Append(observed, e) /\ Len(observed) < MaxObserved
  BY DEF Observe
<1>4. /\ observed' \in Seq(S \cup {e})
      /\ Len(observed') = Len(observed) + 1
      /\ \A n \in 1..Len(observed) : observed'[n] = observed[n]
      /\ observed'[Len(observed) + 1] = e
  <2> HIDE DEF e
  <2> QED BY <1>2, <1>3, AppendProperties
<1>5. Len(observed) \in Nat /\ DOMAIN observed = 1..Len(observed)
  BY ObservedTimes
<1>6. DOMAIN observed' = 1..(Len(observed) + 1)
  BY <1>4
<1>7. ObservedIsLog'
  <2>1. Len(observed') <= MaxObserved
    BY <1>3, <1>4, <1>5, MaxObservedAssumption
  <2>2. \A n \in DOMAIN observed' : observed'[n].provider \in Providers \cup {Universe}
    <3> TAKE n \in DOMAIN observed'
    <3>1. n \in DOMAIN observed \/ n = Len(observed) + 1
      BY <1>5, <1>6
    <3> QED BY <3>1, <1>4, <1>5 DEF ObservedIsLog
  <2>3. Providers' = Providers /\ Universe' = Universe /\ MaxObserved' = MaxObserved
    BY DEF Providers, Pair, Universe
  <2> QED BY <1>4, <2>1, <2>2, <2>3 DEF ObservedIsLog
<1>8. Len(observed) + 1 \in 1..MaxObserved
  BY <1>3, <1>5, MaxObservedAssumption
<1> QED BY <1>4, <1>5, <1>6, <1>7, <1>8

-----------------------------------------------------------------------------
(* Reconciliation keeps to the instruments of the batch.                   *)

\* What two sources agree on, or not, is about the instruments asked for.
LEMMA PairKeepsToBatch ==
    ASSUME NEW answers, NEW requested
    PROVE  /\ InstrumentsOf(DOMAIN PairPartition(answers, requested)) \subseteq requested
           /\ ConflictIds(answers, requested) \subseteq requested
BY DEF InstrumentsOf, PairPartition, ConflictIds

\* What three sources agree on is about the instruments of the batch.
LEMMA AdjudicationKeepsToBatch ==
    ASSUME NEW answers, NEW requested, NEW asked \in SUBSET requested,
           NEW rows \in AdjudicatedPartitions(answers, requested, asked)
    PROVE  InstrumentsOf(DOMAIN rows) \subseteq requested
<1> DEFINE frames == Active(answers)
           pair == [p \in Pair |->
                       Restricted(frames[p], {k \in DOMAIN frames[p] : k[1] \notin asked})]
           kept == {i \in requested \ asked : PairHasRows(pair, i) /\ ~PairConflicts(pair, i)}
           keys == {k \in Keys(frames) : k[1] \in asked}
           choices == [k \in keys |-> KeyOutcomes(frames, k)]
           all == UNION {choices[k] : k \in keys}
           legal == {f \in [keys -> all] : \A k \in keys : f[k] \in choices[k]}
           decided(choice) ==
               {k \in keys : \A x \in keys : x[1] = k[1] => choice[x] # {}}
           domain(choice) == {x \in DOMAIN pair[Primary] : x[1] \in kept} \cup decided(choice)
           row(choice, k) ==
               IF k \in keys THEN CHOOSE r \in choice[k] : TRUE ELSE PairRow(pair, k)
<1>1. AdjudicatedPartitions(answers, requested, asked)
          = {[k \in domain(choice) |-> row(choice, k)] : choice \in legal}
  BY Zenon DEF AdjudicatedPartitions
<1>2. \A choice, k : k \in domain(choice) => k[1] \in requested
  <2> HIDE DEF pair
  <2> QED OBVIOUS
<1> HIDE DEF domain, row, legal
<1>3. \A k \in DOMAIN rows : k[1] \in requested
  BY <1>1, <1>2
<1> QED BY <1>3 DEF InstrumentsOf

-----------------------------------------------------------------------------
(* The inductive invariant.                                                *)

InBuild(c) == c.at \in {"batch", "pair", "third", "checkpoint"}
InBatch(c) == c.at \in {"pair", "third", "checkpoint"}

CallShape(c) ==
    \/ c = Idle
    \/ c = [at |-> "universe", spec |-> c.spec]
    \/ /\ InBuild(c)
       /\ c = [at |-> c.at, spec |-> c.spec, universe |-> c.universe, next |-> c.next,
               stored |-> c.stored, sources |-> c.sources, rows |-> c.rows]

Finished(outcomes, batch) == batch \in DOMAIN outcomes /\ outcomes[batch] # {}
Visited(c) == {Selected(c.spec)[k] : k \in {j \in DOMAIN Selected(c.spec) : j < c.next}}

\* What a build knows is what its checkpoint holds, and it has come past the
\* batches before its own ...
BuildIsCurrent(c) ==
    /\ Known(c.universe, Universe)
    /\ c.next \in Nat
    /\ c.stored = checkpoint[<<c.spec, c.universe>>]
    /\ Visited(c) \subseteq DOMAIN c.stored
    /\ c.spec.refresh => DOMAIN c.stored \subseteq Visited(c)

\* ... which is not finished when it works on it; the partition is recorded
\* before the checkpoint is written.
BatchIsOpen(c) ==
    /\ c.next \in DOMAIN Selected(c.spec)
    /\ ~Finished(c.stored, Batch(c))
    /\ DOMAIN c.sources = Providers
    /\ \A p \in Providers : c.sources[p] > 0 => Known(c.sources[p], p)
    /\ PartitionIds(c) \subseteq Batch(c)
    /\ c.at = "pair" => c.rows = Empty
    /\ c.at = "checkpoint" /\ c.rows # Empty => PartitionOf(c) \in canonical

CallIsSound(c) ==
    /\ CallShape(c)
    /\ c # Idle => c.spec \in Specs
    /\ InBuild(c) => BuildIsCurrent(c)
    /\ InBatch(c) => BatchIsOpen(c)

CallsAreSound ==
    /\ call = [b \in Builders |-> call[b]]
    /\ \A b \in Builders : CallIsSound(call[b])

\* The lock of a build.
BuildsAreExclusive ==
    \A b, d \in Builders :
        ~At(b, "idle") /\ ~At(d, "idle") /\ call[b].spec = call[d].spec => b = d

IsPartition(q) ==
    /\ q.spec \in Specs /\ q.batch \in Range(Selected(q.spec))
    /\ PartitionIds(q) \subseteq q.batch
    /\ Known(q.universe, Universe)
    /\ \A p \in DOMAIN q.sources : Known(q.sources[p], p)

PartitionsAreSound == \A q \in canonical : IsPartition(q)

\* An outcome is none or one recorded partition of the build and the batch,
\* and builds over a universe nobody observed have none.
OutcomesAreSound(outcomes, spec, universe) ==
    /\ outcomes # Empty => universe \in DOMAIN observed
    /\ DOMAIN outcomes \subseteq Range(Selected(spec))
    /\ \A batch \in DOMAIN outcomes : outcomes[batch] # {} =>
          \E q \in canonical : /\ outcomes[batch] = {q}
                               /\ q.spec = spec /\ q.universe = universe /\ q.batch = batch

CheckpointsAreSound ==
    /\ checkpoint = [key \in Specs \X (1..MaxObserved) |-> checkpoint[key]]
    /\ \A spec \in Specs, universe \in 1..MaxObserved :
          OutcomesAreSound(checkpoint[<<spec, universe>>], spec, universe)

IInv ==
    /\ ObservedIsLog
    /\ CallsAreSound
    /\ BuildsAreExclusive
    /\ PartitionsAreSound
    /\ CheckpointsAreSound
    /\ PublishedOnce

-----------------------------------------------------------------------------
(* What a step may do to what others rely on.                              *)

\* No observation is lost.
Grows == DOMAIN observed \subseteq DOMAIN observed'
         /\ \A n \in DOMAIN observed : observed'[n] = observed[n]

\* An observation that is known stays known (source observations are
\* never deleted) ...
LEMMA KnownStays ==
    ASSUME Grows, NEW n, NEW p, Known(n, p)
    PROVE  Known(n, p)'
BY DEF Grows, Known

\* ... so a partition keeps its sources ...
LEMMA PartitionStays ==
    ASSUME Grows, NEW q, IsPartition(q)
    PROVE  IsPartition(q)'
<1>1. \A p \in DOMAIN q.sources : Known(q.sources[p], p)'
  BY KnownStays DEF IsPartition
<1>2. Known(q.universe, Universe)'
  BY KnownStays DEF IsPartition, Universe
<1> QED BY <1>1, <1>2 DEF IsPartition, PartitionIds

\* ... an outcome its partition and its universe ...
LEMMA OutcomesStay ==
    ASSUME Grows, canonical \subseteq canonical', NEW f, NEW spec, NEW universe,
           OutcomesAreSound(f, spec, universe)
    PROVE  OutcomesAreSound(f, spec, universe)'
BY DEF Grows, OutcomesAreSound

\* ... and a build what it knows, as long as its checkpoint is not written by
\* somebody else.
LEMMA CallStays ==
    ASSUME Grows, canonical \subseteq canonical', NEW c, CallIsSound(c),
           InBuild(c) => checkpoint'[<<c.spec, c.universe>>] = checkpoint[<<c.spec, c.universe>>]
    PROVE  CallIsSound(c)'
<1>1. InBuild(c) => BuildIsCurrent(c)'
  <2> SUFFICES ASSUME InBuild(c) PROVE BuildIsCurrent(c)'
    OBVIOUS
  <2>1. BuildIsCurrent(c)
    BY DEF CallIsSound
  <2>2. Known(c.universe, Universe)'
    BY <2>1, KnownStays DEF BuildIsCurrent, Universe
  <2> QED BY <2>1, <2>2 DEF BuildIsCurrent, Visited
<1>2. InBatch(c) => BatchIsOpen(c)'
  <2> SUFFICES ASSUME InBatch(c) PROVE BatchIsOpen(c)'
    OBVIOUS
  <2>1. BatchIsOpen(c)
    BY DEF CallIsSound
  <2>2. \A p \in Providers : c.sources[p] > 0 => Known(c.sources[p], p)'
    BY <2>1, KnownStays DEF BatchIsOpen
  <2>3. PartitionOf(c)' = PartitionOf(c)
    BY DEF PartitionOf
  <2> QED BY <2>1, <2>2, <2>3 DEF BatchIsOpen, Finished, Batch, PartitionIds
<1> QED BY <1>1, <1>2 DEF CallIsSound, CallShape, InBuild, InBatch

\* A step of one builder keeps the invariant if what it leaves is sound and
\* nobody else runs the same build.
LEMMA BuilderStep ==
    ASSUME IInv, NEW b \in Builders, NEW c, Moves(b, c), Grows, ObservedIsLog',
           canonical \subseteq canonical', PartitionsAreSound', CheckpointsAreSound',
           PublishedOnce', CallIsSound(c)',
           \A d \in Builders \ {b} : InBuild(call[d]) =>
               checkpoint'[<<call[d].spec, call[d].universe>>]
                   = checkpoint[<<call[d].spec, call[d].universe>>],
           \A d \in Builders \ {b} :
               c.at # "idle" /\ ~At(d, "idle") => call[d].spec # c.spec
    PROVE  IInv'
<1>1. /\ call' = [d \in Builders |-> call'[d]]
      /\ call'[b] = c
      /\ \A d \in Builders \ {b} : call'[d] = call[d]
  BY DEF IInv, CallsAreSound, Moves
<1>2. CallsAreSound'
  <2>1. ASSUME NEW d \in Builders PROVE CallIsSound(call[d])'
    <3>1. CASE d = b
      BY <3>1, <1>1
    <3>2. CASE d # b
      <4>1. PICK e : e = call[d]
        OBVIOUS
      <4>2. CallIsSound(e)'
        BY <4>1, <3>2, CallStays DEF IInv, CallsAreSound
      <4>3. call'[d] = e
        BY <4>1, <3>2, <1>1
      <4> QED BY <4>2, <4>3
    <3> QED BY <3>1, <3>2
  <2> QED BY <2>1, <1>1 DEF CallsAreSound
<1>3. BuildsAreExclusive'
  BY <1>1 DEF IInv, BuildsAreExclusive, At
<1> QED BY <1>2, <1>3 DEF IInv

\* Checkpoints that are not written stay sound.
LEMMA CheckpointsStay ==
    ASSUME IInv, Grows, canonical \subseteq canonical', UNCHANGED checkpoint
    PROVE  CheckpointsAreSound'
<1>1. ASSUME NEW spec \in Specs, NEW universe \in 1..MaxObserved
      PROVE  OutcomesAreSound(checkpoint[<<spec, universe>>], spec, universe)'
  <2>1. PICK f : f = checkpoint[<<spec, universe>>]
    OBVIOUS
  <2>2. OutcomesAreSound(f, spec, universe)
    BY <2>1 DEF IInv, CheckpointsAreSound
  <2>3. OutcomesAreSound(f, spec, universe)'
    BY <2>2, OutcomesStay
  <2> QED BY <2>1, <2>3
<1> QED BY <1>1 DEF IInv, CheckpointsAreSound

\* A step that keeps the checkpoints and the pointer and loses no partition.
LEMMA Frame ==
    ASSUME IInv, Grows, canonical \subseteq canonical', UNCHANGED <<checkpoint, pointer>>
    PROVE  /\ CheckpointsAreSound' /\ PublishedOnce'
           /\ canonical' = canonical => PartitionsAreSound'
<1>1. canonical' = canonical => PartitionsAreSound'
  BY PartitionStays DEF IInv, PartitionsAreSound
<1>2. CheckpointsAreSound'
  BY CheckpointsStay
<1>3. PublishedOnce'
  BY DEF IInv, PublishedOnce
<1> QED BY <1>1, <1>2, <1>3

\* A step that changes only its own call.
LEMMA LocalStep ==
    ASSUME IInv, NEW b \in Builders, NEW c, Moves(b, c),
           UNCHANGED <<observed, canonical, checkpoint, pointer>>, CallIsSound(c),
           \A d \in Builders \ {b} :
               c.at # "idle" /\ ~At(d, "idle") => call[d].spec # c.spec
    PROVE  IInv'
<1>1. Grows
  BY DEF Grows
<1>2. ObservedIsLog'
  BY DEF IInv, ObservedIsLog
<1>3. PartitionsAreSound' /\ CheckpointsAreSound' /\ PublishedOnce'
  BY <1>1, Frame
<1>4. CallIsSound(c)'
  BY <1>1, CallStays
<1> QED BY <1>1, <1>2, <1>3, <1>4, BuilderStep

-----------------------------------------------------------------------------
(* The steps.                                                              *)

\* A build that is opened has come past no batch; if it refreshes, nobody may
\* have worked over its universe.
LEMMA OpenedBuild ==
    ASSUME NEW spec \in Specs, NEW universe,
           spec.refresh => checkpoint[<<spec, universe>>] = Empty,
           NEW c, c = Opened(spec, universe)
    PROVE  /\ CallShape(c) /\ InBuild(c) /\ ~InBatch(c)
           /\ c.spec = spec /\ c.universe = universe /\ c.next \in Nat
           /\ c.stored = checkpoint[<<spec, universe>>]
           /\ Visited(c) \subseteq DOMAIN c.stored
           /\ c.spec.refresh => DOMAIN c.stored \subseteq Visited(c)
<1>1. /\ c.at = "batch" /\ c.spec = spec /\ c.universe = universe /\ c.next = 1
      /\ c.stored = checkpoint[<<spec, universe>>]
      /\ InBuild(c) /\ ~InBatch(c)
  BY DEF Opened, InBuild, InBatch
<1>2. CallShape(c)
  BY <1>1 DEF CallShape, Opened
<1>3. Visited(c) = {}
  <2>1. DOMAIN Selected(spec) \subseteq 1..Len(Master)
    BY MasterAssumption DEF Selected
  <2>2. \A j \in DOMAIN Selected(spec) : ~(j < 1)
    BY <2>1, MasterAssumption
  <2> QED BY <1>1, <2>2 DEF Visited
<1>4. spec.refresh => DOMAIN c.stored = {}
  BY <1>1 DEF Empty
<1> QED BY <1>1, <1>2, <1>3, <1>4

\* Begin: the build is opened over a known universe, or goes to look for one,
\* and nobody runs the same.
LEMMA BeginStep ==
    ASSUME IInv, NEW b \in Builders, NEW spec \in Specs, Begin(b, spec)
    PROVE  IInv'
<1>1. \A d \in Builders \ {b} : ~At(d, "idle") => call[d].spec # spec
  BY DEF Begin, Running
<1>2. PICK c : /\ Moves(b, c) /\ c.spec = spec
               /\ CallIsSound(c)
  <2>1. CASE Matching(Universe, {}) = {} \/ spec.refresh
    <3>1. PICK c : c = [at |-> "universe", spec |-> spec]
      OBVIOUS
    <3>2. CallIsSound(c) /\ c.spec = spec
      BY <3>1 DEF CallIsSound, CallShape, InBuild, InBatch
    <3>3. Moves(b, c)
      BY <2>1, <3>1 DEF Begin, LookForUniverse
    <3> QED BY <3>2, <3>3
  <2>2. CASE ~(Matching(Universe, {}) = {} \/ spec.refresh)
    <3>1. PICK u : u = Max(Matching(Universe, {}))
      OBVIOUS
    <3>2. Known(u, Universe)
      BY <2>2, <3>1, FoundIsKnown DEF IInv
    <3>3. PICK c : c = Opened(spec, u)
      OBVIOUS
    <3>4. CallIsSound(c)
      <4>1. spec.refresh => checkpoint[<<spec, u>>] = Empty
        BY <2>2
      <4>2. /\ CallShape(c) /\ InBuild(c) /\ ~InBatch(c)
            /\ c.spec = spec /\ c.universe = u /\ c.next \in Nat
            /\ c.stored = checkpoint[<<spec, u>>]
            /\ Visited(c) \subseteq DOMAIN c.stored
            /\ c.spec.refresh => DOMAIN c.stored \subseteq Visited(c)
        BY <3>3, <4>1, OpenedBuild
      <4>3. BuildIsCurrent(c)
        BY <3>2, <4>2 DEF BuildIsCurrent
      <4> QED BY <4>2, <4>3 DEF CallIsSound
    <3>5. Moves(b, c) /\ c.spec = spec
      BY <2>2, <3>1, <3>3 DEF Begin, LookForUniverse, Opened
    <3> QED BY <3>4, <3>5
  <2> QED BY <2>1, <2>2
<1>3. UNCHANGED <<observed, canonical, checkpoint, pointer>>
  BY DEF Begin, LookForUniverse
<1> QED BY <1>1, <1>2, <1>3, LocalStep

\* ObserveUniverse: nobody has worked over the universe yet.
LEMMA UniverseStep ==
    ASSUME IInv, NEW b \in Builders, ObserveUniverse(b)
    PROVE  IInv'
<1>1. PICK spec : spec = call[b].spec
  OBVIOUS
<1>2. call[b] # Idle /\ spec \in Specs
  BY <1>1 DEF ObserveUniverse, At, Idle, IInv, CallsAreSound, CallIsSound
<1>3. PICK u : u = Len(observed) + 1
  OBVIOUS
<1>4. /\ ObservedIsLog' /\ Grows /\ u \in DOMAIN observed' /\ u \notin DOMAIN observed
      /\ u \in 1..MaxObserved
      /\ observed'[u].provider = Universe
  BY <1>3, ObserveStep DEF ObserveUniverse, IInv, Grows
<1>5. Known(u, Universe)'
  BY <1>4 DEF Known, Universe
<1>6. checkpoint[<<spec, u>>] = Empty
  BY <1>2, <1>4 DEF IInv, CheckpointsAreSound, OutcomesAreSound
<1>7. PICK c : c = Opened(spec, u)
  OBVIOUS
<1>8. /\ Moves(b, c)
      /\ UNCHANGED <<canonical, checkpoint, pointer>>
  BY <1>1, <1>3, <1>7 DEF ObserveUniverse
<1>9. CallIsSound(c)' /\ c.spec = spec
  <2>1. /\ CallShape(c) /\ InBuild(c) /\ ~InBatch(c)
        /\ c.spec = spec /\ c.universe = u /\ c.next \in Nat
        /\ c.stored = checkpoint[<<spec, u>>]
        /\ Visited(c) \subseteq DOMAIN c.stored
        /\ c.spec.refresh => DOMAIN c.stored \subseteq Visited(c)
    BY <1>2, <1>6, <1>7, OpenedBuild
  <2>2. BuildIsCurrent(c)'
    BY <2>1, <1>5, <1>8 DEF BuildIsCurrent, Visited
  <2> QED BY <1>2, <2>1, <2>2 DEF CallIsSound, CallShape, InBuild, InBatch
<1>10. \A d \in Builders \ {b} : ~At(d, "idle") => call[d].spec # spec
  BY <1>1 DEF ObserveUniverse, At, IInv, BuildsAreExclusive
<1>11. PartitionsAreSound' /\ CheckpointsAreSound' /\ PublishedOnce'
  BY <1>4, <1>8, Frame
<1> QED BY <1>4, <1>8, <1>9, <1>10, <1>11, BuilderStep

\* The fields of a build in progress.
LEMMA BuildFields ==
    ASSUME IInv, NEW b \in Builders, InBuild(call[b])
    PROVE  /\ call[b].spec \in Specs
           /\ BuildIsCurrent(call[b])
           /\ InBatch(call[b]) => BatchIsOpen(call[b])
           /\ \A d \in Builders \ {b} : ~At(d, "idle") => call[d].spec # call[b].spec
           /\ call[b] = [at |-> call[b].at, spec |-> call[b].spec,
                         universe |-> call[b].universe, next |-> call[b].next,
                         stored |-> call[b].stored, sources |-> call[b].sources,
                         rows |-> call[b].rows]
<1>1. CallIsSound(call[b]) /\ ~At(b, "idle") /\ call[b] # Idle
  BY DEF IInv, CallsAreSound, InBuild, At, Idle
<1>2. call[b] # [at |-> "universe", spec |-> call[b].spec]
  BY DEF InBuild
<1> QED BY <1>1, <1>2 DEF CallIsSound, CallShape, IInv, BuildsAreExclusive, At

\* What a build is led to when it looks for observations is known.
LEMMA LookedForIsKnown ==
    ASSUME ObservedIsLog, NEW c, NEW l, l = LookedFor(c), InBuild(c),
           c = [at |-> c.at, spec |-> c.spec, universe |-> c.universe, next |-> c.next,
                stored |-> c.stored, sources |-> c.sources, rows |-> c.rows],
           \A p \in Providers : c.sources[p] > 0 => Known(c.sources[p], p)
    PROVE  /\ l = [at |-> c.at, spec |-> c.spec, universe |-> c.universe, next |-> c.next,
                   stored |-> c.stored, sources |-> l.sources, rows |-> c.rows]
           /\ DOMAIN l.sources = Providers
           /\ \A p \in Providers : l.sources[p] > 0 => Known(l.sources[p], p)
<1>1. PICK sources : sources = [p \in Providers |->
        IF p \notin Wanted(c) THEN c.sources[p]
        ELSE IF Matching(p, Requested(c)) = {} \/ c.spec.refresh THEN Asked
        ELSE Max(Matching(p, Requested(c)))]
  OBVIOUS
<1>2. l = [c EXCEPT !.sources = sources]
  BY <1>1 DEF LookedFor
<1>3. l = [at |-> c.at, spec |-> c.spec, universe |-> c.universe, next |-> c.next,
           stored |-> c.stored, sources |-> sources, rows |-> c.rows]
  BY <1>2
<1>4. ASSUME NEW p \in Providers, sources[p] > 0 PROVE Known(sources[p], p)
  <2>1. Asked = -1
    BY DEF Asked
  <2>2. CASE p \notin Wanted(c)
    BY <1>1, <1>4, <2>2
  <2>3. CASE p \in Wanted(c) /\ (Matching(p, Requested(c)) = {} \/ c.spec.refresh)
    BY <1>1, <1>4, <2>1, <2>3
  <2>4. CASE p \in Wanted(c) /\ ~(Matching(p, Requested(c)) = {} \/ c.spec.refresh)
    <3>1. sources[p] = Max(Matching(p, Requested(c)))
      BY <1>1, <2>4
    <3> QED BY <2>4, <3>1, FoundIsKnown
  <2> QED BY <2>2, <2>3, <2>4
<1>5. l.sources = sources /\ DOMAIN sources = Providers
  BY <1>1, <1>3, <1>2
<1> QED BY <1>2, <1>3, <1>4, <1>5

\* What a build skips is finished; what it opens is not, also when it
\* refreshes, for then it has come past everything its checkpoint holds.
LEMMA OpenBatchStep ==
    ASSUME IInv, NEW b \in Builders, OpenBatch(b)
    PROVE  IInv'
<1>1. PICK c : c = call[b]
  OBVIOUS
<1>2. /\ c.at = "batch" /\ InBuild(c) /\ c.next \in DOMAIN Selected(c.spec)
      /\ UNCHANGED <<observed, canonical, checkpoint, pointer>>
  BY <1>1 DEF OpenBatch, At, InBuild
<1>3. /\ c.spec \in Specs /\ BuildIsCurrent(c)
      /\ \A d \in Builders \ {b} : ~At(d, "idle") => call[d].spec # c.spec
      /\ c = [at |-> c.at, spec |-> c.spec, universe |-> c.universe, next |-> c.next,
              stored |-> c.stored, sources |-> c.sources, rows |-> c.rows]
  BY <1>1, <1>2, BuildFields
<1>4. CASE Restorable(c)
  <2>1. PICK e : e = [at |-> "batch", spec |-> c.spec, universe |-> c.universe,
                      next |-> c.next + 1, stored |-> c.stored, sources |-> c.sources,
                      rows |-> c.rows]
    OBVIOUS
  <2>2. Moves(b, e)
    <3>1. Moves(b, [c EXCEPT !.next = @ + 1])
      BY <1>1, <1>4 DEF OpenBatch
    <3>2. e = [c EXCEPT !.next = @ + 1]
      BY <1>2, <1>3, <2>1
    <3> QED BY <3>1, <3>2
  <2>3. /\ e.at = "batch" /\ e.spec = c.spec /\ e.universe = c.universe
        /\ e.next = c.next + 1 /\ e.stored = c.stored
    BY <2>1
  <2>4. Visited(e) \subseteq DOMAIN e.stored
    <3>1. c.next \in Nat /\ Visited(c) \subseteq DOMAIN c.stored
      BY <1>3 DEF BuildIsCurrent
    <3>2. Selected(c.spec)[c.next] \in DOMAIN c.stored
      BY <1>4 DEF Restorable, Batch
    <3>3. DOMAIN Selected(c.spec) \subseteq Nat
      BY MasterAssumption DEF Selected
    <3>4. \A j \in DOMAIN Selected(c.spec) : j < c.next + 1 => j < c.next \/ j = c.next
      BY <3>1, <3>3
    <3> QED BY <2>3, <3>1, <3>2, <3>4 DEF Visited
  <2>5. BuildIsCurrent(e)
    BY <1>3, <1>4, <2>3, <2>4 DEF BuildIsCurrent, Restorable
  <2>6. CallIsSound(e)
    <3>1. CallShape(e) /\ InBuild(e) /\ ~InBatch(e)
      BY <2>1, <2>3 DEF CallShape, InBuild, InBatch
    <3> QED BY <1>3, <2>3, <2>5, <3>1 DEF CallIsSound
  <2> QED BY <1>2, <1>3, <2>2, <2>3, <2>6, LocalStep
<1>5. CASE ~Restorable(c)
  <2>1. PICK e : e = [at |-> "pair", spec |-> c.spec, universe |-> c.universe,
                      next |-> c.next, stored |-> c.stored, sources |-> NoSources,
                      rows |-> Empty]
    OBVIOUS
  <2>2. e = [c EXCEPT !.at = "pair", !.sources = NoSources, !.rows = Empty]
    <3>1. PICK d : d = [c EXCEPT !.at = "pair"]
      OBVIOUS
    <3>2. d = [at |-> "pair", spec |-> c.spec, universe |-> c.universe, next |-> c.next,
               stored |-> c.stored, sources |-> c.sources, rows |-> c.rows]
      BY <1>3, <3>1
    <3>3. PICK f : f = [d EXCEPT !.sources = NoSources]
      OBVIOUS
    <3>4. f = [at |-> "pair", spec |-> c.spec, universe |-> c.universe, next |-> c.next,
               stored |-> c.stored, sources |-> NoSources, rows |-> c.rows]
      BY <3>2, <3>3
    <3>5. e = [f EXCEPT !.rows = Empty]
      BY <2>1, <3>4
    <3> QED BY <3>1, <3>3, <3>5
  <2>3. PICK l : l = LookedFor(e)
    OBVIOUS
  <2>4. Moves(b, l)
    BY <1>1, <1>5, <2>2, <2>3 DEF OpenBatch
  <2>5. /\ l = [at |-> "pair", spec |-> c.spec, universe |-> c.universe, next |-> c.next,
                stored |-> c.stored, sources |-> l.sources, rows |-> Empty]
        /\ DOMAIN l.sources = Providers
        /\ \A p \in Providers : l.sources[p] > 0 => Known(l.sources[p], p)
    <3>1. InBuild(e) /\ \A p \in Providers : ~(e.sources[p] > 0)
      BY <2>1 DEF InBuild, NoSources, Unasked
    <3>2. e = [at |-> e.at, spec |-> e.spec, universe |-> e.universe, next |-> e.next,
               stored |-> e.stored, sources |-> e.sources, rows |-> e.rows]
      BY <2>1
    <3>3. /\ l = [at |-> e.at, spec |-> e.spec, universe |-> e.universe, next |-> e.next,
                  stored |-> e.stored, sources |-> l.sources, rows |-> e.rows]
          /\ DOMAIN l.sources = Providers
          /\ \A p \in Providers : l.sources[p] > 0 => Known(l.sources[p], p)
      BY <2>3, <3>1, <3>2, LookedForIsKnown DEF IInv
    <3> QED BY <2>1, <3>3
  <2>6. /\ l.at = "pair" /\ l.spec = c.spec /\ l.universe = c.universe
        /\ l.next = c.next /\ l.stored = c.stored /\ l.rows = Empty
    BY <2>5
  <2>7. BuildIsCurrent(l)
    BY <1>3, <2>6 DEF BuildIsCurrent, Visited
  <2>8. ~Finished(c.stored, Batch(c))
    <3> SUFFICES ASSUME Finished(c.stored, Batch(c)) PROVE FALSE
      OBVIOUS
    <3>1. CASE c.spec.refresh
      <4>1. PICK j \in DOMAIN Selected(c.spec) :
                j < c.next /\ Selected(c.spec)[j] = Selected(c.spec)[c.next]
        BY <1>3, <3>1 DEF Finished, BuildIsCurrent, Visited, Batch
      <4>2. j = c.next
        BY <1>2, <1>3, <4>1, BatchesAreDisjoint
      <4>3. j \in Nat
        BY MasterAssumption DEF Selected
      <4> QED BY <4>1, <4>2, <4>3
    <3>2. CASE ~c.spec.refresh
      <4>1. c.universe \in 1..MaxObserved
        BY <1>3, ObservedTimes DEF IInv, BuildIsCurrent, Known
      <4>2. OutcomesAreSound(c.stored, c.spec, c.universe)
        BY <1>3, <4>1 DEF IInv, CheckpointsAreSound, BuildIsCurrent
      <4>3. c.stored[Batch(c)] \subseteq canonical
        BY <4>2 DEF OutcomesAreSound, Finished
      <4> QED BY <1>5, <3>2, <4>3 DEF Restorable, Finished
    <3> QED BY <3>1, <3>2
  <2>9. PartitionIds(l) = {}
    BY <2>6 DEF PartitionIds, InstrumentsOf, Empty
  <2>10. BatchIsOpen(l)
    BY <1>2, <2>5, <2>6, <2>8, <2>9 DEF BatchIsOpen, Batch
  <2>11. CallIsSound(l)
    <3>1. CallShape(l)
      BY <2>5, <2>6 DEF CallShape, InBuild
    <3> QED BY <1>3, <2>6, <2>7, <2>10, <3>1 DEF CallIsSound
  <2> QED BY <1>2, <1>3, <2>4, <2>6, <2>11, LocalStep
<1> QED BY <1>4, <1>5

\* A record of a build with one field changed.
LEMMA Changed ==
    ASSUME NEW c, NEW x,
           c = [at |-> c.at, spec |-> c.spec, universe |-> c.universe, next |-> c.next,
                stored |-> c.stored, sources |-> c.sources, rows |-> c.rows]
    PROVE  /\ [c EXCEPT !.at = x] =
                [at |-> x, spec |-> c.spec, universe |-> c.universe, next |-> c.next,
                 stored |-> c.stored, sources |-> c.sources, rows |-> c.rows]
           /\ [c EXCEPT !.next = x] =
                [at |-> c.at, spec |-> c.spec, universe |-> c.universe, next |-> x,
                 stored |-> c.stored, sources |-> c.sources, rows |-> c.rows]
           /\ [c EXCEPT !.stored = x] =
                [at |-> c.at, spec |-> c.spec, universe |-> c.universe, next |-> c.next,
                 stored |-> x, sources |-> c.sources, rows |-> c.rows]
           /\ [c EXCEPT !.sources = x] =
                [at |-> c.at, spec |-> c.spec, universe |-> c.universe, next |-> c.next,
                 stored |-> c.stored, sources |-> x, rows |-> c.rows]
           /\ [c EXCEPT !.rows = x] =
                [at |-> c.at, spec |-> c.spec, universe |-> c.universe, next |-> c.next,
                 stored |-> c.stored, sources |-> c.sources, rows |-> x]
OBVIOUS

\* Capture: the source is known from now on.
LEMMA CaptureStep ==
    ASSUME IInv, NEW b \in Builders, NEW p \in Providers, Capture(b, p)
    PROVE  IInv'
<1>1. PICK c : c = call[b]
  OBVIOUS
<1>2. PICK u : u = Len(observed) + 1
  OBVIOUS
<1>3. c.at \in {"pair", "third"} /\ InBuild(c) /\ InBatch(c)
  BY <1>1 DEF Capture, Wanted, InBuild, InBatch
<1>4. /\ c.spec \in Specs /\ BuildIsCurrent(c) /\ BatchIsOpen(c)
      /\ \A d \in Builders \ {b} : ~At(d, "idle") => call[d].spec # c.spec
      /\ c = [at |-> c.at, spec |-> c.spec, universe |-> c.universe, next |-> c.next,
              stored |-> c.stored, sources |-> c.sources, rows |-> c.rows]
  BY <1>1, <1>3, BuildFields
<1>5. /\ ObservedIsLog' /\ Grows
      /\ u \in DOMAIN observed' /\ observed'[u].provider = p
      /\ UNCHANGED <<canonical, checkpoint, pointer>>
  BY <1>1, <1>2, ObserveStep DEF Capture, IInv, Grows
<1>6. PICK sources : sources = [c.sources EXCEPT ![p] = u]
  OBVIOUS
<1>7. PICK e : e = [at |-> c.at, spec |-> c.spec, universe |-> c.universe, next |-> c.next,
                    stored |-> c.stored, sources |-> sources, rows |-> c.rows]
  OBVIOUS
<1>8. Moves(b, e)
  <2>1. Moves(b, [c EXCEPT !.sources[p] = u])
    BY <1>1, <1>2 DEF Capture
  <2>2. [c EXCEPT !.sources[p] = u] = [c EXCEPT !.sources = sources]
    BY <1>6
  <2>3. [c EXCEPT !.sources = sources] = e
    BY <1>4, <1>7, Changed
  <2> QED BY <2>1, <2>2, <2>3
<1>9. /\ e.at = c.at /\ e.spec = c.spec /\ e.universe = c.universe /\ e.next = c.next
      /\ e.stored = c.stored /\ e.sources = sources /\ e.rows = c.rows
  BY <1>7
<1>10. BuildIsCurrent(e)'
  <2>1. Known(c.universe, Universe)'
    BY <1>4, <1>5, KnownStays DEF BuildIsCurrent, Universe
  <2> QED BY <1>4, <1>5, <1>9, <2>1 DEF BuildIsCurrent, Visited
<1>11. BatchIsOpen(e)'
  <2>1. DOMAIN sources = Providers
    BY <1>4, <1>6 DEF BatchIsOpen
  <2>2. ASSUME NEW q \in Providers, sources[q] > 0 PROVE Known(sources[q], q)'
    <3>1. CASE q = p
      BY <3>1, <1>5, <1>6, <2>1 DEF Known
    <3>2. CASE q # p
      <4>1. sources[q] = c.sources[q]
        BY <3>2, <1>6, <2>1
      <4>2. Known(c.sources[q], q)
        BY <4>1, <2>2, <1>4 DEF BatchIsOpen
      <4> QED BY <4>1, <4>2, <1>5, KnownStays
    <3> QED BY <3>1, <3>2
  <2> QED BY <1>3, <1>4, <1>9, <2>1, <2>2 DEF BatchIsOpen, Finished, Batch, PartitionIds
<1>12. CallIsSound(e)'
  <2>1. CallShape(e) /\ InBuild(e) /\ InBatch(e)
    BY <1>3, <1>7, <1>9 DEF CallShape, InBuild, InBatch
  <2> QED BY <1>4, <1>9, <1>10, <1>11, <2>1 DEF CallIsSound, CallShape, InBuild, InBatch
<1>13. PartitionsAreSound' /\ CheckpointsAreSound' /\ PublishedOnce'
  BY <1>5, Frame
<1> QED BY <1>4, <1>5, <1>8, <1>9, <1>12, <1>13, BuilderStep

\* SourceFails: a failed source is not used.
LEMMA SourceFailsStep ==
    ASSUME IInv, NEW b \in Builders, NEW p \in Providers, SourceFails(b, p)
    PROVE  IInv'
<1>1. PICK c : c = call[b]
  OBVIOUS
<1>2. c.at \in {"pair", "third"} /\ InBuild(c) /\ InBatch(c)
  BY <1>1 DEF SourceFails, Wanted, InBuild, InBatch
<1>3. /\ c.spec \in Specs /\ BuildIsCurrent(c) /\ BatchIsOpen(c)
      /\ \A d \in Builders \ {b} : ~At(d, "idle") => call[d].spec # c.spec
      /\ c = [at |-> c.at, spec |-> c.spec, universe |-> c.universe, next |-> c.next,
              stored |-> c.stored, sources |-> c.sources, rows |-> c.rows]
  BY <1>1, <1>2, BuildFields
<1>4. PICK sources : sources = [c.sources EXCEPT ![p] = Failed]
  OBVIOUS
<1>5. PICK e : e = [at |-> c.at, spec |-> c.spec, universe |-> c.universe, next |-> c.next,
                    stored |-> c.stored, sources |-> sources, rows |-> c.rows]
  OBVIOUS
<1>6. Moves(b, e)
  <2>1. Moves(b, [c EXCEPT !.sources[p] = Failed])
    BY <1>1 DEF SourceFails
  <2>2. [c EXCEPT !.sources[p] = Failed] = [c EXCEPT !.sources = sources]
    BY <1>4
  <2>3. [c EXCEPT !.sources = sources] = e
    BY <1>3, <1>5, Changed
  <2> QED BY <2>1, <2>2, <2>3
<1>7. /\ e.at = c.at /\ e.spec = c.spec /\ e.universe = c.universe /\ e.next = c.next
      /\ e.stored = c.stored /\ e.sources = sources /\ e.rows = c.rows
  BY <1>5
<1>8. BuildIsCurrent(e)
  BY <1>3, <1>7 DEF BuildIsCurrent, Visited
<1>9. BatchIsOpen(e)
  <2>1. DOMAIN sources = Providers
    BY <1>3, <1>4 DEF BatchIsOpen
  <2>2. ASSUME NEW q \in Providers, sources[q] > 0 PROVE Known(sources[q], q)
    <3>1. q # p
      BY <2>1, <2>2, <1>4 DEF Failed
    <3>2. sources[q] = c.sources[q]
      BY <3>1, <1>4, <2>1
    <3> QED BY <3>2, <2>2, <1>3 DEF BatchIsOpen
  <2> QED BY <1>2, <1>3, <1>7, <2>1, <2>2 DEF BatchIsOpen, Finished, Batch, PartitionIds
<1>10. CallIsSound(e)
  <2>1. CallShape(e)
    BY <1>2, <1>5, <1>7 DEF CallShape, InBuild
  <2> QED BY <1>3, <1>7, <1>8, <1>9, <2>1 DEF CallIsSound
<1> QED BY <1>3, <1>6, <1>7, <1>10, LocalStep DEF SourceFails

\* The partition a build makes is one of its batch.
LEMMA PartitionIsMade ==
    ASSUME NEW c, c.spec \in Specs, BuildIsCurrent(c), c.next \in DOMAIN Selected(c.spec),
           \A p \in Providers : c.sources[p] > 0 => Known(c.sources[p], p),
           PartitionIds(c) \subseteq Batch(c),
           NEW q, q = PartitionOf(c)
    PROVE  IsPartition(q)
<1>1. PICK used : used = {p \in Providers : c.sources[p] > 0}
  OBVIOUS
<1>2. /\ q.spec = c.spec /\ q.universe = c.universe /\ q.batch = Batch(c) /\ q.rows = c.rows
      /\ q.sources = [p \in used |-> c.sources[p]]
  BY <1>1 DEF PartitionOf
<1>3. q.batch \in Range(Selected(c.spec))
  BY <1>2 DEF Range, Batch
<1>4. PartitionIds(q) \subseteq q.batch
  BY <1>2 DEF PartitionIds
<1>5. \A p \in DOMAIN q.sources : Known(q.sources[p], p)
  BY <1>1, <1>2
<1> QED BY <1>2, <1>3, <1>4, <1>5 DEF IsPartition, BuildIsCurrent

\* A build records what it has made of a batch, if anything, and comes to its
\* checkpoint.
LEMMA RecordStep ==
    ASSUME IInv, NEW b \in Builders, NEW c, c = call[b], InBatch(c),
           NEW sources, DOMAIN sources = Providers,
           \A p \in Providers : sources[p] > 0 => Known(sources[p], p),
           NEW rows, InstrumentsOf(DOMAIN rows) \subseteq Batch(c),
           NEW e, e = [at |-> "checkpoint", spec |-> c.spec, universe |-> c.universe,
                       next |-> c.next, stored |-> c.stored, sources |-> sources,
                       rows |-> rows],
           Moves(b, e), RecordPartition(e), UNCHANGED <<observed, checkpoint, pointer>>
    PROVE  IInv'
<1>1. /\ c.spec \in Specs /\ BuildIsCurrent(c) /\ BatchIsOpen(c)
      /\ \A d \in Builders \ {b} : ~At(d, "idle") => call[d].spec # c.spec
  BY BuildFields DEF InBatch, InBuild
<1>2. /\ e.at = "checkpoint" /\ e.spec = c.spec /\ e.universe = c.universe
      /\ e.next = c.next /\ e.stored = c.stored /\ e.sources = sources /\ e.rows = rows
  OBVIOUS
<1>3. BuildIsCurrent(e)
  BY <1>1, <1>2 DEF BuildIsCurrent, Visited
<1>4. PICK q : q = PartitionOf(e)
  OBVIOUS
<1>5. PartitionIds(e) \subseteq Batch(e) /\ Batch(e) = Batch(c)
  BY <1>2 DEF PartitionIds, Batch
<1>6. IsPartition(q)
  <2>1. e.next \in DOMAIN Selected(e.spec)
    BY <1>1, <1>2 DEF BatchIsOpen
  <2> QED BY <1>1, <1>2, <1>3, <1>4, <1>5, <2>1, PartitionIsMade
<1>7. canonical' = (IF rows = Empty THEN canonical ELSE canonical \cup {q})
  BY <1>2, <1>4 DEF RecordPartition
<1>8. Grows /\ ObservedIsLog'
  BY DEF Grows, IInv, ObservedIsLog
<1>9. CheckpointsAreSound' /\ PublishedOnce'
  BY <1>7, <1>8, Frame
<1>10. PartitionsAreSound'
  <2>1. \A r \in canonical' : IsPartition(r)
    BY <1>6, <1>7 DEF IInv, PartitionsAreSound
  <2> QED BY <2>1, <1>8, PartitionStays DEF PartitionsAreSound
<1>11. BuildIsCurrent(e)'
  BY <1>3 DEF BuildIsCurrent, Known, Visited
<1>12. BatchIsOpen(e)'
  <2>1. \A p \in Providers : sources[p] > 0 => Known(sources[p], p)'
    BY <1>8, KnownStays
  <2>2. e.rows # Empty => PartitionOf(e) \in canonical'
    BY <1>2, <1>4, <1>7
  <2>3. PartitionOf(e)' = PartitionOf(e)
    BY DEF PartitionOf
  <2>4. ~Finished(e.stored, Batch(e))
    BY <1>1, <1>2, <1>5 DEF BatchIsOpen
  <2>5. e.next \in DOMAIN Selected(e.spec)
    BY <1>1, <1>2 DEF BatchIsOpen
  <2> QED BY <1>2, <1>5, <2>1, <2>2, <2>3, <2>4, <2>5
          DEF BatchIsOpen, Finished, Batch, PartitionIds
<1>13. CallIsSound(e)'
  <2>1. CallShape(e)
    BY <1>2 DEF CallShape, InBuild
  <2> QED BY <1>1, <1>2, <1>11, <1>12, <2>1 DEF CallIsSound, CallShape, InBuild, InBatch
<1>14. canonical \subseteq canonical'
  BY <1>7
<1> QED BY <1>1, <1>2, <1>8, <1>9, <1>10, <1>13, <1>14, BuilderStep

\* Where a build is does not change its partition.
LEMMA SamePartition ==
    ASSUME NEW c, NEW e, e.universe = c.universe, e.spec = c.spec, e.next = c.next,
           e.sources = c.sources, e.rows = c.rows
    PROVE  /\ PartitionOf(e) = PartitionOf(c)
           /\ RecordPartition(c) => RecordPartition(e)
<1>1. PartitionOf(e) = PartitionOf(c)
  BY DEF PartitionOf, Batch
<1> QED BY <1>1 DEF RecordPartition

\* ReconcilePair: whichever way the build goes on, its rows are of its batch.
LEMMA ReconcilePairStep ==
    ASSUME IInv, NEW b \in Builders, ReconcilePair(b)
    PROVE  IInv'
<1>1. PICK c, answers, rows :
        /\ c = call[b] /\ answers = Answers(c.sources, Pair)
        /\ rows = PairPartition(answers, Batch(c))
  OBVIOUS
<1>2. /\ c.at = "pair" /\ InBuild(c) /\ InBatch(c)
      /\ UNCHANGED <<observed, checkpoint, pointer>>
  BY <1>1 DEF ReconcilePair, At, InBuild, InBatch
<1>3. /\ c.spec \in Specs /\ BuildIsCurrent(c) /\ BatchIsOpen(c)
      /\ \A d \in Builders \ {b} : ~At(d, "idle") => call[d].spec # c.spec
      /\ c = [at |-> c.at, spec |-> c.spec, universe |-> c.universe, next |-> c.next,
              stored |-> c.stored, sources |-> c.sources, rows |-> c.rows]
  BY <1>1, <1>2, BuildFields
<1>4. InstrumentsOf(DOMAIN rows) \subseteq Batch(c)
  BY <1>1, PairKeepsToBatch
<1>5. PICK paired : paired = [c EXCEPT !.rows = rows]
  OBVIOUS
<1>5a. paired = [at |-> "pair", spec |-> c.spec, universe |-> c.universe,
                 next |-> c.next, stored |-> c.stored, sources |-> c.sources,
                 rows |-> rows]
  BY <1>2, <1>3, Changed, <1>5
<1>6. \/ /\ Moves(b, [c EXCEPT !.at = "checkpoint", !.sources = NoSources])
         /\ UNCHANGED canonical
      \/ /\ Moves(b, LookedFor([paired EXCEPT !.at = "third"])) /\ UNCHANGED canonical
         /\ ConflictIds(answers, Batch(c)) # {}
      \/ Moves(b, [paired EXCEPT !.at = "checkpoint"]) /\ RecordPartition(paired)
  BY <1>1, <1>5 DEF ReconcilePair
<1>7. CASE Moves(b, [c EXCEPT !.at = "checkpoint", !.sources = NoSources]) /\ UNCHANGED canonical
  <2>1. PICK d : d = [c EXCEPT !.at = "checkpoint"]
    OBVIOUS
  <2>1a. d = [at |-> "checkpoint", spec |-> c.spec, universe |-> c.universe,
              next |-> c.next, stored |-> c.stored, sources |-> c.sources,
              rows |-> c.rows]
    BY <1>3, Changed, <2>1
  <2>2. PICK e : e = [d EXCEPT !.sources = NoSources]
    OBVIOUS
  <2>2a. e = [at |-> "checkpoint", spec |-> c.spec, universe |-> c.universe,
              next |-> c.next, stored |-> c.stored, sources |-> NoSources,
              rows |-> c.rows]
    BY <2>1a, <2>2
  <2>3. Moves(b, e)
    BY <1>7, <2>1, <2>2
  <2>4. DOMAIN NoSources = Providers /\ \A p \in Providers : ~(NoSources[p] > 0)
    BY DEF NoSources, Unasked
  <2>5. c.rows = Empty /\ PartitionIds(c) \subseteq Batch(c)
    BY <1>2, <1>3 DEF BatchIsOpen
  <2>6. e.rows = Empty
    BY <2>2a, <2>5
  <2>7. RecordPartition(e)
    BY <1>7, <2>6 DEF RecordPartition
  <2> QED BY <1>1, <1>2, <2>2a, <2>3, <2>4, <2>5, <2>7, RecordStep DEF PartitionIds
<1>8. CASE /\ Moves(b, LookedFor([paired EXCEPT !.at = "third"])) /\ UNCHANGED canonical
           /\ ConflictIds(answers, Batch(c)) # {}
  <2>1. PICK d : d = [paired EXCEPT !.at = "third"]
    OBVIOUS
  <2>1a. d = [at |-> "third", spec |-> c.spec, universe |-> c.universe,
              next |-> c.next, stored |-> c.stored, sources |-> c.sources,
              rows |-> rows]
    BY <1>5a, <2>1
  <2>2. PICK l : l = LookedFor(d)
    OBVIOUS
  <2>3. /\ d.at = "third" /\ d.spec = c.spec /\ d.universe = c.universe /\ d.next = c.next
        /\ d.stored = c.stored /\ d.sources = c.sources /\ d.rows = rows
        /\ d = [at |-> d.at, spec |-> d.spec, universe |-> d.universe, next |-> d.next,
                stored |-> d.stored, sources |-> d.sources, rows |-> d.rows]
    BY <2>1a
  <2>4. InBuild(d) /\ \A p \in Providers : d.sources[p] > 0 => Known(d.sources[p], p)
    BY <1>3, <2>3 DEF InBuild, BatchIsOpen
  <2>5. /\ l = [at |-> d.at, spec |-> d.spec, universe |-> d.universe, next |-> d.next,
                stored |-> d.stored, sources |-> l.sources, rows |-> d.rows]
        /\ DOMAIN l.sources = Providers
        /\ \A p \in Providers : l.sources[p] > 0 => Known(l.sources[p], p)
    BY <2>2, <2>3, <2>4, LookedForIsKnown DEF IInv
  <2>6. /\ l = [at |-> l.at, spec |-> l.spec, universe |-> l.universe, next |-> l.next,
                stored |-> l.stored, sources |-> l.sources, rows |-> l.rows]
        /\ l.at = "third" /\ l.spec = c.spec /\ l.universe = c.universe /\ l.next = c.next
        /\ l.stored = c.stored /\ l.rows = rows
    BY <2>3, <2>5
  <2>7. BuildIsCurrent(l)
    BY <1>3, <2>6 DEF BuildIsCurrent, Visited
  <2>8. BatchIsOpen(l)
    <3>1. PartitionIds(l) \subseteq Batch(l) /\ Batch(l) = Batch(c)
      BY <1>4, <2>6 DEF PartitionIds, Batch
    <3> QED BY <1>3, <2>5, <2>6, <3>1 DEF BatchIsOpen
  <2>9. CallIsSound(l)
    <3>1. CallShape(l)
      BY <2>6 DEF CallShape, InBuild
    <3> QED BY <1>3, <2>6, <2>7, <2>8, <3>1 DEF CallIsSound
  <2>10. Moves(b, l)
    BY <1>8, <2>1, <2>2
  <2> QED BY <1>2, <1>3, <1>8, <2>6, <2>9, <2>10, LocalStep
<1>9. CASE Moves(b, [paired EXCEPT !.at = "checkpoint"]) /\ RecordPartition(paired)
  <2>1. PICK e : e = [paired EXCEPT !.at = "checkpoint"]
    OBVIOUS
  <2>1a. e = [at |-> "checkpoint", spec |-> c.spec, universe |-> c.universe,
              next |-> c.next, stored |-> c.stored, sources |-> c.sources,
              rows |-> rows]
    BY <1>5a, <2>1
  <2>2. RecordPartition(e)
    <3>1. /\ e.universe = paired.universe /\ e.spec = paired.spec /\ e.next = paired.next
          /\ e.sources = paired.sources /\ e.rows = paired.rows
      BY <1>5, <2>1
    <3> QED BY <1>9, <3>1, SamePartition
  <2>3. DOMAIN c.sources = Providers
        /\ \A p \in Providers : c.sources[p] > 0 => Known(c.sources[p], p)
    BY <1>3 DEF BatchIsOpen
  <2>4. Moves(b, e)
    BY <1>9, <2>1
  <2> QED BY <1>1, <1>2, <1>4, <2>1a, <2>2, <2>3, <2>4, RecordStep
<1> QED BY <1>6, <1>7, <1>8, <1>9

\* Adjudicate: the rows it chooses are of the batch, and recorded.
LEMMA AdjudicateStep ==
    ASSUME IInv, NEW b \in Builders, Adjudicate(b)
    PROVE  IInv'
<1>1. PICK c : c = call[b]
  OBVIOUS
<1>2. /\ c.at = "third" /\ InBuild(c) /\ InBatch(c)
      /\ UNCHANGED <<observed, checkpoint, pointer>>
  BY <1>1 DEF Adjudicate, At, InBuild, InBatch
<1>3. /\ c.spec \in Specs /\ BuildIsCurrent(c) /\ BatchIsOpen(c)
      /\ c = [at |-> c.at, spec |-> c.spec, universe |-> c.universe, next |-> c.next,
              stored |-> c.stored, sources |-> c.sources, rows |-> c.rows]
  BY <1>1, <1>2, BuildFields
<1>4. PICK rows \in IF c.sources[Adjudicator] = Failed THEN {c.rows}
                    ELSE AdjudicatedPartitions(
                             Answers(c.sources, Providers), Batch(c), Requested(c)) :
          /\ RecordPartition([c EXCEPT !.rows = rows])
          /\ Moves(b, [c EXCEPT !.at = "checkpoint", !.rows = rows])
  BY <1>1 DEF Adjudicate
<1>5. InstrumentsOf(DOMAIN rows) \subseteq Batch(c)
  <2>1. CASE c.sources[Adjudicator] = Failed
    BY <1>3, <1>4, <2>1 DEF BatchIsOpen, PartitionIds
  <2>2. CASE c.sources[Adjudicator] # Failed
    <3>1. Requested(c) \in SUBSET Batch(c)
      BY <1>2, PairKeepsToBatch DEF Requested
    <3>2. PICK asked, answers : asked = Requested(c) /\ answers = Answers(c.sources, Providers)
      OBVIOUS
    <3>3. PICK batch : batch = Batch(c)
      OBVIOUS
    <3>4. rows \in AdjudicatedPartitions(answers, batch, asked) /\ asked \in SUBSET batch
      BY <1>4, <2>2, <3>1, <3>2, <3>3
    <3> QED BY <3>3, <3>4, AdjudicationKeepsToBatch
  <2> QED BY <2>1, <2>2
<1>6. PICK d : d = [c EXCEPT !.at = "checkpoint"]
  OBVIOUS
<1>6a. d = [at |-> "checkpoint", spec |-> c.spec, universe |-> c.universe,
            next |-> c.next, stored |-> c.stored, sources |-> c.sources,
            rows |-> c.rows]
  BY <1>3, Changed, <1>6
<1>7. PICK e : e = [d EXCEPT !.rows = rows]
  OBVIOUS
<1>7a. e = [at |-> "checkpoint", spec |-> c.spec, universe |-> c.universe,
            next |-> c.next, stored |-> c.stored, sources |-> c.sources,
            rows |-> rows]
  BY <1>6a, <1>7
<1>8. Moves(b, e)
  BY <1>4, <1>6, <1>7
<1>9. RecordPartition(e)
  <2>1. PICK f : f = [c EXCEPT !.rows = rows]
    OBVIOUS
  <2>2. f = [at |-> c.at, spec |-> c.spec, universe |-> c.universe, next |-> c.next,
             stored |-> c.stored, sources |-> c.sources, rows |-> rows]
    BY <1>3, <2>1, Changed
  <2>3. /\ e.universe = f.universe /\ e.spec = f.spec /\ e.next = f.next
        /\ e.sources = f.sources /\ e.rows = f.rows
    BY <1>7a, <2>2
  <2> QED BY <1>4, <2>1, <2>3, SamePartition
<1>10. DOMAIN c.sources = Providers
       /\ \A p \in Providers : c.sources[p] > 0 => Known(c.sources[p], p)
  BY <1>3 DEF BatchIsOpen
<1> QED BY <1>1, <1>2, <1>5, <1>7a, <1>8, <1>9, <1>10, RecordStep

\* What a checkpoint says after its batch is written: the batch has its
\* outcome, and the others keep theirs.
Written(c) ==
    [batch \in DOMAIN c.stored \cup {Batch(c)} |->
        IF batch = Batch(c) THEN IF c.rows = Empty THEN {} ELSE {PartitionOf(c)}
        ELSE c.stored[batch]]

\* The checkpoint of its build is the only one a build writes.
LEMMA CheckpointIsWritten ==
    ASSUME IInv, NEW b \in Builders, NEW c, c = call[b], WriteCheckpoint(b)
    PROVE  /\ c.at = "checkpoint" /\ InBuild(c) /\ InBatch(c)
           /\ c.universe \in 1..MaxObserved /\ c.universe \in DOMAIN observed
           /\ checkpoint' = [checkpoint EXCEPT ![<<c.spec, c.universe>>] = Written(c)]
           /\ checkpoint'[<<c.spec, c.universe>>] = Written(c)
           /\ \A key \in DOMAIN checkpoint :
                  key # <<c.spec, c.universe>> => checkpoint'[key] = checkpoint[key]
           /\ DOMAIN checkpoint = Specs \X (1..MaxObserved)
           /\ DOMAIN checkpoint' = DOMAIN checkpoint
           /\ UNCHANGED <<observed, canonical, pointer>>
<1>1. c.at = "checkpoint" /\ InBuild(c) /\ InBatch(c)
  BY DEF WriteCheckpoint, At, InBuild, InBatch
<1>2. c.spec \in Specs /\ Known(c.universe, Universe)
  BY <1>1, BuildFields DEF BuildIsCurrent
<1>3. c.universe \in 1..MaxObserved /\ c.universe \in DOMAIN observed
  BY <1>2, ObservedTimes DEF Known, IInv
<1>4. /\ checkpoint' = [checkpoint EXCEPT ![<<c.spec, c.universe>>] = Written(c)]
      /\ UNCHANGED <<observed, canonical, pointer>>
  BY DEF WriteCheckpoint, Written
<1>5. DOMAIN checkpoint = Specs \X (1..MaxObserved)
  BY DEF IInv, CheckpointsAreSound
<1>6. <<c.spec, c.universe>> \in DOMAIN checkpoint
  BY <1>2, <1>3, <1>5
<1>7. PICK w : w = Written(c)
  OBVIOUS
<1>8. PICK k : k = <<c.spec, c.universe>>
  OBVIOUS
<1>9. checkpoint' = [checkpoint EXCEPT ![k] = w] /\ k \in DOMAIN checkpoint
  BY <1>4, <1>6, <1>7, <1>8
<1>10. checkpoint'[k] = w /\ DOMAIN checkpoint' = DOMAIN checkpoint
       /\ \A key \in DOMAIN checkpoint : key # k => checkpoint'[key] = checkpoint[key]
  BY <1>9
<1> QED BY <1>1, <1>3, <1>4, <1>5, <1>7, <1>8, <1>10

\* WriteCheckpoint: the outcome is recorded before, and the build has come past
\* its batch after.
LEMMA WriteCheckpointStep ==
    ASSUME IInv, NEW b \in Builders, WriteCheckpoint(b)
    PROVE  IInv'
<1>1. PICK c : c = call[b]
  OBVIOUS
<1>2. /\ c.at = "checkpoint" /\ InBuild(c) /\ InBatch(c)
      /\ c.universe \in 1..MaxObserved /\ c.universe \in DOMAIN observed
      /\ checkpoint'[<<c.spec, c.universe>>] = Written(c)
      /\ \A key \in DOMAIN checkpoint :
             key # <<c.spec, c.universe>> => checkpoint'[key] = checkpoint[key]
      /\ DOMAIN checkpoint = Specs \X (1..MaxObserved)
      /\ DOMAIN checkpoint' = DOMAIN checkpoint
      /\ UNCHANGED <<observed, canonical, pointer>>
  BY <1>1, CheckpointIsWritten
<1>2a. checkpoint' = [key \in Specs \X (1..MaxObserved) |-> checkpoint'[key]]
  <2>1. checkpoint' = [checkpoint EXCEPT ![<<c.spec, c.universe>>] = Written(c)]
    BY <1>1, CheckpointIsWritten
  <2> QED BY <1>2, <2>1
<1>3. /\ c.spec \in Specs /\ BuildIsCurrent(c) /\ BatchIsOpen(c)
      /\ \A d \in Builders \ {b} : ~At(d, "idle") => call[d].spec # c.spec
      /\ c = [at |-> c.at, spec |-> c.spec, universe |-> c.universe, next |-> c.next,
              stored |-> c.stored, sources |-> c.sources, rows |-> c.rows]
  BY <1>1, <1>2, BuildFields
<1>4. PICK stored : stored = Written(c)
  OBVIOUS
<1>5. PICK batch : batch = Batch(c)
  OBVIOUS
<1>6. /\ DOMAIN stored = DOMAIN c.stored \cup {batch}
      /\ stored[batch] = (IF c.rows = Empty THEN {} ELSE {PartitionOf(c)})
      /\ \A x \in DOMAIN c.stored : x # batch => stored[x] = c.stored[x]
  BY <1>4, <1>5 DEF Written
<1>7. PICK e : e = [at |-> "batch", spec |-> c.spec, universe |-> c.universe,
                    next |-> c.next + 1, stored |-> stored, sources |-> c.sources,
                    rows |-> c.rows]
  OBVIOUS
<1>8. Moves(b, e)
  <2>1. Moves(b, [c EXCEPT !.at = "batch", !.next = @ + 1, !.stored = stored])
    BY <1>1, <1>4 DEF WriteCheckpoint, Written
  <2>2. PICK d : d = [c EXCEPT !.at = "batch"]
    OBVIOUS
  <2>3. d = [at |-> "batch", spec |-> c.spec, universe |-> c.universe, next |-> c.next,
             stored |-> c.stored, sources |-> c.sources, rows |-> c.rows]
    BY <1>3, <2>2, Changed
  <2>4. PICK f : f = [d EXCEPT !.next = @ + 1]
    OBVIOUS
  <2>5. f = [at |-> "batch", spec |-> c.spec, universe |-> c.universe,
             next |-> c.next + 1, stored |-> c.stored, sources |-> c.sources,
             rows |-> c.rows]
    BY <2>3, <2>4
  <2>6. e = [f EXCEPT !.stored = stored]
    BY <1>7, <2>5
  <2> QED BY <2>1, <2>2, <2>4, <2>6
<1>9. /\ e.at = "batch" /\ e.spec = c.spec /\ e.universe = c.universe
      /\ e.next = c.next + 1 /\ e.stored = stored
  BY <1>7
<1>10. Grows /\ ObservedIsLog'
  BY <1>2 DEF Grows, IInv, ObservedIsLog
<1>11. Visited(e) = Visited(c) \cup {batch}
  <2>1. c.next \in Nat /\ c.next \in DOMAIN Selected(c.spec)
    BY <1>3 DEF BuildIsCurrent, BatchIsOpen
  <2>2. DOMAIN Selected(c.spec) \subseteq Nat
    BY MasterAssumption DEF Selected
  <2>3. \A j \in DOMAIN Selected(c.spec) : j < c.next + 1 <=> j < c.next \/ j = c.next
    BY <2>1, <2>2
  <2> QED BY <1>5, <1>9, <2>1, <2>3 DEF Visited, Batch
<1>12. BuildIsCurrent(e)'
  <2>1. Visited(e)' = Visited(e)
    BY DEF Visited
  <2>2. Visited(e) \subseteq DOMAIN stored /\ (c.spec.refresh => DOMAIN stored \subseteq Visited(e))
    BY <1>3, <1>6, <1>11 DEF BuildIsCurrent
  <2>3. Known(c.universe, Universe)'
    BY <1>3, <1>10, KnownStays DEF BuildIsCurrent, Universe
  <2>4. e.next \in Nat
    BY <1>3, <1>9 DEF BuildIsCurrent
  <2>5. e.stored = checkpoint'[<<e.spec, e.universe>>]
    BY <1>2, <1>4, <1>9
  <2> QED BY <1>9, <2>1, <2>2, <2>3, <2>4, <2>5 DEF BuildIsCurrent
<1>13. CallIsSound(e)'
  <2>1. CallShape(e) /\ ~InBatch(e) /\ e.spec \in Specs
    BY <1>3, <1>7, <1>9 DEF CallShape, InBuild, InBatch
  <2> QED BY <1>12, <2>1 DEF CallIsSound, CallShape, InBuild, InBatch
<1>14. OutcomesAreSound(stored, c.spec, c.universe)
  <2>1. OutcomesAreSound(c.stored, c.spec, c.universe)
    BY <1>2, <1>3 DEF IInv, CheckpointsAreSound, BuildIsCurrent
  <2>2. batch \in Range(Selected(c.spec))
    BY <1>3, <1>5 DEF BatchIsOpen, Range, Batch
  <2>3. DOMAIN stored \subseteq Range(Selected(c.spec))
    BY <1>6, <2>1, <2>2 DEF OutcomesAreSound
  <2>4. ASSUME NEW x \in DOMAIN stored, stored[x] # {}
        PROVE  \E q \in canonical : /\ stored[x] = {q} /\ q.spec = c.spec
                                    /\ q.universe = c.universe /\ q.batch = x
    <3>1. CASE x = batch
      <4>1. c.rows # Empty /\ stored[x] = {PartitionOf(c)}
        BY <1>6, <2>4, <3>1
      <4>2. PartitionOf(c) \in canonical
        BY <1>2, <1>3, <4>1 DEF BatchIsOpen
      <4>3. PICK q : q = PartitionOf(c)
        OBVIOUS
      <4>4. q.spec = c.spec /\ q.universe = c.universe /\ q.batch = x
        BY <4>3, <3>1, <1>5 DEF PartitionOf
      <4> QED BY <4>1, <4>2, <4>3, <4>4
    <3>2. CASE x # batch
      <4>1. x \in DOMAIN c.stored /\ stored[x] = c.stored[x]
        BY <1>6, <3>2
      <4> QED BY <2>1, <2>4, <4>1 DEF OutcomesAreSound
    <3> QED BY <3>1, <3>2
  <2> QED BY <1>2, <2>3, <2>4 DEF OutcomesAreSound
<1>15. CheckpointsAreSound'
  <2>1. ASSUME NEW spec \in Specs, NEW universe \in 1..MaxObserved
        PROVE  OutcomesAreSound(checkpoint[<<spec, universe>>], spec, universe)'
    <3>1. PICK f : f = checkpoint'[<<spec, universe>>]
      OBVIOUS
    <3>2. OutcomesAreSound(f, spec, universe)
      <4>1. CASE <<spec, universe>> = <<c.spec, c.universe>>
        BY <4>1, <3>1, <1>2, <1>4, <1>14
      <4>2. CASE <<spec, universe>> # <<c.spec, c.universe>>
        <5>1. f = checkpoint[<<spec, universe>>]
          BY <4>2, <3>1, <1>2
        <5> QED BY <5>1 DEF IInv, CheckpointsAreSound
      <4> QED BY <4>1, <4>2
    <3>3. OutcomesAreSound(f, spec, universe)'
      BY <3>2, <1>2, <1>10, OutcomesStay
    <3> QED BY <3>1, <3>3
  <2> QED BY <2>1, <1>2a DEF CheckpointsAreSound
<1>16. PartitionsAreSound' /\ PublishedOnce'
  <2>1. PartitionsAreSound'
    BY <1>2, <1>10, PartitionStays DEF IInv, PartitionsAreSound
  <2>2. PublishedOnce'
    BY <1>2 DEF IInv, PublishedOnce, PartitionIds
  <2> QED BY <2>1, <2>2
<1>17. \A d \in Builders \ {b} : InBuild(call[d]) =>
           checkpoint'[<<call[d].spec, call[d].universe>>]
               = checkpoint[<<call[d].spec, call[d].universe>>]
  <2> TAKE d \in Builders \ {b}
  <2> SUFFICES ASSUME InBuild(call[d]) PROVE
           checkpoint'[<<call[d].spec, call[d].universe>>]
               = checkpoint[<<call[d].spec, call[d].universe>>]
    OBVIOUS
  <2>1. ~At(d, "idle") /\ call[d].spec # c.spec
    BY <1>3 DEF InBuild, At
  <2>2. call[d].spec \in Specs /\ Known(call[d].universe, Universe)
    BY BuildFields DEF BuildIsCurrent
  <2>3. call[d].universe \in 1..MaxObserved
    BY <2>2, ObservedTimes DEF Known, IInv
  <2> QED BY <1>2, <2>1, <2>2, <2>3
<1> QED BY <1>2, <1>3, <1>8, <1>9, <1>10, <1>13, <1>15, <1>16, <1>17, BuilderStep

\* A step after which a builder has no build.
LEMMA LeaveStep ==
    ASSUME IInv, NEW b \in Builders, Moves(b, Idle),
           UNCHANGED <<observed, canonical, checkpoint>>, PublishedOnce'
    PROVE  IInv'
<1>1. Grows /\ ObservedIsLog'
  BY DEF Grows, IInv, ObservedIsLog
<1>2. PartitionsAreSound'
  BY <1>1, PartitionStays DEF IInv, PartitionsAreSound
<1>3. CheckpointsAreSound'
  BY <1>1, CheckpointsStay
<1>4. PICK c : c = Idle
  OBVIOUS
<1>5. c.at = "idle" /\ CallIsSound(c)'
  BY <1>4 DEF Idle, CallIsSound, CallShape, InBuild, InBatch
<1> QED BY <1>1, <1>2, <1>3, <1>4, <1>5, BuilderStep

\* What a build publishes.
Results(c) == UNION {c.stored[batch] : batch \in Range(Selected(c.spec))}

\* The results of a build are of its universe, one of a batch at most, and
\* its batches are disjoint.
LEMMA ResultsAreDisjoint ==
    ASSUME IInv, NEW b \in Builders, NEW c, c = call[b], InBuild(c),
           \A k \in DOMAIN Selected(c.spec) : k < c.next
    PROVE  /\ Results(c) \subseteq canonical
           /\ \A q \in Results(c) : \A r \in Results(c) :
                 /\ q.universe = r.universe
                 /\ q # r => PartitionIds(q) \cap PartitionIds(r) = {}
<1>1. c.spec \in Specs /\ BuildIsCurrent(c)
  BY BuildFields
<1>2. OutcomesAreSound(c.stored, c.spec, c.universe)
  <2>1. c.universe \in 1..MaxObserved
    BY <1>1, ObservedTimes DEF IInv, BuildIsCurrent, Known
  <2> QED BY <1>1, <2>1 DEF IInv, CheckpointsAreSound, BuildIsCurrent
<1>3. Range(Selected(c.spec)) \subseteq DOMAIN c.stored
  BY <1>1 DEF BuildIsCurrent, Visited, Range
<1>4. ASSUME NEW q \in Results(c)
      PROVE  \E j \in DOMAIN Selected(c.spec) :
                 /\ q \in canonical /\ q.universe = c.universe
                 /\ q.batch = Selected(c.spec)[j]
                 /\ c.stored[Selected(c.spec)[j]] = {q}
                 /\ PartitionIds(q) \subseteq Selected(c.spec)[j]
  <2>1. PICK batch \in Range(Selected(c.spec)) : q \in c.stored[batch]
    BY DEF Results
  <2>2. PICK j \in DOMAIN Selected(c.spec) : batch = Selected(c.spec)[j]
    BY <2>1 DEF Range
  <2>3. PICK r \in canonical : /\ c.stored[batch] = {r}
                               /\ r.universe = c.universe /\ r.batch = batch
    BY <1>2, <1>3, <2>1 DEF OutcomesAreSound
  <2>4. q = r
    BY <2>1, <2>3
  <2>5. PartitionIds(q) \subseteq q.batch
    BY <2>3, <2>4 DEF IInv, PartitionsAreSound, IsPartition
  <2> QED BY <2>2, <2>3, <2>4, <2>5
<1>5. ASSUME NEW q \in Results(c), NEW r \in Results(c)
      PROVE  /\ q.universe = r.universe
             /\ q # r => PartitionIds(q) \cap PartitionIds(r) = {}
  <2>1. PICK j \in DOMAIN Selected(c.spec) :
            /\ q.universe = c.universe /\ c.stored[Selected(c.spec)[j]] = {q}
            /\ PartitionIds(q) \subseteq Selected(c.spec)[j]
    BY <1>4
  <2>2. PICK k \in DOMAIN Selected(c.spec) :
            /\ r.universe = c.universe /\ c.stored[Selected(c.spec)[k]] = {r}
            /\ PartitionIds(r) \subseteq Selected(c.spec)[k]
    BY <1>4
  <2>3. Selected(c.spec)[j] \cap Selected(c.spec)[k] # {} => j = k
    BY <1>1, BatchesAreDisjoint
  <2>4. j = k => q = r
    BY <2>1, <2>2
  <2> QED BY <2>1, <2>2, <2>3, <2>4
<1> QED BY <1>4, <1>5

\* FinishBuild: what it publishes is its results.
LEMMA FinishBuildStep ==
    ASSUME IInv, NEW b \in Builders, FinishBuild(b)
    PROVE  IInv'
<1>1. PICK c : c = call[b]
  OBVIOUS
<1>2. PICK results : results = Results(c)
  OBVIOUS
<1>3. /\ InBuild(c) /\ \A k \in DOMAIN Selected(c.spec) : k < c.next
      /\ Moves(b, Idle) /\ UNCHANGED <<observed, canonical, checkpoint>>
      /\ pointer' = pointer \/ pointer' = results
  BY <1>1, <1>2 DEF FinishBuild, At, InBuild, Results
<1>4. /\ results \subseteq canonical
      /\ \A q \in results : \A r \in results :
            /\ q.universe = r.universe
            /\ q # r => PartitionIds(q) \cap PartitionIds(r) = {}
  BY <1>1, <1>2, <1>3, ResultsAreDisjoint
<1>5. PublishedOnce'
  <2>1. CASE pointer' = pointer
    BY <1>3, <2>1 DEF IInv, PublishedOnce, PartitionIds
  <2>2. CASE pointer' = results
    BY <1>3, <1>4, <2>2 DEF PublishedOnce, PartitionIds
  <2> QED BY <1>3, <2>1, <2>2
<1> QED BY <1>3, <1>5, LeaveStep

\* Stop: everything but the build is left as it was.
LEMMA StopStep ==
    ASSUME IInv, NEW b \in Builders, Stop(b)
    PROVE  IInv'
<1>1. Moves(b, Idle) /\ UNCHANGED <<observed, canonical, checkpoint, pointer>>
  BY DEF Stop
<1>2. PublishedOnce'
  BY <1>1 DEF IInv, PublishedOnce, PartitionIds
<1> QED BY <1>1, <1>2, LeaveStep

\* A step that leaves the builds alone.
LEMMA OutsideStep ==
    ASSUME IInv, UNCHANGED <<observed, canonical, checkpoint, call>>, PublishedOnce'
    PROVE  IInv'
<1>1. ObservedIsLog'
  BY DEF IInv, ObservedIsLog
<1>2. CallsAreSound'
  <2>1. Grows
    BY DEF Grows
  <2>2. ASSUME NEW b \in Builders PROVE CallIsSound(call[b])'
    <3>1. PICK c : c = call[b]
      OBVIOUS
    <3>2. CallIsSound(c)
      BY <3>1 DEF IInv, CallsAreSound
    <3>3. CallIsSound(c)'
      BY <2>1, <3>2, CallStays
    <3> QED BY <3>1, <3>3
  <2> QED BY <2>2 DEF IInv, CallsAreSound
<1>3. BuildsAreExclusive'
  BY DEF IInv, BuildsAreExclusive, At
<1>4. PartitionsAreSound' /\ CheckpointsAreSound'
  <2>1. PartitionsAreSound'
    BY DEF IInv, PartitionsAreSound, IsPartition, Known, PartitionIds
  <2>2. CheckpointsAreSound'
    BY CheckpointsStay DEF Grows
  <2> QED BY <2>1, <2>2
<1> QED BY <1>1, <1>2, <1>3, <1>4 DEF IInv

\* Assemble: what it publishes is of one universe and does not overlap.
LEMMA AssembleStep ==
    ASSUME IInv, Assemble
    PROVE  IInv'
<1>1. PICK cohort, universe :
          cohort = Cohort(universe) /\ universe = Max(Matching(Universe, {}))
  OBVIOUS
<1>2. PICK chosen \in Latest(cohort) :
          ~Overlapping(Range(chosen)) /\ pointer' = Range(chosen)
  BY <1>1 DEF Assemble
<1>3. UNCHANGED <<observed, canonical, checkpoint, call>>
  BY DEF Assemble
<1>4. Range(chosen) \subseteq cohort
  BY <1>2 DEF Latest, Range
<1>5. \A q \in Range(chosen) : q \in canonical /\ q.universe = universe
  BY <1>1, <1>4 DEF Cohort
<1>6. PublishedOnce'
  BY <1>2, <1>3, <1>5 DEF PublishedOnce, Overlapping, PartitionIds
<1> QED BY <1>3, <1>6, OutsideStep

-----------------------------------------------------------------------------
(* The invariant holds.                                                    *)

\* Nothing has been observed, recorded or published.
LEMMA InitIsSound == Init => IInv
<1> SUFFICES ASSUME Init PROVE IInv
  OBVIOUS
<1>1. ObservedIsLog
  <2>1. observed \in Seq({}) /\ Len(observed) = 0 /\ DOMAIN observed = {}
    BY DEF Init
  <2> QED BY <2>1, MaxObservedAssumption DEF ObservedIsLog
<1>2. CallsAreSound
  BY DEF Init, CallsAreSound, CallIsSound, CallShape, InBuild, InBatch, Idle
<1>3. BuildsAreExclusive
  BY DEF Init, BuildsAreExclusive, At, Idle
<1>4. PartitionsAreSound /\ PublishedOnce
  BY DEF Init, PartitionsAreSound, PublishedOnce
<1>5. CheckpointsAreSound
  <2>1. ASSUME NEW spec \in Specs, NEW universe \in 1..MaxObserved
        PROVE  OutcomesAreSound(checkpoint[<<spec, universe>>], spec, universe)
    <3>1. checkpoint[<<spec, universe>>] = Empty
      BY DEF Init
    <3>2. DOMAIN Empty = {}
      BY DEF Empty
    <3> QED BY <3>1, <3>2 DEF OutcomesAreSound
  <2> QED BY <2>1 DEF Init, CheckpointsAreSound
<1> QED BY <1>1, <1>2, <1>3, <1>4, <1>5 DEF IInv

\* Every step keeps the invariant.
LEMMA NextIsSound == IInv /\ [Next]_vars => IInv'
<1> SUFFICES ASSUME IInv, [Next]_vars PROVE IInv'
  OBVIOUS
<1>1. CASE \E b \in Builders, s \in Specs : Begin(b, s)
  BY <1>1, BeginStep
<1>2. CASE \E b \in Builders : ObserveUniverse(b)
  BY <1>2, UniverseStep
<1>3. CASE \E b \in Builders : OpenBatch(b)
  BY <1>3, OpenBatchStep
<1>4. CASE \E b \in Builders, p \in Providers : Capture(b, p)
  BY <1>4, CaptureStep
<1>5. CASE \E b \in Builders, p \in Providers : SourceFails(b, p)
  BY <1>5, SourceFailsStep
<1>6. CASE \E b \in Builders : ReconcilePair(b)
  BY <1>6, ReconcilePairStep
<1>7. CASE \E b \in Builders : Adjudicate(b)
  BY <1>7, AdjudicateStep
<1>8. CASE \E b \in Builders : WriteCheckpoint(b)
  BY <1>8, WriteCheckpointStep
<1>9. CASE \E b \in Builders : FinishBuild(b)
  BY <1>9, FinishBuildStep
<1>10. CASE \E b \in Builders : Stop(b)
  BY <1>10, StopStep
<1>11. CASE Assemble
  BY <1>11, AssembleStep
<1>12. CASE UNCHANGED vars
  <2>1. PublishedOnce'
    BY <1>12 DEF vars, IInv, PublishedOnce, PartitionIds
  <2> QED BY <1>12, <2>1, OutsideStep DEF vars
<1> QED BY <1>1, <1>2, <1>3, <1>4, <1>5, <1>6, <1>7, <1>8, <1>9, <1>10, <1>11, <1>12
        DEF Next

\* What every build relies on, in every history of builders, crashes and
\* answers: its copy of the checkpoint is the checkpoint, nobody else runs
\* it, and its partitions are recorded before they are checkpointed.
THEOREM InvariantHolds == Spec => []IInv
<1>1. Init => IInv
  BY InitIsSound
<1>2. IInv /\ [Next]_vars => IInv'
  BY NextIsSound
<1> QED BY <1>1, <1>2, PTL DEF Spec

\* Outcomes are of batches of their build, partitions of the batch they name,
\* and every source and universe they name has been observed.
THEOREM TypesAreRight == Spec => []TypeOK
<1>1. IInv => TypeOK
  <2> SUFFICES ASSUME IInv PROVE TypeOK
    OBVIOUS
  <2>1. \A n \in DOMAIN observed : observed[n].provider \in Providers \cup {Universe}
    BY DEF IInv, ObservedIsLog
  <2>2. \A q \in canonical \cup pointer : IsPartition(q)
    BY DEF IInv, PartitionsAreSound, PublishedOnce
  <2>3. ASSUME NEW key \in DOMAIN checkpoint
        PROVE  DOMAIN checkpoint[key] \subseteq Range(Selected(key[1]))
    <3>1. PICK spec \in Specs, universe \in 1..MaxObserved : key = <<spec, universe>>
      BY DEF IInv, CheckpointsAreSound
    <3>2. OutcomesAreSound(checkpoint[key], spec, universe) /\ key[1] = spec
      BY <3>1 DEF IInv, CheckpointsAreSound
    <3> QED BY <3>2 DEF OutcomesAreSound
  <2>4. \A b \in Builders : call[b] = Idle \/ call[b].spec \in Specs
    BY DEF IInv, CallsAreSound, CallIsSound
  <2> QED BY <2>1, <2>2, <2>3, <2>4 DEF TypeOK, IsPartition
<1> QED BY <1>1, InvariantHolds, PTL

\* What is published, by a build of any shape or by an assembly, has been
\* recorded, is of one universe and has no instrument twice.
THEOREM PublicationsAreSingle == Spec => []PublishedOnce
<1>1. IInv => PublishedOnce
  BY DEF IInv
<1> QED BY <1>1, InvariantHolds, PTL

\* A step that writes a checkpoint changes the outcome of one batch, which was
\* not finished.
LEMMA WorkStays ==
    ASSUME IInv, [Next]_vars,
           NEW key \in DOMAIN checkpoint, NEW batch \in DOMAIN checkpoint[key],
           checkpoint[key][batch] # {}
    PROVE  /\ checkpoint[key][batch] \subseteq canonical
           /\ batch \in DOMAIN checkpoint'[key]
           /\ checkpoint'[key][batch] = checkpoint[key][batch]
<1>1. checkpoint[key][batch] \subseteq canonical
  <2>1. PICK spec \in Specs, universe \in 1..MaxObserved : key = <<spec, universe>>
    BY DEF IInv, CheckpointsAreSound
  <2>2. OutcomesAreSound(checkpoint[key], spec, universe)
    BY <2>1 DEF IInv, CheckpointsAreSound
  <2> QED BY <2>2 DEF OutcomesAreSound
<1>2. CASE UNCHANGED checkpoint
  BY <1>1, <1>2
<1>3. CASE \E b \in Builders : WriteCheckpoint(b)
  <2>1. PICK b \in Builders : WriteCheckpoint(b)
    BY <1>3
  <2>2. PICK c : c = call[b]
    OBVIOUS
  <2>3. /\ InBuild(c) /\ InBatch(c)
        /\ checkpoint'[<<c.spec, c.universe>>] = Written(c)
        /\ key # <<c.spec, c.universe>> => checkpoint'[key] = checkpoint[key]
    BY <2>1, <2>2, CheckpointIsWritten
  <2>4. CASE key = <<c.spec, c.universe>>
    <3>1. checkpoint[key] = c.stored /\ ~Finished(c.stored, Batch(c))
      BY <2>2, <2>3, <2>4, BuildFields DEF BuildIsCurrent, BatchIsOpen
    <3>2. batch # Batch(c) /\ batch \in DOMAIN c.stored
      BY <3>1 DEF Finished
    <3>3. batch \in DOMAIN Written(c) /\ Written(c)[batch] = c.stored[batch]
      BY <3>2 DEF Written
    <3> QED BY <1>1, <2>3, <2>4, <3>1, <3>3
  <2> QED BY <1>1, <2>3, <2>4
<1> QED
  BY <1>2, <1>3 DEF Next, vars, Begin, LookForUniverse, ObserveUniverse, OpenBatch, Capture,
     SourceFails, ReconcilePair, Adjudicate, FinishBuild, Stop, Assemble

\* Finished work is never lost: neither a crash nor another build, of any
\* shape, changes the outcome of a batch that has one, or names a partition
\* that is not recorded.
THEOREM FinishedWorkStays == Spec => FinishedBatchesStay
<1>1. IInv /\ [Next]_vars =>
        [\A key \in DOMAIN checkpoint : \A batch \in DOMAIN checkpoint[key] :
            checkpoint[key][batch] # {} =>
                /\ checkpoint[key][batch] \subseteq canonical
                /\ batch \in DOMAIN checkpoint'[key]
                /\ checkpoint'[key][batch] = checkpoint[key][batch]]_vars
  BY WorkStays
<1> QED BY <1>1, InvariantHolds, PTL DEF Spec, FinishedBatchesStay

=============================================================================
