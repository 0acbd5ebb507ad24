---------------------------- MODULE HistoryBuild ----------------------------
(***************************************************************************)
(* Building a database of history: HistoryDatabaseBuilder                   *)
(* (fundlab/marketdata/history.py).  Builders are processes that run        *)
(* builds; a build looks at the universe, and for each of its batches       *)
(* captures two sources, asks a third about what they disagree on, records  *)
(* the partition they agree on and then writes its checkpoint.  Any of them *)
(* may stop between two steps.  An assembly joins the partitions that the   *)
(* builds over one universe recorded.                                       *)
(*                                                                         *)
(* The dates, exchanges and asset types are the same in every build; a      *)
(* cohort is then the observation of the universe it is over.  Observations *)
(* are numbered in the order of their times.                                *)
(***************************************************************************)
EXTENDS HistoryReconciliation, FiniteSetsExt, Functions, Sequences

CONSTANTS
    Builders,
    Master,         \* the eligible instruments, in their order
    Specs,          \* records [size, count, index, refresh, publish]
    Histories,      \* <<provider, instrument>> -> what it may answer: the rows
                    \* of the sessions it has, a function
    Unreliable,     \* the providers that may fail
    MaxObserved     \* bound: observations captured

\* What HistoryBuildSpec.__post_init__ accepts.
IsValid(spec) ==
    /\ spec.size \in 1..100
    /\ spec.count \in 1..16 /\ spec.index \in 0..(spec.count - 1)
    /\ spec.publish => spec.count = 1

ASSUME SpecsAreValid == \A s \in Specs : IsValid(s)

\* The instrument table of an observation has one row an instrument.
ASSUME MasterAssumption ==
    /\ DOMAIN Master = 1..Len(Master) /\ Len(Master) \in Nat
    /\ \A m, n \in DOMAIN Master : Master[m] = Master[n] => m = n

\* What a source answers are numbers.
ASSUME HistoriesAssumption ==
    \A p \in {Primary, Secondary, Adjudicator}, n \in DOMAIN Master :
        \A history \in Histories[<<p, Master[n]>>] : \A session \in DOMAIN history :
            history[session].price \in Int /\ history[session].volume \in Int

ASSUME MaxObservedAssumption == MaxObserved \in Nat

VARIABLES
    observed,       \* the source observations, a sequence
    canonical,      \* the partitions recorded
    checkpoint,     \* <<spec, universe>> -> batch -> its partition, or {}
    pointer,        \* the partitions of the snapshot published last
    call            \* builder -> its build

vars == <<observed, canonical, checkpoint, pointer, call>>

Providers == Pair \cup {Adjudicator}
Universe == "universe"

\* What a build knows of a source.
Unasked == 0
Asked == -1
Failed == -2

NoSources == [p \in Providers |-> Unasked]
Idle == [at |-> "idle"]
Empty == [x \in {} |-> 0]

-----------------------------------------------------------------------------
(* Batches.                                                                *)

Chunk(size, ordinal) ==
    {Master[n] : n \in {m \in DOMAIN Master : (m - 1) \div size = ordinal}}

\* The batches of a shard, in order: every count-th there is, from index on.
Selected(spec) ==
    LET ordinal(k) == spec.index + (k - 1) * spec.count
    IN  [k \in {j \in DOMAIN Master : Chunk(spec.size, ordinal(j)) # {}} |->
            Chunk(spec.size, ordinal(k))]

\* A mutant: the shard is forgotten.
UnshardedBatch(c) == Chunk(c.spec.size, c.next - 1)

Batch(c) == Selected(c.spec)[c.next]

-----------------------------------------------------------------------------
(* Observations.                                                           *)

\* matching_observations: same provider and same request.
Matching(provider, ids) ==
    {n \in DOMAIN observed :
        observed[n].provider = provider /\ observed[n].ids = ids}

AnswersOf(provider, ids) ==
    {[k \in UNION {{i} \X DOMAIN history[i] : i \in ids} |-> history[k[1]][k[2]]] :
        history \in {f \in [ids -> UNION {Histories[<<provider, i>>] : i \in ids}] :
                        \A i \in ids : f[i] \in Histories[<<provider, i>>]}}

Observe(provider, ids, answer) ==
    /\ Len(observed) < MaxObserved
    /\ observed' = Append(observed, [provider |-> provider, ids |-> ids, answer |-> answer])

\* The answers a build reconciles.
Answers(sources, providers) ==
    [p \in providers |-> observed[sources[p]].answer]

PartitionIds(partition) == InstrumentsOf(DOMAIN partition.rows)

\* A partition's identity is its content; its time is its last source's.
PartitionOf(c) ==
    LET used == {p \in Providers : c.sources[p] > 0}
    IN  [universe |-> c.universe, spec |-> c.spec, batch |-> Batch(c), rows |-> c.rows,
         sources |-> [p \in used |-> c.sources[p]],
         time |-> Max({c.universe} \cup {c.sources[p] : p \in used})]

-----------------------------------------------------------------------------
(* The steps of a build.                                                   *)

Moves(b, c) == call' = [call EXCEPT ![b] = c]
At(b, place) == call[b].at = place

Running == {call[b].spec : b \in {x \in Builders : ~At(x, "idle")}}

\* The build over one universe, with the checkpoint it reads.
Opened(spec, universe) ==
    [at |-> "batch", spec |-> spec, universe |-> universe, next |-> 1,
     stored |-> checkpoint[<<spec, universe>>], sources |-> NoSources, rows |-> Empty]

\* The latest universe is used again, unless the build refreshes.
LookForUniverse(b, spec) ==
    /\ At(b, "idle")
    /\ Moves(b, IF Matching(Universe, {}) = {} \/ spec.refresh
                THEN [at |-> "universe", spec |-> spec]
                ELSE Opened(spec, Max(Matching(Universe, {}))))
    /\ UNCHANGED <<observed, canonical, checkpoint, pointer>>

\* A mutant: nothing keeps two identical builds apart.
BeginUnlocked(b, spec) == LookForUniverse(b, spec)

\* _exclusive_build_lock: an identical build that is running refuses this one.
Begin(b, spec) == spec \notin Running /\ LookForUniverse(b, spec)

ObserveUniverse(b) ==
    /\ At(b, "universe")
    /\ Observe(Universe, {}, Empty)
    /\ Moves(b, Opened(call[b].spec, Len(observed) + 1))
    /\ UNCHANGED <<canonical, checkpoint, pointer>>

\* _restore_batch: an outcome with a partition is final, any other is retried.
Restorable(c) ==
    /\ Batch(c) \in DOMAIN c.stored
    /\ c.stored[Batch(c)] # {}
    /\ c.stored[Batch(c)] \subseteq canonical
    /\ ~c.spec.refresh

\* What a build waits for: who it asks, and about which instruments.
Wanted(c) ==
    IF c.at = "pair" THEN Pair ELSE IF c.at = "third" THEN {Adjudicator} ELSE {}

Requested(c) ==
    IF c.at = "pair" THEN Batch(c) ELSE ConflictIds(Answers(c.sources, Pair), Batch(c))

\* _capture_exact: the latest observation of the same request is used again,
\* unless the build refreshes; else the source is asked.
LookedFor(c) ==
    [c EXCEPT !.sources = [p \in Providers |->
        IF p \notin Wanted(c) THEN c.sources[p]
        ELSE IF Matching(p, Requested(c)) = {} \/ c.spec.refresh THEN Asked
        ELSE Max(Matching(p, Requested(c)))]]

OpenBatch(b) ==
    LET c == call[b]
    IN  /\ At(b, "batch")
        /\ c.next \in DOMAIN Selected(c.spec)
        /\ Moves(b, IF Restorable(c)
                    THEN [c EXCEPT !.next = @ + 1]
                    ELSE LookedFor([c EXCEPT !.at = "pair", !.sources = NoSources,
                                             !.rows = Empty]))
        /\ UNCHANGED <<observed, canonical, checkpoint, pointer>>

Capture(b, p) ==
    LET c == call[b]
    IN  /\ ~At(b, "idle") /\ p \in Wanted(c) /\ c.sources[p] = Asked
        /\ \E answer \in AnswersOf(p, Requested(c)) : Observe(p, Requested(c), answer)
        /\ Moves(b, [c EXCEPT !.sources[p] = Len(observed) + 1])
        /\ UNCHANGED <<canonical, checkpoint, pointer>>

SourceFails(b, p) ==
    LET c == call[b]
    IN  /\ ~At(b, "idle") /\ p \in Wanted(c) \cap Unreliable /\ c.sources[p] = Asked
        /\ Moves(b, [c EXCEPT !.sources[p] = Failed])
        /\ UNCHANGED <<observed, canonical, checkpoint, pointer>>

\* A partition without rows is not recorded.
RecordPartition(c) ==
    canonical' = IF c.rows = Empty THEN canonical ELSE canonical \cup {PartitionOf(c)}

\* Both of the pair have answered or failed.
ReconcilePair(b) ==
    LET c == call[b]
        answers == Answers(c.sources, Pair)
        paired == [c EXCEPT !.rows = PairPartition(answers, Batch(c))]
    IN  /\ At(b, "pair")
        /\ \A p \in Pair : c.sources[p] # Asked
        /\ IF \E p \in Pair : c.sources[p] = Failed
           THEN Moves(b, [c EXCEPT !.at = "checkpoint", !.sources = NoSources])
                /\ UNCHANGED canonical
           ELSE IF ConflictIds(answers, Batch(c)) # {}
           THEN Moves(b, LookedFor([paired EXCEPT !.at = "third"])) /\ UNCHANGED canonical
           ELSE Moves(b, [paired EXCEPT !.at = "checkpoint"]) /\ RecordPartition(paired)
        /\ UNCHANGED <<observed, checkpoint, pointer>>

\* The third source has answered, or has failed and leaves the exclusions.
Adjudicate(b) ==
    LET c == call[b]
    IN  /\ At(b, "third")
        /\ c.sources[Adjudicator] # Asked
        /\ \E rows \in IF c.sources[Adjudicator] = Failed THEN {c.rows}
                       ELSE AdjudicatedPartitions(
                                Answers(c.sources, Providers), Batch(c), Requested(c)) :
              /\ RecordPartition([c EXCEPT !.rows = rows])
              /\ Moves(b, [c EXCEPT !.at = "checkpoint", !.rows = rows])
        /\ UNCHANGED <<observed, checkpoint, pointer>>

\* The checkpoint is replaced whole, by what this build read and added.
WriteCheckpoint(b) ==
    LET c == call[b]
        made == IF c.rows = Empty THEN {} ELSE {PartitionOf(c)}
        stored == [batch \in DOMAIN c.stored \cup {Batch(c)} |->
                      IF batch = Batch(c) THEN made ELSE c.stored[batch]]
    IN  /\ At(b, "checkpoint")
        /\ checkpoint' = [checkpoint EXCEPT ![<<c.spec, c.universe>>] = stored]
        /\ Moves(b, [c EXCEPT !.at = "batch", !.next = @ + 1, !.stored = stored])
        /\ UNCHANGED <<observed, canonical, pointer>>

\* The snapshot of the build's partitions, restored or made, if there are any.
FinishBuild(b) ==
    LET c == call[b]
        results == UNION {c.stored[batch] : batch \in Range(Selected(c.spec))}
    IN  /\ At(b, "batch")
        /\ \A k \in DOMAIN Selected(c.spec) : k < c.next
        /\ pointer' = IF c.spec.publish /\ results # {} THEN results ELSE pointer
        /\ Moves(b, Idle)
        /\ UNCHANGED <<observed, canonical, checkpoint>>

\* The process is killed, or the universe cannot be read: its lock is free.
Stop(b) ==
    /\ ~At(b, "idle")
    /\ Moves(b, Idle)
    /\ UNCHANGED <<observed, canonical, checkpoint, pointer>>

-----------------------------------------------------------------------------
(* Assembling.                                                             *)

Cohort(universe) == {q \in canonical : q.universe = universe}

\* Of the partitions of the same instruments the latest; of those of the same
\* time the digest decides.
Latest(partitions) ==
    LET ids == {PartitionIds(q) : q \in partitions}
        latest(S) == {q \in partitions : PartitionIds(q) = S
                        /\ \A r \in partitions : PartitionIds(r) = S => r.time <= q.time}
    IN  {f \in [ids -> partitions] : \A S \in ids : f[S] \in latest(S)}

Overlapping(partitions) ==
    \E q, r \in partitions : q # r /\ PartitionIds(q) \cap PartitionIds(r) # {}

\* A mutant: an instrument of two partitions is taken from both.
AssembleOverlapping ==
    \E chosen \in Latest(Cohort(Max(Matching(Universe, {})))) :
        /\ Range(chosen) # {}
        /\ pointer' = Range(chosen)
        /\ UNCHANGED <<observed, canonical, checkpoint, call>>

\* assemble over the latest universe; any overlap leaves no snapshot.
Assemble ==
    /\ Matching(Universe, {}) # {}
    /\ \E chosen \in Latest(Cohort(Max(Matching(Universe, {})))) :
        /\ Range(chosen) # {}
        /\ ~Overlapping(Range(chosen))
        /\ pointer' = Range(chosen)
    /\ UNCHANGED <<observed, canonical, checkpoint, call>>

-----------------------------------------------------------------------------
Init ==
    /\ observed = <<>>
    /\ canonical = {}
    /\ checkpoint = [key \in Specs \X (1..MaxObserved) |-> Empty]
    /\ pointer = {}
    /\ call = [b \in Builders |-> Idle]

Next ==
    \/ \E b \in Builders, s \in Specs : Begin(b, s)
    \/ \E b \in Builders : ObserveUniverse(b)
    \/ \E b \in Builders : OpenBatch(b)
    \/ \E b \in Builders, p \in Providers : Capture(b, p)
    \/ \E b \in Builders, p \in Providers : SourceFails(b, p)
    \/ \E b \in Builders : ReconcilePair(b)
    \/ \E b \in Builders : Adjudicate(b)
    \/ \E b \in Builders : WriteCheckpoint(b)
    \/ \E b \in Builders : FinishBuild(b)
    \/ \E b \in Builders : Stop(b)
    \/ Assemble

Spec == Init /\ [][Next]_vars

-----------------------------------------------------------------------------
(* Properties.                                                             *)

\* The variables are what a build makes of them: an outcome is about a batch
\* of its build, and every source and universe it names has been observed.
Known(n, p) == n \in DOMAIN observed /\ observed[n].provider = p

TypeOK ==
    /\ \A n \in DOMAIN observed : observed[n].provider \in Providers \cup {Universe}
    /\ \A q \in canonical \cup pointer :
          /\ q.spec \in Specs /\ q.batch \in Range(Selected(q.spec))
          /\ PartitionIds(q) \subseteq q.batch
          /\ Known(q.universe, Universe)
          /\ \A p \in DOMAIN q.sources : Known(q.sources[p], p)
    /\ \A key \in DOMAIN checkpoint :
          DOMAIN checkpoint[key] \subseteq Range(Selected(key[1]))
    /\ \A b \in Builders : call[b] = Idle \/ call[b].spec \in Specs

\* A row of a partition is backed by sources of two backends that the
\* partition names: within the tolerance where the pair agreed, and with the
\* same price and number of lots where a third source was asked about the
\* instrument ("At least two independent backends agree").
AskedAbout(q) ==
    IF Adjudicator \in DOMAIN q.sources THEN observed[q.sources[Adjudicator]].ids ELSE {}

Supports(answer, k, field, value, exactly) ==
    /\ k \in DOMAIN answer
    /\ ~answer[k].suspended
    /\ IF exactly THEN ExactKey(answer[k][field], field) = ExactKey(value, field)
       ELSE Distance(answer[k][field], value) <= Tolerance

RowsAreCorroborated ==
    \A q \in canonical : \A k \in DOMAIN q.rows : \A field \in Fields :
        \E p, r \in DOMAIN q.sources :
            /\ Backend[p] # Backend[r]
            /\ \A provider \in {p, r} :
                  Supports(observed[q.sources[provider]].answer, k, field,
                           q.rows[k][field], k[1] \in AskedAbout(q))

\* A session with turnover in a source of the partition, of an instrument the
\* partition includes, is in the partition: another source's mark of
\* suspension does not hide it ("A row with real turnover is never hidden").
NoTradeIsHidden ==
    \A q \in canonical : \A p \in DOMAIN q.sources :
        LET answer == observed[q.sources[p]].answer
        IN  \A k \in DOMAIN answer :
                (k[1] \in PartitionIds(q) /\ ~answer[k].suspended /\ answer[k].volume > 0)
                    => k \in DOMAIN q.rows

\* The batch that a checkpoint marks as finished stays so, with the partition
\* it names, which has been recorded: neither a crash nor another build loses
\* finished work.
FinishedBatchesStay ==
    [][\A key \in DOMAIN checkpoint : \A batch \in DOMAIN checkpoint[key] :
          checkpoint[key][batch] # {} =>
              /\ checkpoint[key][batch] \subseteq canonical
              /\ batch \in DOMAIN checkpoint'[key]
              /\ checkpoint'[key][batch] = checkpoint[key][batch]]_vars

\* What is published, by a build or an assembly, has been recorded, is of one
\* universe and has no instrument twice, whatever builds of other shapes left
\* in that universe.
PublishedOnce ==
    /\ pointer \subseteq canonical
    /\ \A q, r \in pointer :
          /\ q.universe = r.universe
          /\ q # r => PartitionIds(q) \cap PartitionIds(r) = {}
=============================================================================
