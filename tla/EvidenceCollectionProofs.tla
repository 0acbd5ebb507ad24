---------------------- MODULE EvidenceCollectionProofs ----------------------
(***************************************************************************)
(* Proofs about the collectors of evidence: what they record, resume from   *)
(* and report rests on whole answers, and nothing answered is asked again.  *)
(***************************************************************************)
EXTENDS EvidenceCollection, FiniteSetTheorems, WellFoundedInduction, TLAPS

-----------------------------------------------------------------------------
(* Observations.                                                           *)

\* A bounded set of numbers that is not empty has a largest one.
LEMMA LargestExists ==
    ASSUME NEW S \in SUBSET Nat, NEW n \in Nat, \A x \in S : x <= n, S # {}
    PROVE  \E x \in S : \A y \in S : y <= x
<1> DEFINE Gap == {n - x : x \in S}
<1>1. Gap \subseteq Nat /\ Gap # {}
  <2>1. \A x \in S : n - x \in Nat
    OBVIOUS
  <2> QED BY <2>1, Zenon
<1>2. PICK g \in Gap : \A h \in Gap : ~(<<h, g>> \in OpToRel(<, Nat))
  <2> HIDE DEF Gap
  <2> QED BY <1>1, NatLessThanWellFounded, WFMin
<1>3. \A h \in Gap : ~(h < g)
  BY <1>1, <1>2 DEF OpToRel
<1>4. PICK x \in S : g = n - x
  OBVIOUS
<1>5. \A y \in S : y <= x
  <2> TAKE y \in S
  <2>1. n - y \in Gap
    OBVIOUS
  <2>2. ~(n - y < n - x)
    BY <2>1, <1>3, <1>4
  <2> QED BY <2>2
<1> QED BY <1>5

\* Observations are finitely many and known by their times.
Observations(O) ==
    /\ IsFiniteSet(O)
    /\ \A o \in O : o.time \in 1..Cardinality(O)
    /\ \A o, p \in O : o.time = p.time => o = p

\* Evidence all of which is answered in the observations O.
AnsweredIn(O, e) ==
    \A i \in DOMAIN e : \E o \in O :
        o.time = e[i] /\ i \in DOMAIN o.answers /\ o.answers[i] = "whole"

Batched(O, n, e) == DOMAIN e = Batches[n] /\ AnsweredIn(O, e)

\* A function of the batches to the evidence of each, if there is any.
BatchWise(O, f) ==
    /\ f = [n \in DOMAIN Batches |-> f[n]]
    /\ \A n \in DOMAIN Batches : \A e \in f[n] : Batched(O, n, e)

\* The latest time of some observations is one of their times.
LEMMA LatestIsOne ==
    ASSUME NEW O, Observations(O), NEW R \in SUBSET O, NEW i, TimesOf(R, i) # {}
    PROVE  Latest(TimesOf(R, i)) \in TimesOf(R, i)
<1>1. Cardinality(O) \in Nat
  BY FS_CardinalityType DEF Observations
<1>2. TimesOf(R, i) \subseteq Nat /\ \A x \in TimesOf(R, i) : x <= Cardinality(O)
  BY <1>1 DEF TimesOf, Observations
<1>3. \E x \in TimesOf(R, i) : \A y \in TimesOf(R, i) : y <= x
  BY <1>1, <1>2, LargestExists
<1> QED BY <1>3 DEF Latest

\* One more observation.
LEMMA OneMore ==
    ASSUME NEW O, Observations(O), NEW answers
    PROVE  LET new == [time |-> Cardinality(O) + 1, answers |-> answers]
           IN  /\ new \notin O
               /\ Observations(O \cup {new})
               /\ Cardinality(O \cup {new}) = Cardinality(O) + 1
<1> DEFINE new == [time |-> Cardinality(O) + 1, answers |-> answers]
<1>1. Cardinality(O) \in Nat
  BY FS_CardinalityType DEF Observations
<1>2. new \notin O
  BY <1>1 DEF Observations
<1>3. /\ IsFiniteSet(O \cup {new})
      /\ Cardinality(O \cup {new}) = Cardinality(O) + 1
  BY <1>2, FS_AddElement DEF Observations
<1>4. \A o \in O \cup {new} : o.time \in 1..(Cardinality(O) + 1)
  <2>1. new.time = Cardinality(O) + 1
    OBVIOUS
  <2>2. \A o \in O : o.time \in 1..Cardinality(O)
    BY DEF Observations
  <2> HIDE DEF new
  <2> QED BY <1>1, <2>1, <2>2
<1>5. \A o, p \in O \cup {new} : o.time = p.time => o = p
  <2>1. new.time = Cardinality(O) + 1
    OBVIOUS
  <2>2. \A o \in O : o.time \in 1..Cardinality(O)
    BY DEF Observations
  <2>3. \A o, p \in O : o.time = p.time => o = p
    BY DEF Observations
  <2> HIDE DEF new
  <2> QED BY <1>1, <2>1, <2>2, <2>3
<1> HIDE DEF new
<1>6. Observations(O \cup {new})
  BY <1>3, <1>4, <1>5 DEF Observations
<1> QED BY <1>2, <1>3, <1>6 DEF new

-----------------------------------------------------------------------------
(* Calls.                                                                  *)

NewSince(k, e) == k.refresh => \A i \in DOMAIN e : e[i] > k.began

\* What a call keeps in memory.
CallFields == {"stage", "refresh", "began", "at", "round", "completed", "raw",
               "recorded", "selected", "evidence", "kept"}
IsCall(k) == k = [x \in CallFields |-> k[x]]

\* What a call holds is answered, of its batch and, for a refresh, new; what
\* it has seen since it began is about the batches it has come to.
CallIsSound(O, k) ==
    /\ IsCall(k)
    /\ k.stage \in {"batch", "ask", "keep"}
    /\ k.at \in Nat
    /\ k.stage # "batch" => k.at \in DOMAIN Batches
    /\ k.began \in 0..Cardinality(O)
    /\ k.raw \subseteq O
    /\ \A o \in k.raw : o.time > k.began =>
          \E m \in DOMAIN Batches : /\ m <= k.at /\ DOMAIN o.answers \subseteq Batches[m]
                                    /\ k.stage = "batch" => m < k.at
    /\ \A e \in k.recorded : AnsweredIn(O, e)
    /\ BatchWise(O, k.completed)
    /\ BatchWise(O, k.kept)
    /\ \A n \in DOMAIN Batches : \A e \in k.kept[n] : NewSince(k, e)
    /\ k.stage = "ask" => /\ DOMAIN k.selected \subseteq Batches[k.at]
                          /\ AnsweredIn(O, k.selected) /\ NewSince(k, k.selected)
    /\ k.stage = "keep" => Batched(O, k.at, k.evidence) /\ NewSince(k, k.evidence)

\* Every whole answer a call may use for its batch is selected.
SelectsAll(k) ==
    \A i \in Batches[k.at], o \in k.raw :
        /\ i \in DOMAIN o.answers /\ o.answers[i] = "whole"
        /\ k.refresh => o.time > k.began
        => i \in DOMAIN k.selected

CollectionInv ==
    /\ Observations(observed)
    /\ \A e \in canonical : AnsweredIn(observed, e)
    /\ BatchWise(observed, checkpoint)
    /\ call = [c \in Collectors |-> call[c]]
    /\ \A c \in Collectors : Running(c) => CallIsSound(observed, call[c])
    /\ \A c \in Collectors : kind = "actions" /\ call[c].stage = "ask" => SelectsAll(call[c])

\* What is sound stays so when more is observed.
LEMMA MoreIsAnswered ==
    ASSUME NEW O, NEW P, O \subseteq P, NEW e, AnsweredIn(O, e)
    PROVE  AnsweredIn(P, e)
BY DEF AnsweredIn

\* ... and what is batch-wise stays so ...
LEMMA MoreIsBatched ==
    ASSUME NEW O, NEW P, O \subseteq P, NEW f, BatchWise(O, f)
    PROVE  BatchWise(P, f)
BY MoreIsAnswered DEF BatchWise, Batched

\* ... and what a call has so far stays sound.
LEMMA MoreIsSound ==
    ASSUME NEW O, NEW P, O \subseteq P, Observations(O), Observations(P),
           Cardinality(O) <= Cardinality(P), NEW k, CallIsSound(O, k)
    PROVE  CallIsSound(P, k)
<1>1. Cardinality(O) \in Nat /\ Cardinality(P) \in Nat
  BY FS_CardinalityType DEF Observations
<1>2. k.began \in 0..Cardinality(P)
  BY <1>1 DEF CallIsSound
<1>3. /\ k.raw \subseteq P
      /\ BatchWise(P, k.completed)
      /\ BatchWise(P, k.kept)
      /\ \A e \in k.recorded : AnsweredIn(P, e)
  BY MoreIsBatched, MoreIsAnswered DEF CallIsSound
<1>4. /\ k.stage = "ask" => AnsweredIn(P, k.selected)
      /\ k.stage = "keep" => Batched(P, k.at, k.evidence)
  BY MoreIsAnswered DEF CallIsSound, Batched
<1> QED BY <1>2, <1>3, <1>4 DEF CallIsSound

\* A call that keeps the evidence of its batch.
LEMMA KeepIsSound ==
    ASSUME NEW O, NEW k, CallIsSound(O, k), k.at \in DOMAIN Batches,
           NEW e, Batched(O, k.at, e), NewSince(k, e)
    PROVE  CallIsSound(O, [k EXCEPT !.stage = "keep", !.evidence = e])
<1> DEFINE l == [k EXCEPT !.stage = "keep", !.evidence = e]
<1>1. /\ IsCall(l)
      /\ l.stage = "keep" /\ l.evidence = e
      /\ l.refresh = k.refresh /\ l.began = k.began /\ l.at = k.at /\ l.raw = k.raw
      /\ l.completed = k.completed /\ l.recorded = k.recorded /\ l.kept = k.kept
  <2>1. IsCall(k)
    BY DEF CallIsSound
  <2> QED BY <2>1 DEF IsCall, CallFields
<1> HIDE DEF l
<1>2. \A o \in l.raw : o.time > l.began =>
          \E m \in DOMAIN Batches : m <= l.at /\ DOMAIN o.answers \subseteq Batches[m]
  BY <1>1 DEF CallIsSound
<1>3. CallIsSound(O, l)
  BY <1>1, <1>2 DEF CallIsSound, NewSince
<1> QED BY <1>3 DEF l

\* A call that goes on to the next batch, with what it found of this one.
LEMMA AdvanceIsSound ==
    ASSUME NEW O, NEW k, CallIsSound(O, k), k.at \in DOMAIN Batches,
           NEW S, \A e \in S : Batched(O, k.at, e) /\ NewSince(k, e),
           NEW l, IsCall(l), l.stage = "batch", l.at = k.at + 1, l.refresh = k.refresh,
           l.began = k.began, l.raw = k.raw, l.recorded = k.recorded,
           BatchWise(O, l.completed), l.kept = [k.kept EXCEPT ![k.at] = S]
    PROVE  CallIsSound(O, l)
<1>1. /\ l.kept = [n \in DOMAIN Batches |-> l.kept[n]]
      /\ \A n \in DOMAIN Batches : l.kept[n] = IF n = k.at THEN S ELSE k.kept[n]
  <2>1. k.kept = [n \in DOMAIN Batches |-> k.kept[n]]
    BY DEF CallIsSound, BatchWise
  <2> QED BY <2>1
<1>2. BatchWise(O, l.kept)
  BY <1>1 DEF CallIsSound, BatchWise
<1>3. \A n \in DOMAIN Batches : \A e \in l.kept[n] : NewSince(l, e)
  BY <1>1 DEF CallIsSound, NewSince
<1>4. \A o \in k.raw : o.time > k.began =>
          \E m \in DOMAIN Batches : m < k.at + 1 /\ DOMAIN o.answers \subseteq Batches[m]
  <2>1. \A m \in DOMAIN Batches : m <= k.at => m < k.at + 1
    BY BatchesAssumption DEF CallIsSound
  <2> QED BY <2>1 DEF CallIsSound
<1>5. \A m \in DOMAIN Batches : m < k.at + 1 => m <= k.at + 1
  BY BatchesAssumption DEF CallIsSound
<1>6. k.at + 1 \in Nat
  BY DEF CallIsSound
<1> QED BY <1>2, <1>3, <1>4, <1>5, <1>6 DEF CallIsSound

-----------------------------------------------------------------------------
(* Steps.                                                                  *)

\* One call becomes k, and what is stored stays sound.
LEMMA CallStep ==
    ASSUME CollectionInv, kind' = kind, NEW c \in Collectors, NEW k, Step(c, k),
           observed \subseteq observed', Observations(observed'),
           Cardinality(observed) <= Cardinality(observed'),
           \A e \in canonical' : AnsweredIn(observed', e),
           BatchWise(observed', checkpoint'),
           k = NoCall \/ CallIsSound(observed', k),
           kind = "actions" /\ k.stage = "ask" => SelectsAll(k)
    PROVE  CollectionInv'
<1>1. /\ call' = [d \in Collectors |-> call'[d]]
      /\ \A d \in Collectors : call'[d] = IF d = c THEN k ELSE call[d]
  BY DEF CollectionInv, Step
<1>2. \A d \in Collectors : call'[d].stage # "idle" => CallIsSound(observed', call'[d])
  <2> SUFFICES ASSUME NEW d \in Collectors, call'[d].stage # "idle"
               PROVE  CallIsSound(observed', call'[d])
    OBVIOUS
  <2>1. CASE d = c
    <3>1. NoCall.stage = "idle"
      BY DEF NoCall
    <3> QED BY <1>1, <2>1, <3>1
  <2>2. CASE d # c
    BY <1>1, <2>2, MoreIsSound DEF CollectionInv, Running
  <2> QED BY <2>1, <2>2
<1>3. \A d \in Collectors : kind' = "actions" /\ call'[d].stage = "ask" => SelectsAll(call'[d])
  BY <1>1 DEF CollectionInv
<1> QED BY <1>1, <1>2, <1>3 DEF CollectionInv, Running

\* A step that stores nothing.
LEMMA QuietStep ==
    ASSUME CollectionInv, NEW c \in Collectors, NEW k, Step(c, k),
           UNCHANGED <<kind, observed, canonical, checkpoint>>,
           k = NoCall \/ CallIsSound(observed, k),
           kind = "actions" /\ k.stage = "ask" => SelectsAll(k)
    PROVE  CollectionInv'
<1>1. Cardinality(observed) <= Cardinality(observed')
  BY FS_CardinalityType DEF CollectionInv, Observations
<1> QED BY <1>1, CallStep DEF CollectionInv

\* A call that goes on, and stores nothing.
LEMMA AdvanceStep ==
    ASSUME CollectionInv, NEW c \in Collectors, Running(c), call[c].at \in DOMAIN Batches,
           NEW S, \A e \in S : Batched(observed', call[c].at, e) /\ NewSince(call[c], e),
           Advance(c, S), kind' = kind, observed \subseteq observed', Observations(observed'),
           Cardinality(observed) <= Cardinality(observed'),
           UNCHANGED <<canonical, checkpoint>>
    PROVE  CollectionInv'
<1> DEFINE k == call[c]
           l == [k EXCEPT !.stage = "batch", !.at = @ + 1, !.selected = <<>>,
                          !.round = 0, !.kept = [@ EXCEPT ![k.at] = S]]
<1>1. CallIsSound(observed', k)
  BY MoreIsSound DEF CollectionInv
<1>2. Step(c, l)
  BY DEF Advance
<1>3. /\ IsCall(l) /\ l.stage = "batch" /\ l.at = k.at + 1 /\ l.refresh = k.refresh
      /\ l.began = k.began /\ l.raw = k.raw /\ l.recorded = k.recorded
      /\ l.completed = k.completed /\ l.kept = [k.kept EXCEPT ![k.at] = S]
  <2>1. IsCall(k)
    BY <1>1 DEF CallIsSound
  <2> HIDE DEF k
  <2> QED BY <2>1 DEF IsCall, CallFields
<1> HIDE DEF k, l
<1>4. CallIsSound(observed', l)
  <2>1. BatchWise(observed', l.completed)
    BY <1>1, <1>3 DEF CallIsSound
  <2> QED BY <1>1, <1>3, <2>1, AdvanceIsSound DEF k
<1>5. /\ \A e \in canonical' : AnsweredIn(observed', e)
      /\ BatchWise(observed', checkpoint')
  BY MoreIsAnswered, MoreIsBatched DEF CollectionInv
<1> QED BY <1>2, <1>3, <1>4, <1>5, CallStep

\* A call that keeps evidence, with what it may have observed.
LEMMA KeepStep ==
    ASSUME CollectionInv, NEW c \in Collectors, Running(c), call[c].at \in DOMAIN Batches,
           NEW e, Batched(observed', call[c].at, e), NewSince(call[c], e),
           Keep(c, e), kind' = kind, observed \subseteq observed', Observations(observed'),
           Cardinality(observed) <= Cardinality(observed'),
           UNCHANGED <<canonical, checkpoint>>
    PROVE  CollectionInv'
<1> DEFINE l == [call[c] EXCEPT !.stage = "keep", !.evidence = e]
<1>1. CallIsSound(observed', call[c])
  BY MoreIsSound DEF CollectionInv
<1>2. CallIsSound(observed', l)
  BY <1>1, KeepIsSound
<1>3. l.stage = "keep"
  <2>1. IsCall(call[c])
    BY <1>1 DEF CallIsSound
  <2> QED BY <2>1 DEF IsCall, CallFields
<1>4. Step(c, l)
  BY DEF Keep
<1>5. /\ \A x \in canonical' : AnsweredIn(observed', x)
      /\ BatchWise(observed', checkpoint')
  BY MoreIsAnswered, MoreIsBatched DEF CollectionInv
<1> HIDE DEF l
<1> QED BY <1>2, <1>3, <1>4, <1>5, CallStep

-----------------------------------------------------------------------------
(* The actions.                                                            *)

\* At first nothing is collected.
LEMMA InitIsSound == Init => CollectionInv
<1> SUFFICES ASSUME Init PROVE CollectionInv
  OBVIOUS
<1>1. Observations(observed)
  BY FS_EmptySet DEF Init, Observations
<1>2. BatchWise(observed, checkpoint)
  BY DEF Init, Nothing, BatchWise
<1>3. \A c \in Collectors : call[c].stage = "idle"
  BY DEF Init, NoCall
<1>4. call = [c \in Collectors |-> call[c]]
  BY DEF Init
<1> QED BY <1>1, <1>2, <1>3, <1>4 DEF Init, CollectionInv, Running

\* A call begins with what is stored.
LEMMA BeginIsSound ==
    ASSUME CollectionInv, NEW c \in Collectors, NEW refresh, Begin(c, refresh)
    PROVE  CollectionInv'
<1> DEFINE k == [stage |-> "batch", refresh |-> refresh, began |-> Cardinality(observed),
                 at |-> 1, round |-> 0, completed |-> checkpoint, raw |-> observed,
                 recorded |-> canonical, selected |-> <<>>, evidence |-> <<>>,
                 kept |-> Nothing]
<1>1. Step(c, k) /\ UNCHANGED <<kind, observed, canonical, checkpoint>>
  BY DEF Begin
<1>2. /\ IsCall(k) /\ k.stage = "batch" /\ k.began = Cardinality(observed) /\ k.at = 1
      /\ k.completed = checkpoint /\ k.raw = observed /\ k.recorded = canonical
      /\ k.kept = Nothing
  BY DEF IsCall, CallFields
<1> HIDE DEF k
<1>3. Cardinality(observed) \in Nat
  BY FS_CardinalityType DEF CollectionInv, Observations
<1>4. \A o \in observed : ~(o.time > Cardinality(observed))
  BY <1>3 DEF CollectionInv, Observations
<1>5. BatchWise(observed, Nothing) /\ \A n \in DOMAIN Batches : Nothing[n] = {}
  BY DEF BatchWise, Nothing
<1>6. CallIsSound(observed, k)
  BY <1>2, <1>3, <1>4, <1>5 DEF CallIsSound, CollectionInv
<1> QED BY <1>1, <1>2, <1>6, QuietStep

\* A step of a call that runs: it is sound, and every Step is.
LEMMA RunningIsSound ==
    ASSUME CollectionInv, NEW c \in Collectors, call[c].stage # "idle"
    PROVE  /\ CallIsSound(observed, call[c]) /\ Running(c)
           /\ Observations(observed) /\ Cardinality(observed) \in Nat
BY FS_CardinalityType DEF CollectionInv, Running, Observations

\* What the checkpoint has of a batch is evidence of it.
LEMMA RestoreIsSound ==
    ASSUME CollectionInv, NEW c \in Collectors, Restore(c)
    PROVE  CollectionInv'
<1> DEFINE restored == call[c].completed[call[c].at]
<1>1. /\ CallIsSound(observed, call[c]) /\ Running(c)
      /\ Observations(observed) /\ Cardinality(observed) \in Nat
  BY RunningIsSound DEF Restore, AtBatch
<1>2. /\ call[c].at \in DOMAIN Batches /\ ~call[c].refresh /\ restored # {}
      /\ UNCHANGED <<kind, observed, canonical, checkpoint>>
  BY DEF Restore, AtBatch, Restorable
<1>3. \A e \in restored : Batched(observed, call[c].at, e) /\ NewSince(call[c], e)
  BY <1>1, <1>2 DEF CallIsSound, BatchWise, NewSince
<1>4. CASE Advance(c, restored)
  BY <1>1, <1>2, <1>3, <1>4, AdvanceStep
<1>5. CASE Keep(c, CHOOSE e \in restored : TRUE)
  <2>1. (CHOOSE e \in restored : TRUE) \in restored
    BY <1>2
  <2> HIDE DEF restored
  <2> QED BY <1>1, <1>2, <1>3, <1>5, <2>1, KeepStep
<1> QED BY <1>4, <1>5 DEF Restore

\* A valid observation is evidence of its own.
LEMMA SingleIsAnswered ==
    ASSUME NEW O, NEW o \in O, Valid(o)
    PROVE  AnsweredIn(O, Single(o)) /\ DOMAIN Single(o) = DOMAIN o.answers
BY DEF AnsweredIn, Single, Valid, WholeOf

\* The age of evidence is one of its times.
LEMMA AgeIsOne ==
    ASSUME NEW n \in Nat, NEW e, DOMAIN e # {}, \A i \in DOMAIN e : e[i] \in 1..n
    PROVE  Age(e) \in {e[i] : i \in DOMAIN e} /\ Age(e) \in 1..n
<1> DEFINE T == {e[i] : i \in DOMAIN e}
<1>1. T \subseteq 1..n /\ T # {}
  OBVIOUS
<1> HIDE DEF T
<1>2. T \in SUBSET Nat /\ \A x \in T : x <= n
  BY <1>1
<1>3. \E x \in T : \A y \in T : y <= x
  BY <1>1, <1>2, LargestExists
<1>4. Latest(T) \in T
  BY <1>3 DEF Latest
<1> QED BY <1>1, <1>4 DEF Age, T

\* The times of what may match are times of observations.
LEMMA MatchIsOld ==
    ASSUME CollectionInv, NEW c \in Collectors, Running(c), NEW e \in Matches(c)
    PROVE  /\ ~call[c].refresh /\ DOMAIN e = CurrentBatch(c)
           /\ \A i \in DOMAIN e : e[i] \in 1..Cardinality(observed)
<1>1. CallIsSound(observed, call[c]) /\ Observations(observed)
  BY DEF CollectionInv
<1>2. ~call[c].refresh
  BY DEF Matches
<1>3. CASE kind = "actions"
  <2>1. e \in call[c].recorded /\ DOMAIN e = CurrentBatch(c)
    BY <1>2, <1>3 DEF Matches
  <2>2. AnsweredIn(observed, e)
    BY <1>1, <2>1 DEF CallIsSound
  <2> QED BY <1>1, <1>2, <2>1, <2>2 DEF AnsweredIn, Observations
<1>4. CASE kind # "actions"
  <2>1. PICK o \in observed : e = Single(o) /\ DOMAIN o.answers = CurrentBatch(c)
    BY <1>2, <1>4 DEF Matches
  <2> QED BY <1>1, <1>2, <2>1 DEF Single, Observations
<1> QED BY <1>3, <1>4

\* So is the latest match.
LEMMA MatchIsSound ==
    ASSUME CollectionInv, NEW c \in Collectors, Match(c)
    PROVE  CollectionInv'
<1> DEFINE N == Cardinality(observed)
           Ages == {Age(x) : x \in Matches(c)}
           e == CHOOSE x \in Matches(c) : \A f \in Matches(c) : Age(f) <= Age(x)
<1>1. /\ CallIsSound(observed, call[c]) /\ Running(c)
      /\ Observations(observed) /\ N \in Nat
  BY RunningIsSound DEF Match, AtBatch
<1>2. /\ call[c].at \in DOMAIN Batches /\ Matches(c) # {}
      /\ CurrentBatch(c) = Batches[call[c].at] /\ CurrentBatch(c) # {}
      /\ UNCHANGED <<kind, observed, canonical, checkpoint>>
  BY BatchesAssumption DEF Match, AtBatch, CurrentBatch
<1>3. \A x \in Matches(c) : DOMAIN x # {} /\ \A i \in DOMAIN x : x[i] \in 1..N
  BY <1>1, <1>2, MatchIsOld
<1>4. \A x \in Matches(c) : Age(x) \in 1..N
  BY <1>1, <1>3, AgeIsOne
<1>5. e \in Matches(c)
  <2>1. Ages \in SUBSET Nat /\ Ages # {} /\ \A a \in Ages : a <= N
    <3>1. Ages \subseteq 1..N
      BY <1>4
    <3>2. Ages # {}
      BY <1>2
    <3> HIDE DEF Ages
    <3> QED BY <1>1, <3>1, <3>2
  <2>2. \E a \in Ages : \A b \in Ages : b <= a
    <3> HIDE DEF Ages
    <3> QED BY <1>1, <2>1, LargestExists
  <2>3. \E x \in Matches(c) : \A f \in Matches(c) : Age(f) <= Age(x)
    BY <2>2
  <2> QED BY <2>3
<1>6. Match(c) => IF kind = "actions" \/ Valid(ObservationAt(Age(e)))
                  THEN Keep(c, e) ELSE Advance(c, {})
  BY DEF Match
<1> HIDE DEF e, Ages
<1>7. CASE Advance(c, {})
  BY <1>1, <1>2, <1>7, AdvanceStep
<1>8. CASE Keep(c, e) /\ (kind = "actions" \/ Valid(ObservationAt(Age(e))))
  <2>1. ~call[c].refresh /\ DOMAIN e = CurrentBatch(c)
    BY <1>1, <1>5, MatchIsOld
  <2>2. CASE kind = "actions"
    <3>1. e \in call[c].recorded
      BY <1>5, <2>1, <2>2 DEF Matches
    <3>2. Batched(observed, call[c].at, e)
      BY <1>1, <1>2, <2>1, <3>1 DEF CallIsSound, Batched
    <3> QED BY <1>1, <1>2, <1>8, <2>1, <3>2, KeepStep DEF NewSince
  <2>3. CASE kind # "actions"
    <3>1. PICK o \in observed : e = Single(o) /\ DOMAIN o.answers = CurrentBatch(c)
      BY <1>5, <2>1, <2>3 DEF Matches
    <3>2. Age(e) = o.time
      <4>1. \A i \in DOMAIN e : e[i] = o.time
        BY <3>1 DEF Single
      <4>2. Age(e) \in {e[i] : i \in DOMAIN e}
        BY <1>1, <1>3, <1>5, AgeIsOne
      <4> QED BY <4>1, <4>2
    <3>3. ObservationAt(o.time) = o
      BY <1>1 DEF ObservationAt, Observations
    <3>4. Valid(o)
      BY <1>8, <2>3, <3>2, <3>3
    <3>5. Batched(observed, call[c].at, e)
      BY <1>2, <3>1, <3>4, SingleIsAnswered DEF Batched
    <3> QED BY <1>1, <1>2, <1>8, <2>1, <3>5, KeepStep DEF NewSince
  <2> QED BY <2>2, <2>3
<1> QED BY <1>6, <1>7, <1>8

\* What a call absorbs is answered, and is all there is.
LEMMA AbsorbedIsSound ==
    ASSUME CollectionInv, NEW c \in Collectors, Running(c), call[c].stage = "batch",
           call[c].at \in DOMAIN Batches
    PROVE  /\ DOMAIN Absorbed(c) \subseteq CurrentBatch(c)
           /\ AnsweredIn(observed, Absorbed(c))
           /\ call[c].refresh => DOMAIN Absorbed(c) = {}
           /\ \A i \in CurrentBatch(c), o \in call[c].raw :
                  /\ i \in DOMAIN o.answers /\ o.answers[i] = "whole"
                  /\ call[c].refresh => o.time > call[c].began
                  => i \in DOMAIN Absorbed(c)
<1>1. CallIsSound(observed, call[c]) /\ Observations(observed)
  BY DEF CollectionInv
<1>2. call[c].raw \subseteq observed
  BY <1>1 DEF CallIsSound
<1>3. AnsweredIn(observed, Absorbed(c))
  <2> SUFFICES ASSUME NEW i \in DOMAIN Absorbed(c)
               PROVE  \E o \in observed : /\ o.time = Absorbed(c)[i] /\ i \in DOMAIN o.answers
                                          /\ o.answers[i] = "whole"
    BY DEF AnsweredIn
  <2>1. TimesOf(call[c].raw, i) # {} /\ Absorbed(c)[i] = Latest(TimesOf(call[c].raw, i))
    BY DEF Absorbed
  <2>2. Absorbed(c)[i] \in TimesOf(call[c].raw, i)
    BY <1>1, <1>2, <2>1, LatestIsOne
  <2> QED BY <1>2, <2>2 DEF TimesOf, WholeOf
<1>4. ASSUME NEW i \in CurrentBatch(c), NEW o \in call[c].raw,
             i \in DOMAIN o.answers, o.answers[i] = "whole",
             call[c].refresh => o.time > call[c].began
      PROVE  i \in DOMAIN Absorbed(c)
  <2>1. CASE call[c].refresh
    <3>1. PICK m \in DOMAIN Batches : m < call[c].at /\ DOMAIN o.answers \subseteq Batches[m]
      BY <1>1, <1>4, <2>1 DEF CallIsSound
    <3>2. m # call[c].at
      BY <3>1, BatchesAssumption
    <3> QED BY <1>4, <3>1, <3>2, BatchesAssumption DEF CurrentBatch
  <2>2. CASE ~call[c].refresh
    <3>1. TimesOf(call[c].raw, i) # {}
      BY <1>4 DEF TimesOf, WholeOf
    <3> QED BY <1>4, <2>2, <3>1 DEF Absorbed
  <2> QED BY <2>1, <2>2
<1> QED BY <1>3, <1>4 DEF Absorbed

\* A call that asks starts from what it absorbs.
LEMMA StartAskingIsSound ==
    ASSUME CollectionInv, NEW c \in Collectors, StartAsking(c)
    PROVE  CollectionInv'
<1> DEFINE k == call[c]
           selected == IF kind = "actions" THEN Absorbed(c) ELSE <<>>
           l == [k EXCEPT !.stage = "ask", !.selected = selected]
<1>1. /\ CallIsSound(observed, k) /\ Running(c) /\ k.stage = "batch"
      /\ Observations(observed) /\ Cardinality(observed) \in Nat
  BY RunningIsSound DEF StartAsking, AtBatch
<1>2. /\ k.at \in DOMAIN Batches /\ CurrentBatch(c) = Batches[k.at]
      /\ UNCHANGED <<kind, observed, canonical, checkpoint>>
      /\ Step(c, l)
  BY DEF StartAsking, AtBatch, CurrentBatch
<1>3. /\ DOMAIN selected \subseteq Batches[k.at]
      /\ AnsweredIn(observed, selected) /\ NewSince(k, selected)
      /\ kind = "actions" => SelectsAll([k EXCEPT !.selected = selected])
  <2>1. CASE kind = "actions"
    <3>1. SelectsAll([k EXCEPT !.selected = selected])
      <4> DEFINE m == [k EXCEPT !.selected = selected]
      <4>1. m.at = k.at /\ m.raw = k.raw /\ m.refresh = k.refresh /\ m.began = k.began
            /\ m.selected = selected
        <5>1. IsCall(k)
          BY <1>1 DEF CallIsSound
        <5> HIDE DEF k, selected
        <5> QED BY <5>1 DEF IsCall, CallFields
      <4>2. selected = Absorbed(c)
        BY <2>1
      <4> HIDE DEF m, selected
      <4>3. SelectsAll(m)
        BY <1>1, <1>2, <4>1, <4>2, AbsorbedIsSound DEF SelectsAll
      <4> QED BY <4>3 DEF m
    <3>2. selected = Absorbed(c)
      BY <2>1
    <3> HIDE DEF selected
    <3> QED BY <1>1, <1>2, <3>1, <3>2, AbsorbedIsSound DEF NewSince
  <2>2. CASE kind # "actions"
    BY <2>2 DEF AnsweredIn, NewSince
  <2> QED BY <2>1, <2>2
<1>4. /\ IsCall(l) /\ l.stage = "ask" /\ l.selected = selected /\ l.evidence = k.evidence
      /\ l.refresh = k.refresh /\ l.began = k.began /\ l.at = k.at /\ l.raw = k.raw
      /\ l.completed = k.completed /\ l.recorded = k.recorded /\ l.kept = k.kept
  <2>1. IsCall(k)
    BY <1>1 DEF CallIsSound
  <2> HIDE DEF k, selected
  <2> QED BY <2>1 DEF IsCall, CallFields
<1>5. kind = "actions" => SelectsAll(l)
  <2> DEFINE m == [k EXCEPT !.selected = selected]
  <2>1. m.at = k.at /\ m.raw = k.raw /\ m.refresh = k.refresh /\ m.began = k.began
        /\ m.selected = selected
    <3>1. IsCall(k)
      BY <1>1 DEF CallIsSound
    <3> HIDE DEF k, selected
    <3> QED BY <3>1 DEF IsCall, CallFields
  <2>2. kind = "actions" => SelectsAll(m)
    BY <1>3
  <2> HIDE DEF k, l, m, selected
  <2> QED BY <1>4, <2>1, <2>2 DEF SelectsAll
<1>6. \A o \in k.raw : o.time > k.began =>
          \E m \in DOMAIN Batches : m <= k.at /\ DOMAIN o.answers \subseteq Batches[m]
  BY <1>1 DEF CallIsSound
<1> HIDE DEF k, l, selected
<1>7. CallIsSound(observed, l)
  BY <1>1, <1>2, <1>3, <1>4, <1>6 DEF CallIsSound, NewSince
<1> QED BY <1>2, <1>5, <1>7, QuietStep

\* A round of requests that brings these answers.
Asks(c, answered, answers) ==
    LET observation == [time |-> Cardinality(observed) + 1, answers |-> answers]
        whole == WholeOf(observation)
        selected == call[c].selected
        recorded == IF answered = {} THEN {} ELSE {observation}
    IN  /\ observed' = observed \cup recorded
        /\ Step(c, [call[c] EXCEPT
               !.round = @ + 1, !.raw = @ \cup recorded,
               !.selected = [i \in DOMAIN selected \cup whole |->
                   IF i \in whole THEN observation.time ELSE selected[i]]])

\* A round of requests adds what it got whole.
LEMMA AskActionsIsSound ==
    ASSUME CollectionInv, NEW c \in Collectors, AskActions(c)
    PROVE  CollectionInv'
<1> DEFINE k == call[c]
<1>1. /\ CallIsSound(observed, k) /\ Running(c) /\ k.stage = "ask" /\ kind = "actions"
      /\ Observations(observed) /\ Cardinality(observed) \in Nat
      /\ UNCHANGED <<kind, canonical, checkpoint>>
  BY RunningIsSound DEF AskActions
<1>2. PICK answered \in SUBSET Unresolved(c) : \E answers \in [answered -> Answers] :
        Asks(c, answered, answers)
  BY DEF AskActions, Asks
<1>3. PICK answers \in [answered -> Answers] : Asks(c, answered, answers)
  BY <1>2
<1> DEFINE new == [time |-> Cardinality(observed) + 1, answers |-> answers]
           added == IF answered = {} THEN {} ELSE {new}
           selected == [i \in DOMAIN k.selected \cup WholeOf(new) |->
                          IF i \in WholeOf(new) THEN new.time ELSE k.selected[i]]
           l == [k EXCEPT !.round = @ + 1, !.raw = @ \cup added, !.selected = selected]
<1>4. observed' = observed \cup added /\ Step(c, l)
  BY <1>3 DEF Asks
<1>5. /\ new.time = Cardinality(observed) + 1 /\ new.answers = answers
      /\ WholeOf(new) = {i \in answered : answers[i] = "whole"}
      /\ DOMAIN new.answers = answered
  BY <1>2 DEF WholeOf
<1>6. /\ IsCall(l) /\ l.stage = "ask" /\ l.selected = selected
      /\ l.raw = k.raw \cup added /\ l.at = k.at
      /\ l.refresh = k.refresh /\ l.began = k.began /\ l.evidence = k.evidence
      /\ l.completed = k.completed /\ l.recorded = k.recorded /\ l.kept = k.kept
  <2>1. IsCall(k) /\ k.stage = "ask"
    BY <1>1 DEF CallIsSound
  <2> HIDE DEF k, selected, added
  <2> QED BY <2>1 DEF IsCall, CallFields
<1>7. /\ Observations(observed') /\ Cardinality(observed) <= Cardinality(observed')
      /\ observed \subseteq observed'
  <2>1. Observations(observed \cup {new}) /\ Cardinality(observed \cup {new}) = Cardinality(observed) + 1
    BY <1>1, OneMore
  <2>2. CASE answered = {}
    BY <1>1, <1>4, <2>2
  <2>3. CASE answered # {}
    <3>1. observed' = observed \cup {new}
      BY <1>4, <2>3
    <3> HIDE DEF new
    <3> QED BY <1>1, <2>1, <3>1
  <2> QED BY <2>2, <2>3
<1>8. CallIsSound(observed', k)
  BY <1>1, <1>7, MoreIsSound
<1>9. answered \subseteq Batches[k.at] /\ answered \cap DOMAIN k.selected = {}
  BY <1>2 DEF Unresolved, CurrentBatch
<1>10. WholeOf(new) # {} => new \in observed'
  BY <1>4, <1>5
<1> HIDE DEF k, l, new
<1>11. /\ DOMAIN selected = DOMAIN k.selected \cup WholeOf(new)
       /\ \A i \in WholeOf(new) : selected[i] = new.time
       /\ \A i \in DOMAIN k.selected \ WholeOf(new) : selected[i] = k.selected[i]
  OBVIOUS
<1> HIDE DEF selected
<1>12. AnsweredIn(observed', selected)
  BY <1>1, <1>5, <1>8, <1>10, <1>11 DEF AnsweredIn, CallIsSound
<1>13. NewSince(l, selected)
  <2>1. k.began <= Cardinality(observed) /\ k.began \in Nat
    BY <1>1 DEF CallIsSound
  <2>2. new.time > k.began
    BY <1>1, <1>5, <2>1
  <2> QED BY <1>1, <1>6, <1>11, <2>2 DEF NewSince, CallIsSound
<1>14. DOMAIN selected \subseteq Batches[k.at]
  BY <1>1, <1>5, <1>9, <1>11 DEF CallIsSound
<1>15. \A o \in l.raw : o.time > l.began =>
          \E m \in DOMAIN Batches : m <= l.at /\ DOMAIN o.answers \subseteq Batches[m]
  <2>1. k.at \in DOMAIN Batches /\ k.at <= k.at /\ DOMAIN new.answers \subseteq Batches[k.at]
    BY <1>1, <1>5, <1>9 DEF CallIsSound
  <2>2. \A o \in added : o = new
    OBVIOUS
  <2> HIDE DEF added
  <2> QED BY <1>1, <1>6, <2>1, <2>2 DEF CallIsSound
<1>16. l.raw \subseteq observed'
  BY <1>4, <1>6, <1>8 DEF CallIsSound
<1>17. SelectsAll(l)
  <2>1. SelectsAll(k)
    BY <1>1 DEF CollectionInv, k
  <2>2. \A o \in added : o = new
    OBVIOUS
  <2> HIDE DEF added
  <2> QED BY <1>5, <1>6, <1>9, <1>11, <2>1, <2>2 DEF SelectsAll
<1>18. CallIsSound(observed', l)
  BY <1>1, <1>6, <1>8, <1>12, <1>13, <1>14, <1>15, <1>16 DEF CallIsSound, NewSince
<1>19. /\ \A e \in canonical' : AnsweredIn(observed', e)
       /\ BatchWise(observed', checkpoint')
  BY <1>1, <1>7, MoreIsAnswered, MoreIsBatched DEF CollectionInv
<1> QED BY <1>1, <1>4, <1>7, <1>17, <1>18, <1>19, CallStep
\* A batch with all of its answers is recorded and kept.
LEMMA GatherActionsIsSound ==
    ASSUME CollectionInv, NEW c \in Collectors, GatherActions(c)
    PROVE  CollectionInv'
<1> DEFINE k == call[c]
<1>1. /\ CallIsSound(observed, k) /\ Running(c) /\ k.stage = "ask"
      /\ Observations(observed) /\ Cardinality(observed) \in Nat
      /\ UNCHANGED <<kind, observed, checkpoint>>
  BY RunningIsSound DEF GatherActions
<1>2. k.at \in DOMAIN Batches
  BY <1>1 DEF CallIsSound
<1>3. CASE Advance(c, {}) /\ UNCHANGED canonical
  BY <1>1, <1>2, <1>3, AdvanceStep
<1>4. CASE Unresolved(c) = {} /\ canonical' = canonical \cup {k.selected}
           /\ Step(c, [k EXCEPT !.stage = "keep", !.evidence = k.selected,
                                !.recorded = @ \cup {k.selected}])
  <2> DEFINE l == [k EXCEPT !.stage = "keep", !.evidence = k.selected,
                            !.recorded = @ \cup {k.selected}]
  <2>1. /\ IsCall(l) /\ l.stage = "keep" /\ l.evidence = k.selected
        /\ l.recorded = k.recorded \cup {k.selected} /\ l.at = k.at /\ l.raw = k.raw
        /\ l.refresh = k.refresh /\ l.began = k.began
        /\ l.completed = k.completed /\ l.kept = k.kept
    <3>1. IsCall(k)
      BY <1>1 DEF CallIsSound
    <3> HIDE DEF k
    <3> QED BY <3>1 DEF IsCall, CallFields
  <2>2. AnsweredIn(observed, k.selected) /\ NewSince(k, k.selected)
        /\ DOMAIN k.selected \subseteq Batches[k.at]
    BY <1>1 DEF CallIsSound
  <2>3. Batched(observed, k.at, k.selected)
    BY <1>4, <2>2 DEF Unresolved, CurrentBatch, Batched
  <2>4. Step(c, l) /\ canonical' = canonical \cup {k.selected}
    BY <1>4
  <2>5. \A o \in k.raw : o.time > k.began =>
            \E m \in DOMAIN Batches : m <= k.at /\ DOMAIN o.answers \subseteq Batches[m]
    BY <1>1 DEF CallIsSound
  <2> HIDE DEF k, l
  <2>6. CallIsSound(observed, l)
    BY <1>1, <1>2, <2>1, <2>2, <2>3, <2>5 DEF CallIsSound, NewSince
  <2>7. \A e \in canonical' : AnsweredIn(observed, e)
    BY <2>2, <2>4 DEF CollectionInv
  <2>8. Cardinality(observed) <= Cardinality(observed') /\ observed \subseteq observed'
        /\ BatchWise(observed', checkpoint') /\ kind' = kind
    BY <1>1 DEF CollectionInv
  <2> QED BY <1>1, <2>1, <2>4, <2>6, <2>7, <2>8, CallStep
<1> QED BY <1>3, <1>4 DEF GatherActions

\* A whole batch in one observation is kept if it is valid.
LEMMA AskWholeIsSound ==
    ASSUME CollectionInv, NEW c \in Collectors, AskWhole(c)
    PROVE  CollectionInv'
<1>1. /\ CallIsSound(observed, call[c]) /\ Running(c) /\ call[c].stage = "ask"
      /\ Observations(observed) /\ Cardinality(observed) \in Nat
      /\ UNCHANGED <<kind, canonical, checkpoint>>
  BY RunningIsSound DEF AskWhole
<1>2. PICK answers \in [CurrentBatch(c) -> IF kind = "status" THEN Answers
                                           ELSE Answers \ {"invalid"}] :
        LET observation == [time |-> Cardinality(observed) + 1, answers |-> answers]
        IN  /\ observed' = observed \cup {observation}
            /\ IF Valid(observation) THEN Keep(c, Single(observation)) ELSE Advance(c, {})
  BY DEF AskWhole
<1> DEFINE new == [time |-> Cardinality(observed) + 1, answers |-> answers]
<1>3. /\ observed' = observed \cup {new}
      /\ IF Valid(new) THEN Keep(c, Single(new)) ELSE Advance(c, {})
  BY <1>2
<1>4. Observations(observed') /\ Cardinality(observed') = Cardinality(observed) + 1
  BY <1>1, <1>3, OneMore
<1>5. Cardinality(observed) <= Cardinality(observed') /\ observed \subseteq observed'
  <2> HIDE DEF new
  <2> QED BY <1>1, <1>3, <1>4
<1>6. call[c].at \in DOMAIN Batches /\ DOMAIN new.answers = Batches[call[c].at]
  BY <1>1, <1>2 DEF CallIsSound, CurrentBatch
<1>7. new.time > call[c].began
  <2>1. call[c].began \in 0..Cardinality(observed)
    BY <1>1 DEF CallIsSound
  <2> QED BY <1>1, <2>1
<1>8. \A i \in DOMAIN Single(new) : Single(new)[i] = new.time
  BY DEF Single
<1> HIDE DEF new
<1>9. CASE Valid(new) /\ Keep(c, Single(new))
  <2>1. Batched(observed', call[c].at, Single(new))
    BY <1>3, <1>6, <1>9, SingleIsAnswered DEF Batched
  <2>2. NewSince(call[c], Single(new))
    BY <1>7, <1>8 DEF NewSince
  <2> QED BY <1>1, <1>4, <1>5, <1>6, <1>9, <2>1, <2>2, KeepStep
<1>10. CASE Advance(c, {})
  BY <1>1, <1>4, <1>5, <1>6, <1>10, AdvanceStep
<1> QED BY <1>3, <1>9, <1>10

\* A request that raises leaves its batch without evidence.
LEMMA AskFailsIsSound ==
    ASSUME CollectionInv, NEW c \in Collectors, AskFails(c)
    PROVE  CollectionInv'
<1>1. /\ CallIsSound(observed, call[c]) /\ Running(c) /\ call[c].stage = "ask"
      /\ Observations(observed) /\ Cardinality(observed) \in Nat
  BY RunningIsSound DEF AskFails
<1>2. call[c].at \in DOMAIN Batches
  BY <1>1 DEF CallIsSound
<1> QED BY <1>1, <1>2, AdvanceStep DEF AskFails

\* The checkpoint is written with what the call keeps.
LEMMA WriteCheckpointIsSound ==
    ASSUME CollectionInv, NEW c \in Collectors, WriteCheckpoint(c)
    PROVE  CollectionInv'
<1> DEFINE k == call[c]
           completed == [k.completed EXCEPT ![k.at] = {k.evidence}]
           l == [k EXCEPT !.stage = "batch", !.at = @ + 1, !.completed = completed,
                          !.selected = <<>>, !.round = 0, !.evidence = <<>>,
                          !.kept = [@ EXCEPT ![k.at] = {k.evidence}]]
<1>1. /\ CallIsSound(observed, k) /\ Running(c) /\ k.stage = "keep"
      /\ Observations(observed) /\ Cardinality(observed) \in Nat
      /\ UNCHANGED <<kind, observed, canonical>>
      /\ checkpoint' = completed /\ Step(c, l)
  BY RunningIsSound DEF WriteCheckpoint
<1>2. /\ IsCall(l) /\ l.stage = "batch" /\ l.at = k.at + 1 /\ l.refresh = k.refresh
      /\ l.began = k.began /\ l.raw = k.raw /\ l.recorded = k.recorded
      /\ l.completed = completed /\ l.kept = [k.kept EXCEPT ![k.at] = {k.evidence}]
  <2>1. IsCall(k)
    BY <1>1 DEF CallIsSound
  <2> HIDE DEF k, completed
  <2> QED BY <2>1 DEF IsCall, CallFields
<1>3. /\ k.at \in DOMAIN Batches /\ Batched(observed, k.at, k.evidence)
      /\ NewSince(k, k.evidence)
      /\ BatchWise(observed, k.completed)
  BY <1>1 DEF CallIsSound
<1> HIDE DEF k, l
<1>4. BatchWise(observed, completed)
  <2>1. /\ completed = [n \in DOMAIN Batches |-> completed[n]]
        /\ \A n \in DOMAIN Batches :
               completed[n] = IF n = k.at THEN {k.evidence} ELSE k.completed[n]
    <3>1. k.completed = [n \in DOMAIN Batches |-> k.completed[n]]
      BY <1>3 DEF BatchWise
    <3> QED BY <3>1
  <2> HIDE DEF completed
  <2> QED BY <1>3, <2>1 DEF BatchWise
<1> HIDE DEF completed
<1>5. CallIsSound(observed, l)
  <2>1. \A e \in {k.evidence} : Batched(observed, k.at, e) /\ NewSince(k, e)
    BY <1>3
  <2> QED BY <1>1, <1>2, <1>3, <1>4, <2>1, AdvanceIsSound
<1>6. /\ Cardinality(observed) <= Cardinality(observed')
      /\ \A e \in canonical' : AnsweredIn(observed', e)
      /\ BatchWise(observed', checkpoint')
  BY <1>1, <1>4 DEF CollectionInv
<1> QED BY <1>1, <1>2, <1>5, <1>6, CallStep

\* A call ends, one way or the other.
LEMMA EndIsSound ==
    ASSUME CollectionInv, NEW c \in Collectors, Report(c) \/ Crash(c)
    PROVE  CollectionInv'
<1>1. NoCall.stage = "idle"
  BY DEF NoCall
<1> QED BY <1>1, QuietStep DEF Report, Crash

\* Every step keeps the invariant.
LEMMA NextIsSound == CollectionInv /\ [Next]_vars => CollectionInv'
<1> SUFFICES ASSUME CollectionInv, [Next]_vars PROVE CollectionInv'
  OBVIOUS
<1>1. CASE UNCHANGED vars
  BY <1>1 DEF vars, CollectionInv, Running
<1>2. ASSUME NEW c \in Collectors,
             \/ \E refresh \in BOOLEAN : Begin(c, refresh)
             \/ Restore(c) \/ Match(c) \/ StartAsking(c) \/ AskActions(c)
             \/ GatherActions(c) \/ AskWhole(c) \/ AskFails(c) \/ WriteCheckpoint(c)
             \/ Report(c) \/ Crash(c)
      PROVE  CollectionInv'
  <2>1. ASSUME NEW refresh \in BOOLEAN, Begin(c, refresh) PROVE CollectionInv'
    BY <2>1, BeginIsSound
  <2>2. CASE Restore(c)
    BY <2>2, RestoreIsSound
  <2>3. CASE Match(c)
    BY <2>3, MatchIsSound
  <2>4. CASE StartAsking(c)
    BY <2>4, StartAskingIsSound
  <2>5. CASE AskActions(c)
    BY <2>5, AskActionsIsSound
  <2>6. CASE GatherActions(c)
    BY <2>6, GatherActionsIsSound
  <2>7. CASE AskWhole(c)
    BY <2>7, AskWholeIsSound
  <2>8. CASE AskFails(c)
    BY <2>8, AskFailsIsSound
  <2>9. CASE WriteCheckpoint(c)
    BY <2>9, WriteCheckpointIsSound
  <2>10. CASE Report(c) \/ Crash(c)
    BY <2>10, EndIsSound
  <2> QED BY <1>2, <2>1, <2>2, <2>3, <2>4, <2>5, <2>6, <2>7, <2>8, <2>9, <2>10
<1> QED BY <1>1, <1>2 DEF Next

-----------------------------------------------------------------------------
(* The properties.                                                         *)

\* The invariant has what EvidenceIsSound says.
LEMMA SoundEvidence == CollectionInv => EvidenceIsSound
<1> SUFFICES ASSUME CollectionInv PROVE EvidenceIsSound
  OBVIOUS
<1>1. \A e : AnsweredIn(observed, e) => IsAnswered(e)
  BY DEF AnsweredIn, IsAnswered
<1>2. \A n \in DOMAIN Batches : \A e \in checkpoint[n] :
          DOMAIN e = Batches[n] /\ AnsweredIn(observed, e)
  BY DEF CollectionInv, BatchWise, Batched
<1>3. ASSUME NEW c \in Collectors, Running(c), NEW n \in DOMAIN Batches,
             NEW e \in call[c].kept[n]
      PROVE  /\ DOMAIN e = Batches[n] /\ AnsweredIn(observed, e)
             /\ call[c].refresh => \A i \in Batches[n] : e[i] > call[c].began
  <2>1. CallIsSound(observed, call[c])
    BY <1>3 DEF CollectionInv
  <2>2. Batched(observed, n, e) /\ NewSince(call[c], e)
    BY <1>3, <2>1 DEF CallIsSound, BatchWise
  <2> QED BY <2>2 DEF Batched, NewSince
<1> QED BY <1>1, <1>2, <1>3 DEF EvidenceIsSound, CollectionInv

\* No step asks about what the call has an answer to.
LEMMA AskingStep ==
    ASSUME CollectionInv, NEW c \in Collectors, [Next]_vars,
           kind = "actions", Running(c), call'[c].stage = "ask", call[c].stage = "ask",
           NEW o \in observed' \ observed, call'[c] # call[c]
    PROVE  DOMAIN o.answers \cap AnsweredTo(c) = {}
<1>1. PICK d \in Collectors :
        \/ \E refresh \in BOOLEAN : Begin(d, refresh)
        \/ Restore(d) \/ Match(d) \/ StartAsking(d) \/ AskActions(d)
        \/ GatherActions(d) \/ AskWhole(d) \/ AskFails(d) \/ WriteCheckpoint(d)
        \/ Report(d) \/ Crash(d)
  BY DEF Next, vars
<1>2. AskActions(d)
  BY <1>1 DEF Begin, Restore, Match, StartAsking, GatherActions, AskWhole, AskFails,
              WriteCheckpoint, Report, Crash
<1>3. PICK answered \in SUBSET Unresolved(d) : \E answers \in [answered -> Answers] :
        Asks(d, answered, answers)
  BY <1>2 DEF AskActions, Asks
<1>4. PICK answers \in [answered -> Answers] : Asks(d, answered, answers)
  BY <1>3
<1>5. d = c
  BY <1>4 DEF Asks, Step, CollectionInv
<1>6. DOMAIN o.answers = answered
  <2> DEFINE new == [time |-> Cardinality(observed) + 1, answers |-> answers]
  <2>1. observed' \subseteq observed \cup {new}
    BY <1>4 DEF Asks
  <2>2. o = new
    BY <2>1
  <2>3. new.answers = answers
    OBVIOUS
  <2> HIDE DEF new
  <2> QED BY <1>4, <2>2, <2>3
<1>7. answered \cap DOMAIN call[c].selected = {}
  BY <1>3, <1>5 DEF Unresolved
<1>8. AnsweredTo(c) \subseteq DOMAIN call[c].selected
  BY DEF CollectionInv, SelectsAll, AnsweredTo, CurrentBatch
<1> QED BY <1>6, <1>7, <1>8

\* A specification whose every step is one of a collector, or none, keeps the
\* invariant; this is that of the collectors alone.
THEOREM CollectionInvariance == Spec => []CollectionInv
<1>1. Init => CollectionInv
  BY InitIsSound
<1>2. CollectionInv /\ [Next]_vars => CollectionInv'
  BY NextIsSound
<1> QED BY <1>1, <1>2, PTL DEF Spec

\* What the collectors of corporate actions, factors and status record, resume
\* from and report rests on whole answers for each instrument of the batch, for
\* any batches, collectors, rounds and numbers of observations.
THEOREM EvidenceStaysSound == Spec => []EvidenceIsSound
<1>1. CollectionInv => EvidenceIsSound
  BY SoundEvidence
<1> QED BY <1>1, CollectionInvariance, PTL

\* Successes accumulate: _collect_action_batch never asks again about what it
\* has a whole answer to.
THEOREM SuccessesAccumulate == Spec => OnlyFailuresAreAskedAgain
<1> DEFINE A == \A c \in Collectors :
              kind = "actions" /\ Running(c) /\ call'[c].stage = "ask" /\ call[c].stage = "ask" =>
                  \A o \in observed' \ observed :
                      call'[c] # call[c] => DOMAIN o.answers \cap AnsweredTo(c) = {}
<1>1. CollectionInv /\ [Next]_vars => A
  BY AskingStep
<1>2. [][CollectionInv /\ [Next]_vars => A]_vars
  BY <1>1, PTL
<1> QED BY <1>1, CollectionInvariance, PTL DEF Spec, OnlyFailuresAreAskedAgain
=============================================================================
