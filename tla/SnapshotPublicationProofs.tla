---------------------- MODULE SnapshotPublicationProofs ----------------------
(***************************************************************************)
(* What SnapshotPublication guarantees for every number of processes, every *)
(* warehouse and every bound: the pointer moves by compare-and-swap, the    *)
(* snapshot it names is in place, whole and can be queried, and what is     *)
(* derived from a snapshot shows its rows changed by exactly its own.       *)
(***************************************************************************)
EXTENDS SnapshotPublication, FiniteSetTheorems, SequenceTheorems, WellFoundedInduction, TLAPS

\* A call is idle or has the fields of a building one.
CallShape(c) ==
    \/ c = Idle
    \/ /\ c = [pc |-> c.pc, op |-> c.op, pred |-> c.pred, succ |-> c.succ, new |-> c.new]
       /\ c.pc # "idle"

CallsAreShaped ==
    /\ call = [p \in Procs |-> call[p]]
    /\ \A p \in Procs : CallShape(call[p])

\* The holder of the lock is the one process about to replace the pointer ...
LockIsExclusive ==
    /\ lock \in Procs \cup {Nobody}
    /\ \A p \in Procs : lock = p <=> call[p].pc = "replace"

\* ... and what it compared still holds.
ComparisonHolds ==
    \A p \in Procs :
        call[p].pc = "replace" /\ call[p].op # "research"
            => call[p].pred = pointer.snapshot

\* What was loaded before the lock is there whatever happens meanwhile.
ReadyIsLoaded ==
    \A p \in Procs : call[p].pc \in {"lock", "replace"} => Loads(call[p].succ)

IInv ==
    /\ CallsAreShaped
    /\ LockIsExclusive
    /\ ComparisonHolds
    /\ ReadyIsLoaded
    /\ CurrentIsIntact

-----------------------------------------------------------------------------
\* A step that only adds components and snapshots keeps what loads.
LEMMA LoadsIsStable ==
    ASSUME NEW s, Loads(s),
           DOMAIN stored \subseteq DOMAIN stored',
           components \subseteq components'
    PROVE  Loads(s)'
BY DEF Loads, ReferencesVerified, ComponentsOf, RangeOf

\* The steps that change neither disk nor lock: one call moves between two
\* phases that need nothing.
LEMMA LocalStep ==
    ASSUME IInv, UNCHANGED <<components, stored, pointer, lock>>,
           NEW p \in Procs, NEW c, CallShape(c),
           call' = [call EXCEPT ![p] = c],
           call[p].pc # "replace", c.pc # "replace",
           c.pc = "lock" => Loads(c.succ)
    PROVE  IInv'
<1>1. /\ call' = [q \in Procs |-> call'[q]]
      /\ call'[p] = c
      /\ \A q \in Procs \ {p} : call'[q] = call[q]
  BY DEF IInv, CallsAreShaped
<1>2. CallsAreShaped'
  BY <1>1 DEF IInv, CallsAreShaped, CallShape, Idle
<1>3. LockIsExclusive'
  BY <1>1 DEF IInv, LockIsExclusive
<1>4. ComparisonHolds'
  BY <1>1 DEF IInv, ComparisonHolds
<1>5. \A s : Loads(s)' <=> Loads(s)
  BY DEF Loads
<1>6. ReadyIsLoaded'
  BY <1>1, <1>5 DEF IInv, ReadyIsLoaded
<1>7. CurrentIsIntact'
  BY <1>5 DEF IInv, CurrentIsIntact, CurrentIs
<1>. QED BY <1>2, <1>3, <1>4, <1>6, <1>7 DEF IInv

\* Both ends of a step of one call have their shape.
LEMMA StepShape ==
    ASSUME CallsAreShaped, NEW p \in Procs, call[p].pc # "idle", NEW pc, pc # "idle",
           Step(p, pc)
    PROVE  /\ call' = [call EXCEPT ![p] = Moved(call[p], pc)]
           /\ CallShape(Moved(call[p], pc))
           /\ Moved(call[p], pc).pc = pc
           /\ Moved(call[p], pc).succ = call[p].succ
           /\ Moved(call[p], pc).pred = call[p].pred
           /\ Moved(call[p], pc).op = call[p].op
BY DEF Step, Moved, Active, CallShape

\* The beginning of a call.
LEMMA BeginStep ==
    ASSUME IInv, NEW p \in Procs, NEW op, NEW pred, NEW succ, NEW new,
           Begin(p, op, pred, succ, new)
    PROVE  IInv'
<1>. DEFINE c == Active("build", op, pred, succ, new)
<1>1. CallShape(c) /\ c.pc = "build"
  BY DEF Active, CallShape
<1>2. call[p].pc # "replace" /\ call' = [call EXCEPT ![p] = c]
  BY DEF Begin
<1>. QED BY <1>1, <1>2, LocalStep DEF Begin

\* Nothing is published and nobody has the lock.
THEOREM InitIInv == Init => IInv
<1>. SUFFICES ASSUME Init PROVE IInv
  OBVIOUS
<1>. USE DEF Init
<1>1. CallsAreShaped
  BY DEF CallsAreShaped, CallShape
<1>2. LockIsExclusive /\ ComparisonHolds /\ ReadyIsLoaded
  BY NobodyAssumption DEF LockIsExclusive, ComparisonHolds, ReadyIsLoaded, Idle
<1>3. LegacySnapshot.refs = <<>>
  BY DEF LegacySnapshot, Snapshot
<1>4. Loads(LegacySnapshot)
  BY <1>3 DEF Loads, ReferencesVerified, ComponentsOf, RangeOf
<1>5. CurrentIsIntact
  BY <1>4 DEF CurrentIsIntact, CurrentIs
<1>. QED BY <1>1, <1>2, <1>5 DEF IInv

\* Every step of a publication keeps the invariant.
THEOREM NextIInv == IInv /\ [Next]_vars => IInv'
<1>. SUFFICES ASSUME IInv, [Next]_vars PROVE IInv'
  OBVIOUS
<1>1. ASSUME NEW p \in Procs, NEW s, BeginBootstrap(p, s) PROVE IInv'
  BY <1>1, BeginStep DEF BeginBootstrap, Derive
<1>2. ASSUME NEW p \in Procs, NEW s, NEW c, BeginExtend(p, s, c) PROVE IInv'
  BY <1>2, BeginStep DEF BeginExtend, Derive
<1>3. ASSUME NEW p \in Procs, NEW s, NEW c, BeginCorrection(p, s, c.component, c.impact)
      PROVE  IInv'
  BY <1>3, BeginStep DEF BeginCorrection, Derive
<1>4. ASSUME NEW p \in Procs, NEW s, BeginShadow(p, s) PROVE IInv'
  <2>. DEFINE c == [pc |-> "load", op |-> "shadow", pred |-> pointer.snapshot,
                    succ |-> s, new |-> <<>>]
  <2>1. call' = [call EXCEPT ![p] = c]
    BY <1>4 DEF BeginShadow, Active
  <2>2. CallShape(c) /\ c.pc = "load"
    BY DEF CallShape
  <2>. QED BY <1>4, <2>1, <2>2, LocalStep DEF BeginShadow
<1>5. ASSUME NEW p \in Procs, BeginResearch(p) PROVE IInv'
  BY <1>5, BeginStep DEF BeginResearch
<1>6. ASSUME NEW p \in Procs, RecordComponents(p) PROVE IInv'
  <2>1. components \subseteq components' /\ UNCHANGED <<stored, pointer, lock>>
    BY <1>6 DEF RecordComponents
  <2>2. PICK c : /\ call' = [call EXCEPT ![p] = c]
                 /\ CallShape(c) /\ c.pc \in {"idle", "load", "rename"}
    <3>1. call[p].pc # "idle" /\ CallsAreShaped
      BY <1>6 DEF RecordComponents, IInv
    <3>2. \/ Return(p)
          \/ Step(p, "load")
          \/ Step(p, "rename")
      BY <1>6 DEF RecordComponents
    <3>3. CASE Return(p)
      <4>1. call' = [call EXCEPT ![p] = Idle]
        BY <3>3 DEF Return
      <4>2. CallShape(Idle) /\ Idle.pc = "idle"
        BY DEF CallShape, Idle
      <4>. QED BY <4>1, <4>2
    <3>4. CASE Step(p, "load")
      BY <3>4, <3>1, StepShape
    <3>5. CASE Step(p, "rename")
      BY <3>5, <3>1, StepShape
    <3>. QED BY <3>2, <3>3, <3>4, <3>5
  <2>3. /\ call' = [q \in Procs |-> call'[q]]
        /\ call'[p] = c
        /\ \A q \in Procs \ {p} : call'[q] = call[q]
    BY <2>2 DEF IInv, CallsAreShaped
  <2>4. \A s : Loads(s) => Loads(s)'
    BY <2>1, LoadsIsStable
  <2>5. call[p].pc = "build"
    BY <1>6 DEF RecordComponents
  <2>6. CallsAreShaped'
    BY <2>2, <2>3 DEF IInv, CallsAreShaped, CallShape, Idle
  <2>7. LockIsExclusive' /\ ComparisonHolds' /\ ReadyIsLoaded'
    BY <2>1, <2>2, <2>3, <2>4, <2>5
       DEF IInv, LockIsExclusive, ComparisonHolds, ReadyIsLoaded
  <2>8. CurrentIsIntact'
    BY <2>1, <2>4 DEF IInv, CurrentIsIntact, CurrentIs
  <2>. QED BY <2>6, <2>7, <2>8 DEF IInv
<1>7. ASSUME NEW p \in Procs, RenameSnapshot(p) PROVE IInv'
  <2>0. call[p].pc = "rename" /\ UNCHANGED <<components, pointer, lock>> /\ CallsAreShaped
    BY <1>7 DEF RenameSnapshot, IInv
  <2>1. CASE call[p].succ \in DOMAIN stored
    <3>1. call' = [call EXCEPT ![p] = Idle] /\ CallShape(Idle) /\ Idle.pc = "idle"
      BY <1>7, <2>1 DEF RenameSnapshot, Return, CallShape, Idle
    <3>. QED BY <1>7, <2>0, <2>1, <3>1, LocalStep DEF RenameSnapshot
  <2>2. CASE call[p].succ \notin DOMAIN stored
    <3>. DEFINE c == Moved(call[p], "load")
    <3>1. /\ call' = [call EXCEPT ![p] = c] /\ CallShape(c) /\ c.pc = "load"
      BY <1>7, <2>0, <2>2, StepShape DEF RenameSnapshot
    <3>2. /\ call' = [q \in Procs |-> call'[q]]
          /\ call'[p] = c
          /\ \A q \in Procs \ {p} : call'[q] = call[q]
      BY <3>1 DEF IInv, CallsAreShaped
    <3>3. /\ DOMAIN stored \subseteq DOMAIN stored'
          /\ \A s \in DOMAIN stored : s # call[p].succ /\ stored'[s] = stored[s]
      BY <1>7, <2>2 DEF RenameSnapshot, Put
    <3>4. \A s : Loads(s) => Loads(s)'
      BY <2>0, <3>3, LoadsIsStable
    <3>5. CallsAreShaped'
      BY <3>1, <3>2 DEF IInv, CallsAreShaped
    <3>6. LockIsExclusive' /\ ComparisonHolds' /\ ReadyIsLoaded'
      BY <2>0, <3>1, <3>2, <3>4
         DEF IInv, LockIsExclusive, ComparisonHolds, ReadyIsLoaded
    <3>7. CurrentIsIntact'
      BY <2>0, <3>3, <3>4 DEF IInv, CurrentIsIntact, CurrentIs, Loads
    <3>. QED BY <3>5, <3>6, <3>7 DEF IInv
  <2>. QED BY <2>1, <2>2
<1>8. ASSUME NEW p \in Procs, LoadSnapshot(p) PROVE IInv'
  <2>1. call[p].pc = "load" /\ UNCHANGED <<components, stored, pointer, lock>>
        /\ CallsAreShaped
    BY <1>8 DEF LoadSnapshot, IInv
  <2>2. CASE Publishable(call[p]) /\ call[p].op # "bootstrap"
    <3>. DEFINE c == Moved(call[p], "lock")
    <3>1. /\ call' = [call EXCEPT ![p] = c] /\ CallShape(c) /\ c.pc = "lock"
          /\ c.succ = call[p].succ
      BY <1>8, <2>1, <2>2, StepShape DEF LoadSnapshot
    <3>2. Loads(c.succ)
      BY <2>2, <3>1 DEF Publishable
    <3>. QED BY <2>1, <3>1, <3>2, LocalStep
  <2>3. CASE ~(Publishable(call[p]) /\ call[p].op # "bootstrap")
    <3>1. call' = [call EXCEPT ![p] = Idle] /\ CallShape(Idle) /\ Idle.pc = "idle"
      BY <1>8, <2>3 DEF LoadSnapshot, Return, CallShape, Idle
    <3>. QED BY <2>1, <3>1, LocalStep
  <2>. QED BY <2>2, <2>3
<1>9. ASSUME NEW p \in Procs, LockAndCompare(p) PROVE IInv'
  <2>1. call[p].pc = "lock" /\ lock = Nobody /\ UNCHANGED <<components, stored, pointer>>
        /\ CallsAreShaped
    BY <1>9 DEF LockAndCompare, IInv
  <2>2. CASE call[p].op = "research" \/ CurrentIs(call[p].pred)
    <3>. DEFINE c == Moved(call[p], "replace")
    <3>1. /\ call' = [call EXCEPT ![p] = c] /\ CallShape(c) /\ c.pc = "replace"
          /\ c.succ = call[p].succ /\ c.pred = call[p].pred /\ c.op = call[p].op
          /\ lock' = p
      BY <1>9, <2>1, <2>2, StepShape DEF LockAndCompare
    <3>2. /\ call' = [q \in Procs |-> call'[q]]
          /\ call'[p] = c
          /\ \A q \in Procs \ {p} : call'[q] = call[q] /\ call[q].pc # "replace"
      BY <2>1, <3>1, NobodyAssumption DEF IInv, CallsAreShaped, LockIsExclusive
    <3>3. c.op # "research" => c.pred = pointer.snapshot
      BY <2>2, <3>1 DEF CurrentIs
    <3>4. \A s : Loads(s)' <=> Loads(s)
      BY <2>1 DEF Loads
    <3>5. CallsAreShaped' /\ LockIsExclusive' /\ ComparisonHolds'
      BY <2>1, <3>1, <3>2, <3>3
         DEF IInv, CallsAreShaped, LockIsExclusive, ComparisonHolds
    <3>6. ReadyIsLoaded'
      BY <2>1, <3>1, <3>2, <3>4 DEF IInv, ReadyIsLoaded
    <3>7. CurrentIsIntact'
      BY <2>1, <3>4 DEF IInv, CurrentIsIntact, CurrentIs
    <3>. QED BY <3>5, <3>6, <3>7 DEF IInv
  <2>3. CASE ~(call[p].op = "research" \/ CurrentIs(call[p].pred))
    <3>1. /\ call' = [call EXCEPT ![p] = Idle] /\ CallShape(Idle) /\ Idle.pc = "idle"
          /\ UNCHANGED lock
      BY <1>9, <2>3 DEF LockAndCompare, Return, CallShape, Idle
    <3>. QED BY <2>1, <3>1, LocalStep
  <2>. QED BY <2>2, <2>3
<1>10. ASSUME NEW p \in Procs, ReplacePointer(p) PROVE IInv'
  <2>1. /\ call[p].pc = "replace" /\ lock = p /\ lock' = Nobody
        /\ call' = [call EXCEPT ![p] = Idle]
        /\ UNCHANGED <<components, stored>>
        /\ pointer' = [snapshot |-> call[p].succ, manifest |-> stored[call[p].succ]]
    BY <1>10 DEF ReplacePointer, Return, IInv, LockIsExclusive
  <2>2. /\ call' = [q \in Procs |-> call'[q]]
        /\ call'[p] = Idle
        /\ \A q \in Procs \ {p} : call'[q] = call[q] /\ call[q].pc # "replace"
    BY <2>1 DEF IInv, CallsAreShaped, LockIsExclusive
  <2>3. \A s : Loads(s)' <=> Loads(s)
    BY <2>1 DEF Loads
  <2>4. CallsAreShaped'
    BY <2>2 DEF IInv, CallsAreShaped, CallShape
  <2>5. LockIsExclusive' /\ ComparisonHolds' /\ ReadyIsLoaded'
    BY <2>1, <2>2, <2>3, NobodyAssumption
       DEF IInv, LockIsExclusive, ComparisonHolds, ReadyIsLoaded, Idle
  <2>6. Loads(call[p].succ)
    BY <2>1 DEF IInv, ReadyIsLoaded
  <2>7. CurrentIsIntact'
    BY <2>1, <2>3, <2>6 DEF CurrentIsIntact, CurrentIs
  <2>. QED BY <2>4, <2>5, <2>7 DEF IInv
<1>11. ASSUME NEW p \in Procs, Crash(p) PROVE IInv'
  <2>1. /\ call' = [call EXCEPT ![p] = Idle]
        /\ UNCHANGED <<components, stored, pointer>>
        /\ lock' = IF lock = p THEN Nobody ELSE lock
    BY <1>11 DEF Crash, Return
  <2>2. /\ call' = [q \in Procs |-> call'[q]]
        /\ call'[p] = Idle
        /\ \A q \in Procs \ {p} : call'[q] = call[q]
    BY <2>1 DEF IInv, CallsAreShaped
  <2>3. \A s : Loads(s)' <=> Loads(s)
    BY <2>1 DEF Loads
  <2>4. CallsAreShaped'
    BY <2>2 DEF IInv, CallsAreShaped, CallShape
  <2>5. LockIsExclusive' /\ ComparisonHolds' /\ ReadyIsLoaded'
    BY <2>1, <2>2, <2>3, NobodyAssumption
       DEF IInv, LockIsExclusive, ComparisonHolds, ReadyIsLoaded, Idle
  <2>6. CurrentIsIntact'
    BY <2>1, <2>3 DEF IInv, CurrentIsIntact, CurrentIs
  <2>. QED BY <2>4, <2>5, <2>6 DEF IInv
<1>12. ASSUME UNCHANGED vars PROVE IInv'
  BY <1>12 DEF vars, IInv, CallsAreShaped, LockIsExclusive, ComparisonHolds, ReadyIsLoaded,
       CurrentIsIntact, CurrentIs, Loads
<1>. QED
  BY <1>1, <1>2, <1>3, <1>4, <1>5, <1>6, <1>7, <1>8, <1>9, <1>10, <1>11, <1>12 DEF Next

-----------------------------------------------------------------------------
\* Whatever dies or races, current.json names a snapshot that is in place with
\* all its components, in the bytes whose checksum was taken.
THEOREM PointerIsIntact == Spec => []CurrentIsIntact
<1>1. IInv => CurrentIsIntact
  BY DEF IInv
<1>. QED BY <1>1, InitIInv, NextIInv, PTL DEF Spec

\* Only a process that holds the lock is between its comparison and the
\* replacement of the pointer.
THEOREM OneReplaces == Spec => []LockIsExclusive
<1>1. IInv => LockIsExclusive
  BY DEF IInv
<1>. QED BY <1>1, InitIInv, NextIInv, PTL DEF Spec

\* publish_if_current is a compare-and-swap for any number of processes.
THEOREM PointerIsSwapped == Spec => PublishedBySwap
<1>1. IInv /\ [Next]_vars => [SwapsOnly]_vars
  <2>. SUFFICES ASSUME IInv, Next, pointer' # pointer PROVE SwapsOnly
    BY DEF SwapsOnly, vars
  <2>1. PICK p \in Procs : ReplacePointer(p)
    BY DEF Next, BeginBootstrap, BeginExtend, BeginCorrection, Derive, Begin, BeginShadow,
       BeginResearch, RecordComponents, RenameSnapshot, LoadSnapshot, LockAndCompare, Crash
  <2>2. /\ call[p].pc = "replace"
        /\ pointer'.snapshot = call[p].succ
        /\ call[p].op = "research" \/ call[p].pred = pointer.snapshot
    BY <2>1 DEF ReplacePointer, IInv, ComparisonHolds
  <2>. QED BY <2>2 DEF SwapsOnly
<1>. QED BY <1>1, InitIInv, NextIInv, PTL DEF Spec, PublishedBySwap

-----------------------------------------------------------------------------
(* Lists of references.                                                    *)

IsSequence(s) == \E T : s \in Seq(T)

\* Appending keeps what is there, in place.
LEMMA Appended ==
    ASSUME NEW s, IsSequence(s), NEW t, IsSequence(t)
    PROVE  /\ IsSequence(s \o t)
           /\ \A n \in DOMAIN s : n \in DOMAIN (s \o t) /\ (s \o t)[n] = s[n]
<1>1. PICK S : s \in Seq(S)
  BY DEF IsSequence
<1>2. PICK T : t \in Seq(T)
  BY DEF IsSequence
<1>3. s \in Seq(S \cup T) /\ t \in Seq(S \cup T)
  BY <1>1, <1>2
<1>4. /\ s \o t \in Seq(S \cup T)
      /\ \A n \in DOMAIN s : n \in DOMAIN (s \o t) /\ (s \o t)[n] = s[n]
  BY <1>3
<1>. QED BY <1>4 DEF IsSequence

\* A function of the first numbers is a sequence.
LEMMA Listed ==
    ASSUME NEW n \in Nat, NEW f, DOMAIN f = 1..n, f = [k \in 1..n |-> f[k]]
    PROVE  IsSequence(f)
<1>1. f \in Seq({f[k] : k \in 1..n})
  OBVIOUS
<1>. QED BY <1>1 DEF IsSequence

\* bootstrap makes a list of references.
LEMMA BootstrapRefsAreListed ==
    ASSUME NEW slices, Len(slices) \in Nat
    PROVE  IsSequence(BootstrapRefs(slices))
<1>. DEFINE all == (1..Len(slices)) \X (1..3)
            made == {m \in all : m[2] \in DOMAIN SliceComponents(slices[m[1]])}
<1>1. IsFiniteSet(1..Len(slices)) /\ IsFiniteSet(1..3)
  <2>1. 1 \in Int /\ 3 \in Int /\ Len(slices) \in Int
    OBVIOUS
  <2>. QED BY <2>1, FS_Interval, Zenon
<1>2. IsFiniteSet(all)
  BY <1>1, FS_Product
<1>3. IsFiniteSet(made)
  BY <1>2, FS_Subset
<1>4. Cardinality(made) \in Nat
  BY <1>3, FS_CardinalityType
<1>. DEFINE rank(m) == 10 * (m[1] - 1) + m[2] - 1
            nth(k) == CHOOSE m \in made : Cardinality({l \in made : rank(l) < rank(m)}) = k - 1
            ref(m) == Ref(SliceComponents(slices[m[1]])[m[2]], slices[m[1]].priority, rank(m))
<1>5. BootstrapRefs(slices) = [k \in 1..Cardinality(made) |-> ref(nth(k))]
  BY Zenon DEF BootstrapRefs
<1>. HIDE DEF made, nth, ref
<1>. QED BY <1>4, <1>5, Listed

\* So does the table of an increment ...
LEMMA TableRefsAreListed ==
    ASSUME NEW table, NEW ids, NEW from, NEW to, NEW facts, NEW rules, NEW ordinal
    PROVE  IsSequence(TableRefs(table, ids, from, to, facts, rules, ordinal))
<1>. DEFINE f == TableRefs(table, ids, from, to, facts, rules, ordinal)
<1>1. PICK n \in Nat : DOMAIN f = 1..n /\ f = [k \in 1..n |-> f[k]]
  BY DEF TableRefs
<1>. HIDE DEF f
<1>2. IsSequence(f)
  BY <1>1, Listed
<1>. QED BY <1>2 DEF f

\* ... and its instruments, hence extend ...
LEMMA ExtendRefsAreListed ==
    ASSUME NEW refs, NEW increment
    PROVE  IsSequence(ExtendRefs(refs, increment))
<1>1. \A a, b : IsSequence(<<a>>) /\ IsSequence(<<>>)
  <2>1. \A a : <<a>> \in Seq({a}) /\ <<>> \in Seq({a})
    OBVIOUS
  <2>. QED BY <2>1 DEF IsSequence
<1>2. \A master, ordinal : IsSequence(InstrumentRefs(refs, master, ordinal))
  BY <1>1, Appended DEF InstrumentRefs
<1>. QED BY <1>2, TableRefsAreListed, Appended DEF ExtendRefs

\* ... and apply_scoped_update.
LEMMA CorrectionRefsAreListed ==
    ASSUME NEW refs, NEW component, NEW impact
    PROVE  IsSequence(CorrectionRefs(refs, component, impact))
<1>1. \A a : IsSequence(<<a>>) /\ IsSequence(<<>>)
  <2>1. \A a : <<a>> \in Seq({a}) /\ <<>> \in Seq({a})
    OBVIOUS
  <2>. QED BY <2>1 DEF IsSequence
<1>. QED BY <1>1, Appended DEF CorrectionRefs

\* A set of natural numbers that is not empty has a least one.
LEMMA LeastNatural ==
    ASSUME NEW S \in SUBSET Nat, S # {}
    PROVE  \E x \in S : \A y \in S : x <= y
<1>1. PICK x \in S : \A y \in S : ~(<<y, x>> \in OpToRel(<, Nat))
  BY NatLessThanWellFounded, WFMin
<1>2. \A y \in S : ~(y < x)
  BY <1>1 DEF OpToRel
<1>. QED BY <1>2

\* The first numbers of a list of natural numbers have a greatest one.
LEMMA ListHasGreatest ==
    ASSUME NEW n \in Nat, NEW f, \A k \in 1..n : f[k] \in Nat
    PROVE  /\ MaxOf({f[k] : k \in 1..n} \cup {0}) \in Nat
           /\ \A k \in 1..n : f[k] <= MaxOf({f[j] : j \in 1..n} \cup {0})
<1>. DEFINE Upto(m) == {f[k] : k \in 1..m} \cup {0}
            Greatest(m) == \E x \in Upto(m) : \A y \in Upto(m) : y <= x
            T == {m \in 0..n : ~Greatest(m)}
<1>1. T = {}
  <2>. SUFFICES ASSUME T # {} PROVE FALSE
    OBVIOUS
  <2>1. PICK m \in T : \A k \in T : m <= k
    <3>1. T \in SUBSET Nat
      OBVIOUS
    <3>. HIDE DEF T
    <3>. QED BY <3>1, LeastNatural
  <2>2. Greatest(0)
    <3>1. Upto(0) = {0}
      OBVIOUS
    <3>. QED BY <3>1
  <2>3. m \in 1..n /\ m - 1 \in 0..n /\ Greatest(m - 1)
    <3>. HIDE DEF Greatest
    <3>. QED BY <2>1, <2>2
  <2>4. Upto(m) = Upto(m - 1) \cup {f[m]} /\ f[m] \in Nat
    BY <2>3
  <2>5. PICK x \in Upto(m - 1) : \A y \in Upto(m - 1) : y <= x
    BY <2>3
  <2>6. Upto(m - 1) \subseteq Nat
    BY <2>3
  <2>. HIDE DEF Upto
  <2>7. Greatest(m)
    <3>1. CASE f[m] <= x
      BY <2>4, <2>5, <2>6, <3>1
    <3>2. CASE ~(f[m] <= x)
      BY <2>4, <2>5, <2>6, <3>2
    <3>. QED BY <3>1, <3>2
  <2>. QED BY <2>1, <2>7
<1>2. Greatest(n) /\ Upto(n) \subseteq Nat
  <2>. HIDE DEF Greatest
  <2>. QED BY <1>1
<1>. DEFINE S == Upto(n)
<1>. HIDE DEF S
<1>3. MaxOf(S) \in S /\ \A y \in S : y <= MaxOf(S)
  BY <1>2 DEF MaxOf, S
<1>4. S \subseteq Nat /\ \A k \in 1..n : f[k] \in S
  BY <1>2 DEF S
<1>. QED BY <1>3, <1>4 DEF S

\* The references of two lists in a row are those of both.
LEMMA RangeOfBoth ==
    ASSUME NEW s, IsSequence(s), NEW t, IsSequence(t)
    PROVE  RangeOf(s \o t) = RangeOf(s) \cup RangeOf(t)
<1>1. PICK S : s \in Seq(S)
  BY DEF IsSequence
<1>2. PICK T : t \in Seq(T)
  BY DEF IsSequence
<1>3. s \in Seq(S \cup T) /\ t \in Seq(S \cup T)
  BY <1>1, <1>2
<1>. DEFINE u == s \o t
<1>4. /\ Len(s) \in Nat /\ Len(t) \in Nat /\ DOMAIN s = 1..Len(s) /\ DOMAIN t = 1..Len(t)
      /\ DOMAIN u = 1..(Len(s) + Len(t))
      /\ \A k \in 1..(Len(s) + Len(t)) : u[k] = IF k <= Len(s) THEN s[k] ELSE t[k - Len(s)]
  BY <1>3
<1>. HIDE DEF u
<1>5. \A k \in DOMAIN s : k \in DOMAIN u /\ u[k] = s[k]
  BY <1>4
<1>6. \A k \in DOMAIN t : Len(s) + k \in DOMAIN u /\ u[Len(s) + k] = t[k]
  BY <1>4
<1>7. \A k \in DOMAIN u : k \in DOMAIN s \/ (k - Len(s) \in DOMAIN t /\ u[k] = t[k - Len(s)])
  BY <1>4
<1>8. RangeOf(u) \subseteq RangeOf(s) \cup RangeOf(t)
  BY <1>5, <1>7 DEF RangeOf
<1>9. RangeOf(s) \subseteq RangeOf(u)
  BY <1>5 DEF RangeOf
<1>10. RangeOf(t) \subseteq RangeOf(u)
  BY <1>6 DEF RangeOf
<1>. QED BY <1>8, <1>9, <1>10 DEF u

\* Whatever has a priority and an ordinal has some below the next ordinal and the
\* greatest priority.
LEMMA AboveAll ==
    ASSUME NEW refs, IsSequence(refs),
           \A r \in RangeOf(refs) : r.priority \in Nat /\ r.ordinal \in Nat
    PROVE  LET top == MaxOf({r.priority : r \in RangeOf(refs)} \cup {0})
           IN  /\ top \in Nat /\ NextOrdinal(refs) \in Nat
               /\ \A r \in RangeOf(refs) : r.priority <= top /\ r.ordinal < NextOrdinal(refs)
<1>1. PICK n \in Nat : DOMAIN refs = 1..n
  BY DEF IsSequence
<1>. DEFINE f == [k \in 1..n |-> refs[k].priority]
            g == [k \in 1..n |-> refs[k].ordinal + 1]
            top == MaxOf({r.priority : r \in RangeOf(refs)} \cup {0})
<1>2. \A k \in 1..n : refs[k] \in RangeOf(refs)
  BY <1>1 DEF RangeOf
<1>3. \A k \in 1..n : f[k] \in Nat /\ g[k] \in Nat
  BY <1>2
<1>4. {f[k] : k \in 1..n} = {r.priority : r \in RangeOf(refs)}
  BY <1>1 DEF RangeOf
<1>5. {g[k] : k \in 1..n} = {r.ordinal + 1 : r \in RangeOf(refs)}
  BY <1>1 DEF RangeOf
<1>6. top \in Nat /\ \A k \in 1..n : f[k] <= top
  <2>. HIDE DEF f
  <2>. QED BY <1>3, <1>4, ListHasGreatest
<1>7. NextOrdinal(refs) \in Nat /\ \A k \in 1..n : g[k] <= NextOrdinal(refs)
  <2>. HIDE DEF g
  <2>. QED BY <1>3, <1>5, ListHasGreatest DEF NextOrdinal
<1>8. \A r \in RangeOf(refs) : \E k \in 1..n : r = refs[k]
  BY <1>1 DEF RangeOf
<1>9. \A r \in RangeOf(refs) : r.priority <= top /\ r.ordinal < NextOrdinal(refs)
  <2>. TAKE r \in RangeOf(refs)
  <2>1. PICK k \in 1..n : r = refs[k]
    BY <1>8
  <2>2. f[k] = r.priority /\ g[k] = r.ordinal + 1
    BY <2>1
  <2>. HIDE DEF f, g, top
  <2>. QED BY <1>6, <1>7, <2>2
<1>. QED BY <1>6, <1>7, <1>9

\* The subsets of a finite set, and what is left when one element is taken out.
LEMMA Subsets ==
    ASSUME NEW S, IsFiniteSet(S), NEW T \in SUBSET S
    PROVE  /\ IsFiniteSet(T) /\ Cardinality(T) \in Nat
           /\ Cardinality(T) = 0 <=> T = {}
           /\ \A x \in T : Cardinality(T \ {x}) = Cardinality(T) - 1
<1>1. IsFiniteSet(T)
  BY FS_Subset
<1>2. Cardinality(T) \in Nat
  BY <1>1, FS_CardinalityType
<1>3. Cardinality(T) = 0 <=> T = {}
  BY <1>1, FS_EmptySet
<1>4. \A x \in T : Cardinality(T \ {x}) = Cardinality(T) - 1
  BY <1>1, FS_RemoveElement
<1>. QED BY <1>1, <1>2, <1>3, <1>4

\* The numbers below n.
LEMMA UpTo ==
    ASSUME NEW n \in Nat
    PROVE  IsFiniteSet(0..n - 1) /\ Cardinality(0..n - 1) = n
<1>1. PICK m \in Int : m = n - 1
  OBVIOUS
<1>2. 0 \in Int /\ (0 > m => n = 0) /\ (~(0 > m) => (m - 0) + 1 = n)
  BY <1>1
<1>3. IsFiniteSet(0..m) /\ Cardinality(0..m) = IF 0 > m THEN 0 ELSE m - 0 + 1
  BY FS_Interval
<1>. QED BY <1>1, <1>2, <1>3

\* If different elements have different ranks, below their number, there is one of
\* every rank.
LEMMA RanksAreTaken ==
    ASSUME NEW S, IsFiniteSet(S), NEW r, \A l \in S : r[l] \in 0..Cardinality(S) - 1,
           \A l, m \in S : r[l] = r[m] => l = m, NEW k \in 0..Cardinality(S) - 1
    PROVE  \E l \in S : r[l] = k
<1>1. PICK n \in Nat : n = Cardinality(S)
  BY FS_CardinalityType
<1>2. PICK g : g = [l \in S |-> r[l]]
  OBVIOUS
<1>3. g \in Injection(S, 0..n - 1)
  BY <1>1, <1>2 DEF Injection, IsInjective
<1>4. IsFiniteSet(0..n - 1) /\ Cardinality(0..n - 1) = n
  BY UpTo
<1>5. g \in Surjection(S, 0..n - 1)
  BY <1>1, <1>3, <1>4, FS_Injection
<1>. QED BY <1>1, <1>2, <1>5 DEF Surjection

\* The ranks in an order that is total: how many come before.
LEMMA RanksDiffer ==
    ASSUME NEW S, IsFiniteSet(S), NEW before, \A l \in S : before[l] \subseteq S,
           \A l \in S : l \notin before[l],
           \A l, m \in S : l = m \/ l \in before[m] \/ m \in before[l],
           \A l, m \in S : l \in before[m] => before[l] \subseteq before[m]
    PROVE  /\ \A l \in S : Cardinality(before[l]) \in 0..Cardinality(S) - 1
           /\ \A l, m \in S : Cardinality(before[l]) = Cardinality(before[m]) => l = m
<1>1. ASSUME NEW l \in S PROVE Cardinality(before[l]) \in 0..Cardinality(S) - 1
  <2>1. Cardinality(before[l]) \in Nat /\ Cardinality(S) \in Nat
    BY Subsets
  <2>2. before[l] \subseteq S \ {l} /\ IsFiniteSet(S \ {l})
    BY FS_Subset
  <2>3. Cardinality(before[l]) <= Cardinality(S \ {l})
    BY <2>2, FS_Subset
  <2>4. Cardinality(S \ {l}) = Cardinality(S) - 1
    BY FS_RemoveElement
  <2> QED BY <2>1, <2>3, <2>4
<1>2. ASSUME NEW l \in S, NEW m \in S, l \in before[m]
      PROVE  Cardinality(before[l]) < Cardinality(before[m])
  <2>1. Cardinality(before[l]) \in Nat /\ Cardinality(before[m]) \in Nat
        /\ IsFiniteSet(before[m])
    BY Subsets
  <2>2. before[l] \subseteq before[m] \ {l} /\ IsFiniteSet(before[m] \ {l})
    BY <1>2, <2>1, FS_Subset
  <2>3. Cardinality(before[l]) <= Cardinality(before[m] \ {l})
    BY <2>2, FS_Subset
  <2>4. Cardinality(before[m] \ {l}) = Cardinality(before[m]) - 1
    BY <1>2, <2>1, FS_RemoveElement
  <2> QED BY <2>1, <2>3, <2>4
<1>3. \A l \in S : Cardinality(before[l]) \in Nat
  BY <1>1
<1>4. ASSUME NEW l \in S, NEW m \in S, Cardinality(before[l]) = Cardinality(before[m])
      PROVE  l = m
  <2>1. ~(l \in before[m]) /\ ~(m \in before[l])
    BY <1>2, <1>3, <1>4
  <2> QED BY <2>1
<1>. QED BY <1>1, <1>4


\* A legacy slice takes three ordinals at most.
OrdinalOf(m) == 10 * (m[1] - 1) + m[2] - 1

\* What bootstrap makes of a slice is referred to with the priority of the slice.
LEMMA BootstrapRefsAreMade ==
    ASSUME NEW slices, Len(slices) \in Nat, NEW r \in RangeOf(BootstrapRefs(slices))
    PROVE  \E n \in 1..Len(slices), k \in 1..3 :
              /\ k \in DOMAIN SliceComponents(slices[n])
              /\ r = Ref(SliceComponents(slices[n])[k], slices[n].priority,
                         10 * (n - 1) + k - 1)
<1>. DEFINE all == (1..Len(slices)) \X (1..3)
            made == {m \in all : m[2] \in DOMAIN SliceComponents(slices[m[1]])}
            below(m) == {x \in made : OrdinalOf(x) < OrdinalOf(m)}
            nth(k) == CHOOSE m \in made : Cardinality(below(m)) = k - 1
            ref(m) == Ref(SliceComponents(slices[m[1]])[m[2]], slices[m[1]].priority,
                          OrdinalOf(m))
<1>1. IsFiniteSet(made)
  <2>1. IsFiniteSet(1..Len(slices)) /\ IsFiniteSet(1..3)
    <3>1. 1 \in Int /\ 3 \in Int /\ Len(slices) \in Int
      OBVIOUS
    <3>. QED BY <3>1, FS_Interval, Zenon
  <2>. QED BY <2>1, FS_Product, FS_Subset
<1>2. \A m \in made : OrdinalOf(m) \in Nat
  BY DEF OrdinalOf
<1>3. \A l, m \in made : OrdinalOf(l) = OrdinalOf(m) => l = m
  <2>1. \A m \in made : m = <<m[1], m[2]>> /\ m[1] \in Nat /\ m[2] \in 1..3
    OBVIOUS
  <2>2. \A a, b \in Nat, i, j \in 1..3 :
            10 * (a - 1) + i - 1 = 10 * (b - 1) + j - 1 => a = b /\ i = j
    <3>. TAKE a, b \in Nat, i, j \in 1..3
    <3>. HAVE 10 * (a - 1) + i - 1 = 10 * (b - 1) + j - 1
    <3>1. ~(a < b) /\ ~(b < a)
      OBVIOUS
    <3>. QED BY <3>1
  <2>. HIDE DEF made
  <2>. TAKE l, m \in made
  <2>. HAVE OrdinalOf(l) = OrdinalOf(m)
  <2>3. l[1] = m[1] /\ l[2] = m[2]
    BY <2>1, <2>2 DEF OrdinalOf
  <2>. QED BY <2>1, <2>3
<1>4. BootstrapRefs(slices) = [k \in 1..Cardinality(made) |-> ref(nth(k))]
  BY DEF BootstrapRefs, OrdinalOf
<1>5. ASSUME NEW m \in made
      PROVE  \E n \in 1..Len(slices), k \in 1..3 :
                /\ k \in DOMAIN SliceComponents(slices[n])
                /\ ref(m) = Ref(SliceComponents(slices[n])[k], slices[n].priority,
                                10 * (n - 1) + k - 1)
  BY DEF OrdinalOf
<1>. HIDE DEF made, ref
<1>6. PICK n \in Nat : n = Cardinality(made)
  BY <1>1, FS_CardinalityType
<1>7. PICK before : before = [m \in made |-> below(m)]
  OBVIOUS
<1>8. PICK rank : rank = [m \in made |-> Cardinality(before[m])]
  OBVIOUS
<1>9. \A m \in made : before[m] = below(m) /\ rank[m] = Cardinality(before[m])
  BY <1>7, <1>8
<1>10. /\ \A m \in made : Cardinality(before[m]) \in 0..Cardinality(made) - 1
       /\ \A l, m \in made : Cardinality(before[l]) = Cardinality(before[m]) => l = m
  <2>1. /\ \A m \in made : before[m] \subseteq made /\ m \notin before[m]
        /\ \A l, m \in made : l = m \/ l \in before[m] \/ m \in before[l]
        /\ \A l, m \in made : l \in before[m] => before[l] \subseteq before[m]
    BY <1>2, <1>3, <1>9
  <2>. QED BY <1>1, <2>1, RanksDiffer
<1>11. /\ \A m \in made : rank[m] \in 0..Cardinality(made) - 1
       /\ \A l, m \in made : rank[l] = rank[m] => l = m
  BY <1>9, <1>10
<1>12. ASSUME NEW k \in 1..n PROVE nth(k) \in made
  <2>1. k - 1 \in 0..Cardinality(made) - 1
    BY <1>6
  <2>2. \E m \in made : rank[m] = k - 1
    BY <1>1, <1>11, <2>1, RanksAreTaken
  <2>3. \E m \in made : Cardinality(below(m)) = k - 1
    BY <1>9, <2>2
  <2>. QED BY <2>3
<1>13. PICK k \in 1..n : r = ref(nth(k))
  BY <1>4, <1>6 DEF RangeOf
<1>. QED BY <1>5, <1>12, <1>13

\* One reference and none are lists.
LEMMA ShortLists ==
    ASSUME NEW a
    PROVE  /\ IsSequence(<<a>>) /\ RangeOf(<<a>>) = {a} /\ Len(<<a>>) = 1
           /\ IsSequence(<<>>) /\ RangeOf(<<>>) = {} /\ Len(<<>>) = 0
<1>1. <<a>> \in Seq({a}) /\ <<>> \in Seq({a})
  OBVIOUS
<1>2. RangeOf(<<a>>) = {a} /\ RangeOf(<<>>) = {}
  BY DEF RangeOf
<1>. QED BY <1>1, <1>2 DEF IsSequence

\* A reference where the code puts it: bars have dates within the history, rows are
\* within the scope, and what corrections leave alone is in the order of its making.
Placed(r, end) ==
    LET component == r.component
        scope == component.scope
    IN  /\ r.priority \in Nat /\ r.ordinal \in Nat
        /\ scope.table = "bars" => scope.from \in Nat \ {0} /\ scope.to \in Nat /\ scope.to <= end
        /\ DOMAIN component.data \subseteq CellsOf(scope)
        /\ component.kind = "facts" \/ scope.table \notin CorrectedTables
              => r.priority <= r.ordinal + 100

ArePlaced(refs, end) ==
    /\ IsSequence(refs)
    /\ end \in Nat /\ LegacyEnd <= end
    /\ \A r \in RangeOf(refs) : Placed(r, end)

\* The view of a correction over what it overlaps.
CorrectionView(refs, component, impact) ==
    View(impact, {c \in ComponentsOf(refs) \cup {component} :
                     c.kind # "view" /\ Overlaps(c.scope, impact)})

\* A correction goes above all there is, and its view above it.
LEMMA CorrectionIsAbove ==
    ASSUME NEW refs, NEW end, ArePlaced(refs, end), NEW component, NEW impact
    PROVE  \E top \in Nat, next \in Nat :
              /\ \A r \in RangeOf(refs) : r.priority < top /\ r.ordinal < next
              /\ RangeOf(refs \o CorrectionRefs(refs, component, impact))
                    = RangeOf(refs) \cup {Ref(component, top, next)}
                      \cup IF impact.table = "bars"
                           THEN {Ref(CorrectionView(refs, component, impact), top, next + 1)}
                           ELSE {}
<1>. DEFINE top == MaxOf({r.priority : r \in RangeOf(refs)} \cup {0})
            next == NextOrdinal(refs)
            first == Ref(component, top + 100, next)
            second == Ref(CorrectionView(refs, component, impact), top + 100, next + 1)
            added == CorrectionRefs(refs, component, impact)
<1>1. /\ top \in Nat /\ next \in Nat
      /\ \A r \in RangeOf(refs) : r.priority <= top /\ r.ordinal < next
  BY AboveAll DEF ArePlaced, Placed
<1>2. added = <<first>> \o IF impact.table = "bars" THEN <<second>> ELSE <<>>
  BY Zenon DEF CorrectionRefs, CorrectionView
<1>. HIDE DEF first, second, top, next, added
<1>3. RangeOf(added) = {first} \cup IF impact.table = "bars" THEN {second} ELSE {}
  <2>1. /\ IsSequence(<<first>>) /\ RangeOf(<<first>>) = {first}
        /\ IsSequence(<<second>>) /\ RangeOf(<<second>>) = {second}
        /\ IsSequence(<<>>) /\ RangeOf(<<>>) = {}
    BY ShortLists
  <2>2. /\ RangeOf(<<first>> \o <<second>>) = {first} \cup {second}
        /\ RangeOf(<<first>> \o <<>>) = {first} \cup {}
    BY <2>1, RangeOfBoth
  <2>. QED BY <1>2, <2>2
<1>4. RangeOf(refs \o added) = RangeOf(refs) \cup RangeOf(added)
  BY CorrectionRefsAreListed, RangeOfBoth DEF ArePlaced, added
<1>5. \A r \in RangeOf(refs) : r.priority \in Nat
  BY DEF ArePlaced, Placed
<1>6. /\ top + 100 \in Nat /\ next \in Nat
      /\ \A r \in RangeOf(refs) : r.priority < top + 100 /\ r.ordinal < next
  BY <1>1, <1>5
<1>. QED BY <1>3, <1>4, <1>6 DEF first, second, added

-----------------------------------------------------------------------------
(* What an increment adds.                                                 *)

MasterCells(increment) == {<<i, 0>> : i \in DOMAIN increment.master}

\* The instruments whose rule is not the predecessor's.
ChangedCells(refs, increment) ==
    LET rows == Compose(refs, "instruments")
    IN  {x \in MasterCells(increment) :
            IF x \in DOMAIN rows THEN rows[x].rule # {increment.master[x[1]].rule} ELSE TRUE}

MasterFacts(increment) ==
    Materialized("facts", Scope("instruments", {x[1] : x \in MasterCells(increment)}, 0, 0),
                 [x \in MasterCells(increment) |-> increment.master[x[1]].fact])

MasterRuleChanges(refs, increment) ==
    Materialized("rules",
                 Scope("instruments", {x[1] : x \in ChangedCells(refs, increment)}, 0, 0),
                 [x \in ChangedCells(refs, increment) |-> increment.master[x[1]].rule])

BarCells(increment) == increment.ids \X (increment.from..increment.to)

BarScope(increment) == Scope("bars", increment.ids, increment.from, increment.to)

BarFacts(increment) ==
    Materialized("facts", BarScope(increment),
                 [x \in BarCells(increment) |-> increment.bars[x].fact])

BarRules(increment) ==
    Materialized("rules", BarScope(increment),
                 [x \in BarCells(increment) |-> increment.bars[x].rule])

BarView(increment) == View(BarScope(increment), {BarFacts(increment), BarRules(increment)})

\* The references of an increment: of its instruments, from ordinal n on, and of its
\* bars, from m on.
InstrumentsAdded(refs, increment, n) ==
    {Ref(MasterFacts(increment), n + 100, n)}
    \cup IF ChangedCells(refs, increment) = {} THEN {}
         ELSE {Ref(MasterRuleChanges(refs, increment), n + 100, n + 1)}

BarsAdded(increment, m) ==
    {Ref(BarFacts(increment), m + 100, m), Ref(BarRules(increment), m + 100, m + 1),
     Ref(BarView(increment), m + 100, m + 2)}

\* An increment's references, after those of the predecessor.
LEMMA IncrementIsAfter ==
    ASSUME NEW refs, NEW end, ArePlaced(refs, end), NEW increment
    PROVE  \E n \in Nat, m \in Nat :
              /\ n + 2 <= m
              /\ \A r \in RangeOf(refs) : r.ordinal < n
              /\ RangeOf(refs \o ExtendRefs(refs, increment))
                    = RangeOf(refs) \cup InstrumentsAdded(refs, increment, n)
                      \cup BarsAdded(increment, m)
<1>1. /\ NextOrdinal(refs) \in Nat
      /\ \A r \in RangeOf(refs) : r.ordinal < NextOrdinal(refs)
  BY AboveAll DEF ArePlaced, Placed
<1>2. PICK n \in Nat : n = NextOrdinal(refs) + 10
  BY <1>1
<1>3. PICK instruments : instruments = InstrumentRefs(refs, increment.master, n)
  OBVIOUS
<1>4. /\ IsSequence(instruments)
      /\ RangeOf(instruments) = InstrumentsAdded(refs, increment, n)
      /\ Len(instruments) \in {1, 2}
  <2>. DEFINE a == Ref(MasterFacts(increment), n + 100, n)
              b == Ref(MasterRuleChanges(refs, increment), n + 100, n + 1)
              rest == IF ChangedCells(refs, increment) = {} THEN <<>> ELSE <<b>>
  <2>1. instruments = <<a>> \o rest
    BY <1>3 DEF InstrumentRefs, MasterFacts, MasterRuleChanges, MasterCells, ChangedCells
  <2>2. InstrumentsAdded(refs, increment, n)
            = {a} \cup IF ChangedCells(refs, increment) = {} THEN {} ELSE {b}
    BY DEF InstrumentsAdded
  <2>. HIDE DEF a, b
  <2>3. /\ IsSequence(<<a>>) /\ RangeOf(<<a>>) = {a}
        /\ IsSequence(rest)
        /\ RangeOf(rest) = IF ChangedCells(refs, increment) = {} THEN {} ELSE {b}
    BY ShortLists
  <2>4. IsSequence(<<a>> \o rest) /\ RangeOf(<<a>> \o rest) = RangeOf(<<a>>) \cup RangeOf(rest)
    BY <2>3, Appended, RangeOfBoth
  <2>5. Len(<<a>> \o rest) \in {1, 2}
    <3>1. Len(<<a>> \o <<>>) = 1 /\ Len(<<a>> \o <<b>>) = 2
      OBVIOUS
    <3>2. rest = <<>> \/ rest = <<b>>
      OBVIOUS
    <3>. HIDE DEF rest
    <3>. QED BY <3>1, <3>2
  <2>. QED BY <2>1, <2>2, <2>3, <2>4, <2>5
<1>5. PICK m \in Nat : m = n + Len(instruments) + 1
  BY <1>4
<1>6. PICK bars : bars = TableRefs("bars", increment.ids, increment.from, increment.to,
                             [x \in BarCells(increment) |-> increment.bars[x].fact],
                             [x \in BarCells(increment) |-> increment.bars[x].rule], m)
  OBVIOUS
<1>7. IsSequence(bars) /\ RangeOf(bars) = BarsAdded(increment, m)
  <2>. DEFINE all == Append(<<BarFacts(increment), BarRules(increment)>>, BarView(increment))
  <2>1. bars = [k \in 1..Len(all) |-> Ref(all[k], m + 100, m + k - 1)]
    BY <1>6 DEF TableRefs, BarFacts, BarRules, BarView, BarScope
  <2>2. /\ Len(all) = 3 /\ all[1] = BarFacts(increment) /\ all[2] = BarRules(increment)
        /\ all[3] = BarView(increment)
    OBVIOUS
  <2>. HIDE DEF all
  <2>3. /\ DOMAIN bars = 1..3
        /\ bars[1] = Ref(BarFacts(increment), m + 100, m)
        /\ bars[2] = Ref(BarRules(increment), m + 100, m + 1)
        /\ bars[3] = Ref(BarView(increment), m + 100, m + 2)
    <3>1. m + 1 - 1 = m /\ m + 2 - 1 = m + 1 /\ m + 3 - 1 = m + 2
      OBVIOUS
    <3>2. bars[1] = Ref(all[1], m + 100, m + 1 - 1) /\ bars[2] = Ref(all[2], m + 100, m + 2 - 1)
          /\ bars[3] = Ref(all[3], m + 100, m + 3 - 1) /\ DOMAIN bars = 1..3
      BY <2>1, <2>2
    <3>. QED BY <3>1, <3>2, <2>2
  <2>4. RangeOf(bars) = {bars[1], bars[2], bars[3]}
    BY <2>3 DEF RangeOf
  <2>5. IsSequence(bars)
    BY <1>6, TableRefsAreListed
  <2>. QED BY <2>3, <2>4, <2>5 DEF BarsAdded
<1>8. ExtendRefs(refs, increment) = instruments \o bars
  BY <1>2, <1>3, <1>5, <1>6 DEF ExtendRefs, BarCells
<1>9. RangeOf(refs \o ExtendRefs(refs, increment))
          = RangeOf(refs) \cup (RangeOf(instruments) \cup RangeOf(bars))
  <2>1. IsSequence(refs)
    BY DEF ArePlaced
  <2>2. IsSequence(instruments \o bars)
    BY <1>4, <1>7, Appended
  <2>. QED BY <1>4, <1>7, <1>8, <2>1, <2>2, RangeOfBoth
<1>10. n + 2 <= m /\ \A r \in RangeOf(refs) : r.ordinal < n
  <2>1. \A r \in RangeOf(refs) : r.ordinal \in Nat
    BY DEF ArePlaced, Placed
  <2>2. PICK next \in Nat : next = NextOrdinal(refs)
    BY <1>1
  <2>3. PICK l \in {1, 2} : l = Len(instruments)
    BY <1>4
  <2>4. m = n + l + 1 /\ n = next + 10 /\ \A r \in RangeOf(refs) : r.ordinal < next
    BY <1>1, <1>2, <1>5, <2>2, <2>3
  <2>. QED BY <2>1, <2>4
<1>. QED BY <1>4, <1>7, <1>9, <1>10

-----------------------------------------------------------------------------
(* What can be read.                                                       *)

Views(refs) == {r \in RangeOf(refs) : r.component.kind = "view"}

\* Every view replays what is selected below it.
Replays(refs) == \A v \in Views(refs) : v.component.deps = Closure(refs, v)

BarRows(refs) == DOMAIN OverlayKind(refs, "bars", "facts")

Covers(refs) == BarRows(refs) \subseteq UNION {CellsOf(v.component.scope) : v \in Views(refs)}

\* What a query of the bars checks.
LEMMA ReadableIs ==
    ASSUME NEW refs
    PROVE  BarsReadable(refs) <=> BarRows(refs) = {} \/ (Replays(refs) /\ Covers(refs))
BY DEF BarsReadable, Replays, Covers, BarRows, Views

\* The rows of an overlay are those one of its components holds.
LEMMA OverlayRows ==
    ASSUME NEW refs, NEW table, NEW kind, NEW x
    PROVE  x \in DOMAIN OverlayKind(refs, table, kind) <=> Holding(refs, table, kind, x) # {}
BY DEF OverlayKind, Holding

\* The closure of a view is not what is added above it or elsewhere.
LEMMA ClosureIsStable ==
    ASSUME NEW refs, NEW more, RangeOf(refs) \subseteq RangeOf(more), NEW v,
           \A r \in RangeOf(more) \ RangeOf(refs) :
               r.component.kind # "view" /\ r.component.scope.table = "bars" =>
                   ~Overlaps(r.component.scope, v.component.scope) \/ ~Before(r, v)
    PROVE  Closure(more, v) = Closure(refs, v)
<1>. DEFINE Below(R) == {s \in R : /\ s.component.kind # "view"
                                   /\ s.component.scope.table = "bars"
                                   /\ Overlaps(s.component.scope, v.component.scope)
                                   /\ Before(s, v)}
<1>1. Below(RangeOf(more)) = Below(RangeOf(refs))
  OBVIOUS
<1>2. Closure(more, v) = {r.component : r \in Below(RangeOf(more))}
      /\ Closure(refs, v) = {r.component : r \in Below(RangeOf(refs))}
  BY DEF Closure
<1>. HIDE DEF Below
<1>. QED BY <1>1, <1>2

\* What a correction may be.
IsCorrection(component, impact, end) ==
    /\ component.kind = "rules"
    /\ component.scope.table \in CorrectedTables /\ impact.table = component.scope.table
    /\ DOMAIN component.data \subseteq CellsOf(component.scope)
    /\ impact.table = "bars" =>
          /\ component.scope.from \in Nat \ {0}
          /\ component.scope.to \in Nat /\ component.scope.to <= end
          /\ impact.from \in Nat \ {0} /\ impact.to \in Nat /\ impact.to <= end

\* A correction can be read where its predecessor can.
LEMMA CorrectionIsReadable ==
    ASSUME NEW refs, NEW end, ArePlaced(refs, end), NEW component, NEW impact,
           IsCorrection(component, impact, end)
    PROVE  LET more == refs \o CorrectionRefs(refs, component, impact)
           IN  /\ ArePlaced(more, end)
               /\ BarRows(more) = BarRows(refs)
               /\ Replays(refs) => Replays(more)
               /\ Covers(refs) => Covers(more)
<1>. DEFINE more == refs \o CorrectionRefs(refs, component, impact)
            view == CorrectionView(refs, component, impact)
<1>1. PICK top \in Nat, next \in Nat :
              /\ \A r \in RangeOf(refs) : r.priority < top /\ r.ordinal < next
              /\ RangeOf(more) = RangeOf(refs) \cup {Ref(component, top, next)}
                                 \cup IF impact.table = "bars" THEN {Ref(view, top, next + 1)}
                                      ELSE {}
  BY CorrectionIsAbove
<1>2. PICK r0 : r0 = Ref(component, top, next)
  OBVIOUS
<1>3. PICK v0 : v0 = Ref(view, top, next + 1)
  OBVIOUS
<1>4. /\ r0.component = component /\ r0.priority = top /\ r0.ordinal = next
      /\ v0.component = view /\ v0.priority = top /\ v0.ordinal = next + 1
      /\ view.kind = "view" /\ view.scope = impact /\ DOMAIN view.data = {}
      /\ view.deps = {c \in ComponentsOf(refs) \cup {component} :
                         c.kind # "view" /\ Overlaps(c.scope, impact)}
  BY <1>2, <1>3 DEF Ref, CorrectionView, View
<1>5. IsSequence(more)
  BY CorrectionRefsAreListed, Appended DEF ArePlaced
<1>. HIDE DEF more, view
<1>6. RangeOf(more) = RangeOf(refs) \cup {r0} \cup IF impact.table = "bars" THEN {v0} ELSE {}
  BY <1>1, <1>2, <1>3
<1>7. \A r \in RangeOf(refs) : Placed(r, end) /\ r.priority \in Nat /\ r.ordinal \in Nat
  BY DEF ArePlaced, Placed
<1>8. ArePlaced(more, end)
  <2>1. Placed(r0, end)
    BY <1>1, <1>4 DEF Placed, IsCorrection
  <2>2. impact.table = "bars" => Placed(v0, end)
    BY <1>1, <1>4 DEF Placed, IsCorrection
  <2>. QED BY <1>5, <1>6, <1>7, <2>1, <2>2 DEF ArePlaced
<1>9. BarRows(more) = BarRows(refs)
  <2>1. \A x : Holding(more, "bars", "facts", x) = Holding(refs, "bars", "facts", x)
    BY <1>4, <1>6 DEF Holding, Chosen, IsCorrection
  <2>2. \A x : x \in BarRows(more) <=> x \in BarRows(refs)
    BY <2>1, OverlayRows DEF BarRows
  <2>. QED BY <2>2
<1>10. Views(more) = Views(refs) \cup IF impact.table = "bars" THEN {v0} ELSE {}
  BY <1>4, <1>6 DEF Views, IsCorrection
<1>11. ASSUME NEW v \in Views(refs) PROVE Closure(more, v) = Closure(refs, v)
  <2>1. v \in RangeOf(refs)
    BY DEF Views
  <2>2. \A r \in RangeOf(more) \ RangeOf(refs) : ~Before(r, v)
    BY <1>1, <1>4, <1>6, <1>7, <2>1 DEF Before
  <2>. QED BY <1>6, <2>2, ClosureIsStable
<1>12. ASSUME impact.table = "bars" PROVE Closure(more, v0) = view.deps
  <2>1. \A r \in RangeOf(refs) \cup {r0} : Before(r, v0)
    BY <1>1, <1>4, <1>7 DEF Before
  <2>2. Closure(more, v0)
            = {r.component : r \in {s \in RangeOf(refs) \cup {r0} :
                  s.component.kind # "view" /\ Overlaps(s.component.scope, impact)}}
    <3>1. \A r \in RangeOf(more) : (/\ r.component.kind # "view"
                                    /\ r.component.scope.table = "bars"
                                    /\ Overlaps(r.component.scope, impact)
                                    /\ Before(r, v0))
              <=> (/\ r \in RangeOf(refs) \cup {r0}
                   /\ r.component.kind # "view" /\ Overlaps(r.component.scope, impact))
      BY <1>4, <1>6, <1>12, <2>1 DEF Overlaps
    <3>2. RangeOf(refs) \cup {r0} \subseteq RangeOf(more)
      BY <1>6
    <3>. QED BY <1>4, <3>1, <3>2 DEF Closure
  <2>3. \A c : c \in ComponentsOf(refs) \cup {component}
               <=> \E r \in RangeOf(refs) \cup {r0} : c = r.component
    BY <1>4 DEF ComponentsOf
  <2>4. \A c : c \in Closure(more, v0) <=> c \in view.deps
    BY <1>4, <2>2, <2>3
  <2>. QED BY <2>4, Zenon
<1>13. Replays(refs) => Replays(more)
  BY <1>4, <1>10, <1>11, <1>12 DEF Replays
<1>14. Covers(refs) => Covers(more)
  BY <1>9, <1>10 DEF Covers
<1>. QED BY <1>8, <1>9, <1>13, <1>14 DEF more

\* What an increment may be.
IsIncrement(increment, end) ==
    /\ increment.ids # {} /\ increment.ids \subseteq Instruments
    /\ DOMAIN increment.master = increment.ids
    /\ increment.from \in Nat /\ increment.to \in Nat
    /\ increment.from = end + 1 /\ increment.from <= increment.to

\* An increment can be read where its predecessor can.
LEMMA IncrementIsReadable ==
    ASSUME NEW refs, NEW end, ArePlaced(refs, end), NEW increment, IsIncrement(increment, end)
    PROVE  LET more == refs \o ExtendRefs(refs, increment)
           IN  /\ ArePlaced(more, increment.to)
               /\ BarRows(more) = BarRows(refs) \cup BarCells(increment)
               /\ BarRows(more) # {}
               /\ Replays(refs) => Replays(more)
               /\ Covers(refs) => Covers(more)
<1>. DEFINE more == refs \o ExtendRefs(refs, increment)
            scope == BarScope(increment)
<1>1. PICK n \in Nat, m \in Nat :
              /\ n + 2 <= m
              /\ \A r \in RangeOf(refs) : r.ordinal < n
              /\ RangeOf(more) = RangeOf(refs) \cup InstrumentsAdded(refs, increment, n)
                                 \cup BarsAdded(increment, m)
  BY IncrementIsAfter
<1>2. IsSequence(more)
  BY ExtendRefsAreListed, Appended DEF ArePlaced
<1>. HIDE DEF more
<1>3. PICK f0 : f0 = Ref(BarFacts(increment), m + 100, m)
  OBVIOUS
<1>4. PICK r0 : r0 = Ref(BarRules(increment), m + 100, m + 1)
  OBVIOUS
<1>5. PICK v0 : v0 = Ref(BarView(increment), m + 100, m + 2)
  OBVIOUS
<1>6. BarsAdded(increment, m) = {f0, r0, v0}
  BY <1>3, <1>4, <1>5 DEF BarsAdded
<1>7. /\ scope.table = "bars" /\ scope.ids = increment.ids
      /\ scope.from = increment.from /\ scope.to = increment.to
      /\ CellsOf(scope) = BarCells(increment)
  BY DEF BarScope, Scope, CellsOf, BarCells, IsIncrement, ArePlaced
<1>8. /\ f0.component.kind = "facts" /\ f0.component.scope = scope
      /\ DOMAIN f0.component.data = BarCells(increment)
      /\ f0.priority = m + 100 /\ f0.ordinal = m /\ f0.component = BarFacts(increment)
      /\ r0.component.kind = "rules" /\ r0.component.scope = scope
      /\ DOMAIN r0.component.data = BarCells(increment)
      /\ r0.priority = m + 100 /\ r0.ordinal = m + 1 /\ r0.component = BarRules(increment)
      /\ v0.component.kind = "view" /\ v0.component.scope = scope
      /\ DOMAIN v0.component.data = {}
      /\ v0.priority = m + 100 /\ v0.ordinal = m + 2
      /\ v0.component.deps = {BarFacts(increment), BarRules(increment)}
  BY <1>3, <1>4, <1>5 DEF Ref, BarFacts, BarRules, BarView, Materialized, View
<1>. HIDE DEF scope
<1>9. ASSUME NEW r \in InstrumentsAdded(refs, increment, n)
      PROVE  /\ r.component.kind \in {"facts", "rules"}
             /\ r.component.scope.table = "instruments"
             /\ r.priority = n + 100 /\ r.ordinal \in {n, n + 1}
             /\ DOMAIN r.component.data \subseteq CellsOf(r.component.scope)
  <2>1. CASE r = Ref(MasterFacts(increment), n + 100, n)
    BY <2>1 DEF Ref, MasterFacts, Materialized, Scope, CellsOf, MasterCells, IsIncrement
  <2>2. CASE r = Ref(MasterRuleChanges(refs, increment), n + 100, n + 1)
             /\ ChangedCells(refs, increment) # {}
    <3>1. PICK changed : changed = ChangedCells(refs, increment)
      OBVIOUS
    <3>2. PICK ids : ids = {x[1] : x \in changed}
      OBVIOUS
    <3>3. \A x \in changed : x \in MasterCells(increment)
      BY <3>1 DEF ChangedCells
    <3>4. changed \subseteq ids \X {0} /\ ids # {}
      BY <2>2, <3>1, <3>2, <3>3 DEF MasterCells
    <3>5. /\ r.component.kind = "rules"
          /\ r.component.scope = Scope("instruments", ids, 0, 0)
          /\ r.priority = n + 100 /\ r.ordinal = n + 1
          /\ DOMAIN r.component.data = changed
      BY <2>2, <3>1, <3>2 DEF Ref, MasterRuleChanges, Materialized
    <3>6. CellsOf(Scope("instruments", ids, 0, 0)) = ids \X {0}
      BY <3>4 DEF CellsOf, Scope
    <3>. QED BY <3>4, <3>5, <3>6 DEF Scope
  <2>. QED BY <2>1, <2>2 DEF InstrumentsAdded
<1>10. \A r \in RangeOf(refs) : Placed(r, end) /\ r.priority \in Nat /\ r.ordinal \in Nat
  BY DEF ArePlaced, Placed
<1>11. ArePlaced(more, increment.to)
  <2>0. end \in Nat /\ LegacyEnd <= end /\ LegacyEnd \in Nat /\ end <= increment.to
        /\ increment.to \in Nat
    BY LegacyEndAssumption, LastDayAssumption DEF ArePlaced, IsIncrement, Days
  <2>1. \A r \in RangeOf(refs) : Placed(r, increment.to)
    BY <1>10, <2>0 DEF Placed
  <2>2. \A r \in InstrumentsAdded(refs, increment, n) : Placed(r, increment.to)
    BY <1>9 DEF Placed
  <2>3. \A r \in {f0, r0, v0} : Placed(r, increment.to)
    <3>1. /\ increment.from \in Nat \ {0} /\ increment.to \in Nat
          /\ {} \subseteq CellsOf(scope)
      BY DEF IsIncrement, ArePlaced
    <3>2. Placed(f0, increment.to)
      BY <1>7, <1>8, <3>1 DEF Placed
    <3>3. Placed(r0, increment.to)
      BY <1>7, <1>8, <3>1 DEF Placed
    <3>4. Placed(v0, increment.to)
      BY <1>7, <1>8, <3>1 DEF Placed
    <3>. QED BY <3>2, <3>3, <3>4
  <2>. QED BY <1>1, <1>2, <1>6, <2>0, <2>1, <2>2, <2>3 DEF ArePlaced
<1>12. ASSUME NEW x PROVE x \in BarRows(more) <=> x \in BarRows(refs) \cup BarCells(increment)
  <2>1. Holding(more, "bars", "facts", x)
            = Holding(refs, "bars", "facts", x)
              \cup IF x \in BarCells(increment) THEN {f0} ELSE {}
    BY <1>1, <1>6, <1>7, <1>8, <1>9 DEF Holding, Chosen
  <2>. QED BY <2>1, OverlayRows DEF BarRows
<1>13. BarRows(more) = BarRows(refs) \cup BarCells(increment)
  BY <1>12
<1>14. BarRows(more) # {}
  <2>1. PICK i \in increment.ids : TRUE
    BY DEF IsIncrement
  <2>2. <<i, increment.from>> \in BarCells(increment)
    BY DEF BarCells, IsIncrement
  <2>. QED BY <1>13, <2>2
<1>15. Views(more) = Views(refs) \cup {v0}
  BY <1>1, <1>6, <1>8, <1>9 DEF Views
<1>16. \A r \in RangeOf(refs) : ~Overlaps(scope, r.component.scope)
                                /\ ~Overlaps(r.component.scope, scope)
  <2>1. ASSUME NEW r \in RangeOf(refs)
        PROVE  r.component.scope.table = "bars" =>
                   /\ r.component.scope.from \in Nat \ {0}
                   /\ r.component.scope.to \in Nat /\ r.component.scope.to < increment.from
    BY <1>10 DEF Placed, ArePlaced, IsIncrement
  <2>. QED BY <1>7, <2>1 DEF Overlaps, IsIncrement, ArePlaced
<1>17. ASSUME NEW v \in Views(refs) PROVE Closure(more, v) = Closure(refs, v)
  <2>1. v \in RangeOf(refs)
    BY DEF Views
  <2>2. \A r \in RangeOf(more) \ RangeOf(refs) : r.component.scope.table = "bars" =>
            ~Overlaps(r.component.scope, v.component.scope)
    BY <1>1, <1>6, <1>8, <1>9, <1>16, <2>1
  <2>. QED BY <1>1, <2>2, ClosureIsStable
<1>18. Closure(more, v0) = v0.component.deps
  <2>1. Before(f0, v0) /\ Before(r0, v0)
    BY <1>8 DEF Before
  <2>2. Overlaps(scope, scope)
    BY <1>7 DEF Overlaps, IsIncrement
  <2>3. {s \in RangeOf(more) : /\ s.component.kind # "view"
                               /\ s.component.scope.table = "bars"
                               /\ Overlaps(s.component.scope, v0.component.scope)
                               /\ Before(s, v0)} = {f0, r0}
    BY <1>1, <1>6, <1>7, <1>8, <1>9, <1>16, <2>1, <2>2
  <2>4. {r.component : r \in {f0, r0}} = {f0.component, r0.component}
    OBVIOUS
  <2>. QED BY <1>8, <2>3, <2>4 DEF Closure
<1>19. Replays(refs) => Replays(more)
  BY <1>15, <1>17, <1>18 DEF Replays
<1>20. Covers(refs) => Covers(more)
  BY <1>7, <1>8, <1>13, <1>15 DEF Covers
<1>. QED BY <1>11, <1>13, <1>14, <1>19, <1>20 DEF more

-----------------------------------------------------------------------------
(* What the rows are.                                                      *)

\* A cell that the same references hold has the same value.
LEMMA OverlaySame ==
    ASSUME NEW refs, NEW more, NEW table, NEW kind, NEW x,
           Holding(more, table, kind, x) = Holding(refs, table, kind, x)
    PROVE  LET before == OverlayKind(refs, table, kind)
               after == OverlayKind(more, table, kind)
           IN  /\ x \in DOMAIN after <=> x \in DOMAIN before
               /\ x \in DOMAIN before => after[x] = before[x]
<1>1. x \in DOMAIN OverlayKind(more, table, kind) <=> x \in DOMAIN OverlayKind(refs, table, kind)
  BY OverlayRows
<1>2. \A R : x \in DOMAIN OverlayKind(R, table, kind) =>
          OverlayKind(R, table, kind)[x] = Topmost(Holding(R, table, kind, x)).component.data[x]
  BY DEF OverlayKind
<1>. QED BY <1>1, <1>2

\* A reference above all others that hold a cell gives it its value.
LEMMA OverlayTop ==
    ASSUME NEW refs, NEW table, NEW kind, NEW x, NEW top \in Holding(refs, table, kind, x),
           \A r \in Holding(refs, table, kind, x) :
               /\ r.priority \in Nat /\ r.ordinal \in Nat
               /\ r = top \/ Before(r, top)
    PROVE  /\ x \in DOMAIN OverlayKind(refs, table, kind)
           /\ OverlayKind(refs, table, kind)[x] = top.component.data[x]
<1>. DEFINE S == Holding(refs, table, kind, x)
<1>1. x \in DOMAIN OverlayKind(refs, table, kind)
  BY OverlayRows
<1>2. OverlayKind(refs, table, kind)[x] = Topmost(S).component.data[x]
  BY <1>1 DEF OverlayKind
<1>3. \A r \in S : r.priority \in Nat /\ r.ordinal \in Nat /\ (r = top \/ Before(r, top))
  OBVIOUS
<1>4. top \in S
  OBVIOUS
<1>. HIDE DEF S
<1>5. \A r \in S : Before(r, top) => ~Before(top, r)
  BY <1>3, <1>4 DEF Before
<1>6. \A r \in S : (\A s \in S : s = r \/ Before(s, r)) <=> r = top
  <2>. TAKE r \in S
  <2>1. CASE r = top
    BY <1>3, <2>1
  <2>2. CASE r # top
    BY <1>3, <1>4, <1>5, <2>2
  <2>. QED BY <2>1, <2>2
<1>7. Topmost(S) = top
  BY <1>4, <1>6 DEF Topmost
<1>. QED BY <1>1, <1>2, <1>7

\* Rows of the same facts and rules are the same.
LEMMA ComposeSame ==
    ASSUME NEW refs, NEW more, NEW table, NEW x,
           Holding(more, table, "facts", x) = Holding(refs, table, "facts", x),
           Holding(more, table, "rules", x) = Holding(refs, table, "rules", x)
    PROVE  /\ x \in DOMAIN Compose(more, table) <=> x \in DOMAIN Compose(refs, table)
           /\ x \in DOMAIN Compose(refs, table) => Compose(more, table)[x] = Compose(refs, table)[x]
<1>1. PICK f : f = OverlayKind(refs, table, "facts")
  OBVIOUS
<1>2. PICK g : g = OverlayKind(more, table, "facts")
  OBVIOUS
<1>3. PICK r : r = OverlayKind(refs, table, "rules")
  OBVIOUS
<1>4. PICK s : s = OverlayKind(more, table, "rules")
  OBVIOUS
<1>5. (x \in DOMAIN g <=> x \in DOMAIN f) /\ (x \in DOMAIN f => g[x] = f[x])
  BY <1>1, <1>2, OverlaySame
<1>6. (x \in DOMAIN s <=> x \in DOMAIN r) /\ (x \in DOMAIN r => s[x] = r[x])
  BY <1>3, <1>4, OverlaySame
<1>7. Compose(refs, table)
          = [y \in DOMAIN f |-> [fact |-> f[y], rule |-> IF y \in DOMAIN r THEN {r[y]} ELSE {}]]
  BY <1>1, <1>3 DEF Compose
<1>8. Compose(more, table)
          = [y \in DOMAIN g |-> [fact |-> g[y], rule |-> IF y \in DOMAIN s THEN {s[y]} ELSE {}]]
  BY <1>2, <1>4 DEF Compose
<1>. QED BY <1>5, <1>6, <1>7, <1>8

\* A row is its facts and its rules.
LEMMA ComposeRow ==
    ASSUME NEW refs, NEW table, NEW x
    PROVE  /\ x \in DOMAIN Compose(refs, table) <=> x \in DOMAIN OverlayKind(refs, table, "facts")
           /\ x \in DOMAIN Compose(refs, table) =>
                 /\ Compose(refs, table)[x].fact = OverlayKind(refs, table, "facts")[x]
                 /\ Compose(refs, table)[x].rule
                       = IF x \in DOMAIN OverlayKind(refs, table, "rules")
                         THEN {OverlayKind(refs, table, "rules")[x]} ELSE {}
                 /\ Compose(refs, table)[x]
                       = [fact |-> Compose(refs, table)[x].fact,
                          rule |-> Compose(refs, table)[x].rule]
<1>. DEFINE facts == OverlayKind(refs, table, "facts")
            rules == OverlayKind(refs, table, "rules")
            rule(y) == IF y \in DOMAIN rules THEN {rules[y]} ELSE {}
<1>1. Compose(refs, table) = [y \in DOMAIN facts |-> [fact |-> facts[y], rule |-> rule(y)]]
  BY DEF Compose
<1>. HIDE DEF facts, rule
<1>2. x \in DOMAIN facts => Compose(refs, table)[x] = [fact |-> facts[x], rule |-> rule(x)]
  BY <1>1
<1>3. x \in DOMAIN Compose(refs, table) <=> x \in DOMAIN facts
  BY <1>1
<1>. QED BY <1>2, <1>3 DEF facts, rule

\* The rows are those one of the components of facts holds.
LEMMA ComposeRows ==
    ASSUME NEW refs, NEW table, NEW x
    PROVE  x \in DOMAIN Compose(refs, table) <=> Holding(refs, table, "facts", x) # {}
<1>1. x \in DOMAIN Compose(refs, table) <=> x \in DOMAIN OverlayKind(refs, table, "facts")
  BY ComposeRow, Zenon
<1>2. x \in DOMAIN OverlayKind(refs, table, "facts") <=> Holding(refs, table, "facts", x) # {}
  BY OverlayRows, Zenon
<1>. QED BY <1>1, <1>2

\* A correction changes the cells it holds, to its values, and no other.
LEMMA CorrectionRows ==
    ASSUME NEW refs, NEW end, ArePlaced(refs, end), NEW component, NEW impact,
           IsCorrection(component, impact, end), NEW table, NEW x
    PROVE  LET more == refs \o CorrectionRefs(refs, component, impact)
               before == Compose(refs, table)
               after == Compose(more, table)
           IN  /\ x \in DOMAIN after <=> x \in DOMAIN before
               /\ x \in DOMAIN before =>
                     after[x] = IF table = component.scope.table /\ x \in DOMAIN component.data
                                THEN [before[x] EXCEPT !.rule = {component.data[x]}]
                                ELSE before[x]
<1>. DEFINE more == refs \o CorrectionRefs(refs, component, impact)
            view == CorrectionView(refs, component, impact)
            corrected == table = component.scope.table /\ x \in DOMAIN component.data
<1>1. PICK top \in Nat, next \in Nat :
              /\ \A r \in RangeOf(refs) : r.priority < top /\ r.ordinal < next
              /\ RangeOf(more) = RangeOf(refs) \cup {Ref(component, top, next)}
                                 \cup IF impact.table = "bars" THEN {Ref(view, top, next + 1)}
                                      ELSE {}
  BY CorrectionIsAbove
<1>2. PICK r0 : r0 = Ref(component, top, next)
  OBVIOUS
<1>3. /\ r0.component = component /\ r0.priority = top /\ r0.ordinal = next
      /\ Ref(view, top, next + 1).component.kind = "view"
  BY <1>2 DEF Ref, CorrectionView, View
<1>. HIDE DEF more, view
<1>4. Holding(more, table, "facts", x) = Holding(refs, table, "facts", x)
  BY <1>1, <1>2, <1>3 DEF Holding, Chosen, IsCorrection
<1>5. Holding(more, table, "rules", x)
          = Holding(refs, table, "rules", x) \cup IF corrected THEN {r0} ELSE {}
  BY <1>1, <1>2, <1>3 DEF Holding, Chosen, IsCorrection
<1>6. CASE ~corrected
  <2>1. Holding(more, table, "rules", x) = Holding(refs, table, "rules", x)
    BY <1>5, <1>6
  <2>. QED BY <1>4, <1>6, <2>1, ComposeSame DEF more
<1>7. CASE corrected
  <2>1. r0 \in Holding(more, table, "rules", x)
    BY <1>5, <1>7
  <2>2. \A r \in Holding(refs, table, "rules", x) :
            r.priority \in Nat /\ r.ordinal \in Nat /\ r.priority < top
    BY <1>1 DEF Holding, Chosen, ArePlaced, Placed
  <2>3. \A r \in Holding(more, table, "rules", x) :
            r.priority \in Nat /\ r.ordinal \in Nat /\ (r = r0 \/ Before(r, r0))
    BY <1>3, <1>5, <2>2 DEF Before
  <2>4. /\ x \in DOMAIN OverlayKind(more, table, "rules")
        /\ OverlayKind(more, table, "rules")[x] = component.data[x]
    BY <1>3, <2>1, <2>3, OverlayTop
  <2>5. /\ x \in DOMAIN OverlayKind(more, table, "facts")
              <=> x \in DOMAIN OverlayKind(refs, table, "facts")
        /\ x \in DOMAIN OverlayKind(refs, table, "facts") =>
              OverlayKind(more, table, "facts")[x] = OverlayKind(refs, table, "facts")[x]
    BY <1>4, OverlaySame
  <2>. DEFINE before == Compose(refs, table)
              after == Compose(more, table)
  <2>6. x \in DOMAIN after <=> x \in DOMAIN before
    BY <2>5, ComposeRow
  <2>7. ASSUME x \in DOMAIN before
        PROVE  /\ after[x] = [fact |-> before[x].fact, rule |-> {component.data[x]}]
               /\ before[x] = [fact |-> before[x].fact, rule |-> before[x].rule]
    <3>1. /\ after[x].fact = before[x].fact
          /\ after[x].rule = {component.data[x]}
      BY <2>4, <2>5, <2>6, <2>7, ComposeRow
    <3>2. /\ after[x] = [fact |-> after[x].fact, rule |-> after[x].rule]
          /\ before[x] = [fact |-> before[x].fact, rule |-> before[x].rule]
      BY <2>6, <2>7, ComposeRow
    <3>. HIDE DEF before, after
    <3>. QED BY <3>1, <3>2
  <2>8. ASSUME x \in DOMAIN before
        PROVE  after[x] = [before[x] EXCEPT !.rule = {component.data[x]}]
    <3>1. PICK b : b = before[x]
      OBVIOUS
    <3>2. PICK f, r : b = [fact |-> f, rule |-> r]
      BY <2>7, <2>8, <3>1
    <3>3. [b EXCEPT !.rule = {component.data[x]}] = [fact |-> f, rule |-> {component.data[x]}]
      BY <3>2
    <3>. QED BY <2>7, <2>8, <3>1, <3>2, <3>3
  <2>. QED BY <1>7, <2>6, <2>8 DEF more
<1>. QED BY <1>6, <1>7

\* The bars of an increment are those it brings, and the others the predecessor's.
LEMMA IncrementBars ==
    ASSUME NEW refs, NEW end, ArePlaced(refs, end), NEW increment, IsIncrement(increment, end),
           NEW x
    PROVE  LET more == refs \o ExtendRefs(refs, increment)
               before == Compose(refs, "bars")
               after == Compose(more, "bars")
           IN  /\ x \in DOMAIN after <=> x \in DOMAIN before \/ x \in BarCells(increment)
               /\ x \in DOMAIN before => x \notin BarCells(increment) /\ after[x] = before[x]
               /\ x \in BarCells(increment) =>
                     after[x] = [fact |-> increment.bars[x].fact,
                                 rule |-> {increment.bars[x].rule}]
<1>. DEFINE more == refs \o ExtendRefs(refs, increment)
            before == Compose(refs, "bars")
            after == Compose(more, "bars")
<1>1. PICK n \in Nat, m \in Nat :
              /\ n + 2 <= m
              /\ \A r \in RangeOf(refs) : r.ordinal < n
              /\ RangeOf(more) = RangeOf(refs) \cup InstrumentsAdded(refs, increment, n)
                                 \cup BarsAdded(increment, m)
  BY IncrementIsAfter
<1>. HIDE DEF more
<1>2. PICK f0 : f0 = Ref(BarFacts(increment), m + 100, m)
  OBVIOUS
<1>3. PICK r0 : r0 = Ref(BarRules(increment), m + 100, m + 1)
  OBVIOUS
<1>4. PICK v0 : v0 = Ref(BarView(increment), m + 100, m + 2)
  OBVIOUS
<1>5. BarsAdded(increment, m) = {f0, r0, v0}
  BY <1>2, <1>3, <1>4 DEF BarsAdded
<1>6. /\ f0.component.kind = "facts" /\ f0.component.scope.table = "bars"
      /\ f0.component.data = [y \in BarCells(increment) |-> increment.bars[y].fact]
      /\ f0.priority \in Nat /\ f0.ordinal \in Nat
      /\ r0.component.kind = "rules" /\ r0.component.scope.table = "bars"
      /\ r0.component.data = [y \in BarCells(increment) |-> increment.bars[y].rule]
      /\ r0.priority \in Nat /\ r0.ordinal \in Nat
      /\ v0.component.kind = "view"
  BY <1>2, <1>3, <1>4 DEF Ref, BarFacts, BarRules, BarView, BarScope, Scope, Materialized, View
<1>7. \A r \in InstrumentsAdded(refs, increment, n) : r.component.scope.table = "instruments"
  BY DEF InstrumentsAdded, Ref, MasterFacts, MasterRuleChanges, Materialized, Scope
<1>8. Holding(more, "bars", "facts", x)
          = Holding(refs, "bars", "facts", x) \cup IF x \in BarCells(increment) THEN {f0} ELSE {}
  <2>1. \A r \in RangeOf(more) : r \in Holding(more, "bars", "facts", x) <=>
            r \in Holding(refs, "bars", "facts", x) \/ (r = f0 /\ x \in BarCells(increment))
    BY <1>1, <1>5, <1>6, <1>7 DEF Holding, Chosen
  <2>2. f0 \in RangeOf(more) /\ RangeOf(refs) \subseteq RangeOf(more)
    BY <1>1, <1>5
  <2>. QED BY <2>1, <2>2 DEF Holding, Chosen
<1>9. Holding(more, "bars", "rules", x)
          = Holding(refs, "bars", "rules", x) \cup IF x \in BarCells(increment) THEN {r0} ELSE {}
  <2>1. \A r \in RangeOf(more) : r \in Holding(more, "bars", "rules", x) <=>
            r \in Holding(refs, "bars", "rules", x) \/ (r = r0 /\ x \in BarCells(increment))
    BY <1>1, <1>5, <1>6, <1>7 DEF Holding, Chosen
  <2>2. r0 \in RangeOf(more) /\ RangeOf(refs) \subseteq RangeOf(more)
    BY <1>1, <1>5
  <2>. QED BY <2>1, <2>2 DEF Holding, Chosen
<1>10. ASSUME NEW kind, Holding(refs, "bars", kind, x) # {} PROVE x \notin BarCells(increment)
  <2>1. PICK r \in RangeOf(refs) : /\ r.component.scope.table = "bars"
                                   /\ x \in DOMAIN r.component.data
    BY <1>10 DEF Holding, Chosen
  <2>2. PICK scope : scope = r.component.scope
    OBVIOUS
  <2>3. /\ x \in CellsOf(scope) /\ scope.table = "bars"
        /\ scope.from \in Nat \ {0} /\ scope.to \in Nat /\ scope.to <= end
        /\ end \in Nat
    BY <2>1, <2>2 DEF ArePlaced, Placed
  <2>4. x[2] \in scope.from..scope.to
    BY <2>3 DEF CellsOf
  <2>5. x[2] <= end
    BY <2>3, <2>4
  <2>6. \A y \in BarCells(increment) : y[2] >= end + 1
    BY <2>3 DEF BarCells, IsIncrement
  <2>. QED BY <2>3, <2>4, <2>5, <2>6
<1>11. x \in DOMAIN before <=> Holding(refs, "bars", "facts", x) # {}
  BY ComposeRows, Zenon
<1>12. x \in DOMAIN after <=> Holding(more, "bars", "facts", x) # {}
  BY ComposeRows, Zenon
<1>13. ASSUME x \in DOMAIN before PROVE x \notin BarCells(increment) /\ after[x] = before[x]
  <2>1. x \notin BarCells(increment)
    BY <1>10, <1>11, <1>13
  <2>2. /\ Holding(more, "bars", "facts", x) = Holding(refs, "bars", "facts", x)
        /\ Holding(more, "bars", "rules", x) = Holding(refs, "bars", "rules", x)
    BY <1>8, <1>9, <2>1
  <2>. QED BY <1>13, <2>1, <2>2, ComposeSame
<1>14. ASSUME x \in BarCells(increment)
       PROVE  after[x] = [fact |-> increment.bars[x].fact, rule |-> {increment.bars[x].rule}]
  <2>1. /\ Holding(more, "bars", "facts", x) = {f0}
        /\ Holding(more, "bars", "rules", x) = {r0}
    BY <1>8, <1>9, <1>10, <1>14
  <2>2. /\ x \in DOMAIN OverlayKind(more, "bars", "facts")
        /\ OverlayKind(more, "bars", "facts")[x] = f0.component.data[x]
    BY <1>6, <2>1, OverlayTop
  <2>3. /\ x \in DOMAIN OverlayKind(more, "bars", "rules")
        /\ OverlayKind(more, "bars", "rules")[x] = r0.component.data[x]
    BY <1>6, <2>1, OverlayTop
  <2>4. /\ f0.component.data[x] = increment.bars[x].fact
        /\ r0.component.data[x] = increment.bars[x].rule
    BY <1>6, <1>14
  <2>5. x \in DOMAIN after /\ after[x].fact = increment.bars[x].fact
        /\ after[x].rule = {increment.bars[x].rule}
    BY <2>2, <2>3, <2>4, ComposeRow, Zenon
  <2>6. after[x] = [fact |-> after[x].fact, rule |-> after[x].rule]
    BY <2>5, ComposeRow, Zenon
  <2>. HIDE DEF after
  <2>. QED BY <2>5, <2>6
<1>15. x \in DOMAIN after <=> x \in DOMAIN before \/ x \in BarCells(increment)
  BY <1>8, <1>11, <1>12
<1>. QED BY <1>13, <1>14, <1>15 DEF more

\* The instruments of an increment have the facts it brings, and its rules where no
\* correction is.
LEMMA IncrementInstruments ==
    ASSUME NEW refs, NEW end, ArePlaced(refs, end), NEW increment, IsIncrement(increment, end),
           NEW i \in increment.ids
    PROVE  LET row == Compose(refs \o ExtendRefs(refs, increment), "instruments")[<<i, 0>>]
           IN  /\ row.fact = increment.master[i].fact
               /\ "instruments" \notin CorrectedTables => row.rule = {increment.master[i].rule}
<1>. DEFINE more == refs \o ExtendRefs(refs, increment)
            before == Compose(refs, "instruments")
            after == Compose(more, "instruments")
            changed == ChangedCells(refs, increment)
<1>1. PICK n \in Nat, m \in Nat :
              /\ n + 2 <= m
              /\ \A r \in RangeOf(refs) : r.ordinal < n
              /\ RangeOf(more) = RangeOf(refs) \cup InstrumentsAdded(refs, increment, n)
                                 \cup BarsAdded(increment, m)
  BY IncrementIsAfter
<1>. HIDE DEF more
<1>2. PICK x : x = <<i, 0>>
  OBVIOUS
<1>3. PICK f0 : f0 = Ref(MasterFacts(increment), n + 100, n)
  OBVIOUS
<1>4. PICK r0 : r0 = Ref(MasterRuleChanges(refs, increment), n + 100, n + 1)
  OBVIOUS
<1>5. InstrumentsAdded(refs, increment, n) = {f0} \cup IF changed = {} THEN {} ELSE {r0}
  BY <1>3, <1>4 DEF InstrumentsAdded
<1>6. /\ f0.component.kind = "facts" /\ f0.component.scope.table = "instruments"
      /\ f0.component.data = [y \in MasterCells(increment) |-> increment.master[y[1]].fact]
      /\ f0.priority = n + 100 /\ f0.ordinal = n
      /\ r0.component.kind = "rules" /\ r0.component.scope.table = "instruments"
      /\ r0.component.data = [y \in changed |-> increment.master[y[1]].rule]
      /\ r0.priority = n + 100 /\ r0.ordinal = n + 1
  BY <1>3, <1>4 DEF Ref, MasterFacts, MasterRuleChanges, Scope, Materialized
<1>7. \A r \in BarsAdded(increment, m) : r.component.scope.table = "bars"
  BY DEF BarsAdded, Ref, BarFacts, BarRules, BarView, BarScope, Scope, Materialized, View
<1>8. x \in MasterCells(increment) /\ x[1] = i
  BY <1>2 DEF MasterCells, IsIncrement
<1>. HIDE DEF changed
<1>9. Holding(more, "instruments", "facts", x)
          = Holding(refs, "instruments", "facts", x) \cup {f0}
  BY <1>1, <1>5, <1>6, <1>7, <1>8 DEF Holding, Chosen
<1>10. Holding(more, "instruments", "rules", x)
          = Holding(refs, "instruments", "rules", x) \cup IF x \in changed THEN {r0} ELSE {}
  BY <1>1, <1>5, <1>6, <1>7 DEF Holding, Chosen
<1>11. ASSUME NEW kind \in {"facts", "rules"},
              kind = "facts" \/ "instruments" \notin CorrectedTables,
              NEW r \in Holding(refs, "instruments", kind, x)
       PROVE  r.priority \in Nat /\ r.ordinal \in Nat /\ r.priority < n + 100
  <2>1. r \in RangeOf(refs) /\ r.component.kind = kind /\ r.component.scope.table = "instruments"
    BY DEF Holding, Chosen
  <2>2. r.priority \in Nat /\ r.ordinal \in Nat /\ r.priority <= r.ordinal + 100
    BY <1>11, <2>1 DEF ArePlaced, Placed
  <2>. QED BY <1>1, <2>1, <2>2
<1>12. /\ x \in DOMAIN OverlayKind(more, "instruments", "facts")
       /\ OverlayKind(more, "instruments", "facts")[x] = increment.master[i].fact
  <2>1. f0 \in Holding(more, "instruments", "facts", x)
    BY <1>9
  <2>2. \A r \in Holding(more, "instruments", "facts", x) :
            r.priority \in Nat /\ r.ordinal \in Nat /\ (r = f0 \/ Before(r, f0))
    BY <1>6, <1>9, <1>11 DEF Before
  <2>. QED BY <1>6, <1>8, <2>1, <2>2, OverlayTop
<1>13. ASSUME "instruments" \notin CorrectedTables PROVE after[x].rule = {increment.master[i].rule}
  <2>1. CASE x \in changed
    <3>1. r0 \in Holding(more, "instruments", "rules", x)
      BY <1>10, <2>1
    <3>2. \A r \in Holding(more, "instruments", "rules", x) :
              r.priority \in Nat /\ r.ordinal \in Nat /\ (r = r0 \/ Before(r, r0))
      BY <1>6, <1>10, <1>11, <1>13 DEF Before
    <3>3. /\ x \in DOMAIN OverlayKind(more, "instruments", "rules")
          /\ OverlayKind(more, "instruments", "rules")[x] = increment.master[i].rule
      BY <1>6, <1>8, <2>1, <3>1, <3>2, OverlayTop
    <3>. QED BY <1>12, <3>3, ComposeRow
  <2>2. CASE x \notin changed
    <3>1. x \in DOMAIN before /\ before[x].rule = {increment.master[i].rule}
      BY <1>8, <2>2 DEF ChangedCells, changed
    <3>2. Holding(more, "instruments", "rules", x) = Holding(refs, "instruments", "rules", x)
      BY <1>10, <2>2
    <3>3. /\ x \in DOMAIN OverlayKind(more, "instruments", "rules")
                <=> x \in DOMAIN OverlayKind(refs, "instruments", "rules")
          /\ x \in DOMAIN OverlayKind(refs, "instruments", "rules") =>
                OverlayKind(more, "instruments", "rules")[x]
                    = OverlayKind(refs, "instruments", "rules")[x]
      BY <3>2, OverlaySame
    <3>. QED BY <1>12, <3>1, <3>3, ComposeRow
  <2>. QED BY <2>1, <2>2
<1>14. after[x].fact = increment.master[i].fact
  <2>1. x \in DOMAIN after <=> x \in DOMAIN OverlayKind(more, "instruments", "facts")
    BY ComposeRow, Zenon
  <2>2. x \in DOMAIN after => after[x].fact = OverlayKind(more, "instruments", "facts")[x]
    BY ComposeRow, Zenon
  <2>. QED BY <1>12, <2>1, <2>2
<1>. QED BY <1>2, <1>13, <1>14 DEF more

-----------------------------------------------------------------------------
(* Sound snapshots.                                                        *)

\* The facts and the rules bootstrap makes of a slice.
SliceFacts(slice) ==
    Materialized("facts", slice.scope, [x \in DOMAIN slice.data |-> slice.data[x].fact])

SliceRules(slice) ==
    Materialized("rules", slice.scope, [x \in DOMAIN slice.data |-> slice.data[x].rule])

\* What bootstrap makes of a slice: its facts, its rules, and a view of bars.
LEMMA SliceIs ==
    ASSUME NEW slice, NEW k \in DOMAIN SliceComponents(slice)
    PROVE  \/ SliceComponents(slice)[k] \in {SliceFacts(slice), SliceRules(slice)}
           \/ /\ slice.scope.table = "bars"
              /\ SliceComponents(slice)[k]
                    = View(slice.scope, {SliceFacts(slice), SliceRules(slice)})
<1>1. PICK f : f = SliceFacts(slice)
  OBVIOUS
<1>2. PICK r : r = SliceRules(slice)
  OBVIOUS
<1>3. PICK v : v = View(slice.scope, {f, r})
  OBVIOUS
<1>4. <<f, r>>[1] = f /\ <<f, r>>[2] = r
  OBVIOUS
<1>5. SliceComponents(slice) = IF slice.scope.table = "bars" THEN Append(<<f, r>>, v) ELSE <<f, r>>
  <2>. DEFINE group(kind) ==
                  Materialized(kind, slice.scope,
                      [x \in DOMAIN slice.data |->
                          IF kind = "facts" THEN slice.data[x].fact ELSE slice.data[x].rule])
              both == <<group("facts"), group("rules")>>
  <2>1. group("facts") = f /\ group("rules") = r
    BY <1>1, <1>2 DEF SliceFacts, SliceRules
  <2>2. SliceComponents(slice) = IF slice.scope.table = "bars"
                                 THEN Append(both, View(slice.scope, {both[1], both[2]}))
                                 ELSE both
    BY DEF SliceComponents
  <2>. HIDE DEF group
  <2>. QED BY <1>3, <1>4, <2>1, <2>2
<1>6. CASE slice.scope.table = "bars"
  <2>. DEFINE all == Append(<<f, r>>, v)
  <2>1. DOMAIN all = 1..3 /\ all[1] = f /\ all[2] = r /\ all[3] = v
    OBVIOUS
  <2>. HIDE DEF all
  <2>2. SliceComponents(slice)[k] \in {f, r, v}
    BY <1>5, <1>6, <2>1 DEF all
  <2>. QED BY <1>1, <1>2, <1>3, <1>6, <2>2
<1>7. CASE slice.scope.table # "bars"
  <2>1. SliceComponents(slice)[k] \in {f, r}
    BY <1>5, <1>7
  <2>. QED BY <1>1, <1>2, <2>1
<1>. QED BY <1>6, <1>7

\* A snapshot of the warehouse is the research history, or derived from the
\* legacy one; its references are placed, and if it loads and can be read, its
\* views replay what they must even where there is no row.
IsSound(s) ==
    /\ ArePlaced(s.refs, s.end)
    /\ ReferencesVerified(s.refs) /\ BarsReadable(s.refs) => Replays(s.refs)
    /\ \/ s = ResearchSnapshot
       \/ IsSimulation(s) /\ s.slices = Legacy

\* What bootstrap makes is sound.
LEMMA BootstrapIsSound ==
    ASSUME NEW s, IsSound(s), IsSimulation(s), ~IsComponentized(s)
    PROVE  IsSound(Snapshot(s.readiness, s.slices, s.refs \o BootstrapRefs(s.slices), s.ids, s.end))
<1>. DEFINE more == s.refs \o BootstrapRefs(s.slices)
<1>1. s.slices = Legacy /\ s.refs = <<>> /\ s.end \in Nat /\ LegacyEnd <= s.end
      /\ LegacyEnd \in Nat
  BY LegacyEndAssumption, LastDayAssumption
     DEF IsSound, IsSimulation, IsComponentized, ResearchSnapshot, Snapshot, ArePlaced, Days
<1>2. IsSequence(BootstrapRefs(Legacy)) /\ IsSequence(<<>>) /\ RangeOf(<<>>) = {}
  BY LegacyAssumption, BootstrapRefsAreListed, ShortLists
<1>3. IsSequence(more) /\ RangeOf(more) = RangeOf(BootstrapRefs(Legacy))
  <2>1. IsSequence(<<>> \o BootstrapRefs(Legacy))
    BY <1>2, Appended
  <2>2. RangeOf(<<>> \o BootstrapRefs(Legacy)) = RangeOf(<<>>) \cup RangeOf(BootstrapRefs(Legacy))
    BY <1>2, RangeOfBoth
  <2>. QED BY <1>1, <1>2, <2>1, <2>2
<1>. HIDE DEF more
<1>4. ASSUME NEW r \in RangeOf(more)
      PROVE  \E n \in DOMAIN Legacy, k \in 1..3 :
                /\ k \in DOMAIN SliceComponents(Legacy[n])
                /\ r.component = SliceComponents(Legacy[n])[k]
                /\ r.priority = Legacy[n].priority /\ r.ordinal = 10 * (n - 1) + k - 1
  <2>1. PICK n \in 1..Len(Legacy), k \in 1..3 :
              /\ k \in DOMAIN SliceComponents(Legacy[n])
              /\ r = Ref(SliceComponents(Legacy[n])[k], Legacy[n].priority, 10 * (n - 1) + k - 1)
    BY <1>3, LegacyAssumption, BootstrapRefsAreMade
  <2>. QED BY <2>1, LegacyAssumption DEF Ref
<1>5. ASSUME NEW n \in DOMAIN Legacy
      PROVE  /\ SliceFacts(Legacy[n]).kind = "facts" /\ SliceRules(Legacy[n]).kind = "rules"
             /\ SliceFacts(Legacy[n]).scope = Legacy[n].scope
             /\ SliceRules(Legacy[n]).scope = Legacy[n].scope
             /\ DOMAIN SliceFacts(Legacy[n]).data = DOMAIN Legacy[n].data
             /\ DOMAIN SliceRules(Legacy[n]).data = DOMAIN Legacy[n].data
  BY DEF SliceFacts, SliceRules, Materialized
<1>6. ASSUME NEW r \in RangeOf(more) PROVE Placed(r, s.end)
  <2>1. PICK n \in DOMAIN Legacy, k \in 1..3 :
                /\ k \in DOMAIN SliceComponents(Legacy[n])
                /\ r.component = SliceComponents(Legacy[n])[k]
                /\ r.priority = Legacy[n].priority /\ r.ordinal = 10 * (n - 1) + k - 1
    BY <1>4
  <2>2. /\ r.component.scope = Legacy[n].scope
        /\ DOMAIN r.component.data \subseteq DOMAIN Legacy[n].data
    <3>1. CASE r.component \in {SliceFacts(Legacy[n]), SliceRules(Legacy[n])}
      BY <1>5, <3>1
    <3>2. CASE r.component = View(Legacy[n].scope, {SliceFacts(Legacy[n]), SliceRules(Legacy[n])})
      BY <3>2 DEF View
    <3>. QED BY <2>1, <3>1, <3>2, SliceIs
  <2>3. PICK scope : scope = Legacy[n].scope
    OBVIOUS
  <2>4. /\ Legacy[n].priority \in 0..100 /\ DOMAIN Legacy[n].data \subseteq CellsOf(scope)
        /\ scope.table = "bars" => scope.from \in Days /\ scope.to \in scope.from..LegacyEnd
    BY <2>3, LegacySlicesAssumption
  <2>5. n \in Nat \ {0}
    BY LegacyAssumption
  <2>6. r.priority \in Nat /\ r.ordinal \in Nat /\ r.priority <= r.ordinal + 100
    BY <2>1, <2>4, <2>5
  <2>7. scope.table = "bars" =>
            scope.from \in Nat \ {0} /\ scope.to \in Nat /\ scope.to <= s.end
    BY <1>1, <2>4, LastDayAssumption DEF Days
  <2>. QED BY <2>2, <2>3, <2>4, <2>6, <2>7 DEF Placed
<1>7. ArePlaced(more, s.end)
  BY <1>1, <1>3, <1>6 DEF ArePlaced
<1>8. ASSUME ReferencesVerified(more), BarsReadable(more) PROVE Replays(more)
  <2>1. CASE BarRows(more) # {}
    BY <1>8, <2>1, ReadableIs
  <2>2. CASE BarRows(more) = {}
    <3>1. ASSUME NEW v \in Views(more) PROVE FALSE
      <4>1. v \in RangeOf(more) /\ v.component.kind = "view"
        BY DEF Views
      <4>2. PICK n \in DOMAIN Legacy, k \in 1..3 :
                /\ k \in DOMAIN SliceComponents(Legacy[n])
                /\ v.component = SliceComponents(Legacy[n])[k]
        BY <1>4, <4>1
      <4>3. /\ Legacy[n].scope.table = "bars"
            /\ v.component
                  = View(Legacy[n].scope, {SliceFacts(Legacy[n]), SliceRules(Legacy[n])})
        BY <1>5, <4>1, <4>2, SliceIs
      <4>4. SliceFacts(Legacy[n]) \in ComponentsOf(more)
        <5>1. v.component \in ComponentsOf(more)
          BY <4>1 DEF ComponentsOf
        <5>2. SliceFacts(Legacy[n]) \in v.component.deps
          BY <4>3 DEF View
        <5>. QED BY <1>8, <5>1, <5>2 DEF ReferencesVerified
      <4>5. PICK r \in RangeOf(more) : r.component = SliceFacts(Legacy[n])
        BY <4>4 DEF ComponentsOf
      <4>6. PICK x : x \in DOMAIN Legacy[n].data
        BY <4>3, LegacySlicesAssumption
      <4>7. r \in Holding(more, "bars", "facts", x)
        BY <1>5, <4>3, <4>5, <4>6 DEF Holding, Chosen
      <4>8. x \in BarRows(more)
        BY <4>7, OverlayRows DEF BarRows
      <4>. QED BY <2>2, <4>8
    <3>. QED BY <3>1 DEF Replays
  <2>. QED BY <2>1, <2>2
<1>9. PICK t : t = Snapshot(s.readiness, s.slices, more, s.ids, s.end)
  OBVIOUS
<1>10. /\ t.refs = more /\ t.end = s.end /\ t.slices = Legacy
       /\ t.readiness = s.readiness
  BY <1>1, <1>9 DEF Snapshot
<1>11. IsSound(t)
  BY <1>7, <1>8, <1>10 DEF IsSound, IsSimulation
<1>. QED BY <1>9, <1>11 DEF more

\* A list that is not empty has a first element.
LEMMA FirstOfList ==
    ASSUME NEW s, IsSequence(s), s # <<>>
    PROVE  DOMAIN s # {}
<1>1. PICK S : s \in Seq(S)
  BY DEF IsSequence
<1>2. Len(s) # 0 /\ Len(s) \in Nat /\ DOMAIN s = 1..Len(s)
  BY <1>1, EmptySeq
<1>3. 1 \in DOMAIN s
  BY <1>2
<1>. QED BY <1>3

\* What a query of a componentized snapshot needs.
LEMMA SoundReads ==
    ASSUME NEW s, IsSound(s), IsComponentized(s), ReferencesVerified(s.refs), Readable(s)
    PROVE  Replays(s.refs) /\ Covers(s.refs)
<1>1. BarsReadable(s.refs) /\ Replays(s.refs)
  BY DEF Readable, IsSound
<1>2. BarRows(s.refs) = {} => Covers(s.refs)
  BY DEF Covers
<1>. QED BY <1>1, <1>2, ReadableIs

\* What extend makes is sound, as readable as its predecessor, and exact.
LEMMA IncrementIsSound ==
    ASSUME NEW s, IsSound(s), IsSimulation(s), IsComponentized(s), ReferencesVerified(s.refs),
           NEW c \in Increments(s.end + 1)
    PROVE  LET t == Snapshot(s.readiness, s.slices, s.refs \o ExtendRefs(s.refs, c), c.ids, c.to)
           IN  /\ IsSound(t)
               /\ Readable(s) => Readable(t)
               /\ ExtensionIsExact(s, t)
<1>1. PICK t : t = Snapshot(s.readiness, s.slices, s.refs \o ExtendRefs(s.refs, c), c.ids, c.to)
  OBVIOUS
<1>2. PICK more : more = s.refs \o ExtendRefs(s.refs, c)
  OBVIOUS
<1>3. /\ t.refs = more /\ t.end = c.to /\ t.ids = c.ids /\ t.slices = s.slices
      /\ t.readiness = s.readiness
  BY <1>1, <1>2 DEF Snapshot
<1>4. ArePlaced(s.refs, s.end) /\ s.end \in Nat
  BY DEF IsSound, ArePlaced
<1>5. /\ IsIncrement(c, s.end)
      /\ \E rule \in MasterRules : \A i \in c.ids : c.master[i] = [fact |-> c.to, rule |-> rule]
      /\ \A x \in BarCells(c) : c.bars[x] = [fact |-> x[2], rule |-> 0]
  <2>. DEFINE made(ids, to, rule) ==
                  [ids |-> ids, from |-> s.end + 1, to |-> to,
                   master |-> [i \in ids |-> [fact |-> to, rule |-> rule]],
                   bars |-> [x \in ids \X (s.end + 1..to) |-> [fact |-> x[2], rule |-> 0]]]
  <2>0. Increments(s.end + 1)
            = {made(ids, to, rule) : ids \in (SUBSET Instruments) \ {{}},
                                     to \in s.end + 1..LastDay, rule \in MasterRules}
    BY DEF Increments
  <2>. HIDE DEF made
  <2>1. PICK ids \in (SUBSET Instruments) \ {{}}, to \in s.end + 1..LastDay, rule \in MasterRules :
            c = made(ids, to, rule)
    BY <2>0
  <2>2. /\ c.ids = ids /\ c.from = s.end + 1 /\ c.to = to
        /\ c.master = [i \in ids |-> [fact |-> to, rule |-> rule]]
        /\ c.bars = [x \in ids \X (s.end + 1..to) |-> [fact |-> x[2], rule |-> 0]]
    BY <2>1 DEF made
  <2>3. to \in Nat /\ s.end + 1 <= to
    BY <1>4, LastDayAssumption
  <2>4. IsIncrement(c, s.end)
    <3>1. c.ids # {} /\ c.ids \subseteq Instruments /\ DOMAIN c.master = c.ids
      <4>1. ids # {} /\ ids \subseteq Instruments
        OBVIOUS
      <4>2. DOMAIN c.master = ids
        BY <2>2
      <4>. QED BY <2>2, <4>1, <4>2
    <3>2. c.from \in Nat /\ c.to \in Nat /\ c.from <= c.to
      BY <1>4, <2>2, <2>3
    <3>. QED BY <2>2, <3>1, <3>2 DEF IsIncrement
  <2>5. \A i \in c.ids : c.master[i] = [fact |-> c.to, rule |-> rule]
    BY <2>2
  <2>6. \A x \in BarCells(c) : c.bars[x] = [fact |-> x[2], rule |-> 0]
    BY <2>2 DEF BarCells
  <2>. QED BY <2>4, <2>5, <2>6
<1>6. /\ ArePlaced(more, c.to)
      /\ BarRows(more) # {}
      /\ Replays(s.refs) => Replays(more)
      /\ Covers(s.refs) => Covers(more)
  BY <1>2, <1>4, <1>5, IncrementIsReadable
<1>7. IsSound(t)
  <2>1. BarsReadable(more) => Replays(more)
    BY <1>6, ReadableIs
  <2>2. IsSimulation(t) /\ t.slices = Legacy
    BY <1>3 DEF IsSound, IsSimulation, ResearchSnapshot, Snapshot
  <2>. QED BY <1>3, <1>6, <2>1, <2>2 DEF IsSound
<1>8. IsComponentized(t)
  <2>1. IsSequence(s.refs) /\ IsSequence(ExtendRefs(s.refs, c))
    BY <1>4, ExtendRefsAreListed DEF ArePlaced
  <2>2. \A n \in DOMAIN s.refs : n \in DOMAIN more
    BY <1>2, <2>1, Appended
  <2>3. DOMAIN s.refs # {}
    BY <2>1, FirstOfList DEF IsComponentized
  <2>4. DOMAIN <<>> = {}
    OBVIOUS
  <2>. QED BY <1>3, <2>2, <2>3, <2>4 DEF IsComponentized
<1>9. Readable(s) => Readable(t)
  <2>. SUFFICES ASSUME Readable(s) PROVE Readable(t)
    OBVIOUS
  <2>1. Replays(s.refs) /\ Covers(s.refs)
    BY SoundReads
  <2>2. BarsReadable(more)
    BY <1>6, <2>1, ReadableIs
  <2>. QED BY <1>3, <1>8, <2>2 DEF Readable
<1>10. ExtensionIsExact(s, t)
  <2>1. /\ Rows(t, "bars") = Compose(more, "bars") /\ Rows(s, "bars") = Compose(s.refs, "bars")
        /\ Rows(t, "instruments") = Compose(more, "instruments")
    BY <1>3, <1>8 DEF Rows
  <2>2. PICK bars : bars = Rows(t, "bars")
    OBVIOUS
  <2>3. PICK past : past = Rows(s, "bars")
    OBVIOUS
  <2>4. \A x : /\ x \in DOMAIN bars <=> x \in DOMAIN past \/ x \in BarCells(c)
               /\ x \in DOMAIN past => x \notin BarCells(c) /\ bars[x] = past[x]
               /\ x \in BarCells(c) =>
                     bars[x] = [fact |-> c.bars[x].fact, rule |-> {c.bars[x].rule}]
    BY <1>2, <1>4, <1>5, <2>1, <2>2, <2>3, IncrementBars
  <2>5. DOMAIN past \subseteq DOMAIN bars /\ \A x \in DOMAIN past : bars[x] = past[x]
    BY <2>4
  <2>6. DOMAIN bars \ DOMAIN past = BarCells(c)
    BY <2>4
  <2>7. BarCells(c) = t.ids \X (s.end + 1..t.end)
    BY <1>3, <1>5 DEF BarCells, IsIncrement
  <2>8. \A x \in BarCells(c) : bars[x] = [fact |-> x[2], rule |-> {0}]
    <3>. TAKE x \in BarCells(c)
    <3>1. PICK b : b = c.bars[x]
      OBVIOUS
    <3>2. b = [fact |-> x[2], rule |-> 0]
      BY <1>5, <3>1, Zenon
    <3>3. bars[x] = [fact |-> b.fact, rule |-> {b.rule}]
      BY <2>4, <3>1
    <3>. QED BY <3>2, <3>3
  <2>9. \A i \in t.ids :
            /\ Rows(t, "instruments")[<<i, 0>>].fact = t.end
            /\ "instruments" \notin CorrectedTables =>
                  Rows(t, "instruments")[<<i, 0>>].rule \subseteq MasterRules
    <3>. TAKE i \in t.ids
    <3>1. PICK row : row = Compose(more, "instruments")[<<i, 0>>]
      OBVIOUS
    <3>2. /\ row.fact = c.master[i].fact
          /\ "instruments" \notin CorrectedTables => row.rule = {c.master[i].rule}
      BY <1>2, <1>3, <1>4, <1>5, <3>1, IncrementInstruments
    <3>3. c.master[i].fact = c.to /\ c.master[i].rule \in MasterRules
      BY <1>3, <1>5
    <3>. QED BY <1>3, <2>1, <3>1, <3>2, <3>3
  <2>. QED BY <2>2, <2>3, <2>5, <2>6, <2>7, <2>8, <2>9 DEF ExtensionIsExact
<1>. QED BY <1>1, <1>7, <1>9, <1>10

\* What apply_scoped_update makes is sound, as readable as its predecessor, and exact.
LEMMA CorrectionIsSound ==
    ASSUME NEW s, IsSound(s), IsSimulation(s), IsComponentized(s), ReferencesVerified(s.refs),
           NEW c \in LegalCorrections(s)
    PROVE  LET t == Snapshot(s.readiness, s.slices,
                             s.refs \o CorrectionRefs(s.refs, c.component, c.impact), s.ids, s.end)
           IN  /\ IsSound(t)
               /\ Readable(s) => Readable(t)
               /\ CorrectionIsExact(s, t)
<1>1. PICK t : t = Snapshot(s.readiness, s.slices,
                       s.refs \o CorrectionRefs(s.refs, c.component, c.impact), s.ids, s.end)
  OBVIOUS
<1>2. PICK more : more = s.refs \o CorrectionRefs(s.refs, c.component, c.impact)
  OBVIOUS
<1>3. /\ t.refs = more /\ t.end = s.end /\ t.slices = s.slices /\ t.readiness = s.readiness
  BY <1>1, <1>2 DEF Snapshot
<1>4. ArePlaced(s.refs, s.end) /\ s.end \in Nat
  BY DEF IsSound, ArePlaced
<1>5. IsCorrection(c.component, c.impact, s.end)
  <2>1. c \in Corrections(s) /\ c.impact.table \in CorrectedTables
    BY DEF LegalCorrections
  <2>2. ASSUME NEW scope, NEW impact, c = Correction(scope, impact)
        PROVE  /\ c.component.kind = "rules" /\ c.component.scope = scope
               /\ DOMAIN c.component.data = CellsOf(scope) /\ c.impact = impact
    BY <2>2 DEF Correction, Materialized
  <2>3. ASSUME NEW i \in s.ids, NEW d \in 1..s.end, NEW to \in 1..s.end,
               c = Correction(Scope("bars", {i}, d, d), Scope("bars", s.ids, d, to))
        PROVE  IsCorrection(c.component, c.impact, s.end)
    <3>1. /\ c.component.kind = "rules" /\ c.component.scope = Scope("bars", {i}, d, d)
          /\ DOMAIN c.component.data = CellsOf(c.component.scope)
          /\ c.impact = Scope("bars", s.ids, d, to)
      BY <2>2, <2>3
    <3>2. d \in Nat \ {0} /\ d <= s.end /\ to \in Nat /\ to <= s.end
      BY <1>4
    <3>. QED BY <2>1, <3>1, <3>2 DEF IsCorrection, Scope
  <2>4. ASSUME NEW i \in s.ids,
               c = Correction(Scope("instruments", {i}, 0, 0), Scope("instruments", s.ids, 0, 0))
        PROVE  IsCorrection(c.component, c.impact, s.end)
    <3>1. /\ c.component.kind = "rules" /\ c.component.scope = Scope("instruments", {i}, 0, 0)
          /\ DOMAIN c.component.data = CellsOf(c.component.scope)
          /\ c.impact = Scope("instruments", s.ids, 0, 0)
      BY <2>2, <2>4
    <3>. QED BY <2>1, <3>1 DEF IsCorrection, Scope
  <2>. DEFINE ofBars(i, d, to) ==
                  Correction(Scope("bars", {i}, d, d), Scope("bars", s.ids, d, to))
              ofInstruments(i) ==
                  Correction(Scope("instruments", {i}, 0, 0), Scope("instruments", s.ids, 0, 0))
  <2>5. Corrections(s)
            = {ofBars(i, d, to) : i \in s.ids, d \in 1..s.end, to \in 1..s.end}
              \cup {ofInstruments(i) : i \in s.ids}
    BY DEF Corrections
  <2>. HIDE DEF ofBars, ofInstruments
  <2>6. \/ \E i \in s.ids, d \in 1..s.end, to \in 1..s.end : c = ofBars(i, d, to)
        \/ \E i \in s.ids : c = ofInstruments(i)
    BY <2>1, <2>5
  <2>. QED BY <2>3, <2>4, <2>6 DEF ofBars, ofInstruments
<1>6. /\ ArePlaced(more, s.end)
      /\ BarRows(more) = BarRows(s.refs)
      /\ Replays(s.refs) => Replays(more)
      /\ Covers(s.refs) => Covers(more)
  BY <1>2, <1>4, <1>5, CorrectionIsReadable
<1>7. IsSound(t)
  <2>1. BarsReadable(more) => Replays(more)
    <3>1. CASE BarRows(more) = {}
      <4>1. BarsReadable(s.refs)
        BY <1>6, <3>1, ReadableIs
      <4>2. Replays(s.refs)
        BY <4>1 DEF IsSound
      <4>. QED BY <1>6, <4>2
    <3>2. CASE BarRows(more) # {}
      BY <3>2, ReadableIs
    <3>. QED BY <3>1, <3>2
  <2>2. IsSimulation(t) /\ t.slices = Legacy
    BY <1>3 DEF IsSound, IsSimulation, ResearchSnapshot, Snapshot
  <2>. QED BY <1>3, <1>6, <2>1, <2>2 DEF IsSound
<1>8. IsSequence(s.refs) /\ IsSequence(CorrectionRefs(s.refs, c.component, c.impact))
  BY <1>4, CorrectionRefsAreListed DEF ArePlaced
<1>9. IsComponentized(t)
  <2>1. \A n \in DOMAIN s.refs : n \in DOMAIN more
    BY <1>2, <1>8, Appended
  <2>2. DOMAIN s.refs # {}
    BY <1>8, FirstOfList DEF IsComponentized
  <2>3. DOMAIN <<>> = {}
    OBVIOUS
  <2>. QED BY <1>3, <2>1, <2>2, <2>3 DEF IsComponentized
<1>10. Readable(s) => Readable(t)
  <2>. SUFFICES ASSUME Readable(s) PROVE Readable(t)
    OBVIOUS
  <2>1. Replays(s.refs) /\ Covers(s.refs)
    BY SoundReads
  <2>2. BarsReadable(more)
    BY <1>6, <2>1, ReadableIs
  <2>. QED BY <1>3, <1>9, <2>2 DEF Readable
<1>11. more[Len(s.refs) + 1].component = c.component
  <2>1. PICK added : added = CorrectionRefs(s.refs, c.component, c.impact)
    OBVIOUS
  <2>2. PICK first, rest :
            /\ added = <<first>> \o rest /\ IsSequence(rest) /\ first.component = c.component
    <3>1. PICK top, next :
              added = <<Ref(c.component, top, next)>> \o
                      IF c.impact.table = "bars"
                      THEN <<Ref(CorrectionView(s.refs, c.component, c.impact), top, next + 1)>>
                      ELSE <<>>
      BY <2>1, Zenon DEF CorrectionRefs, CorrectionView
    <3>2. Ref(c.component, top, next).component = c.component
      BY DEF Ref
    <3>. QED BY <3>1, <3>2, ShortLists
  <2>3. PICK S : s.refs \in Seq(S)
    BY <1>8 DEF IsSequence
  <2>4. PICK R : rest \in Seq(R)
    BY <2>2 DEF IsSequence
  <2>5. PICK T : T = S \cup R \cup {first}
    OBVIOUS
  <2>6. s.refs \in Seq(T) /\ rest \in Seq(T) /\ first \in T
    BY <2>3, <2>4, <2>5
  <2>7. (s.refs \o (<<first>> \o rest))[Len(s.refs) + 1] = first
    <3>1. PICK tail : tail = <<first>> \o rest
      OBVIOUS
    <3>2. <<first>> \in Seq(T) /\ Len(<<first>>) = 1 /\ <<first>>[1] = first
      BY <2>6
    <3>3. tail \in Seq(T) /\ 1 \in 1..Len(tail) /\ tail[1] = first
      BY <2>6, <3>1, <3>2
    <3>4. (s.refs \o tail)[Len(s.refs) + 1] = tail[1]
      BY <2>6, <3>3
    <3>. QED BY <3>1, <3>3, <3>4
  <2>. QED BY <1>2, <2>1, <2>2, <2>7
<1>12. CorrectionIsExact(s, t)
  <2>1. \A table : Rows(t, table) = Compose(more, table) /\ Rows(s, table) = Compose(s.refs, table)
    BY <1>3, <1>9 DEF Rows
  <2>2. ASSUME NEW table \in Tables
        PROVE  /\ DOMAIN Rows(t, table) = DOMAIN Rows(s, table)
               /\ \A x \in DOMAIN Rows(s, table) :
                     Rows(t, table)[x]
                        = IF table = c.component.scope.table /\ x \in DOMAIN c.component.data
                          THEN [Rows(s, table)[x] EXCEPT !.rule = {c.component.data[x]}]
                          ELSE Rows(s, table)[x]
    <3>1. PICK after : after = Rows(t, table)
      OBVIOUS
    <3>2. PICK before : before = Rows(s, table)
      OBVIOUS
    <3>3. after = Compose(s.refs \o CorrectionRefs(s.refs, c.component, c.impact), table)
          /\ before = Compose(s.refs, table)
      BY <1>2, <2>1, <3>1, <3>2
    <3>4. ASSUME NEW x
          PROVE  /\ x \in DOMAIN after <=> x \in DOMAIN before
                 /\ x \in DOMAIN before =>
                     after[x] = IF table = c.component.scope.table /\ x \in DOMAIN c.component.data
                                THEN [before[x] EXCEPT !.rule = {c.component.data[x]}]
                                ELSE before[x]
      BY <1>4, <1>5, <3>3, CorrectionRows
    <3>5. DOMAIN after = DOMAIN before
      BY <3>4
    <3>. QED BY <3>1, <3>2, <3>4, <3>5, Zenon
  <2>3. t.refs[Len(s.refs) + 1].component = c.component
    BY <1>3, <1>11
  <2>. QED BY <2>2, <2>3, Zenon DEF CorrectionIsExact
<1>. QED BY <1>1, <1>7, <1>10, <1>12

-----------------------------------------------------------------------------
(* Work that is kept.  References are only ever appended, to those of the   *)
(* snapshot a call derives from.                                           *)

Operations == {"bootstrap", "extend", "correct", "shadow", "research"}

\* What a call is about to publish continues what it derives from, exactly and as
\* readable, or has been compared with it.
IsWork(c) ==
    c.pc # "idle" =>
        /\ c.pc \in Phases
        /\ c.op \in Operations
        /\ IsSound(c.succ)
        /\ c.op = "research" => c.succ = ResearchSnapshot
        /\ c.op \in {"extend", "correct"} => Continues(c.pred, c.succ)
        /\ c.op \in {"extend", "correct"} /\ Readable(c.pred) => Readable(c.succ)
        /\ c.op = "extend" => ExtensionIsExact(c.pred, c.succ)
        /\ c.op = "correct" => CorrectionIsExact(c.pred, c.succ)
        /\ c.pc \in {"lock", "replace"} =>
              c.op # "bootstrap" /\ (c.op = "shadow" => Equivalent(c.pred, c.succ))

WorkIsSound ==
    /\ \A s \in DOMAIN stored : IsSound(s)
    /\ \A p \in Procs : IsWork(call[p])

\* A step that adds no snapshot but a sound one, and moves one call.
LEMMA WorkStep ==
    ASSUME IInv, WorkIsSound, NEW p \in Procs, NEW c, IsWork(c),
           call' = [call EXCEPT ![p] = c],
           \A s \in DOMAIN stored' : s \in DOMAIN stored \/ IsSound(s)
    PROVE  WorkIsSound'
<1>1. call'[p] = c /\ \A q \in Procs \ {p} : call'[q] = call[q]
  BY DEF IInv, CallsAreShaped
<1>. QED BY <1>1 DEF WorkIsSound

\* A call that ends or moves on to a phase that needs no more.
LEMMA WorkMoves ==
    ASSUME IInv, WorkIsSound, NEW p \in Procs, call[p].pc # "idle",
           \/ Return(p)
           \/ \E pc \in {"rename", "load"} : Step(p, pc)
           \/ Step(p, "replace") /\ call[p].pc = "lock"
           \/ Step(p, "lock") /\ Publishable(call[p]) /\ call[p].op # "bootstrap",
           \A s \in DOMAIN stored' : s \in DOMAIN stored \/ IsSound(s)
    PROVE  WorkIsSound'
<1>1. CASE Return(p)
  <2>1. IsWork(Idle)
    BY DEF IsWork, Idle
  <2>. QED BY <1>1, <2>1, WorkStep DEF Return
<1>2. ASSUME NEW pc \in Phases, Step(p, pc), pc # "idle",
             pc \in {"lock", "replace"} =>
                /\ call[p].op # "bootstrap"
                /\ call[p].op = "shadow" => Equivalent(call[p].pred, call[p].succ)
      PROVE  WorkIsSound'
  <2>1. CallsAreShaped
    BY DEF IInv
  <2>2. /\ call' = [call EXCEPT ![p] = Moved(call[p], pc)]
        /\ Moved(call[p], pc).pc = pc
        /\ Moved(call[p], pc).succ = call[p].succ
        /\ Moved(call[p], pc).pred = call[p].pred
        /\ Moved(call[p], pc).op = call[p].op
    BY <1>2, <2>1, StepShape
  <2>3. IsWork(Moved(call[p], pc))
    BY <1>2, <2>2 DEF WorkIsSound, IsWork
  <2>. QED BY <2>2, <2>3, WorkStep
<1>3. ASSUME NEW pc \in {"rename", "load"}, Step(p, pc) PROVE WorkIsSound'
  BY <1>2, <1>3 DEF Phases
<1>4. CASE Step(p, "replace") /\ call[p].pc = "lock"
  BY <1>2, <1>4 DEF Phases, WorkIsSound, IsWork
<1>5. CASE Step(p, "lock") /\ Publishable(call[p]) /\ call[p].op # "bootstrap"
  BY <1>2, <1>5 DEF Phases, Publishable
<1>. QED BY <1>1, <1>3, <1>4, <1>5

\* A call begins to derive a snapshot.
LEMMA WorkDerived ==
    ASSUME IInv, WorkIsSound, NEW p \in Procs, NEW op \in {"bootstrap", "extend", "correct"},
           NEW pred \in DOMAIN stored, NEW added, IsSequence(added), NEW ids, NEW end,
           op # "bootstrap" => IsComponentized(pred),
           Derive(p, op, pred, added, ids, end),
           NEW succ,
           succ = Snapshot(pred.readiness, pred.slices, pred.refs \o added, ids, end),
           IsSound(succ),
           op # "bootstrap" /\ Readable(pred) => Readable(succ),
           op = "extend" => ExtensionIsExact(pred, succ),
           op = "correct" => CorrectionIsExact(pred, succ)
    PROVE  WorkIsSound'
<1>. DEFINE new == [n \in DOMAIN added |-> added[n].component]
            c == [pc |-> "build", op |-> op, pred |-> pred, succ |-> succ, new |-> new]
<1>1. call' = [call EXCEPT ![p] = c] /\ UNCHANGED stored
  BY DEF Derive, Begin, Active
<1>2. IsSequence(pred.refs)
  BY DEF WorkIsSound, IsSound, ArePlaced
<1>3. \A n \in DOMAIN pred.refs :
            n \in DOMAIN (pred.refs \o added) /\ (pred.refs \o added)[n] = pred.refs[n]
  BY <1>2, Appended
<1>4. succ.refs = pred.refs \o added
  BY DEF Snapshot
<1>5. op # "bootstrap" => Continues(pred, succ)
  BY <1>3, <1>4 DEF Continues, IsComponentized
<1>. HIDE DEF new
<1>6. IsWork(c)
  BY <1>5 DEF IsWork, Phases, Operations
<1>. HIDE DEF c
<1>. QED BY <1>1, <1>6, WorkStep

\* A snapshot without components is placed, and has no views.
LEMMA NothingIsSound ==
    ArePlaced(<<>>, LegacyEnd) /\ Replays(<<>>)
<1>1. IsSequence(<<>>) /\ RangeOf(<<>>) = {}
  BY ShortLists
<1>2. LegacyEnd \in Nat /\ LegacyEnd <= LegacyEnd
  BY LegacyEndAssumption, LastDayAssumption DEF Days
<1>. QED BY <1>1, <1>2 DEF ArePlaced, Replays, Views

\* At the start there is only the legacy snapshot.
THEOREM InitWork == Init => WorkIsSound
<1>. SUFFICES ASSUME Init PROVE WorkIsSound
  OBVIOUS
<1>2. IsSound(LegacySnapshot)
  <2>1. /\ LegacySnapshot.refs = <<>> /\ LegacySnapshot.end = LegacyEnd
        /\ LegacySnapshot.slices = Legacy /\ LegacySnapshot.readiness = "simulation"
    BY DEF LegacySnapshot, Snapshot
  <2>2. IsSound(LegacySnapshot)
    BY <2>1, NothingIsSound DEF IsSound, IsSimulation
  <2>. QED BY <2>2
<1>3. \A p \in Procs : IsWork(call[p])
  BY DEF Init, IsWork, Idle
<1>. QED BY <1>2, <1>3 DEF Init, WorkIsSound

\* Every step keeps what calls are about to publish sound.
THEOREM NextWork == IInv /\ WorkIsSound /\ [Next]_vars => WorkIsSound'
<1>. SUFFICES ASSUME IInv, WorkIsSound, [Next]_vars PROVE WorkIsSound'
  OBVIOUS
<1>1. ASSUME NEW p \in Procs, NEW s \in DOMAIN stored, BeginBootstrap(p, s)
      PROVE  WorkIsSound'
  <2>1. IsSound(s) /\ s.slices = Legacy /\ IsSimulation(s) /\ ~IsComponentized(s)
    BY <1>1 DEF BeginBootstrap, WorkIsSound, IsSound, IsSimulation, ResearchSnapshot, Snapshot
  <2>2. IsSequence(BootstrapRefs(s.slices))
    BY <2>1, LegacyAssumption, BootstrapRefsAreListed
  <2>3. PICK t : t = Snapshot(s.readiness, s.slices, s.refs \o BootstrapRefs(s.slices),
                              s.ids, s.end)
    OBVIOUS
  <2>4. IsSound(t)
    BY <2>1, <2>3, BootstrapIsSound
  <2>. QED BY <1>1, <2>2, <2>3, <2>4, WorkDerived DEF BeginBootstrap
<1>2. ASSUME NEW p \in Procs, NEW s \in DOMAIN stored, NEW c \in Increments(s.end + 1),
             BeginExtend(p, s, c)
      PROVE  WorkIsSound'
  <2>1. /\ IsSound(s) /\ IsSimulation(s) /\ IsComponentized(s) /\ ReferencesVerified(s.refs)
    BY <1>2 DEF BeginExtend, Loads, WorkIsSound
  <2>2. IsSequence(ExtendRefs(s.refs, c))
    BY ExtendRefsAreListed
  <2>3. PICK t : t = Snapshot(s.readiness, s.slices, s.refs \o ExtendRefs(s.refs, c),
                              c.ids, c.to)
    OBVIOUS
  <2>4. IsSound(t) /\ (Readable(s) => Readable(t)) /\ ExtensionIsExact(s, t)
    BY <2>1, <2>3, IncrementIsSound
  <2>. QED BY <1>2, <2>1, <2>2, <2>3, <2>4, WorkDerived DEF BeginExtend
<1>3. ASSUME NEW p \in Procs, NEW s \in DOMAIN stored, NEW c \in LegalCorrections(s),
             BeginCorrection(p, s, c.component, c.impact)
      PROVE  WorkIsSound'
  <2>1. /\ IsSound(s) /\ IsSimulation(s) /\ IsComponentized(s) /\ ReferencesVerified(s.refs)
    BY <1>3 DEF BeginCorrection, Loads, WorkIsSound, IsSound, IsComponentized,
       ResearchSnapshot, Snapshot
  <2>2. IsSequence(CorrectionRefs(s.refs, c.component, c.impact))
    BY CorrectionRefsAreListed
  <2>3. PICK t : t = Snapshot(s.readiness, s.slices,
                              s.refs \o CorrectionRefs(s.refs, c.component, c.impact),
                              s.ids, s.end)
    OBVIOUS
  <2>4. IsSound(t) /\ (Readable(s) => Readable(t)) /\ CorrectionIsExact(s, t)
    BY <2>1, <2>3, CorrectionIsSound
  <2>. QED BY <1>3, <2>1, <2>2, <2>3, <2>4, WorkDerived DEF BeginCorrection
<1>4. ASSUME NEW p \in Procs, NEW s \in DOMAIN stored, BeginShadow(p, s)
      PROVE  WorkIsSound'
  <2>. DEFINE c == [pc |-> "load", op |-> "shadow", pred |-> pointer.snapshot,
                    succ |-> s, new |-> <<>>]
  <2>1. call' = [call EXCEPT ![p] = c] /\ UNCHANGED stored
    BY <1>4 DEF BeginShadow, Active
  <2>2. IsWork(c)
    BY DEF IsWork, Phases, Operations, WorkIsSound
  <2>. HIDE DEF c
  <2>. QED BY <2>1, <2>2, WorkStep
<1>5. ASSUME NEW p \in Procs, BeginResearch(p) PROVE WorkIsSound'
  <2>. DEFINE c == [pc |-> "build", op |-> "research", pred |-> ResearchSnapshot,
                    succ |-> ResearchSnapshot, new |-> <<>>]
  <2>1. call' = [call EXCEPT ![p] = c] /\ UNCHANGED stored
    BY <1>5 DEF BeginResearch, Begin, Active
  <2>2. ResearchSnapshot.refs = <<>> /\ ResearchSnapshot.end = LegacyEnd
    BY DEF ResearchSnapshot, Snapshot
  <2>3. IsSound(ResearchSnapshot)
    BY <2>2, NothingIsSound DEF IsSound
  <2>4. IsWork(c)
    BY <2>3 DEF IsWork, Phases, Operations
  <2>. HIDE DEF c
  <2>. QED BY <2>1, <2>4, WorkStep
<1>6. ASSUME NEW p \in Procs, RecordComponents(p) PROVE WorkIsSound'
  BY <1>6, WorkMoves DEF RecordComponents
<1>7. ASSUME NEW p \in Procs, RenameSnapshot(p) PROVE WorkIsSound'
  <2>1. IsSound(call[p].succ)
    BY <1>7 DEF RenameSnapshot, WorkIsSound, IsWork
  <2>2. \A s \in DOMAIN stored' : s \in DOMAIN stored \/ IsSound(s)
    BY <1>7, <2>1 DEF RenameSnapshot, Put
  <2>. QED BY <1>7, <2>2, WorkMoves DEF RenameSnapshot
<1>8. ASSUME NEW p \in Procs, LoadSnapshot(p) PROVE WorkIsSound'
  BY <1>8, WorkMoves DEF LoadSnapshot
<1>9. ASSUME NEW p \in Procs, LockAndCompare(p) PROVE WorkIsSound'
  BY <1>9, WorkMoves DEF LockAndCompare
<1>10. ASSUME NEW p \in Procs, ReplacePointer(p) PROVE WorkIsSound'
  BY <1>10, WorkMoves DEF ReplacePointer
<1>11. ASSUME NEW p \in Procs, Crash(p) PROVE WorkIsSound'
  BY <1>11, WorkMoves DEF Crash
<1>12. ASSUME UNCHANGED vars PROVE WorkIsSound'
  BY <1>12 DEF vars, WorkIsSound
<1>. QED
  BY <1>1, <1>2, <1>3, <1>4, <1>5, <1>6, <1>7, <1>8, <1>9, <1>10, <1>11, <1>12 DEF Next

\* Everything on disk and in memory has its shape.
THEOREM TypeCorrect == Spec => []TypeOK
<1>1. IInv /\ WorkIsSound => TypeOK
  <2>. SUFFICES ASSUME IInv, WorkIsSound PROVE TypeOK
    OBVIOUS
  <2>1. pointer.snapshot \in DOMAIN stored
    BY DEF IInv, CurrentIsIntact, CurrentIs, Loads
  <2>2. \A s \in DOMAIN stored : IsSimulation(s) \/ s = ResearchSnapshot
    BY DEF WorkIsSound, IsSound
  <2>3. \A p \in Procs : call[p].pc \in Phases
    BY DEF WorkIsSound, IsWork, Phases
  <2>. QED BY <2>1, <2>2, <2>3 DEF TypeOK, IInv, LockIsExclusive
<1>. QED BY <1>1, InitIInv, NextIInv, InitWork, NextWork, PTL DEF Spec

\* A simulation snapshot that replaces another continues it or shows the same
\* rows: no publisher loses the work of another one, for any number of them.
THEOREM WorkIsKept == Spec => NoUpdateLost
<1>1. IInv /\ WorkIsSound /\ [Next]_vars => [KeepsWork]_pointer
  <2>. SUFFICES ASSUME IInv, WorkIsSound, Next, pointer' # pointer PROVE KeepsWork
    BY DEF vars
  <2>1. PICK p \in Procs : ReplacePointer(p)
    BY DEF Next, BeginBootstrap, BeginExtend, BeginCorrection, Derive, Begin, BeginShadow,
       BeginResearch, RecordComponents, RenameSnapshot, LoadSnapshot, LockAndCompare, Crash
  <2>2. call[p].pc = "replace" /\ pointer'.snapshot = call[p].succ
    BY <2>1 DEF ReplacePointer
  <2>3. CASE call[p].op = "research"
    <3>1. ~IsSimulation(pointer'.snapshot)
      BY <2>2, <2>3 DEF WorkIsSound, IsWork, IsSimulation, ResearchSnapshot, Snapshot
    <3>. QED BY <3>1 DEF KeepsWork
  <2>4. CASE call[p].op # "research"
    <3>1. pointer.snapshot = call[p].pred
      BY <2>2, <2>4 DEF IInv, ComparisonHolds
    <3>2. Continues(call[p].pred, call[p].succ) \/ Equivalent(call[p].pred, call[p].succ)
      BY <2>2, <2>4 DEF WorkIsSound, IsWork, Operations
    <3>. QED BY <2>2, <3>1, <3>2 DEF KeepsWork
  <2>. QED BY <2>3, <2>4
<1>. QED BY <1>1, InitIInv, NextIInv, InitWork, NextWork, PTL DEF Spec, NoUpdateLost

-----------------------------------------------------------------------------
(* What is published can be read, and is what it was made for.             *)

\* The snapshots that have no components can be read.
LEMMA FirstAreReadable == Readable(LegacySnapshot) /\ Readable(ResearchSnapshot)
<1>1. /\ LegacySnapshot.refs = <<>> /\ LegacySnapshot.slices = Legacy
      /\ ResearchSnapshot.refs = <<>> /\ ResearchSnapshot.slices = <<>>
  BY DEF LegacySnapshot, ResearchSnapshot, Snapshot
<1>2. \A t \in Tables : LegacyReadable(<<>>, t)
  BY DEF LegacyReadable
<1>. QED BY <1>1, <1>2, LegacyReadableAssumption DEF Readable, IsComponentized

\* Only the replacement of the pointer moves it.
LEMMA PointerMoves ==
    ASSUME [Next]_vars
    PROVE  pointer' = pointer \/ \E p \in Procs : ReplacePointer(p)
BY DEF Next, BeginBootstrap, BeginExtend, BeginCorrection, Derive, Begin, BeginShadow,
   BeginResearch, RecordComponents, RenameSnapshot, LoadSnapshot, LockAndCompare, Crash, vars

\* Whatever increments and corrections are chained, by however many processes, the
\* snapshot that is published can be queried: its views replay exactly what it
\* selects below them, and cover its bars (_replay_simulation_views).
THEOREM PublishedIsReadable == Spec => []CurrentIsReadable
<1>1. Init => CurrentIsReadable
  BY FirstAreReadable DEF Init, CurrentIsReadable
<1>2. IInv /\ WorkIsSound /\ CurrentIsReadable /\ [Next]_vars => CurrentIsReadable'
  <2>. SUFFICES ASSUME IInv, WorkIsSound, CurrentIsReadable, [Next]_vars
                PROVE  CurrentIsReadable'
    OBVIOUS
  <2>1. CASE pointer' = pointer
    BY <2>1 DEF CurrentIsReadable
  <2>2. ASSUME NEW p \in Procs, ReplacePointer(p) PROVE CurrentIsReadable'
    <3>1. call[p].pc = "replace" /\ pointer'.snapshot = call[p].succ
      BY <2>2 DEF ReplacePointer
    <3>2. IsWork(call[p]) /\ call[p].pc # "idle"
      BY <3>1 DEF WorkIsSound
    <3>3. CASE call[p].op = "research"
      BY <3>1, <3>2, <3>3, FirstAreReadable DEF IsWork, CurrentIsReadable
    <3>4. CASE call[p].op = "shadow"
      BY <3>1, <3>2, <3>4 DEF IsWork, Equivalent, CurrentIsReadable
    <3>5. CASE call[p].op \in {"extend", "correct"}
      <4>1. call[p].pred = pointer.snapshot
        BY <3>1, <3>5 DEF IInv, ComparisonHolds
      <4>. QED BY <3>1, <3>2, <3>5, <4>1 DEF IsWork, CurrentIsReadable
    <3>. QED BY <3>1, <3>2, <3>3, <3>4, <3>5 DEF IsWork, Operations
  <2>. QED BY <2>1, <2>2, PointerMoves
<1>. QED BY <1>1, <1>2, InitIInv, NextIInv, InitWork, NextWork, PTL DEF Spec

\* An increment says what it was given and no more, and a correction changes the
\* cell it was reviewed for and no other, whatever components, priorities and
\* corrections the predecessor has piled up (extend, apply_scoped_update).
THEOREM DerivedIsExact == Spec => []SuccessorsAreExact
<1>1. WorkIsSound => SuccessorsAreExact
  BY DEF WorkIsSound, IsWork, SuccessorsAreExact
<1>. QED BY <1>1, InitIInv, NextIInv, InitWork, NextWork, PTL DEF Spec
=============================================================================
