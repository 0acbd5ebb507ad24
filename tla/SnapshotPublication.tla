------------------------ MODULE SnapshotPublication ------------------------
(***************************************************************************)
(* Concurrent publishers over one market-data warehouse: MarketDataWarehouse *)
(* (fundlab/marketdata/warehouse.py), ComponentStore (components.py) and    *)
(* IncrementalCanonicalPublisher (incremental.py), with the callers of      *)
(* history.py and simulation_data.py.                                       *)
(*                                                                         *)
(* Everything but current.json is immutable and named by its content: a     *)
(* directory is written aside and renamed into place.  A process may die    *)
(* between any two steps; the system then drops its file lock.              *)
(***************************************************************************)
EXTENDS ComponentSnapshots

CONSTANTS
    Procs,              \* processes that may each have one call in progress
    Legacy,             \* the slices of the accepted legacy simulation snapshot
    LegacyEnd,          \* the last session it holds
    CorrectedTables,    \* the tables scoped updates correct
    MasterRules,        \* the rule values that new instrument rows may have
    MaxSnapshots        \* bound on the snapshots stored

\* The selections of a snapshot are a tuple.
ASSUME LegacyAssumption == Len(Legacy) \in Nat /\ DOMAIN Legacy = 1..Len(Legacy)
ASSUME LegacyEndAssumption == LegacyEnd \in Days

\* Their priority is the default one (0), or at most the 100 that increments add;
\* slices of bars are for sessions of the history and not empty, no slice holds rows
\* outside its scope, and the accepted snapshot can be queried.
ASSUME LegacySlicesAssumption ==
    \A n \in DOMAIN Legacy :
        LET scope == Legacy[n].scope IN
        /\ Legacy[n].priority \in 0..100
        /\ scope.table = "bars" =>
              /\ scope.from \in Days /\ scope.to \in scope.from..LegacyEnd
              /\ DOMAIN Legacy[n].data # {}
        /\ DOMAIN Legacy[n].data \subseteq CellsOf(scope)
ASSUME LegacyReadableAssumption == \A t \in Tables : LegacyReadable(Legacy, t)
ASSUME CorrectedTablesAssumption == CorrectedTables \subseteq Tables
ASSUME MaxSnapshotsAssumption == MaxSnapshots \in Nat

Nobody == "nobody"
ASSUME NobodyAssumption == Nobody \notin Procs

VARIABLES
    components, \* the component directories in place
    stored,     \* the snapshot directories in place: content -> how often it was
                \* written, which stands for its manifest's bytes (created_at)
    pointer,    \* current.json: the snapshot and the checksum of its manifest
    lock,       \* the holder of .current.lock
    call        \* what each process's call holds in memory

vars == <<components, stored, pointer, lock, call>>

-----------------------------------------------------------------------------
(* Snapshots.                                                              *)

Snapshot(readiness, slices, refs, ids, end) ==
    [readiness |-> readiness, slices |-> slices, refs |-> refs,
     ids |-> ids, end |-> end]

LegacySnapshot ==
    Snapshot("simulation", Legacy, <<>>,
             UNION {Legacy[n].scope.ids : n \in DOMAIN Legacy}, LegacyEnd)

\* A research-price history; what it holds plays no part here.
ResearchSnapshot == Snapshot("research", <<>>, <<>>, {}, LegacyEnd)

IsSimulation(s) == s.readiness = "simulation"
IsComponentized(s) == s.refs # <<>>

\* query_snapshot_table, and whether it answers at all.
Rows(s, table) == IF IsComponentized(s) THEN Compose(s.refs, table)
                  ELSE LegacyRows(s.slices, table)
Readable(s) == IF IsComponentized(s) THEN BarsReadable(s.refs)
               ELSE \A t \in Tables : LegacyReadable(s.slices, t)

\* load_snapshot succeeds.
Loads(s) ==
    /\ s \in DOMAIN stored
    /\ ReferencesVerified(s.refs)
    /\ ComponentsOf(s.refs) \subseteq components

Put(s) == [x \in DOMAIN stored \cup {s} |->
              IF x # s THEN stored[x]
              ELSE IF s \in DOMAIN stored THEN stored[s] + 1 ELSE 1]

\* compare: equal universe and equal rows in every table; a query of a
\* candidate that cannot be composed raises.
Equivalent(s, t) ==
    /\ s.ids = t.ids /\ s.end = t.end
    /\ Readable(s) /\ Readable(t)
    /\ \A table \in Tables : Rows(s, table) = Rows(t, table)

-----------------------------------------------------------------------------
(* Calls.  A call keeps what it derives from, what it builds and, while it  *)
(* builds, the components it must record.                                  *)

Idle == [pc |-> "idle"]

Active(pc, op, pred, succ, new) ==
    [pc |-> pc, op |-> op, pred |-> pred, succ |-> succ, new |-> new]

Moved(c, pc) == Active(pc, c.op, c.pred, c.succ, c.new)
Step(p, pc) == call' = [call EXCEPT ![p] = Moved(call[p], pc)]
Return(p) == call' = [call EXCEPT ![p] = Idle]
RoomFor(s) == s \in DOMAIN stored \/ Cardinality(DOMAIN stored) < MaxSnapshots

Begin(p, op, pred, succ, new) ==
    /\ call[p].pc = "idle"
    /\ RoomFor(succ)
    /\ call' = [call EXCEPT ![p] = Active("build", op, pred, succ, new)]
    /\ UNCHANGED <<components, stored, pointer, lock>>

\* A derived snapshot has the predecessor's references and those appended.
Derive(p, op, pred, added, ids, end) ==
    Begin(p, op, pred,
          Snapshot(pred.readiness, pred.slices, pred.refs \o added, ids, end),
          [n \in DOMAIN added |-> added[n].component])

\* bootstrap of a legacy snapshot; it is published by a later BeginShadow.
BeginBootstrap(p, source) ==
    /\ Loads(source) /\ IsSimulation(source) /\ ~IsComponentized(source)
    /\ Derive(p, "bootstrap", source, BootstrapRefs(source.slices),
              source.ids, source.end)

\* extend, for an increment whose partitions were validated against the
\* universe and the days after the predecessor's last.
BeginExtend(p, pred, increment) ==
    /\ Loads(pred) /\ IsSimulation(pred) /\ IsComponentized(pred)
    /\ pred.ids \subseteq increment.ids
    /\ increment.from = pred.end + 1
    /\ increment.to >= increment.from
    /\ Derive(p, "extend", pred, ExtendRefs(pred.refs, increment),
              increment.ids, increment.to)

\* apply_scoped_update of one reviewed component with its declared impact.
BeginCorrection(p, pred, component, impact) ==
    /\ Loads(pred) /\ IsComponentized(pred)
    /\ ~CorrectionRefused(pred.refs, component, impact)
    /\ Derive(p, "correct", pred, CorrectionRefs(pred.refs, component, impact),
              pred.ids, pred.end)

\* publish_if_equivalent of the current snapshot and a stored candidate.
BeginShadow(p, candidate) ==
    /\ call[p].pc = "idle"
    /\ pointer.snapshot # candidate
    /\ Loads(pointer.snapshot) /\ Loads(candidate)
    /\ call' = [call EXCEPT ![p] =
            Active("load", "shadow", pointer.snapshot, candidate, <<>>)]
    /\ UNCHANGED <<components, stored, pointer, lock>>

\* A history build that publishes; its partitions are not modelled here.
BeginResearch(p) ==
    Begin(p, "research", ResearchSnapshot, ResearchSnapshot, <<>>)

\* record_materialized, record_source, record_view, each reusing a directory
\* in place or renaming one there, and the look for the snapshot's directory
\* in _commit_snapshot.  The call may die before the last component, or fail
\* on it when another process renames it first.
RecordComponents(p) ==
    /\ call[p].pc = "build"
    /\ \E done \in {Len(call[p].new) - 1, Len(call[p].new)} :
          /\ components' = components \cup {call[p].new[n] : n \in 1..done}
          /\ IF done < Len(call[p].new) THEN Return(p)
             ELSE Step(p, IF call[p].succ \in DOMAIN stored THEN "load" ELSE "rename")
    /\ UNCHANGED <<stored, pointer, lock>>

\* A mutant: the rename replaces a directory that is there by now.
RenameOverSnapshot(p) ==
    /\ call[p].pc = "rename"
    /\ Step(p, "load")
    /\ stored' = Put(call[p].succ)
    /\ UNCHANGED <<components, pointer, lock>>

\* The rename of _commit_snapshot fails on a directory that is there by now.
RenameSnapshot(p) ==
    /\ call[p].pc = "rename"
    /\ IF call[p].succ \in DOMAIN stored
       THEN Return(p) /\ UNCHANGED stored
       ELSE Step(p, "load") /\ stored' = Put(call[p].succ)
    /\ UNCHANGED <<components, pointer, lock>>

\* load_snapshot at the end of _commit_snapshot, where bootstrap ends, then
\* the comparison of publish_if_equivalent and _publishable_snapshot.
Publishable(c) ==
    /\ Loads(c.succ)
    /\ c.op = "shadow" => Equivalent(c.pred, c.succ)
    /\ IsSimulation(c.succ) => IsComponentized(c.succ)

LoadSnapshot(p) ==
    /\ call[p].pc = "load"
    /\ IF Publishable(call[p]) /\ call[p].op # "bootstrap"
       THEN Step(p, "lock") ELSE Return(p)
    /\ UNCHANGED <<components, stored, pointer, lock>>

\* A mutant: the checksum is compared, the identity is not.
CurrentLoads(s) ==
    /\ Loads(s)
    /\ stored[s] = pointer.manifest

\* current_snapshot_id verifies the snapshot and the checksum it reads.
CurrentIs(s) ==
    /\ pointer.snapshot = s
    /\ Loads(s)
    /\ stored[s] = pointer.manifest

\* A mutant: the lock is taken, the pointer not compared.
LockOnly(p) ==
    /\ call[p].pc = "lock"
    /\ lock = Nobody
    /\ Step(p, "replace")
    /\ lock' = p
    /\ UNCHANGED <<components, stored, pointer>>

\* Under the lock publish compares nothing, publish_if_current the pointer; a
\* refused call releases the lock.
LockAndCompare(p) ==
    /\ call[p].pc = "lock"
    /\ lock = Nobody
    /\ IF call[p].op = "research" \/ CurrentIs(call[p].pred)
       THEN Step(p, "replace") /\ lock' = p
       ELSE Return(p) /\ UNCHANGED lock
    /\ UNCHANGED <<components, stored, pointer>>

\* _replace_current_pointer and the release of the lock.
ReplacePointer(p) ==
    /\ call[p].pc = "replace"
    /\ pointer' = [snapshot |-> call[p].succ, manifest |-> stored[call[p].succ]]
    /\ lock' = Nobody
    /\ Return(p)
    /\ UNCHANGED <<components, stored>>

\* A mutant: the lock outlives the process.
CrashHoldingLock(p) ==
    /\ call[p].pc # "idle"
    /\ Return(p)
    /\ UNCHANGED <<components, stored, pointer, lock>>

\* A process dies and the system drops its lock.
Crash(p) ==
    /\ call[p].pc # "idle"
    /\ Return(p)
    /\ lock' = IF lock = p THEN Nobody ELSE lock
    /\ UNCHANGED <<components, stored, pointer>>

-----------------------------------------------------------------------------
(* What callers pass.                                                      *)

\* The universe of an increment may add instruments; the rules of the master
\* vary, the bars of a session are what they are.
Increments(from) ==
    {[ids |-> ids, from |-> from, to |-> to,
      master |-> [i \in ids |-> [fact |-> to, rule |-> rule]],
      bars |-> [x \in ids \X (from..to) |-> [fact |-> x[2], rule |-> 0]]] :
        ids \in (SUBSET Instruments) \ {{}}, to \in from..LastDay, rule \in MasterRules}

\* A correction of one cell; its impact reaches from there to a later session.
Correction(scope, impact) ==
    [component |-> Materialized("rules", scope, [x \in CellsOf(scope) |-> 1]),
     impact |-> impact]

Corrections(s) ==
    {Correction(Scope("bars", {i}, d, d), Scope("bars", s.ids, d, to)) :
        i \in s.ids, d \in 1..s.end, to \in 1..s.end}
    \cup {Correction(Scope("instruments", {i}, 0, 0), Scope("instruments", s.ids, 0, 0)) :
        i \in s.ids}

LegalCorrections(s) ==
    {c \in Corrections(s) : c.impact.table \in CorrectedTables
                            /\ c.impact.from <= c.impact.to}

Init ==
    /\ components = {}
    /\ stored = [s \in {LegacySnapshot} |-> 1]
    /\ pointer = [snapshot |-> LegacySnapshot, manifest |-> 1]
    /\ lock = Nobody
    /\ call = [p \in Procs |-> Idle]

Next ==
    \/ \E p \in Procs, s \in DOMAIN stored : BeginBootstrap(p, s)
    \/ \E p \in Procs, s \in DOMAIN stored :
          \E c \in Increments(s.end + 1) : BeginExtend(p, s, c)
    \/ \E p \in Procs, s \in DOMAIN stored :
          \E c \in LegalCorrections(s) : BeginCorrection(p, s, c.component, c.impact)
    \/ \E p \in Procs, s \in DOMAIN stored : BeginShadow(p, s)
    \/ \E p \in Procs : BeginResearch(p)
    \/ \E p \in Procs : RecordComponents(p)
    \/ \E p \in Procs : RenameSnapshot(p)
    \/ \E p \in Procs : LoadSnapshot(p)
    \/ \E p \in Procs : LockAndCompare(p)
    \/ \E p \in Procs : ReplacePointer(p)
    \/ \E p \in Procs : Crash(p)

Spec == Init /\ [][Next]_vars

-----------------------------------------------------------------------------
(* Properties.                                                             *)

Phases == {"idle", "build", "rename", "load", "lock", "replace"}

\* Everything on disk and in memory has its shape; a file lock has a holder
\* exactly while that call replaces the pointer.
TypeOK ==
    /\ DOMAIN stored # {}
    /\ pointer.snapshot \in DOMAIN stored
    /\ \A s \in DOMAIN stored : IsSimulation(s) \/ s = ResearchSnapshot
    /\ \A p \in Procs : call[p].pc \in Phases
    /\ \A p \in Procs : lock = p <=> call[p].pc = "replace"

\* current_snapshot_id never raises: the snapshot that current.json names is
\* in place with all its components, in the bytes whose checksum was taken,
\* whatever process died or rewrote the same content meanwhile.
CurrentIsIntact == CurrentIs(pointer.snapshot)

\* What is published can be queried: every view replays exactly what the
\* snapshot selects below it and the views cover every bar, after any chain
\* of increments and corrections.
CurrentIsReadable == Readable(pointer.snapshot)

\* publish_if_current is a compare-and-swap: a simulation snapshot replaces
\* the very snapshot its call was made for, and nothing else moves the pointer
\* but an unconditional research publication.
SwapsOnly ==
    pointer' # pointer => \E p \in Procs :
        /\ call[p].pc = "replace"
        /\ pointer'.snapshot = call[p].succ
        /\ call[p].op = "research" \/ call[p].pred = pointer.snapshot

PublishedBySwap == [][SwapsOnly]_vars

\* Two publishers never lose each other's work: a simulation snapshot that
\* replaces another selects all the other selects, in place, or shows the
\* same rows.
Continues(s, t) ==
    /\ s.refs # <<>>
    /\ \A n \in DOMAIN s.refs : n \in DOMAIN t.refs /\ t.refs[n] = s.refs[n]

KeepsWork ==
    LET s == pointer.snapshot
        t == pointer'.snapshot
    IN  s # t /\ IsSimulation(s) /\ IsSimulation(t) =>
            Continues(s, t) \/ Equivalent(s, t)

NoUpdateLost == [][KeepsWork]_pointer

\* An increment says what it was given and no more: the bars of its sessions,
\* its instruments' facts and rules (unless a correction of an instrument
\* stands above them), and every bar before it as the predecessor has it.
ExtensionIsExact(pred, succ) ==
    LET bars == Rows(succ, "bars")
        instruments == Rows(succ, "instruments")
        history == DOMAIN Rows(pred, "bars")
    IN  /\ history \subseteq DOMAIN bars
        /\ \A x \in history : bars[x] = Rows(pred, "bars")[x]
        /\ DOMAIN bars \ history = succ.ids \X (pred.end + 1..succ.end)
        /\ \A x \in DOMAIN bars \ history : bars[x] = [fact |-> x[2], rule |-> {0}]
        /\ \A i \in succ.ids :
              /\ instruments[<<i, 0>>].fact = succ.end
              /\ "instruments" \notin CorrectedTables =>
                    instruments[<<i, 0>>].rule \subseteq MasterRules

\* A correction changes the cell it was reviewed for, to the value it was
\* reviewed with, and no other cell of the snapshot.
CorrectionIsExact(pred, succ) ==
    LET correction == succ.refs[Len(pred.refs) + 1].component
        corrected(t, x) == t = correction.scope.table /\ x \in DOMAIN correction.data
    IN  \A t \in Tables :
            /\ DOMAIN Rows(succ, t) = DOMAIN Rows(pred, t)
            /\ \A x \in DOMAIN Rows(pred, t) :
                  Rows(succ, t)[x] = IF corrected(t, x)
                                     THEN [Rows(pred, t)[x] EXCEPT !.rule = {correction.data[x]}]
                                     ELSE Rows(pred, t)[x]

SuccessorsAreExact ==
    \A p \in Procs : call[p].pc = "load" =>
        /\ call[p].op = "extend" => ExtensionIsExact(call[p].pred, call[p].succ)
        /\ call[p].op = "correct" => CorrectionIsExact(call[p].pred, call[p].succ)
=============================================================================
