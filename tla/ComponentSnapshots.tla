------------------------- MODULE ComponentSnapshots -------------------------
(***************************************************************************)
(* What a componentized snapshot means: the components of                  *)
(* fundlab/marketdata/components.py, the references a snapshot selects, and *)
(* the rows fundlab/marketdata/incremental.py composes from them.           *)
(*                                                                         *)
(* A component is its content (its id is a digest of it), so two equal     *)
(* components are one.  Two tables are kept: "bars", whose rows have a      *)
(* date, and "instruments", whose rows have none (day 0).  Three kinds are *)
(* kept: the facts and the rules of a row, one column each, and the view   *)
(* that replays the price limits of a range of bars from them.  Field      *)
(* adjudications overlay exactly as rules do and are left out.             *)
(***************************************************************************)
EXTENDS Integers, Sequences, FiniteSets

CONSTANTS
    Instruments,    \* instrument ids
    LastDay         \* the last session of the modelled calendar

ASSUME LastDayAssumption == LastDay \in Nat \ {0}

Days == 1..LastDay
Cells == Instruments \X (0..LastDay)
Kinds == {"facts", "rules", "view"}
Tables == {"bars", "instruments"}

\* from = to = 0 is a scope without dates; ids = {} the whole table.
Scope(table, ids, from, to) ==
    [table |-> table, ids |-> ids, from |-> from, to |-> to]

Overlaps(s, t) ==
    /\ s.table = t.table
    /\ s.ids = {} \/ t.ids = {} \/ s.ids \cap t.ids # {}
    /\ s.from = 0 \/ t.from = 0 \/ (s.from <= t.to /\ t.from <= s.to)

Contains(s, t) ==
    /\ s.table = t.table
    /\ s.ids # {} => t.ids # {} /\ t.ids \subseteq s.ids
    /\ s.from # 0 => t.from # 0 /\ s.from <= t.from /\ t.to <= s.to

\* The cells of a scope; a row of "instruments" has day 0.
CellsOf(s) ==
    (IF s.ids = {} THEN Instruments ELSE s.ids) \X
    (IF s.table = "instruments" THEN {0}
     ELSE IF s.from = 0 THEN Days ELSE s.from..s.to)

-----------------------------------------------------------------------------
(* Components.  data maps the cells a materialized component holds to their *)
(* values, deps is what a view replays.                                    *)

Materialized(kind, scope, data) ==
    [kind |-> kind, scope |-> scope, data |-> data, deps |-> {}]

View(scope, deps) ==
    [kind |-> "view", scope |-> scope, data |-> [x \in {} |-> 0], deps |-> deps]

Ref(component, priority, ordinal) ==
    [component |-> component, priority |-> priority, ordinal |-> ordinal]

Before(r, s) ==
    \/ r.priority < s.priority
    \/ r.priority = s.priority /\ r.ordinal < s.ordinal

RangeOf(refs) == {refs[n] : n \in DOMAIN refs}
ComponentsOf(refs) == {r.component : r \in RangeOf(refs)}
MaxOf(S) == CHOOSE x \in S : \A y \in S : y <= x

\* One more than the greatest ordinal of a snapshot's references.
NextOrdinal(refs) == MaxOf({r.ordinal + 1 : r \in RangeOf(refs)} \cup {0})

-----------------------------------------------------------------------------
(* The rows of a snapshot.                                                 *)

Chosen(refs, table, kind) ==
    {r \in RangeOf(refs) : r.component.kind = kind /\ r.component.scope.table = table}

Holding(refs, table, kind, x) ==
    {r \in Chosen(refs, table, kind) : x \in DOMAIN r.component.data}

Topmost(S) == CHOOSE r \in S : \A s \in S : s = r \/ Before(s, r)

\* The components of one kind, applied in the order of their references: a
\* cell has the value of the last reference that holds it.
OverlayKind(refs, table, kind) ==
    [x \in UNION {DOMAIN r.component.data : r \in Chosen(refs, table, kind)} |->
        Topmost(Holding(refs, table, kind, x)).component.data[x]]

\* The rule values join the facts on their keys; a fact without rules has none.
Compose(refs, table) ==
    LET facts == OverlayKind(refs, table, "facts")
        rules == OverlayKind(refs, table, "rules")
    IN  [x \in DOMAIN facts |->
            [fact |-> facts[x],
             rule |-> IF x \in DOMAIN rules THEN {rules[x]} ELSE {}]]

\* What a view must replay: every selected component below it in its range.
Closure(refs, view) ==
    {r.component : r \in {s \in RangeOf(refs) :
        /\ s.component.kind # "view"
        /\ s.component.scope.table = "bars"
        /\ Overlaps(s.component.scope, view.component.scope)
        /\ Before(s, view)}}

\* A query of the bars raises unless every view replays exactly its closure
\* and the views cover every row.
BarsReadable(refs) ==
    LET views == {r \in RangeOf(refs) : r.component.kind = "view"}
        rows == DOMAIN OverlayKind(refs, "bars", "facts")
    IN  \/ rows = {}
        \/ /\ \A v \in views : v.component.deps = Closure(refs, v)
           /\ rows \subseteq UNION {CellsOf(v.component.scope) : v \in views}

\* load_snapshot: no component twice, and no dependency left out.
ReferencesVerified(refs) ==
    /\ \A m, n \in DOMAIN refs :
          refs[m].component = refs[n].component => m = n
    /\ \A c \in ComponentsOf(refs) : c.deps \subseteq ComponentsOf(refs)

-----------------------------------------------------------------------------
(* Snapshots from before components: slices of observations.               *)

\* The value of a row is that of the slice with the greatest priority; the
\* slices of one priority must not hold the same row.
LegacyReadable(slices, table) ==
    \A x \in Cells : \A m, n \in DOMAIN slices :
        (/\ slices[m].scope.table = table
         /\ slices[n].scope.table = table
         /\ x \in DOMAIN slices[m].data \cap DOMAIN slices[n].data
         /\ slices[m].priority = slices[n].priority
         /\ \A k \in DOMAIN slices :
              slices[k].scope.table = table /\ x \in DOMAIN slices[k].data
                  => slices[k].priority <= slices[m].priority) => m = n

LegacyRows(slices, table) ==
    LET of(x) == {m \in DOMAIN slices : slices[m].scope.table = table
                                        /\ x \in DOMAIN slices[m].data}
    IN  [x \in {y \in Cells : of(y) # {}} |->
            LET m == CHOOSE n \in of(x) :
                        \A k \in of(x) : slices[k].priority <= slices[n].priority
            IN  [fact |-> slices[m].data[x].fact,
                 rule |-> {slices[m].data[x].rule}]]

\* The components of one slice: its fields in groups, and a view for bars.
SliceComponents(slice) ==
    LET group(kind) ==
            Materialized(kind, slice.scope,
                [x \in DOMAIN slice.data |->
                    IF kind = "facts" THEN slice.data[x].fact ELSE slice.data[x].rule])
        both == <<group("facts"), group("rules")>>
    IN  IF slice.scope.table = "bars"
        THEN Append(both, View(slice.scope, {both[1], both[2]}))
        ELSE both

\* bootstrap: slice n takes the ordinals from 10 * (n - 1) on and keeps its
\* priority; the references are in the order of their ordinals.
BootstrapRefs(slices) ==
    LET ordinal(m) == 10 * (m[1] - 1) + m[2] - 1
        made == {m \in (1..Len(slices)) \X (1..3) :
                    m[2] \in DOMAIN SliceComponents(slices[m[1]])}
        nth(k) == CHOOSE m \in made :
                    Cardinality({x \in made : ordinal(x) < ordinal(m)}) = k - 1
        ref(m) == Ref(SliceComponents(slices[m[1]])[m[2]],
                      slices[m[1]].priority, ordinal(m))
    IN  [k \in 1..Cardinality(made) |-> ref(nth(k))]

-----------------------------------------------------------------------------
(* The two ways to derive a snapshot from a predecessor.  Each answers the  *)
(* references it appends.                                                  *)

\* The materialized components of one table of an increment.
TableRefs(table, ids, from, to, facts, rules, ordinal) ==
    LET scope == Scope(table, ids, from, to)
        both == <<Materialized("facts", scope, facts),
                  Materialized("rules", scope, rules)>>
        all == IF table = "bars"
               THEN Append(both, View(scope, {both[1], both[2]}))
               ELSE both
    IN  [k \in 1..Len(all) |-> Ref(all[k], ordinal + 100, ordinal + k - 1)]

\* Only the rule values that differ from the predecessor's are stored, one
\* component for all the instruments of the increment (one rule field: one
\* group).  The facts of a row carry the new observation and always differ.
InstrumentRefs(refs, master, ordinal) ==
    LET rows == Compose(refs, "instruments")
        cells == {<<i, 0>> : i \in DOMAIN master}
        changed == {x \in cells : IF x \in DOMAIN rows
                                  THEN rows[x].rule # {master[x[1]].rule} ELSE TRUE}
        scope(S) == Scope("instruments", {x[1] : x \in S}, 0, 0)
        facts == Materialized("facts", scope(cells),
                              [x \in cells |-> master[x[1]].fact])
        rules == Materialized("rules", scope(changed),
                              [x \in changed |-> master[x[1]].rule])
    IN  <<Ref(facts, ordinal + 100, ordinal)>> \o
        IF changed = {} THEN <<>> ELSE <<Ref(rules, ordinal + 100, ordinal + 1)>>

\* extend: the calendar of the new sessions takes ten ordinals before the
\* instruments, which take one more than they need, and the bars follow.
\* increment = [ids, from, to, master, bars].
ExtendRefs(refs, increment) ==
    LET first == NextOrdinal(refs) + 10
        instruments == InstrumentRefs(refs, increment.master, first)
        cells == increment.ids \X (increment.from..increment.to)
    IN  instruments \o
        TableRefs("bars", increment.ids, increment.from, increment.to,
                  [x \in cells |-> increment.bars[x].fact],
                  [x \in cells |-> increment.bars[x].rule],
                  first + Len(instruments) + 1)

\* A mutant: the view replays the predecessor's components only.
CorrectionRefsStaleView(refs, component, impact) ==
    LET priority == MaxOf({r.priority : r \in RangeOf(refs)} \cup {0}) + 100
        ordinal == NextOrdinal(refs)
        deps == {c \in ComponentsOf(refs) : c.kind # "view" /\ Overlaps(c.scope, impact)}
    IN  <<Ref(component, priority, ordinal)>> \o
        IF impact.table = "bars"
        THEN <<Ref(View(impact, deps), priority, ordinal + 1)>> ELSE <<>>

\* A mutant: corrections take the priority of an increment's first component.
CorrectionRefsBelow(refs, component, impact) ==
    LET ordinal == NextOrdinal(refs)
        deps == {c \in ComponentsOf(refs) \cup {component} :
                    c.kind # "view" /\ Overlaps(c.scope, impact)}
    IN  <<Ref(component, 100, ordinal)>> \o
        IF impact.table = "bars"
        THEN <<Ref(View(impact, deps), ordinal + 200, ordinal + 1)>> ELSE <<>>

\* apply_scoped_update: the corrections go above everything the predecessor
\* selects, and a view over each impact on bars replays what it overlaps.
CorrectionRefs(refs, component, impact) ==
    LET priority == MaxOf({r.priority : r \in RangeOf(refs)} \cup {0}) + 100
        ordinal == NextOrdinal(refs)
        deps == {c \in ComponentsOf(refs) \cup {component} :
                    c.kind # "view" /\ Overlaps(c.scope, impact)}
    IN  <<Ref(component, priority, ordinal)>> \o
        IF impact.table = "bars"
        THEN <<Ref(View(impact, deps), priority, ordinal + 1)>> ELSE <<>>

\* What a correction is refused for before anything is built.
CorrectionRefused(refs, component, impact) ==
    \/ impact.ids = {}
    \/ impact.table = "bars" /\ impact.from = 0
    \/ ~Contains(impact, component.scope)
    \/ component \in ComponentsOf(refs)
=============================================================================
