------------------------ MODULE EvidenceCollection ------------------------
(***************************************************************************)
(* SimulationEvidenceCollector, SimulationStatusCollector and               *)
(* _collect_action_batch (fundlab/marketdata/simulation_data.py): collectors*)
(* that bring in the corporate actions, the factors or the daily status of  *)
(* all instruments, batch by batch, with a checkpoint to resume from.       *)
(*                                                                         *)
(* A collector runs by itself or beside one with the other refresh flag:    *)
(* the lock is named after the whole specification, the build and its       *)
(* checkpoint are not.  An observation gives each instrument it was asked   *)
(* about an answer; evidence says which observation each instrument of a    *)
(* batch has its answer from, and observations are known by their times.    *)
(* The requests of one recovery round make one step.  Requests, digests and *)
(* observations of earlier parsers are left out.                            *)
(***************************************************************************)
EXTENDS Integers, FiniteSets

CONSTANTS
    Collectors,
    Batches,        \* sequence of disjoint sets of instruments
    MaxObserved,    \* bound: observations
    MaxRounds       \* recovery rounds of one batch of actions

\* _chunks: the batches cut the instruments up.
ASSUME BatchesAssumption ==
    /\ DOMAIN Batches \subseteq Nat
    /\ \A n \in DOMAIN Batches : Batches[n] # {}
    /\ \A m, n \in DOMAIN Batches : m # n => Batches[m] \cap Batches[n] = {}

VARIABLES
    kind,           \* what is collected
    observed,       \* set of [time, answers], immutable
    canonical,      \* evidence recorded of batches of actions
    checkpoint,     \* number of a batch -> {} or {evidence}
    call            \* collector -> what it is at

vars == <<kind, observed, canonical, checkpoint, call>>

Kinds == {"actions", "factors", "status"}
Answers == {"whole", "incomplete", "invalid"}
NoCall == [stage |-> "idle"]

Latest(S) == CHOOSE x \in S : \A y \in S : y <= x
Nothing == [n \in DOMAIN Batches |-> {}]

-----------------------------------------------------------------------------
(* Observations and evidence.                                              *)

\* The instruments an observation has everything of.
WholeOf(observation) ==
    {i \in DOMAIN observation.answers : observation.answers[i] = "whole"}

\* The times of the observations that have everything of an instrument.
TimesOf(observations, i) == {o.time : o \in {p \in observations : i \in WholeOf(p)}}

\* One observation of a whole batch as evidence.
Single(observation) ==
    [i \in DOMAIN observation.answers |-> observation.time]

Age(evidence) == Latest({evidence[i] : i \in DOMAIN evidence})

\* The observation claims to be complete.
Claims(observation) ==
    \A i \in DOMAIN observation.answers : observation.answers[i] # "incomplete"

Valid(observation) == WholeOf(observation) = DOMAIN observation.answers

-----------------------------------------------------------------------------
(* A call.                                                                 *)

Running(c) == call[c].stage # "idle"
CurrentBatch(c) == Batches[call[c].at]
Step(c, record) == call' = [call EXCEPT ![c] = record]

\* On to the next batch; evidence is {} when this one is blocked.
Advance(c, evidence) ==
    LET next == [call[c] EXCEPT !.stage = "batch", !.at = @ + 1, !.selected = <<>>,
                                !.round = 0, !.kept = [@ EXCEPT ![call[c].at] = evidence]]
    IN  Step(c, next)

\* What was collected before is read once, at the start.
Begin(c, refresh) ==
    /\ ~Running(c)
    /\ \A d \in Collectors : Running(d) => call[d].refresh # refresh
    /\ Step(c, [stage |-> "batch", refresh |-> refresh, began |-> Cardinality(observed),
                at |-> 1, round |-> 0, completed |-> checkpoint, raw |-> observed,
                recorded |-> canonical, selected |-> <<>>, evidence |-> <<>>,
                kept |-> Nothing])
    /\ UNCHANGED <<kind, observed, canonical, checkpoint>>

AtBatch(c) == call[c].stage = "batch" /\ call[c].at \in DOMAIN Batches

Restorable(c) == ~call[c].refresh /\ call[c].completed[call[c].at] # {}

Keep(c, evidence) == Step(c, [call[c] EXCEPT !.stage = "keep", !.evidence = evidence])

\* The checkpoint has the batch; a status collector does not write it again.
Restore(c) ==
    /\ AtBatch(c) /\ Restorable(c)
    /\ LET restored == call[c].completed[call[c].at]
       IN  IF kind = "status" THEN Advance(c, restored)
           ELSE Keep(c, CHOOSE e \in restored : TRUE)
    /\ UNCHANGED <<kind, observed, canonical, checkpoint>>

\* What of earlier collections answers the very batch.
Matches(c) ==
    IF call[c].refresh THEN {}
    ELSE IF kind = "actions" THEN {e \in call[c].recorded : DOMAIN e = CurrentBatch(c)}
    ELSE {Single(o) : o \in {p \in observed :
                         DOMAIN p.answers = CurrentBatch(c) /\ Claims(p)}}

ObservationAt(time) == CHOOSE o \in observed : o.time = time

\* The latest match; that of a status may still be refuted by the research,
\* and then no other one is tried.
Match(c) ==
    /\ AtBatch(c) /\ ~Restorable(c) /\ Matches(c) # {}
    /\ LET evidence == CHOOSE e \in Matches(c) : \A f \in Matches(c) : Age(f) <= Age(e)
       IN  IF kind = "actions" \/ Valid(ObservationAt(Age(evidence)))
           THEN Keep(c, evidence) ELSE Advance(c, {})
    /\ UNCHANGED <<kind, observed, canonical, checkpoint>>

\* A mutant: a refresh absorbs what is there, like any other call.
AbsorbedAlways(c) ==
    [i \in {j \in CurrentBatch(c) : TimesOf(call[c].raw, j) # {}} |->
        Latest(TimesOf(call[c].raw, i))]

\* The latest whole answer to each instrument, unless all is to be new.
Absorbed(c) ==
    [i \in {j \in CurrentBatch(c) : ~call[c].refresh /\ TimesOf(call[c].raw, j) # {}} |->
        Latest(TimesOf(call[c].raw, i))]

\* No match: actions are gathered, the others asked for.
StartAsking(c) ==
    /\ AtBatch(c) /\ ~Restorable(c) /\ Matches(c) = {}
    /\ Step(c, [call[c] EXCEPT !.stage = "ask",
                               !.selected = IF kind = "actions" THEN Absorbed(c) ELSE <<>>])
    /\ UNCHANGED <<kind, observed, canonical, checkpoint>>

\* A mutant: a round asks for the whole batch again.
WholeBatch(c) == CurrentBatch(c)

Unresolved(c) == CurrentBatch(c) \ DOMAIN call[c].selected

\* Nothing is left to ask, or no round is.
Gathered(c) == Unresolved(c) = {} \/ call[c].round = MaxRounds

\* A round of requests.  Some raise; the others are recorded, whatever they
\* answer.
AskActions(c) ==
    /\ kind = "actions" /\ call[c].stage = "ask" /\ ~Gathered(c)
    /\ Cardinality(observed) < MaxObserved
    /\ \E answered \in SUBSET Unresolved(c) : \E answers \in [answered -> Answers] :
           LET observation == [time |-> Cardinality(observed) + 1, answers |-> answers]
               whole == WholeOf(observation)
               selected == call[c].selected
               recorded == IF answered = {} THEN {} ELSE {observation}
           IN  /\ observed' = observed \cup recorded
               /\ Step(c, [call[c] EXCEPT
                      !.round = @ + 1, !.raw = @ \cup recorded,
                      !.selected = [i \in DOMAIN selected \cup whole |->
                          IF i \in whole THEN observation.time ELSE selected[i]]])
    /\ UNCHANGED <<kind, canonical, checkpoint>>

\* Every instrument has its answer, which makes the evidence of the batch;
\* without one of them the batch is blocked.
GatherActions(c) ==
    /\ kind = "actions" /\ call[c].stage = "ask" /\ Gathered(c)
    /\ LET selected == call[c].selected
       IN  IF Unresolved(c) # {} THEN Advance(c, {}) /\ UNCHANGED canonical
           ELSE /\ canonical' = canonical \cup {selected}
                /\ Step(c, [call[c] EXCEPT !.stage = "keep", !.evidence = selected,
                                           !.recorded = @ \cup {selected}])
    /\ UNCHANGED <<kind, observed, checkpoint>>

\* One request for the batch; what it answers is recorded before it is
\* judged, and it may raise.
AskWhole(c) ==
    /\ kind # "actions" /\ call[c].stage = "ask"
    /\ Cardinality(observed) < MaxObserved
    /\ \E answers \in [CurrentBatch(c) -> IF kind = "status" THEN Answers
                                          ELSE Answers \ {"invalid"}] :
           LET observation == [time |-> Cardinality(observed) + 1, answers |-> answers]
           IN  /\ observed' = observed \cup {observation}
               /\ IF Valid(observation) THEN Keep(c, Single(observation)) ELSE Advance(c, {})
    /\ UNCHANGED <<kind, canonical, checkpoint>>

AskFails(c) ==
    /\ kind # "actions" /\ call[c].stage = "ask"
    /\ Advance(c, {})
    /\ UNCHANGED <<kind, observed, canonical, checkpoint>>

\* The checkpoint becomes what this call knows of it.
WriteCheckpoint(c) ==
    /\ call[c].stage = "keep"
    /\ LET completed == [call[c].completed EXCEPT ![call[c].at] = {call[c].evidence}]
           next == [call[c] EXCEPT !.stage = "batch", !.at = @ + 1, !.completed = completed,
                        !.selected = <<>>, !.round = 0, !.evidence = <<>>,
                        !.kept = [@ EXCEPT ![call[c].at] = {call[c].evidence}]]
       IN  checkpoint' = completed /\ Step(c, next)
    /\ UNCHANGED <<kind, observed, canonical>>

\* The report is written and the lock given back.
Report(c) ==
    /\ call[c].stage = "batch" /\ call[c].at \notin DOMAIN Batches
    /\ Step(c, NoCall)
    /\ UNCHANGED <<kind, observed, canonical, checkpoint>>

\* The process is gone, and its lock with it.
Crash(c) ==
    /\ Running(c)
    /\ Step(c, NoCall)
    /\ UNCHANGED <<kind, observed, canonical, checkpoint>>

Init ==
    /\ kind \in Kinds
    /\ observed = {}
    /\ canonical = {}
    /\ checkpoint = Nothing
    /\ call = [c \in Collectors |-> NoCall]

Next ==
    \E c \in Collectors :
        \/ \E refresh \in BOOLEAN : Begin(c, refresh)
        \/ Restore(c)
        \/ Match(c)
        \/ StartAsking(c)
        \/ AskActions(c)
        \/ GatherActions(c)
        \/ AskWhole(c)
        \/ AskFails(c)
        \/ WriteCheckpoint(c)
        \/ Report(c)
        \/ Crash(c)

Spec == Init /\ [][Next]_vars

-----------------------------------------------------------------------------
(* Properties.                                                             *)

\* Every instrument of the evidence has a whole answer in the observation it
\* is said to come from.
IsAnswered(evidence) ==
    \A i \in DOMAIN evidence : \E o \in observed :
        o.time = evidence[i] /\ i \in DOMAIN o.answers /\ o.answers[i] = "whole"

\* What is recorded, resumed from and reported of a batch rests on whole
\* answers for each of its instruments, whatever failed before and whoever
\* else collects; and what a refresh reports was all asked for since it
\* began (_collect_action_batch, _collect_locked).
EvidenceIsSound ==
    /\ \A e \in canonical : IsAnswered(e)
    /\ \A n \in DOMAIN Batches : \A e \in checkpoint[n] :
          DOMAIN e = Batches[n] /\ IsAnswered(e)
    /\ \A c \in {d \in Collectors : Running(d)}, n \in DOMAIN Batches :
          \A e \in call[c].kept[n] :
              /\ DOMAIN e = Batches[n] /\ IsAnswered(e)
              /\ call[c].refresh => \A i \in Batches[n] : e[i] > call[c].began

\* What a call already has a whole answer to, from before it began unless it
\* is to refresh, and from its own requests.
AnsweredTo(c) ==
    {i \in CurrentBatch(c) : \E o \in call[c].raw :
        /\ i \in DOMAIN o.answers /\ o.answers[i] = "whole"
        /\ call[c].refresh => o.time > call[c].began}

\* Successes accumulate and only failures are asked about again: within a
\* call, and by the call that follows a crash or an incomplete collection.
OnlyFailuresAreAskedAgain ==
    [][\A c \in Collectors :
          kind = "actions" /\ Running(c) /\ call'[c].stage = "ask" /\ call[c].stage = "ask" =>
              \A o \in observed' \ observed :
                  call'[c] # call[c] => DOMAIN o.answers \cap AnsweredTo(c) = {}]_vars
=============================================================================
