----------------------------- MODULE TradingRuns -----------------------------
(***************************************************************************)
(* Simulation runs over persistent accounts: SimulationService.run_daily   *)
(* and run_historical (fundlab/trading/runtime.py), called by concurrent   *)
(* processes, over the SQLite tables of TradingRepository                  *)
(* (fundlab/trading/repository.py).                                        *)
(*                                                                         *)
(* A database transaction (BEGIN IMMEDIATE ... COMMIT) is one action; what *)
(* a call read before it may be stale by the time it runs.  The portfolio  *)
(* is the sequence of sessions applied to the account's initial portfolio: *)
(* the kernel is a function of (state, session, pinned configuration), so  *)
(* two portfolios with the same sequence are equal, and any difference in  *)
(* the order, the number or the configuration of the sessions shows.       *)
(***************************************************************************)
EXTENDS Integers, Sequences, FiniteSets

CONSTANTS
    Accounts,   \* account ids
    Workers,    \* processes that may each have one call in progress
    Configs,    \* everything else a binding pins: snapshot, strategy and its
                \* version and config, execution, risk and fee policies, seed
    LastDay,    \* calendar days are 1..LastDay
    OpenDays,   \* OpenDays[c]: the sessions of the calendar c's snapshot holds
    Statuses,   \* the statuses set_account_status is called with
    MaxRuns     \* bound on the rows of simulation_runs

Days == 1..LastDay

ASSUME LastDayAssumption == LastDay \in Nat
ASSUME OpenDaysAssumption == OpenDays \in [Configs -> SUBSET Days]
ASSUME StatusesAssumption == Statuses \subseteq {"active", "paused", "closed"}
ASSUME MaxRunsAssumption == MaxRuns \in Nat

VARIABLES
    status,     \* trading_accounts.status, "absent" before create_account
    selected,   \* trading_accounts.selected_run_id, 0 for NULL
    runs,       \* simulation_runs with their session rows; run ids are 1, 2, ...
    call        \* what each worker's call holds in memory

vars == <<status, selected, runs, call>>

-----------------------------------------------------------------------------
(* The data.                                                               *)

Applied == [day : Days, config : Configs]
History == Seq(Applied)

AccountStatus == {"absent", "active", "paused", "closed"}

\* A call of run_daily (start = end = the target date) or run_historical.
\* parent = 0 is parent_run_id=None.
RequestAfter(parents) ==
    [account : Accounts, mode : {"daily", "historical"}, config : Configs,
     start : Days, end : Days, parent : parents, promote : BOOLEAN]

Request == RequestAfter(Nat)

\* promote is not part of what a run is bound to.
Binding == [account : Accounts, mode : {"daily", "historical"}, config : Configs,
            start : Days, end : Days, parent : Nat, init : History]

\* sessions: the days that have committed ledger events and a checkpoint;
\* final: final_state_json, <<>> while it is NULL.
Run == [binding : Binding, attempt : Nat \ {0},
        status : {"running", "complete", "failed"},
        sessions : Seq(Days), final : History]

\* The locals of a call at each point where another process can come between.
Call ==
    [pc : {"idle"}]
    \cup [pc : {"select"}, request : Request]
    \cup [pc : {"check", "insert"}, request : Request, binding : Binding]
    \cup [pc : {"execute"}, request : Request, run : Nat, todo : SUBSET Days,
          state : History]
    \cup [pc : {"fail"}, request : Request, run : Nat]
    \cup [pc : {"complete", "reused"}, request : Request, run : Nat]

Idle == [pc |-> "idle"]

Returned == {"idle", "complete", "reused"}
Busy == {w \in Workers : call[w].pc \notin Returned}

RunIds == DOMAIN runs

\* The open sessions of config c's calendar between two dates.
Sessions(c, start, end) == {d \in OpenDays[c] : start <= d /\ d <= end}

IsFirst(d, S) == d \in S /\ \A x \in S : d <= x
IsLast(d, S) == d \in S /\ \A x \in S : x <= d

\* The portfolio a run that follows p starts from.
StateAfter(p) == IF p = 0 THEN <<>> ELSE runs[p].final

SameBinding(b) == {r \in RunIds : runs[r].binding = b}

\* A call moves on, or returns: what it holds is now c.
Step(w, c) == call' = [call EXCEPT ![w] = c]

\* begin_run's INSERT of attempt n, and the loop _run enters with it.
InsertRun(w, b, n) ==
    /\ runs' = Append(runs, [binding |-> b, attempt |-> n, status |-> "running",
                             sessions |-> <<>>, final |-> <<>>])
    /\ Step(w, [pc |-> "execute", request |-> call[w].request,
                run |-> Len(runs) + 1,
                todo |-> Sessions(b.config, b.start, b.end), state |-> b.init])

-----------------------------------------------------------------------------
(* Mutated forms: what plausible mistakes would make of the definitions    *)
(* below.  No specification uses them.                                     *)

\* Daily idempotence that forgets the pinned configuration.
MatchesAnyConfig(r, q) ==
    /\ r.status = "complete"
    /\ r.binding.mode = "daily"
    /\ r.binding.account = q.account
    /\ r.binding.end = q.end

\* The parent's account is not compared.
ForeignParent(q) ==
    LET p == IF q.mode = "daily" /\ q.parent = 0 THEN selected[q.account]
                                                ELSE q.parent
        S == Sessions(q.config, q.start, q.end)
    IN  \/ status[q.account] = "absent"
        \/ p # 0 /\ runs[p].status # "complete"
        \/ S = {}
        \/ p # 0 /\ \E d \in S : d <= runs[p].binding.end

\* begin_run waits for the account instead of raising.
WaitForAccount(w) ==
    /\ call[w].pc = "check"
    /\ status[call[w].binding.account] = "absent"
    /\ Step(w, Idle)
    /\ UNCHANGED <<status, selected, runs>>

\* Attempts counted from 0.
BeginRunFromZero(w) ==
    /\ call[w].pc = "insert"
    /\ InsertRun(w, call[w].binding, Cardinality(SameBinding(call[w].binding)))
    /\ UNCHANGED <<status, selected>>

\* Every calendar day between the two ends is executed.
BeginRunOnClosedDays(w) ==
    /\ call[w].pc = "insert"
    /\ LET b == call[w].binding IN
       /\ runs' = Append(runs, [binding |-> b, attempt |-> 1, status |-> "running",
                                sessions |-> <<>>, final |-> <<>>])
       /\ Step(w, [pc |-> "execute", request |-> call[w].request,
                   run |-> Len(runs) + 1, todo |-> b.start..b.end,
                   state |-> b.init])
    /\ UNCHANGED <<status, selected>>

\* An unfinished attempt is taken over, from its first session.
BeginRunTakesOver(w) ==
    /\ call[w].pc = "insert"
    /\ LET b == call[w].binding
           open == {r \in SameBinding(b) : runs[r].status # "complete"}
       IN  IF open = {} THEN InsertRun(w, b, 1)
           ELSE \E r \in open :
                  /\ runs' = [runs EXCEPT ![r].status = "running",
                                          ![r].sessions = <<>>]
                  /\ Step(w, [pc |-> "execute", request |-> call[w].request,
                              run |-> r, state |-> b.init,
                              todo |-> Sessions(b.config, b.start, b.end)])
    /\ UNCHANGED <<status, selected>>

\* The loop runs over a set of sessions that was never sorted.
AppendAnySession(w) ==
    /\ call[w].pc = "execute"
    /\ LET r == call[w].run IN
       \E d \in call[w].todo :
          /\ runs' = [runs EXCEPT ![r].sessions = Append(@, d)]
          /\ Step(w, [call[w] EXCEPT
                        !.todo = @ \ {d},
                        !.state = Append(@, [day |-> d,
                                             config |-> runs[r].binding.config])])
    /\ UNCHANGED <<status, selected>>

\* The run is finished, and the heads become what the mistake makes of them.
FinishWith(w, heads) ==
    /\ call[w].pc = "execute"
    /\ call[w].todo = {}
    /\ runs' = [runs EXCEPT ![call[w].run].status = "complete",
                            ![call[w].run].final = call[w].state]
    /\ selected' = IF call[w].request.promote THEN heads ELSE selected
    /\ Step(w, [pc |-> "complete", request |-> call[w].request, run |-> call[w].run])
    /\ UNCHANGED status

\* No comparison of the head with the parent.
CompleteAnyway(w) ==
    FinishWith(w, [selected EXCEPT ![call[w].request.account] = call[w].run])

\* UPDATE trading_accounts without its WHERE clause.
CompleteEverywhere(w) ==
    FinishWith(w, [a \in Accounts |-> call[w].run])

\* The head is moved in a transaction of its own, before the run completes.
PromoteFirst(w) ==
    /\ call[w].pc = "execute"
    /\ call[w].todo = {}
    /\ selected' = [selected EXCEPT ![call[w].request.account] = call[w].run]
    /\ Step(w, [call[w] EXCEPT !.request.promote = FALSE])
    /\ UNCHANGED <<status, runs>>

-----------------------------------------------------------------------------
(* Accounts.                                                               *)

CreateAccount(a) ==
    /\ status[a] = "absent"
    /\ status' = [status EXCEPT ![a] = "active"]
    /\ UNCHANGED <<selected, runs, call>>

SetAccountStatus(a, s) ==
    /\ status[a] # "absent"
    /\ status[a] = "closed" => s = "closed"
    /\ status' = [status EXCEPT ![a] = s]
    /\ UNCHANGED <<selected, runs, call>>

-----------------------------------------------------------------------------
(* One call, step by step.                                                 *)

\* _matches_daily_request: the head is what this request would have produced.
MatchesDailyRequest(r, q) ==
    /\ r.status = "complete"
    /\ r.binding.mode = "daily"
    /\ r.binding.account = q.account
    /\ r.binding.start = q.end
    /\ r.binding.end = q.end
    /\ r.binding.config = q.config

FollowsHead(q) == q.mode = "daily" /\ q.parent = 0

ParentOf(q) == IF FollowsHead(q) THEN selected[q.account] ELSE q.parent

\* The bound: a call is only accepted while there is a row left for it.
StartCall(w, q) ==
    /\ w \notin Busy
    /\ Len(runs) + Cardinality(Busy) < MaxRuns
    /\ IF q.mode = "daily" THEN q.start = q.end ELSE q.start <= q.end
    /\ Step(w, [pc |-> "select", request |-> q])
    /\ UNCHANGED <<status, selected, runs>>

\* Every ValueError or KeyError before begin_run.  A target on or before the
\* head's last session is one of them whatever the head's binding is.
Unacceptable(q) ==
    LET p == ParentOf(q)
        S == Sessions(q.config, q.start, q.end)
    IN  \/ status[q.account] = "absent"
        \/ p # 0 /\ runs[p].status # "complete"
        \/ p # 0 /\ runs[p].binding.account # q.account
        \/ S = {}
        \/ p # 0 /\ \E d \in S : d <= runs[p].binding.end

RepeatsHead(q) ==
    /\ FollowsHead(q)
    /\ selected[q.account] # 0
    /\ MatchesDailyRequest(runs[selected[q.account]], q)

\* run_daily finds that the head already is the requested run.
ReuseHead(w) ==
    /\ call[w].pc = "select"
    /\ LET q == call[w].request IN
       /\ RepeatsHead(q)
       /\ Step(w, [pc |-> "reused", request |-> q, run |-> selected[q.account]])
    /\ UNCHANGED <<status, selected, runs>>

RejectRequest(w) ==
    /\ call[w].pc = "select"
    /\ ~RepeatsHead(call[w].request)
    /\ Unacceptable(call[w].request)
    /\ Step(w, Idle)
    /\ UNCHANGED <<status, selected, runs>>

\* The parent and its final state are read, the sessions resolved and the
\* binding fixed.  The head is one read; every other row read is terminal.
BindRun(w) ==
    /\ call[w].pc = "select"
    /\ LET q == call[w].request
           S == Sessions(q.config, q.start, q.end)
           p == ParentOf(q)
       IN  /\ ~RepeatsHead(q)
           /\ ~Unacceptable(q)
           /\ \E first, last \in S :
                /\ IsFirst(first, S)
                /\ IsLast(last, S)
                /\ Step(w, [pc |-> "check", request |-> q,
                            binding |-> [account |-> q.account, mode |-> q.mode,
                                         config |-> q.config, start |-> first,
                                         end |-> last, parent |-> p,
                                         init |-> StateAfter(p)]])
    /\ UNCHANGED <<status, selected, runs>>

\* begin_run reads the account's status on a connection of its own, before
\* the transaction that inserts the run.
AccountIsActive(w) ==
    /\ call[w].pc = "check"
    /\ status[call[w].binding.account] = "active"
    /\ Step(w, [pc |-> "insert", request |-> call[w].request,
                binding |-> call[w].binding])
    /\ UNCHANGED <<status, selected, runs>>

AccountIsNotActive(w) ==
    /\ call[w].pc = "check"
    /\ status[call[w].binding.account] # "active"
    /\ Step(w, Idle)
    /\ UNCHANGED <<status, selected, runs>>

\* begin_run's transaction, when the binding has a complete run: the first
\* such attempt is returned, and _run returns it without complete_run.
ReuseRun(w) ==
    /\ call[w].pc = "insert"
    /\ \E r \in SameBinding(call[w].binding) :
         /\ runs[r].status = "complete"
         /\ \A s \in SameBinding(call[w].binding) :
              runs[s].status = "complete" => runs[r].attempt <= runs[s].attempt
         /\ Step(w, [pc |-> "reused", request |-> call[w].request, run |-> r])
    /\ UNCHANGED <<status, selected, runs>>

\* begin_run's transaction otherwise: a new row, one attempt after the last.
BeginRun(w) ==
    /\ call[w].pc = "insert"
    /\ LET b == call[w].binding
           same == SameBinding(b)
       IN  /\ \A r \in same : runs[r].status # "complete"
           /\ \E n \in 1..(Len(runs) + 1) :
                /\ \A r \in same : runs[r].attempt < n
                /\ n = 1 \/ \E r \in same : runs[r].attempt = n - 1
                /\ InsertRun(w, b, n)
    /\ UNCHANGED <<status, selected>>

\* One turn of _run's loop: the kernel, the strategy and append_session.
AppendSession(w) ==
    /\ call[w].pc = "execute"
    /\ LET r == call[w].run IN
       /\ runs[r].status = "running"
       /\ \E d \in call[w].todo :
            /\ IsFirst(d, call[w].todo)
            /\ runs' = [runs EXCEPT ![r].sessions = Append(@, d)]
            /\ Step(w, [pc |-> "execute", request |-> call[w].request, run |-> r,
                        todo |-> call[w].todo \ {d},
                        state |-> Append(call[w].state,
                                         [day |-> d,
                                          config |-> runs[r].binding.config])])
    /\ UNCHANGED <<status, selected>>

\* complete_run: status and final state, and the account head with them when
\* the call promotes and the head still is the run's parent.
CompleteRun(w) ==
    /\ call[w].pc = "execute"
    /\ call[w].todo = {}
    /\ LET r == call[w].run
           b == runs[r].binding
           q == call[w].request
       IN  /\ runs[r].status = "running"
           /\ q.promote => selected[b.account] = b.parent
           /\ runs' = [runs EXCEPT ![r].status = "complete",
                                   ![r].final = call[w].state]
           /\ selected' = IF q.promote THEN [selected EXCEPT ![b.account] = r]
                                       ELSE selected
           /\ Step(w, [pc |-> "complete", request |-> q, run |-> r])
    /\ UNCHANGED status

\* complete_run finds that the head moved and its transaction is rolled back.
LosePromotion(w) ==
    /\ call[w].pc = "execute"
    /\ call[w].todo = {}
    /\ call[w].request.promote
    /\ LET b == runs[call[w].run].binding IN selected[b.account] # b.parent
    /\ Step(w, [pc |-> "fail", request |-> call[w].request, run |-> call[w].run])
    /\ UNCHANGED <<status, selected, runs>>

\* Any other exception in the loop: the kernel, the strategy, the database.
RunRaises(w) ==
    /\ call[w].pc = "execute"
    /\ Step(w, [pc |-> "fail", request |-> call[w].request, run |-> call[w].run])
    /\ UNCHANGED <<status, selected, runs>>

FailRun(w) ==
    /\ call[w].pc = "fail"
    /\ runs[call[w].run].status = "running"
    /\ runs' = [runs EXCEPT ![call[w].run].status = "failed"]
    /\ Step(w, Idle)
    /\ UNCHANGED <<status, selected>>

\* fail_run itself raises (the database is locked): the row stays running.
FailRunRaises(w) ==
    /\ call[w].pc = "fail"
    /\ Step(w, Idle)
    /\ UNCHANGED <<status, selected, runs>>

\* The process dies: what the call held in memory is gone.
Crash(w) ==
    /\ w \in Busy
    /\ Step(w, Idle)
    /\ UNCHANGED <<status, selected, runs>>

-----------------------------------------------------------------------------

Init ==
    /\ status = [a \in Accounts |-> "absent"]
    /\ selected = [a \in Accounts |-> 0]
    /\ runs = <<>>
    /\ call = [w \in Workers |-> Idle]

WorkerStep(w) ==
    \/ ReuseHead(w)
    \/ RejectRequest(w)
    \/ BindRun(w)
    \/ AccountIsActive(w)
    \/ AccountIsNotActive(w)
    \/ ReuseRun(w)
    \/ BeginRun(w)
    \/ AppendSession(w)
    \/ CompleteRun(w)
    \/ LosePromotion(w)
    \/ RunRaises(w)
    \/ FailRun(w)
    \/ FailRunRaises(w)

Next ==
    \/ \E a \in Accounts : CreateAccount(a)
    \/ \E a \in Accounts, s \in Statuses : SetAccountStatus(a, s)
    \/ \E w \in Workers, q \in RequestAfter(0..Len(runs)) : StartCall(w, q)
    \/ \E w \in Workers : WorkerStep(w)
    \/ \E w \in Workers : Crash(w)

Spec == Init /\ [][Next]_vars

\* A call is synchronous code in one process: while the process lives, its
\* next statement runs.  Nothing makes an operator call, or a process die.
FairSpec == Spec /\ \A w \in Workers : WF_vars(WorkerStep(w))
-----------------------------------------------------------------------------
(* What is promised.                                                       *)

\* Every variable has its type and run ids refer to existing rows.
TypeOK ==
    /\ status \in [Accounts -> AccountStatus]
    /\ runs \in Seq(Run)
    /\ selected \in [Accounts -> 0..Len(runs)]
    /\ call \in [Workers -> Call]
    /\ \A w \in Workers :
         call[w].pc \in {"execute", "fail", "complete", "reused"}
            => call[w].run \in RunIds
    /\ \A w \in Workers :
         call[w].pc = "select" => call[w].request.parent \in 0..Len(runs)

\* What run b continues: the account's initial portfolio, or exactly what a
\* finished run of the same account left before b's first session.
Lineage(b) ==
    IF b.parent = 0 THEN b.init = <<>>
    ELSE /\ b.parent \in RunIds
         /\ runs[b.parent].status = "complete"
         /\ runs[b.parent].binding.account = b.account
         /\ runs[b.parent].binding.end < b.start
         /\ b.init = runs[b.parent].final

\* A run continues exactly what its parent left, although the parent was read
\* several steps before the run was inserted (state_after, selected_state,
\* begin_run): no run ever starts from an unfinished or a foreign portfolio,
\* or applies a session on or before one it starts from.
LineageIsSound == \A r \in RunIds : Lineage(runs[r].binding)

\* The head of an account is a finished run of that account (what
\* selected_state raises RuntimeError about), never a branch of another one.
HeadIsFinishedRun ==
    \A a \in Accounts :
        selected[a] # 0 => /\ runs[selected[a]].status = "complete"
                           /\ runs[selected[a]].binding.account = a

\* A finished run has committed every session of its binding, once and in
\* order, and its final portfolio is its initial one with exactly those
\* sessions applied: the in-memory portfolio of _run and the rows agree.
FinishedRunsAreWhole ==
    \A r \in RunIds : runs[r].status = "complete" =>
        LET b == runs[r].binding
            rows == runs[r].sessions
            n == Len(b.init)
        IN  /\ {rows[i] : i \in DOMAIN rows} = Sessions(b.config, b.start, b.end)
            /\ \A i, j \in DOMAIN rows : i < j => rows[i] < rows[j]
            /\ Len(runs[r].final) = n + Len(rows)
            /\ \A i \in DOMAIN b.init : runs[r].final[i] = b.init[i]
            /\ \A i \in DOMAIN rows :
                 runs[r].final[n + i] = [day |-> rows[i], config |-> b.config]

\* A running row is written by at most one live call, and a call only ever
\* writes to a row that is still running (what append_session, complete_run
\* and fail_run raise ValueError about): a retry or a concurrent call with
\* the same binding gets an attempt of its own.
OneWriterPerRun ==
    \A v, w \in Workers :
        call[v].pc \in {"execute", "fail"} =>
            /\ runs[call[v].run].status = "running"
            /\ call[w].pc \in {"execute", "fail"} /\ call[v].run = call[w].run
                 => v = w

\* Two finished attempts of one binding, as concurrent calls may leave them,
\* hold the same sessions and the same final portfolio, so which of them a
\* later call reuses does not matter.
SameBindingSameResult ==
    \A r, s \in RunIds :
        /\ runs[r].binding = runs[s].binding
        /\ runs[r].status = "complete"
        /\ runs[s].status = "complete"
        => /\ runs[r].sessions = runs[s].sessions
           /\ runs[r].final = runs[s].final

\* What a call returns is a finished run of what was asked: this account,
\* clock and configuration, over all the sessions asked for and no other,
\* continuing the parent named.
ReturnedRunIsTheOneAsked ==
    \A w \in Workers : call[w].pc \in {"complete", "reused"} =>
        LET q == call[w].request
            r == runs[call[w].run]
        IN  /\ r.status = "complete"
            /\ r.binding.account = q.account
            /\ r.binding.mode = q.mode
            /\ r.binding.config = q.config
            /\ Sessions(q.config, r.binding.start, r.binding.end)
                 = Sessions(q.config, q.start, q.end)
            /\ ~FollowsHead(q) => r.binding.parent = q.parent

\* h is where the history of an account stands, or stood.
OnHistory(a, h) ==
    LET head == StateAfter(selected[a])
    IN  Len(h) <= Len(head) /\ \A i \in DOMAIN h : head[i] = h[i]

\* A promoting call that executed its run and returned left that run on the
\* account's history, whatever other calls promoted before and after it.
PromotedRunStaysOnHistory ==
    \A w \in Workers :
        call[w].pc = "complete" /\ call[w].request.promote =>
            OnHistory(call[w].request.account, runs[call[w].run].final)

\* Row r keeps its identity; a finished row keeps everything, and a running
\* one only gains sessions at its end.
RowKept(r) ==
    /\ r \in RunIds'
    /\ runs'[r].binding = runs[r].binding
    /\ runs'[r].attempt = runs[r].attempt
    /\ runs[r].status # "running" => runs'[r] = runs[r]
    /\ Len(runs[r].sessions) <= Len(runs'[r].sessions)
    /\ \A i \in DOMAIN runs[r].sessions :
         runs'[r].sessions[i] = runs[r].sessions[i]

\* No row is deleted, no finished run is updated, and the committed sessions
\* of a run are never rewritten (the triggers of SCHEMA_SQL): a retry never
\* takes an earlier attempt's row over.
RunsAreAppendOnly == [][\A r \in RunIds : RowKept(r)]_runs

\* The abstract account: the portfolio at the head, for every account.
AH == INSTANCE AccountHistory
        WITH hist <- [a \in Accounts |-> StateAfter(selected[a])]

\* The heads implement the append-only account history.
HistorySpec == AH!Spec

\* Every call returns, if its process keeps running.
CallsReturn == \A w \in Workers : w \in Busy ~> w \notin Busy

-----------------------------------------------------------------------------
(* The inductive invariant behind the theorems: what ties a call's memory  *)
(* to the rows it will write, at every point where it can be interrupted.  *)

BindingIsSound(b) == /\ Lineage(b)
                     /\ b.start \in Sessions(b.config, b.start, b.end)

\* The portfolio h: in order, and over by the end of b.
Until(h, b) == /\ AH!Increasing(h)
               /\ \A i \in DOMAIN h : h[i].day <= b.end

FinishedRunsExtend ==
    \A r \in RunIds : runs[r].status = "complete" =>
        /\ AH!Extends(runs[r].final, runs[r].binding.init)
        /\ Until(runs[r].final, runs[r].binding)

\* In the loop of a run bound to b: the portfolio holds the initial one and
\* the sessions done, and the sessions left are later than all of it.
LoopIsSound(c, b) ==
    /\ c.todo \subseteq Sessions(b.config, b.start, b.end)
    /\ Until(c.state, b)
    /\ \A i \in DOMAIN c.state : \A d \in c.todo : c.state[i].day < d
    /\ \/ c.state = b.init /\ c.todo # {}
       \/ AH!Extends(c.state, b.init)

CallsAreSound ==
    \A w \in Workers :
        /\ call[w].pc \in {"check", "insert"} => BindingIsSound(call[w].binding)
        /\ call[w].pc = "execute" =>
             LoopIsSound(call[w], runs[call[w].run].binding)

\* The invariant the proofs are by induction on: every part of it together.
Inductive ==
    /\ TypeOK
    /\ \A r \in RunIds : BindingIsSound(runs[r].binding)
    /\ HeadIsFinishedRun
    /\ OneWriterPerRun
    /\ FinishedRunsExtend
    /\ CallsAreSound

-----------------------------------------------------------------------------
(* What is said and does not hold.                                         *)

\* begin_run: "Trading account is not active" (repository.py:264): no run is
\* started on an account that is paused or closed.
NoRunOnInactiveAccount ==
    [][\A r \in DOMAIN runs' \ RunIds :
          status[runs'[r].binding.account] = "active"]_runs

\* "A completed daily run can advance one account head" (docs/foundation.md):
\* a call that promotes (run_daily's default) and returns a run has put it on
\* the account's history.
PromotingCallAdvancesHead ==
    \A w \in Workers :
        call[w].pc \in {"complete", "reused"} /\ call[w].request.promote =>
            OnHistory(call[w].request.account, runs[call[w].run].final)
=============================================================================
