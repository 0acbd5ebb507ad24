-------------------------- MODULE TradingRunsProofs --------------------------
(***************************************************************************)
(* Theorems about TradingRuns, for every set of accounts, workers and      *)
(* configurations, every calendar and every number of runs: first its      *)
(* heads and its history, then what the runs come to - a finished run is   *)
(* whole, two of one binding are the same, a call returns the run it was   *)
(* asked for, and a promoted run stays on the history.                     *)
(***************************************************************************)
EXTENDS TradingRuns, WellFoundedInduction, TLAPS

USE LastDayAssumption, OpenDaysAssumption

-----------------------------------------------------------------------------
(* Typing.                                                                 *)

\* The sessions of a snapshot are calendar days.
LEMMA SessionsAreDays ==
    ASSUME NEW c \in Configs, NEW s, NEW e
    PROVE  Sessions(c, s, e) \subseteq Days
BY DEF Sessions

\* What a call holds at each point of its progress.
LEMMA CallFields ==
    ASSUME call \in [Workers -> Call], NEW w \in Workers
    PROVE  /\ call[w].pc = "select" =>
                call[w] \in [pc : {"select"}, request : Request]
           /\ call[w].pc \in {"check", "insert"} =>
                call[w] \in [pc : {"check", "insert"}, request : Request,
                             binding : Binding]
           /\ call[w].pc = "execute" =>
                call[w] \in [pc : {"execute"}, request : Request, run : Nat,
                             todo : SUBSET Days, state : History]
           /\ call[w].pc = "fail" =>
                call[w] \in [pc : {"fail"}, request : Request, run : Nat]
           /\ call[w].pc \in {"complete", "reused"} =>
                call[w] \in [pc : {"complete", "reused"}, request : Request,
                             run : Nat]
<1>1. call[w] \in Call
  OBVIOUS
<1> QED BY <1>1 DEF Call

\* A request, a parent's portfolio and a binding are well typed.
LEMMA StateAfterIsHistory ==
    ASSUME runs \in Seq(Run), NEW p \in 0..Len(runs)
    PROVE  StateAfter(p) \in History
<1>1. CASE p = 0
  BY <1>1 DEF StateAfter, History
<1>2. CASE p # 0
  <2>1. runs[p] \in Run
    BY <1>2
  <2> QED BY <1>2, <2>1 DEF StateAfter, Run
<1> QED BY <1>1, <1>2

\* A row may be rewritten, or one added at the end.
LEMMA RewriteRun ==
    ASSUME runs \in Seq(Run), NEW r \in RunIds, NEW x \in Run
    PROVE  /\ [runs EXCEPT ![r] = x] \in Seq(Run)
           /\ Len([runs EXCEPT ![r] = x]) = Len(runs)
           /\ DOMAIN [runs EXCEPT ![r] = x] = RunIds
BY DEF RunIds

\* A row is added at the end.
LEMMA AddRun ==
    ASSUME runs \in Seq(Run), NEW x \in Run
    PROVE  /\ Append(runs, x) \in Seq(Run)
           /\ Len(Append(runs, x)) = Len(runs) + 1
           /\ RunIds = 1..Len(runs)
           /\ DOMAIN Append(runs, x) = 1..(Len(runs) + 1)
           /\ Append(runs, x)[Len(runs) + 1] = x
           /\ \A r \in RunIds : Append(runs, x)[r] = runs[r]
BY DEF RunIds

\* Every step keeps the types.
LEMMA TypeStep ==
    ASSUME TypeOK, [Next]_vars
    PROVE  TypeOK'
<1> USE DEF TypeOK
<1> DEFINE RunOf(c) ==
             /\ c.pc \in {"execute", "fail", "complete", "reused"}
                  => c.run \in RunIds'
             /\ c.pc = "select" => c.request.parent \in 0..Len(runs')
\* A worker moves to a well-typed record, and no row disappears.
<1>call. ASSUME NEW w \in Workers, NEW c \in Call, Step(w, c), RunOf(c),
                RunIds \subseteq RunIds', Len(runs) <= Len(runs'),
                Len(runs') \in Nat
         PROVE  /\ call' \in [Workers -> Call]
                /\ \A v \in Workers : RunOf(call'[v])
  <2>1. call' \in [Workers -> Call]
    BY <1>call DEF Step
  <2>2. ASSUME NEW v \in Workers PROVE RunOf(call'[v])
    <3>1. CASE v = w
      BY <3>1, <1>call DEF Step
    <3>2. CASE v # w
      BY <3>2, <1>call DEF Step
    <3> QED BY <3>1, <3>2
  <2> QED BY <2>1, <2>2
\* ... and the tables are left alone.
<1>move. ASSUME NEW w \in Workers, NEW c \in Call, Step(w, c),
                c.pc \in {"execute", "fail", "complete", "reused"}
                  => c.run \in RunIds,
                c.pc = "select" => c.request.parent \in 0..Len(runs),
                UNCHANGED <<status, selected, runs>>
         PROVE  TypeOK'
  <2>1. RunIds' = RunIds
    BY <1>move DEF RunIds
  <2>2. RunOf(c)
    BY <2>1, <1>move
  <2> QED BY <2>1, <2>2, <1>move, <1>call
<1>idle. Idle \in Call /\ Idle.pc = "idle"
  BY DEF Idle, Call
<1>1. CASE UNCHANGED vars
  BY <1>1 DEF vars, RunIds
<1>2. ASSUME NEW a \in Accounts, CreateAccount(a) PROVE TypeOK'
  BY <1>2 DEF CreateAccount, AccountStatus, RunIds
<1>3. ASSUME NEW a \in Accounts, NEW s \in Statuses, SetAccountStatus(a, s)
      PROVE  TypeOK'
  BY <1>3, StatusesAssumption DEF SetAccountStatus, AccountStatus, RunIds
<1>4. ASSUME NEW w \in Workers, NEW q \in RequestAfter(0..Len(runs)),
             StartCall(w, q)
      PROVE  TypeOK'
  <2>1. q \in Request
    BY DEF Request, RequestAfter
  <2>2. [pc |-> "select", request |-> q] \in Call
    BY <2>1 DEF Call
  <2>3. q.parent \in 0..Len(runs)
    BY DEF RequestAfter
  <2> QED BY <1>4, <2>2, <2>3, <1>move DEF StartCall
<1>5. ASSUME NEW w \in Workers, ReuseHead(w) PROVE TypeOK'
  <2> DEFINE h == selected[call[w].request.account]
             c == [pc |-> "reused", request |-> call[w].request, run |-> h]
  <2>1. call[w].request \in Request
    BY <1>5, CallFields DEF ReuseHead
  <2>2. h \in RunIds
    BY <1>5, <2>1 DEF ReuseHead, RepeatsHead, Request, RequestAfter, RunIds
  <2>3. c \in Call /\ c.run \in RunIds
    BY <2>1, <2>2 DEF Call, RunIds
  <2> HIDE DEF c
  <2> QED BY <1>5, <2>3, <1>move DEF ReuseHead, c
<1>6. ASSUME NEW w \in Workers, RejectRequest(w) PROVE TypeOK'
  BY <1>6, <1>move, <1>idle DEF RejectRequest
<1>7. ASSUME NEW w \in Workers, BindRun(w) PROVE TypeOK'
  <2> DEFINE q == call[w].request
             p == ParentOf(q)
             S == Sessions(q.config, q.start, q.end)
  <2>1. q \in Request
    BY <1>7, CallFields DEF BindRun
  <2>2. p \in Nat /\ (p = 0 \/ p \in RunIds)
    BY <1>7, <2>1 DEF BindRun, ParentOf, Request, RequestAfter, RunIds
  <2>3. StateAfter(p) \in History
    BY <2>2, StateAfterIsHistory DEF RunIds
  <2>4. S \subseteq Days
    BY <2>1, SessionsAreDays DEF Request, RequestAfter
  <2>5. PICK first \in S, last \in S :
          Step(w, [pc |-> "check", request |-> q,
                   binding |-> [account |-> q.account, mode |-> q.mode,
                                config |-> q.config, start |-> first,
                                end |-> last, parent |-> p,
                                init |-> StateAfter(p)]])
    BY <1>7 DEF BindRun
  <2> DEFINE b == [account |-> q.account, mode |-> q.mode,
                   config |-> q.config, start |-> first,
                   end |-> last, parent |-> p, init |-> StateAfter(p)]
             c == [pc |-> "check", request |-> q, binding |-> b]
  <2>6. b \in Binding
    BY <2>1, <2>2, <2>3, <2>4 DEF Binding, Request, RequestAfter
  <2>7. c \in Call
    BY <2>1, <2>6 DEF Call
  <2> QED BY <1>7, <2>5, <2>7, <1>move DEF BindRun
<1>8. ASSUME NEW w \in Workers, AccountIsActive(w) PROVE TypeOK'
  <2> DEFINE c == [pc |-> "insert", request |-> call[w].request,
                   binding |-> call[w].binding]
  <2>1. c \in Call
    BY <1>8, CallFields DEF AccountIsActive, Call
  <2> QED BY <1>8, <2>1, <1>move DEF AccountIsActive
<1>9. ASSUME NEW w \in Workers, AccountIsNotActive(w) PROVE TypeOK'
  BY <1>9, <1>move, <1>idle DEF AccountIsNotActive
<1>10. ASSUME NEW w \in Workers, ReuseRun(w) PROVE TypeOK'
  <2>1. PICK r \in RunIds :
          Step(w, [pc |-> "reused", request |-> call[w].request, run |-> r])
    BY <1>10 DEF ReuseRun, SameBinding
  <2> DEFINE c == [pc |-> "reused", request |-> call[w].request, run |-> r]
  <2>2. c \in Call
    BY <1>10, CallFields DEF ReuseRun, Call, RunIds
  <2> QED BY <1>10, <2>1, <2>2, <1>move DEF ReuseRun
<1>11. ASSUME NEW w \in Workers, BeginRun(w) PROVE TypeOK'
  <2> DEFINE b == call[w].binding
  <2>1. call[w].request \in Request /\ b \in Binding
    BY <1>11, CallFields DEF BeginRun
  <2>2. PICK n \in 1..(Len(runs) + 1) : InsertRun(w, b, n)
    BY <1>11 DEF BeginRun
  <2> DEFINE x == [binding |-> b, attempt |-> n, status |-> "running",
                   sessions |-> <<>>, final |-> <<>>]
             c == [pc |-> "execute", request |-> call[w].request,
                   run |-> Len(runs) + 1,
                   todo |-> Sessions(b.config, b.start, b.end),
                   state |-> b.init]
  <2>3. x \in Run
    BY <2>1 DEF Run, History
  <2>4. c \in Call
    BY <2>1, SessionsAreDays DEF Call, Binding
  <2>5. runs' = Append(runs, x) /\ Step(w, c)
    BY <2>2 DEF InsertRun
  <2>6. /\ runs' \in Seq(Run)
        /\ Len(runs') = Len(runs) + 1
        /\ RunIds \subseteq RunIds'
        /\ Len(runs) + 1 \in RunIds'
    BY <2>3, <2>5 DEF RunIds
  <2>7. /\ call' \in [Workers -> Call]
        /\ \A v \in Workers : RunOf(call'[v])
    BY <2>4, <2>5, <2>6, <1>call
  <2> QED BY <1>11, <2>6, <2>7 DEF BeginRun
<1>12. ASSUME NEW w \in Workers, AppendSession(w) PROVE TypeOK'
  <2> DEFINE r == call[w].run
  <2>1. /\ call[w].request \in Request /\ r \in RunIds
        /\ call[w].todo \subseteq Days /\ call[w].state \in History
    BY <1>12, CallFields DEF AppendSession
  <2>2. /\ runs[r] \in Run
        /\ runs[r].binding \in Binding
        /\ runs[r].binding.config \in Configs
    <3>1. runs[r] \in Run
      BY <2>1 DEF RunIds
    <3>2. runs[r].binding \in Binding
      BY <3>1 DEF Run
    <3> QED BY <3>1, <3>2 DEF Binding
  <2>3. PICK d \in call[w].todo :
          /\ runs' = [runs EXCEPT ![r].sessions = Append(@, d)]
          /\ Step(w, [pc |-> "execute", request |-> call[w].request, run |-> r,
                      todo |-> call[w].todo \ {d},
                      state |-> Append(call[w].state,
                                       [day |-> d,
                                        config |-> runs[r].binding.config])])
    BY <1>12 DEF AppendSession
  <2> DEFINE e == [day |-> d, config |-> runs[r].binding.config]
             c == [pc |-> "execute", request |-> call[w].request, run |-> r,
                   todo |-> call[w].todo \ {d},
                   state |-> Append(call[w].state, e)]
             x == [runs[r] EXCEPT !.sessions = Append(runs[r].sessions, d)]
  <2>4. e \in Applied /\ Append(call[w].state, e) \in History
    BY <2>1, <2>2 DEF Applied, History
  <2>5. c \in Call
    BY <2>1, <2>4 DEF Call, RunIds
  <2>6. x \in Run
    <3>1. Append(runs[r].sessions, d) \in Seq(Days)
      BY <2>1, <2>2 DEF Run
    <3> QED BY <2>2, <3>1 DEF Run
  <2>7. runs' = [runs EXCEPT ![r] = x]
    BY <2>3
  <2>8. runs' \in Seq(Run) /\ Len(runs') = Len(runs) /\ RunIds' = RunIds
    BY <2>1, <2>6, <2>7, RewriteRun DEF RunIds
  <2>9. /\ call' \in [Workers -> Call]
        /\ \A v \in Workers : RunOf(call'[v])
    BY <2>1, <2>3, <2>5, <2>8, <1>call
  <2> QED BY <1>12, <2>8, <2>9 DEF AppendSession
<1>13. ASSUME NEW w \in Workers, CompleteRun(w) PROVE TypeOK'
  <2> DEFINE r == call[w].run
             c == [pc |-> "complete", request |-> call[w].request, run |-> r]
             x == [runs[r] EXCEPT !.status = "complete", !.final = call[w].state]
  <2>1. /\ call[w].request \in Request /\ r \in RunIds
        /\ call[w].state \in History
    BY <1>13, CallFields DEF CompleteRun
  <2>2. runs[r] \in Run
    BY <2>1 DEF RunIds
  <2>3. x \in Run
    BY <2>1, <2>2 DEF Run
  <2>4. c \in Call
    BY <2>1 DEF Call, RunIds
  <2>5. runs' = [runs EXCEPT ![r] = x] /\ Step(w, c)
    BY <1>13 DEF CompleteRun
  <2>6. runs' \in Seq(Run) /\ Len(runs') = Len(runs) /\ RunIds' = RunIds
    BY <2>1, <2>3, <2>5, RewriteRun DEF RunIds
  <2>7. /\ call' \in [Workers -> Call]
        /\ \A v \in Workers : RunOf(call'[v])
    <3>1. RunOf(c)
      BY <2>1, <2>6
    <3>2. Len(runs') = Len(runs) /\ Len(runs') \in Nat /\ RunIds \subseteq RunIds'
      BY <2>6
    <3>3. Step(w, c)
      BY <2>5
    <3> HIDE DEF c
    <3> QED BY <2>4, <3>1, <3>2, <3>3, <1>call
  <2>8. selected' \in [Accounts -> 0..Len(runs)]
    <3>1. r \in 0..Len(runs)
      BY <2>1 DEF RunIds
    <3>2. selected' = selected
            \/ selected' = [selected EXCEPT ![runs[r].binding.account] = r]
      BY <1>13 DEF CompleteRun
    <3> HIDE DEF r
    <3> QED BY <3>1, <3>2
  <2> QED BY <1>13, <2>6, <2>7, <2>8 DEF CompleteRun
<1>14. ASSUME NEW w \in Workers, LosePromotion(w) \/ RunRaises(w) PROVE TypeOK'
  <2> DEFINE c == [pc |-> "fail", request |-> call[w].request, run |-> call[w].run]
  <2>1. c \in Call /\ c.run \in RunIds
    BY <1>14, CallFields DEF LosePromotion, RunRaises, Call
  <2> QED BY <1>14, <2>1, <1>move DEF LosePromotion, RunRaises
<1>15. ASSUME NEW w \in Workers, FailRun(w) PROVE TypeOK'
  <2> DEFINE r == call[w].run
             x == [runs[r] EXCEPT !.status = "failed"]
  <2>1. r \in RunIds
    BY <1>15 DEF FailRun
  <2>2. runs[r] \in Run
    BY <2>1 DEF RunIds
  <2>3. x \in Run
    BY <2>2 DEF Run
  <2>4. runs' = [runs EXCEPT ![r] = x] /\ Step(w, Idle)
    BY <1>15 DEF FailRun
  <2>5. runs' \in Seq(Run) /\ Len(runs') = Len(runs) /\ RunIds' = RunIds
    BY <2>1, <2>3, <2>4, RewriteRun DEF RunIds
  <2>6. /\ call' \in [Workers -> Call]
        /\ \A v \in Workers : RunOf(call'[v])
    BY <2>4, <2>5, <1>call, <1>idle
  <2> QED BY <1>15, <2>5, <2>6 DEF FailRun
<1>16. ASSUME NEW w \in Workers, FailRunRaises(w) \/ Crash(w) PROVE TypeOK'
  BY <1>16, <1>move, <1>idle DEF FailRunRaises, Crash
<1> QED
  BY <1>1, <1>2, <1>3, <1>4, <1>5, <1>6, <1>7, <1>8, <1>9, <1>10, <1>11,
     <1>12, <1>13, <1>14, <1>15, <1>16 DEF Next, WorkerStep

\* Every variable keeps its type and run ids refer to rows that exist.
THEOREM TypeCorrect == Spec => []TypeOK
<1>1. Init => TypeOK
  BY DEF Init, TypeOK, AccountStatus, Idle, Call
<1>2. TypeOK /\ [Next]_vars => TypeOK'
  BY TypeStep
<1> QED BY <1>1, <1>2, PTL DEF Spec

-----------------------------------------------------------------------------
(* Rows only ever gain.                                                    *)

\* The fields of a row.
LEMMA RunFields ==
    ASSUME TypeOK, NEW r \in RunIds
    PROVE  /\ runs[r] \in Run
           /\ runs[r].binding \in Binding
           /\ runs[r].status \in {"running", "complete", "failed"}
           /\ runs[r].sessions \in Seq(Days)
           /\ runs[r].final \in History
<1>1. runs[r] \in Run
  BY DEF TypeOK, RunIds
<1> QED BY <1>1 DEF Run

\* What BeginRun does to the rows and to the call.
LEMMA BeginRunEffect ==
    ASSUME TypeOK, NEW w \in Workers, BeginRun(w)
    PROVE  \E n \in Nat \ {0} :
             LET b == call[w].binding
                 x == [binding |-> b, attempt |-> n, status |-> "running",
                       sessions |-> <<>>, final |-> <<>>]
             IN  /\ b \in Binding
                 /\ x \in Run
                 /\ runs' = Append(runs, x)
                 /\ Step(w, [pc |-> "execute", request |-> call[w].request,
                             run |-> Len(runs) + 1,
                             todo |-> Sessions(b.config, b.start, b.end),
                             state |-> b.init])
<1> DEFINE b == call[w].binding
<1>1. b \in Binding
  BY CallFields DEF BeginRun, TypeOK
<1>2. PICK n \in 1..(Len(runs) + 1) : InsertRun(w, b, n)
  BY DEF BeginRun
<1>3. n \in Nat \ {0}
  BY DEF TypeOK
<1> DEFINE x == [binding |-> b, attempt |-> n, status |-> "running",
                 sessions |-> <<>>, final |-> <<>>]
<1>4. x \in Run
  BY <1>1, <1>3 DEF Run, History
<1> QED BY <1>1, <1>2, <1>3, <1>4 DEF InsertRun

\* Every step keeps what a row has: its binding, its sessions, its end.
LEMMA RowsKept ==
    ASSUME TypeOK, [Next]_vars, NEW r \in RunIds
    PROVE  RowKept(r)
<1> USE RunFields
<1>same. ASSUME runs' = runs PROVE RowKept(r)
  BY <1>same DEF RowKept, RunIds
<1>1. ASSUME NEW w \in Workers, BeginRun(w) PROVE RowKept(r)
  <2>1. PICK x \in Run : runs' = Append(runs, x)
    BY <1>1, BeginRunEffect
  <2>2. r \in RunIds' /\ runs'[r] = runs[r]
    BY <2>1, AddRun DEF TypeOK, RunIds
  <2> QED BY <2>2 DEF RowKept
<1>2. ASSUME NEW w \in Workers, AppendSession(w) PROVE RowKept(r)
  <2> DEFINE s == call[w].run
  <2>1. PICK d \in call[w].todo :
          runs' = [runs EXCEPT ![s].sessions = Append(@, d)]
    BY <1>2 DEF AppendSession
  <2>2. s \in RunIds /\ runs[s].status = "running"
    BY <1>2 DEF AppendSession, TypeOK
  <2>3. d \in Days
    BY <1>2, CallFields DEF AppendSession, TypeOK
  <2>4. RunIds' = RunIds
    BY <2>1 DEF RunIds
  <2>5. CASE r # s
    BY <2>1, <2>2, <2>4, <2>5 DEF RowKept, RunIds, TypeOK
  <2>6. CASE r = s
    <3>1. runs'[r] = [runs[r] EXCEPT !.sessions = Append(runs[r].sessions, d)]
      BY <2>1, <2>6 DEF RunIds
    <3>2. /\ runs'[r].binding = runs[r].binding
          /\ runs'[r].attempt = runs[r].attempt
          /\ runs'[r].sessions = Append(runs[r].sessions, d)
      BY <3>1 DEF Run
    <3>3. runs[r].sessions \in Seq(Days)
      BY RunFields
    <3>4. /\ Len(runs[r].sessions) <= Len(Append(runs[r].sessions, d))
          /\ \A i \in DOMAIN runs[r].sessions :
               Append(runs[r].sessions, d)[i] = runs[r].sessions[i]
      BY <3>3, <2>3
    <3> QED BY <3>2, <3>4, <2>2, <2>4, <2>6 DEF RowKept
  <2> QED BY <2>5, <2>6
<1>3. ASSUME NEW w \in Workers, CompleteRun(w) \/ FailRun(w) PROVE RowKept(r)
  <2> DEFINE s == call[w].run
  <2>1. /\ s \in RunIds /\ runs[s].status = "running"
        /\ \/ runs' = [runs EXCEPT ![s].status = "complete",
                                   ![s].final = call[w].state]
           \/ runs' = [runs EXCEPT ![s].status = "failed"]
    BY <1>3 DEF CompleteRun, FailRun, TypeOK
  <2>2. RunIds' = RunIds
    BY <2>1 DEF RunIds
  <2>3. CASE r # s
    BY <2>1, <2>2, <2>3 DEF RowKept, RunIds, TypeOK
  <2>4. CASE r = s
    <3>1. \/ runs'[r] = [runs[r] EXCEPT !.status = "complete",
                                       !.final = call[w].state]
          \/ runs'[r] = [runs[r] EXCEPT !.status = "failed"]
      BY <2>1, <2>4 DEF RunIds
    <3>2. /\ runs'[r].binding = runs[r].binding
          /\ runs'[r].attempt = runs[r].attempt
          /\ runs'[r].sessions = runs[r].sessions
      BY <3>1 DEF Run
    <3> QED BY <3>2, <2>1, <2>2, <2>4 DEF RowKept
  <2> QED BY <2>3, <2>4
<1> QED
  BY <1>same, <1>1, <1>2, <1>3
  DEF Next, WorkerStep, vars, CreateAccount, SetAccountStatus, StartCall, ReuseHead,
      RejectRequest, BindRun, AccountIsActive, AccountIsNotActive, ReuseRun,
      LosePromotion, RunRaises, FailRunRaises, Crash

\* Finished runs are immutable and running ones only gain sessions at the end.
THEOREM RunsAppendOnly == Spec => RunsAreAppendOnly
<1>1. TypeOK /\ [Next]_vars => \A r \in RunIds : RowKept(r)
  BY RowsKept
<1> QED BY <1>1, TypeCorrect, PTL DEF Spec, RunsAreAppendOnly

-----------------------------------------------------------------------------
(* The inductive invariant.                                                *)

\* What the invariant says of one row.
LEMMA Sound ==
    ASSUME Inductive, NEW r \in RunIds
    PROVE  /\ runs[r] \in Run
           /\ runs[r].binding \in Binding
           /\ BindingIsSound(runs[r].binding)
           /\ runs[r].status = "complete" =>
                /\ AH!Extends(runs[r].final, runs[r].binding.init)
                /\ Until(runs[r].final, runs[r].binding)
BY RunFields DEF Inductive, FinishedRunsExtend

\* The portfolio a sound binding starts from is over before its first session.
LEMMA InitIsOver ==
    ASSUME Inductive, NEW b \in Binding, BindingIsSound(b)
    PROVE  /\ Until(b.init, b)
           /\ \A i \in DOMAIN b.init : b.init[i].day < b.start
<1> /\ b.init \in Seq(Applied)
    /\ b.start \in Nat /\ b.end \in Nat /\ b.start <= b.end
  BY DEF Binding, History, BindingIsSound, Sessions, Days
<1>1. CASE b.parent = 0
  BY <1>1 DEF BindingIsSound, Lineage, Until, AH!Increasing
<1>2. CASE b.parent # 0
  <2> DEFINE p == runs[b.parent]
  <2>1. /\ b.parent \in RunIds /\ p.status = "complete"
        /\ p.binding.end < b.start /\ b.init = p.final
    BY <1>2 DEF BindingIsSound, Lineage
  <2>2. Until(p.final, p.binding) /\ p.binding.end \in Nat
    BY <2>1, Sound DEF Binding, Days
  <2>3. ASSUME NEW i \in DOMAIN b.init PROVE b.init[i].day \in Nat
    <3>1. b.init[i] \in Applied
      OBVIOUS
    <3> QED BY <3>1 DEF Applied, Days
  <2> QED BY <2>1, <2>2, <2>3 DEF Until
<1> QED BY <1>1, <1>2

\* There are no rows at first.
LEMMA InductiveInit == Init => Inductive
<1> SUFFICES ASSUME Init PROVE Inductive
  OBVIOUS
<1>1. TypeOK
  BY DEF Init, TypeOK, AccountStatus, Idle, Call
<1>2. RunIds = {}
  BY DEF Init, RunIds
<1>3. \A w \in Workers : call[w].pc = "idle"
  BY DEF Init, Idle
<1>4. HeadIsFinishedRun
  BY DEF Init, HeadIsFinishedRun
<1>5. OneWriterPerRun /\ CallsAreSound
  BY <1>3 DEF OneWriterPerRun, CallsAreSound
<1>6. FinishedRunsExtend
  BY <1>2 DEF FinishedRunsExtend
<1> QED
  BY <1>1, <1>2, <1>4, <1>5, <1>6 DEF Inductive

\* What stays sound in any step: the bindings read or inserted earlier, the
\* finished runs and the heads that do not move.
LEMMA SoundnessIsStable ==
    ASSUME Inductive, [Next]_vars
    PROVE  /\ \A b \in Binding : BindingIsSound(b) => BindingIsSound(b)'
           /\ selected' = selected => HeadIsFinishedRun'
<1> USE DEF Inductive
<1>1. ASSUME NEW r \in RunIds, runs[r].status = "complete"
      PROVE  r \in RunIds' /\ runs'[r] = runs[r]
  BY <1>1, RowsKept DEF RowKept
<1>2. ASSUME NEW b \in Binding, BindingIsSound(b) PROVE BindingIsSound(b)'
  <2>1. CASE b.parent = 0
    BY <1>2, <2>1 DEF BindingIsSound, Lineage
  <2>2. CASE b.parent # 0
    <3>1. b.parent \in RunIds /\ runs[b.parent].status = "complete"
      BY <1>2, <2>2 DEF BindingIsSound, Lineage
    <3>2. b.parent \in RunIds' /\ runs'[b.parent] = runs[b.parent]
      BY <3>1, <1>1
    <3> QED BY <1>2, <2>2, <3>2 DEF BindingIsSound, Lineage
  <2> QED BY <2>1, <2>2
<1>3. ASSUME selected' = selected PROVE HeadIsFinishedRun'
  <2> SUFFICES ASSUME NEW a \in Accounts, selected[a] # 0
               PROVE  /\ runs'[selected[a]].status = "complete"
                      /\ runs'[selected[a]].binding.account = a
    BY <1>3 DEF HeadIsFinishedRun
  <2>1. selected[a] \in RunIds
    BY DEF TypeOK, RunIds
  <2> QED BY <2>1, <1>1 DEF HeadIsFinishedRun
<1> QED BY <1>2, <1>3

\* A step that only moves one call, and not into the loop.
LEMMA QuietStep ==
    ASSUME Inductive, [Next]_vars, UNCHANGED <<selected, runs>>,
           NEW w \in Workers, NEW c \in Call, Step(w, c),
           c.pc # "execute",
           c.pc \in {"check", "insert"} => BindingIsSound(c.binding),
           c.pc = "fail" => call[w].pc = "execute" /\ c.run = call[w].run
    PROVE  Inductive'
<1> USE DEF Inductive
<1>1. TypeOK' /\ TypeOK
  BY TypeStep
<1>2. /\ HeadIsFinishedRun'
      /\ RunIds' = RunIds
      /\ (\A r \in RunIds : BindingIsSound(runs[r].binding))'
      /\ FinishedRunsExtend'
  <2>1. RunIds' = RunIds
    BY DEF RunIds
  <2>2. \A r \in RunIds : runs[r].binding \in Binding
    BY Sound
  <2> QED BY <2>1, <2>2, SoundnessIsStable DEF FinishedRunsExtend
<1>3. \A v \in Workers : call'[v] = IF v = w THEN c ELSE call[v]
  BY <1>1 DEF Step, TypeOK
<1>4. OneWriterPerRun'
  BY <1>3 DEF OneWriterPerRun
<1>5. CallsAreSound'
  <2> SUFFICES ASSUME NEW v \in Workers
               PROVE  /\ call'[v].pc \in {"check", "insert"} =>
                           (BindingIsSound(call[v].binding))'
                      /\ call'[v].pc = "execute" =>
                           LoopIsSound(call'[v], runs'[call'[v].run].binding)
    BY DEF CallsAreSound
  <2>1. \A b : BindingIsSound(b) => BindingIsSound(b)'
    BY DEF BindingIsSound, Lineage, RunIds
  <2>2. CASE v = w
    BY <2>1, <2>2, <1>3 DEF BindingIsSound, Lineage
  <2>3. CASE v # w
    BY <2>1, <2>3, <1>3 DEF CallsAreSound, BindingIsSound, Lineage
  <2> QED BY <2>2, <2>3
<1> QED BY <1>1, <1>2, <1>4, <1>5

\* The call that made x of row s has returned, or is still in x's loop.
LeavesOrLoops(c, s, x) ==
    \/ c.pc \in {"idle", "complete"}
    \/ /\ c.pc = "execute" /\ c.run = s /\ x.status = "running"
       /\ LoopIsSound(c, x.binding)

FinishedExtends(x) ==
    x.status = "complete" => /\ AH!Extends(x.final, x.binding.init)
                             /\ Until(x.final, x.binding)

\* A step that rewrites the row of the call that takes it.
LEMMA WriteStep ==
    ASSUME Inductive, [Next]_vars,
           NEW w \in Workers, call[w].pc \in {"execute", "fail"},
           NEW s \in RunIds, s = call[w].run,
           NEW x \in Run, runs' = [runs EXCEPT ![s] = x],
           x.binding = runs[s].binding,
           FinishedExtends(x), HeadIsFinishedRun',
           NEW c \in Call, Step(w, c), LeavesOrLoops(c, s, x)
    PROVE  Inductive'
<1> USE DEF Inductive, FinishedExtends, LeavesOrLoops
<1>1. TypeOK' /\ TypeOK
  BY TypeStep
<1>2. /\ RunIds' = RunIds
      /\ \A r \in RunIds : runs'[r] = IF r = s THEN x ELSE runs[r]
  BY <1>1 DEF RunIds, TypeOK
<1>3. (\A r \in RunIds : BindingIsSound(runs[r].binding))'
  <2> SUFFICES ASSUME NEW r \in RunIds PROVE (BindingIsSound(runs[r].binding))'
    BY <1>2
  <2>1. runs'[r].binding = runs[r].binding
    BY <1>2
  <2>2. BindingIsSound(runs[r].binding) /\ runs[r].binding \in Binding
    BY Sound
  <2>3. PICK b \in Binding : b = runs[r].binding
    BY <2>2
  <2>4. BindingIsSound(b)'
    BY <2>2, <2>3, SoundnessIsStable
  <2> QED BY <2>1, <2>3, <2>4 DEF BindingIsSound, Lineage
<1>4. FinishedRunsExtend'
  BY <1>2 DEF FinishedRunsExtend
<1>5. \A v \in Workers : call'[v] = IF v = w THEN c ELSE call[v]
  BY <1>1 DEF Step, TypeOK
<1>6. \A v \in Workers \ {w} :
        call[v].pc \in {"execute", "fail"} =>
          call[v].run \in RunIds /\ call[v].run # s
  BY <1>1 DEF OneWriterPerRun, TypeOK
<1>7. OneWriterPerRun'
  BY <1>2, <1>5, <1>6 DEF OneWriterPerRun
<1>8. CallsAreSound'
  <2> SUFFICES ASSUME NEW v \in Workers
               PROVE  /\ call'[v].pc \in {"check", "insert"} =>
                           (BindingIsSound(call[v].binding))'
                      /\ call'[v].pc = "execute" =>
                           LoopIsSound(call'[v], runs'[call'[v].run].binding)
    BY DEF CallsAreSound
  <2>1. CASE v = w
    BY <2>1, <1>2, <1>5
  <2>2. CASE v # w
    <3>1. CASE call[v].pc \in {"check", "insert"}
      <4>1. call[v].binding \in Binding /\ BindingIsSound(call[v].binding)
        BY <3>1, CallFields, <1>1 DEF CallsAreSound, TypeOK
      <4>2. PICK b \in Binding : b = call[v].binding
        BY <4>1
      <4>3. BindingIsSound(b)'
        BY <4>1, <4>2, SoundnessIsStable
      <4> QED BY <2>2, <3>1, <4>2, <4>3, <1>5 DEF BindingIsSound, Lineage
    <3>2. CASE call[v].pc = "execute"
      BY <2>2, <3>2, <1>2, <1>5, <1>6 DEF CallsAreSound
    <3> QED BY <2>2, <3>1, <3>2, <1>5
  <2> QED BY <2>1, <2>2
<1> QED BY <1>1, <1>3, <1>4, <1>7, <1>8

\* A new attempt starts: its loop is sound because the bound parent still is.
LEMMA BeginRunStep ==
    ASSUME Inductive, [Next]_vars, NEW w \in Workers, BeginRun(w)
    PROVE  Inductive'
<1> USE DEF Inductive
<1>1. TypeOK' /\ TypeOK
  BY TypeStep
<1>2. PICK b \in Binding, x \in Run, c \in Call :
        /\ b = call[w].binding /\ BindingIsSound(b)
        /\ x.binding = b /\ x.status = "running"
        /\ runs' = Append(runs, x)
        /\ c = [pc |-> "execute", request |-> call[w].request,
                run |-> Len(runs) + 1,
                todo |-> Sessions(b.config, b.start, b.end), state |-> b.init]
        /\ Step(w, c)
  <2>1. call[w].binding \in Binding /\ BindingIsSound(call[w].binding)
    BY <1>1, BeginRunEffect DEF BeginRun, CallsAreSound
  <2>2. PICK b \in Binding : b = call[w].binding /\ BindingIsSound(b)
    BY <2>1
  <2>3. call[w].request \in Request /\ Len(runs) + 1 \in Nat
        /\ Sessions(b.config, b.start, b.end) \subseteq Days
        /\ b.init \in History
    BY <1>1, CallFields, SessionsAreDays DEF BeginRun, TypeOK, Binding
  <2>4. [pc |-> "execute", request |-> call[w].request,
         run |-> Len(runs) + 1,
         todo |-> Sessions(b.config, b.start, b.end), state |-> b.init] \in Call
    BY <2>3 DEF Call
  <2> QED BY <1>1, <2>2, <2>4, BeginRunEffect
<1>3. /\ RunIds = 1..Len(runs) /\ RunIds' = RunIds \cup {c.run}
      /\ c.run \notin RunIds
      /\ runs'[c.run] = x
      /\ \A r \in RunIds : runs'[r] = runs[r]
  BY <1>1, <1>2, AddRun DEF TypeOK, RunIds
<1>4. HeadIsFinishedRun'
  BY <1>2, SoundnessIsStable DEF BeginRun
<1>5. (\A r \in RunIds : BindingIsSound(runs[r].binding))'
  <2> SUFFICES ASSUME NEW r \in RunIds' PROVE (BindingIsSound(runs[r].binding))'
    OBVIOUS
  <2>1. PICK d \in Binding : d = runs'[r].binding /\ BindingIsSound(d)
    BY <1>2, <1>3, Sound
  <2>2. BindingIsSound(d)'
    BY <2>1, SoundnessIsStable
  <2> QED BY <2>1, <2>2 DEF BindingIsSound, Lineage
<1>6. FinishedRunsExtend'
  BY <1>2, <1>3 DEF FinishedRunsExtend
<1>7. \A v \in Workers : call'[v] = IF v = w THEN c ELSE call[v]
  BY <1>1, <1>2 DEF Step, TypeOK
<1>8. \A v \in Workers \ {w} :
        call[v].pc \in {"execute", "fail"} => call[v].run \in RunIds
  BY <1>1 DEF TypeOK
<1>9. OneWriterPerRun'
  <2>1. c.pc = "execute"
    BY <1>2
  <2> QED BY <1>2, <1>3, <1>7, <1>8, <2>1 DEF OneWriterPerRun
<1>10. LoopIsSound(c, b)
  <2>1. Until(b.init, b) /\ \A i \in DOMAIN b.init : b.init[i].day < b.start
    BY <1>2, InitIsOver
  <2>2. b.start \in Sessions(b.config, b.start, b.end)
    BY <1>2 DEF BindingIsSound
  <2>3. ASSUME NEW i \in DOMAIN b.init,
               NEW d \in Sessions(b.config, b.start, b.end)
        PROVE  b.init[i].day < d
    <3>1. b.init[i] \in Applied /\ b.config \in Configs /\ b.start \in Days
      BY DEF Binding, History
    <3>2. b.init[i].day \in Nat /\ d \in Nat /\ b.start \in Nat /\ b.start <= d
      BY <3>1 DEF Applied, Sessions, Days
    <3> QED BY <3>2, <2>1
  <2> QED BY <1>2, <2>1, <2>2, <2>3 DEF LoopIsSound
<1>11. CallsAreSound'
  <2> SUFFICES ASSUME NEW v \in Workers
               PROVE  /\ call'[v].pc \in {"check", "insert"} =>
                           (BindingIsSound(call[v].binding))'
                      /\ call'[v].pc = "execute" =>
                           LoopIsSound(call'[v], runs'[call'[v].run].binding)
    BY DEF CallsAreSound
  <2>1. CASE v = w
    BY <2>1, <1>2, <1>3, <1>7, <1>10
  <2>2. CASE v # w
    <3>1. CASE call[v].pc \in {"check", "insert"}
      <4>1. PICK d \in Binding : d = call[v].binding /\ BindingIsSound(d)
        BY <3>1, CallFields, <1>1 DEF CallsAreSound, TypeOK
      <4>2. BindingIsSound(d)'
        BY <4>1, SoundnessIsStable
      <4> QED BY <2>2, <3>1, <4>1, <4>2, <1>7 DEF BindingIsSound, Lineage
    <3>2. CASE call[v].pc = "execute"
      BY <2>2, <3>2, <1>3, <1>7, <1>8 DEF CallsAreSound
    <3> QED BY <2>2, <3>1, <3>2, <1>7
  <2> QED BY <2>1, <2>2
<1> QED BY <1>1, <1>4, <1>5, <1>6, <1>9, <1>11

\* A session is applied: it is the earliest one left.
LEMMA AppendSessionStep ==
    ASSUME Inductive, [Next]_vars, NEW w \in Workers, AppendSession(w)
    PROVE  Inductive'
<1> USE DEF Inductive
<1>1. PICK s \in RunIds, b \in Binding, st \in History, todo \in SUBSET Days :
        /\ s = call[w].run /\ b = runs[s].binding
        /\ st = call[w].state /\ todo = call[w].todo
        /\ call[w].pc = "execute" /\ runs[s].status = "running"
        /\ LoopIsSound(call[w], b)
  <2>1. /\ call[w].run \in RunIds /\ call[w].pc = "execute"
        /\ runs[call[w].run].status = "running"
    BY DEF AppendSession, TypeOK
  <2>2. call[w].state \in History /\ call[w].todo \subseteq Days
    BY <2>1, CallFields DEF TypeOK
  <2>3. runs[call[w].run].binding \in Binding
    BY <2>1, Sound
  <2>4. LoopIsSound(call[w], runs[call[w].run].binding)
    BY <2>1 DEF CallsAreSound
  <2> QED BY <2>1, <2>2, <2>3, <2>4
<1>2. PICK d \in todo :
        /\ IsFirst(d, todo)
        /\ runs' = [runs EXCEPT ![s].sessions = Append(@, d)]
        /\ Step(w, [pc |-> "execute", request |-> call[w].request, run |-> s,
                    todo |-> todo \ {d},
                    state |-> Append(st, [day |-> d, config |-> b.config])])
  BY <1>1 DEF AppendSession
<1>3. PICK x : x = [runs[s] EXCEPT !.sessions = Append(runs[s].sessions, d)]
  OBVIOUS
<1>4. x \in Run /\ x.binding = b /\ x.status = "running"
  <2>1. Append(runs[s].sessions, d) \in Seq(Days)
    BY <1>1, RunFields
  <2>2. runs[s] \in Run
    BY <1>1, RunFields
  <2> QED BY <1>1, <1>3, <2>1, <2>2 DEF Run
<1>5. PICK e \in Applied, c \in Call :
        /\ e = [day |-> d, config |-> b.config]
        /\ c = [pc |-> "execute", request |-> call[w].request, run |-> s,
                todo |-> todo \ {d}, state |-> Append(st, e)]
        /\ Step(w, c)
  <2>1. PICK f \in Applied : f = [day |-> d, config |-> b.config]
    BY <1>1 DEF Applied, Binding
  <2>2. /\ Append(st, f) \in History /\ call[w].request \in Request
        /\ s \in Nat /\ todo \ {d} \in SUBSET Days
    BY <1>1, CallFields DEF History, TypeOK, RunIds
  <2>3. [pc |-> "execute", request |-> call[w].request, run |-> s,
         todo |-> todo \ {d}, state |-> Append(st, f)] \in Call
    BY <2>2 DEF Call
  <2> QED BY <2>1, <2>3, <1>2
<1>6. LoopIsSound(c, b)
  <2> DEFINE g == Append(st, e)
  <2>1. /\ todo \subseteq Sessions(b.config, b.start, b.end)
        /\ Until(st, b)
        /\ \A i \in DOMAIN st : \A y \in todo : st[i].day < y
        /\ st = b.init \/ AH!Extends(st, b.init)
    BY <1>1 DEF LoopIsSound
  <2>2. /\ st \in Seq(Applied) /\ b.init \in Seq(Applied)
        /\ g \in Seq(Applied) /\ Len(g) = Len(st) + 1
        /\ DOMAIN g = DOMAIN st \cup {Len(st) + 1}
        /\ Len(st) + 1 \notin DOMAIN st
        /\ \A i \in DOMAIN st : g[i] = st[i]
        /\ g[Len(st) + 1] = e
    BY DEF History, Binding
  <2>3. /\ d \in Nat /\ d <= b.end /\ e.day = d
        /\ \A i \in DOMAIN st : st[i].day < d
    <3>1. d \in Days /\ d \in Sessions(b.config, b.start, b.end)
      BY <2>1
    <3>2. d \in Nat /\ d <= b.end
      BY <3>1 DEF Sessions, Days
    <3>3. e.day = d
      BY <1>5
    <3> QED BY <2>1, <3>2, <3>3
  <2>4. \A y \in todo \ {d} : d < y
    BY <1>2 DEF IsFirst, Days
  <2>5. AH!Increasing(g)
    <3> SUFFICES ASSUME NEW i \in DOMAIN g, NEW j \in DOMAIN g, i < j
                 PROVE  g[i].day < g[j].day
      BY DEF AH!Increasing
    <3>1. i \in DOMAIN st
      BY <2>2
    <3> QED BY <3>1, <2>1, <2>2, <2>3 DEF Until, AH!Increasing
  <2>6. Until(g, b)
    BY <2>1, <2>2, <2>3, <2>5 DEF Until
  <2>7. AH!Extends(g, b.init)
    BY <2>1, <2>2 DEF AH!Extends
  <2>8. \A i \in DOMAIN g : \A y \in todo \ {d} : g[i].day < y
    BY <2>1, <2>2, <2>3, <2>4
  <2>9. c.todo = todo \ {d} /\ c.state = g
    BY <1>5
  <2> QED BY <2>1, <2>6, <2>7, <2>8, <2>9 DEF LoopIsSound
<1>7. HeadIsFinishedRun'
  BY SoundnessIsStable DEF AppendSession
<1>8. runs' = [runs EXCEPT ![s] = x]
  BY <1>2, <1>3
<1>9. LeavesOrLoops(c, s, x) /\ FinishedExtends(x)
  BY <1>4, <1>5, <1>6 DEF LeavesOrLoops, FinishedExtends
<1> QED BY <1>1, <1>4, <1>5, <1>6, <1>7, <1>8, <1>9, WriteStep

\* The last session is done: the final portfolio extends the initial one.
LEMMA CompleteRunStep ==
    ASSUME Inductive, [Next]_vars, NEW w \in Workers, CompleteRun(w)
    PROVE  /\ Inductive'
           /\ LET b == runs[call[w].run].binding
              IN  /\ AH!Extends(call[w].state, b.init)
                  /\ Until(call[w].state, b)
<1> USE DEF Inductive
<1>1. PICK s \in RunIds, b \in Binding, st \in History :
        /\ s = call[w].run /\ b = runs[s].binding /\ st = call[w].state
        /\ call[w].pc = "execute" /\ call[w].todo = {}
        /\ LoopIsSound(call[w], b)
  <2>1. /\ call[w].run \in RunIds /\ call[w].pc = "execute"
        /\ call[w].todo = {}
    BY DEF CompleteRun, TypeOK
  <2>2. call[w].state \in History
    BY <2>1, CallFields DEF TypeOK
  <2>3. runs[call[w].run].binding \in Binding
    BY <2>1, Sound
  <2>4. LoopIsSound(call[w], runs[call[w].run].binding)
    BY <2>1 DEF CallsAreSound
  <2> QED BY <2>1, <2>2, <2>3, <2>4
<1>2. AH!Extends(st, b.init) /\ Until(st, b)
  BY <1>1 DEF LoopIsSound
<1>3. PICK x : x = [runs[s] EXCEPT !.status = "complete", !.final = st]
  OBVIOUS
<1>4. x \in Run /\ x.binding = b /\ x.status = "complete" /\ x.final = st
  <2>1. runs[s] \in Run
    BY RunFields
  <2> QED BY <1>1, <1>3, <2>1 DEF Run
<1>5. PICK c \in Call :
        /\ c = [pc |-> "complete", request |-> call[w].request, run |-> s]
        /\ Step(w, c)
  <2>1. call[w].request \in Request /\ s \in Nat
    BY <1>1, CallFields DEF TypeOK, RunIds
  <2>2. [pc |-> "complete", request |-> call[w].request, run |-> s] \in Call
    BY <2>1 DEF Call
  <2> QED BY <1>1, <2>2 DEF CompleteRun
<1>6. runs' = [runs EXCEPT ![s] = x]
  BY <1>1, <1>3 DEF CompleteRun
<1>7. HeadIsFinishedRun'
  <2>1. CASE selected' = selected
    BY <2>1, SoundnessIsStable
  <2>2. CASE selected' = [selected EXCEPT ![b.account] = s]
    <3> SUFFICES ASSUME NEW a \in Accounts, selected'[a] # 0
                 PROVE  /\ runs'[selected'[a]].status = "complete"
                        /\ runs'[selected'[a]].binding.account = a
      BY DEF HeadIsFinishedRun
    <3>1. CASE a = b.account
      BY <3>1, <2>2, <1>4, <1>6 DEF TypeOK, RunIds
    <3>2. CASE a # b.account
      <4>1. selected'[a] = selected[a] /\ selected[a] \in RunIds
        BY <3>2, <2>2 DEF TypeOK, RunIds
      <4>2. /\ runs[selected[a]].status = "complete"
            /\ runs[selected[a]].binding.account = a
        BY <4>1 DEF HeadIsFinishedRun
      <4>3. runs'[selected[a]] = runs[selected[a]]
        BY <4>1, <4>2, RowsKept DEF RowKept
      <4> QED BY <4>1, <4>2, <4>3
    <3> QED BY <3>1, <3>2
  <2> QED BY <2>1, <2>2, <1>1 DEF CompleteRun
<1>8. c.pc = "complete"
  BY <1>5
<1>9. Inductive'
  <2>1. /\ FinishedExtends(x) /\ LeavesOrLoops(c, s, x)
        /\ call[w].pc \in {"execute", "fail"}
        /\ x.binding = runs[s].binding
    BY <1>1, <1>2, <1>4, <1>8 DEF FinishedExtends, LeavesOrLoops
  <2> HIDE DEF Inductive
  <2> QED BY <2>1, <1>1, <1>4, <1>5, <1>6, <1>7, WriteStep
<1> QED BY <1>1, <1>2, <1>9

\* FailRun: the row keeps its sessions.
LEMMA FailRunStep ==
    ASSUME Inductive, [Next]_vars, NEW w \in Workers, FailRun(w)
    PROVE  Inductive'
<1> USE DEF Inductive
<1>1. PICK s \in RunIds : s = call[w].run /\ call[w].pc = "fail"
  BY DEF FailRun, TypeOK
<1>2. PICK x : x = [runs[s] EXCEPT !.status = "failed"]
  OBVIOUS
<1>3. x \in Run /\ x.binding = runs[s].binding /\ x.status = "failed"
  <2>1. runs[s] \in Run
    BY RunFields
  <2> QED BY <1>2, <2>1 DEF Run
<1>4. runs' = [runs EXCEPT ![s] = x]
  BY <1>1, <1>2 DEF FailRun
<1>5. HeadIsFinishedRun'
  BY SoundnessIsStable DEF FailRun
<1>6. PICK c \in Call : c.pc = "idle" /\ Step(w, c)
  BY DEF FailRun, Idle, Call
<1>7. /\ call[w].pc \in {"execute", "fail"}
      /\ FinishedExtends(x) /\ LeavesOrLoops(c, s, x)
  BY <1>1, <1>3, <1>6 DEF FinishedExtends, LeavesOrLoops
<1> HIDE DEF Inductive
<1> QED BY <1>1, <1>3, <1>4, <1>5, <1>6, <1>7, WriteStep

\* The binding a call fixes follows a run that is, and stays, finished.
LEMMA BindRunStep ==
    ASSUME Inductive, [Next]_vars, NEW w \in Workers, BindRun(w)
    PROVE  Inductive'
<1> USE DEF Inductive
<1>1. PICK q \in Request, p \in Nat :
        /\ q = call[w].request /\ p = ParentOf(q)
        /\ p # 0 => p \in RunIds
        /\ ~Unacceptable(q)
        /\ UNCHANGED <<status, selected, runs>>
        /\ \E first, last \in Sessions(q.config, q.start, q.end) :
             /\ IsFirst(first, Sessions(q.config, q.start, q.end))
             /\ IsLast(last, Sessions(q.config, q.start, q.end))
             /\ Step(w, [pc |-> "check", request |-> q,
                         binding |-> [account |-> q.account, mode |-> q.mode,
                                      config |-> q.config, start |-> first,
                                      end |-> last, parent |-> p,
                                      init |-> StateAfter(p)]])
  <2>1. call[w].request \in Request /\ call[w].request.parent \in 0..Len(runs)
    BY CallFields DEF BindRun, TypeOK
  <2>2. call[w].request.account \in Accounts
    BY <2>1 DEF Request, RequestAfter
  <2>3. ParentOf(call[w].request) \in 0..Len(runs)
    BY <2>1, <2>2 DEF ParentOf, TypeOK
  <2>4. \A i \in 0..Len(runs) : i \in Nat /\ (i # 0 => i \in RunIds)
    BY DEF RunIds, TypeOK
  <2> QED BY <2>1, <2>3, <2>4 DEF BindRun
<1> DEFINE S == Sessions(q.config, q.start, q.end)
<1>2. PICK first \in S, last \in S, b \in Binding, c \in Call :
        /\ IsFirst(first, S) /\ IsLast(last, S)
        /\ b = [account |-> q.account, mode |-> q.mode, config |-> q.config,
                start |-> first, end |-> last, parent |-> p,
                init |-> StateAfter(p)]
        /\ c = [pc |-> "check", request |-> q, binding |-> b]
        /\ Step(w, c)
  <2>1. PICK f \in S, l \in S :
          /\ IsFirst(f, S) /\ IsLast(l, S)
          /\ Step(w, [pc |-> "check", request |-> q,
                      binding |-> [account |-> q.account, mode |-> q.mode,
                                   config |-> q.config, start |-> f,
                                   end |-> l, parent |-> p,
                                   init |-> StateAfter(p)]])
    BY <1>1
  <2>2. StateAfter(p) \in History
    BY <1>1, StateAfterIsHistory DEF TypeOK, RunIds
  <2>3. f \in Days /\ l \in Days
    BY SessionsAreDays DEF Request, RequestAfter
  <2> DEFINE bb == [account |-> q.account, mode |-> q.mode,
                    config |-> q.config, start |-> f,
                    end |-> l, parent |-> p, init |-> StateAfter(p)]
  <2>4. bb \in Binding
    BY <2>2, <2>3 DEF Binding, Request, RequestAfter
  <2>5. [pc |-> "check", request |-> q, binding |-> bb] \in Call
    BY <2>4 DEF Call
  <2> HIDE DEF S
  <2> QED BY <2>1, <2>4, <2>5
<1>3. BindingIsSound(b)
  <2>1. Lineage(b)
    <3>1. CASE p = 0
      BY <3>1, <1>2 DEF Lineage, StateAfter
    <3>2. CASE p # 0
      <4>1. /\ p \in RunIds /\ runs[p].status = "complete"
            /\ runs[p].binding.account = q.account
            /\ ~ (first <= runs[p].binding.end)
        BY <3>2, <1>1, <1>2 DEF Unacceptable
      <4>2. runs[p].binding \in Binding
        BY <4>1, Sound
      <4>3. runs[p].binding.end < first
        <5>1. runs[p].binding.end \in Days /\ first \in Days
          BY <4>2, SessionsAreDays DEF Binding, Request, RequestAfter
        <5> QED BY <5>1, <4>1 DEF Days
      <4> QED BY <3>2, <1>2, <4>1, <4>3 DEF Lineage, StateAfter
    <3> QED BY <3>1, <3>2
  <2>2. b.start \in Sessions(b.config, b.start, b.end)
    <3>1. first \in OpenDays[q.config] /\ first \in Days /\ first <= last
      BY <1>2, SessionsAreDays DEF Sessions, IsLast, Request, RequestAfter
    <3>2. first <= first
      BY <3>1 DEF Days
    <3> QED BY <1>2, <3>1, <3>2 DEF Sessions
  <2> QED BY <2>1, <2>2 DEF BindingIsSound
<1>4. c.pc = "check" /\ c.binding = b
  BY <1>2
<1> QED BY <1>1, <1>2, <1>3, <1>4, QuietStep

\* Every step keeps the invariant.
LEMMA InductiveStep ==
    ASSUME Inductive, [Next]_vars
    PROVE  Inductive'
<1> USE DEF Inductive
<1>idle. Idle \in Call /\ Idle.pc = "idle"
  BY DEF Idle, Call
<1>1. CASE UNCHANGED <<selected, runs, call>>
  <2>1. TypeOK'
    BY TypeStep
  <2>2. RunIds' = RunIds
    BY <1>1 DEF RunIds
  <2>3. \A b : BindingIsSound(b) => BindingIsSound(b)'
    BY <1>1, <2>2 DEF BindingIsSound, Lineage
  <2>4. (\A r \in RunIds : BindingIsSound(runs[r].binding))'
    BY <1>1, <2>2, <2>3 DEF BindingIsSound, Lineage
  <2>5. (/\ HeadIsFinishedRun /\ OneWriterPerRun /\ FinishedRunsExtend)'
    BY <1>1, <2>2
       DEF HeadIsFinishedRun, OneWriterPerRun, FinishedRunsExtend
  <2>6. CallsAreSound'
    BY <1>1, <2>2 DEF CallsAreSound, BindingIsSound, Lineage
  <2> QED BY <2>1, <2>4, <2>5, <2>6
<1>2. ASSUME NEW w \in Workers, NEW q \in RequestAfter(0..Len(runs)),
             StartCall(w, q)
      PROVE  Inductive'
  <2>1. q \in Request
    BY DEF Request, RequestAfter, TypeOK
  <2>2. PICK c \in Call : c.pc = "select" /\ Step(w, c)
    BY <1>2, <2>1 DEF StartCall, Call
  <2> QED BY <1>2, <2>2, QuietStep DEF StartCall
<1>3. ASSUME NEW w \in Workers, ReuseHead(w) PROVE Inductive'
  <2>1. PICK q \in Request : q = call[w].request
    BY <1>3, CallFields DEF ReuseHead, TypeOK
  <2>2. PICK h \in Nat : h = selected[q.account]
    BY DEF TypeOK, Request, RequestAfter
  <2>3. [pc |-> "reused", request |-> q, run |-> h] \in Call
    BY DEF Call
  <2>4. PICK c \in Call : c.pc = "reused" /\ Step(w, c)
    BY <1>3, <2>1, <2>2, <2>3 DEF ReuseHead
  <2> QED BY <1>3, <2>4, QuietStep DEF ReuseHead
<1>4. ASSUME NEW w \in Workers,
             \/ RejectRequest(w) \/ AccountIsNotActive(w)
             \/ FailRunRaises(w) \/ Crash(w)
      PROVE  Inductive'
  <2>1. PICK c \in Call : c.pc = "idle" /\ Step(w, c)
    BY <1>4, <1>idle
       DEF RejectRequest, AccountIsNotActive, FailRunRaises, Crash
  <2> QED BY <1>4, <2>1, QuietStep
          DEF RejectRequest, AccountIsNotActive, FailRunRaises, Crash
<1>5. ASSUME NEW w \in Workers, AccountIsActive(w) PROVE Inductive'
  <2>1. PICK q \in Request, b \in Binding :
          /\ q = call[w].request /\ b = call[w].binding
          /\ BindingIsSound(b)
    BY <1>5, CallFields DEF AccountIsActive, TypeOK, CallsAreSound
  <2>2. [pc |-> "insert", request |-> q, binding |-> b] \in Call
    BY DEF Call
  <2>3. PICK c \in Call : /\ c.pc = "insert" /\ BindingIsSound(c.binding)
                         /\ Step(w, c)
    BY <1>5, <2>1, <2>2 DEF AccountIsActive
  <2> QED BY <1>5, <2>3, QuietStep DEF AccountIsActive
<1>6. ASSUME NEW w \in Workers, ReuseRun(w) PROVE Inductive'
  <2>1. PICK r \in RunIds :
          Step(w, [pc |-> "reused", request |-> call[w].request, run |-> r])
    BY <1>6 DEF ReuseRun, SameBinding
  <2>2. call[w].request \in Request /\ r \in Nat
    BY <1>6, CallFields DEF ReuseRun, TypeOK, RunIds
  <2>3. [pc |-> "reused", request |-> call[w].request, run |-> r] \in Call
    BY <2>2 DEF Call
  <2>4. PICK c \in Call : c.pc = "reused" /\ Step(w, c)
    BY <2>1, <2>3
  <2> QED BY <1>6, <2>4, QuietStep DEF ReuseRun
<1>7. ASSUME NEW w \in Workers, LosePromotion(w) \/ RunRaises(w)
      PROVE  Inductive'
  <2>1. /\ call[w].request \in Request /\ call[w].run \in Nat
        /\ call[w].pc = "execute"
    BY <1>7, CallFields DEF LosePromotion, RunRaises, TypeOK
  <2>2. [pc |-> "fail", request |-> call[w].request, run |-> call[w].run] \in Call
    BY <2>1 DEF Call
  <2>3. PICK c \in Call : c.pc = "fail" /\ c.run = call[w].run /\ Step(w, c)
    BY <1>7, <2>2 DEF LosePromotion, RunRaises
  <2> QED BY <1>7, <2>1, <2>3, QuietStep DEF LosePromotion, RunRaises
<1>8. ASSUME NEW w \in Workers,
             \/ BindRun(w) \/ BeginRun(w) \/ AppendSession(w)
             \/ CompleteRun(w) \/ FailRun(w)
      PROVE  Inductive'
  BY <1>8, BindRunStep, BeginRunStep, AppendSessionStep, CompleteRunStep,
     FailRunStep
<1>9. CASE UNCHANGED vars
  BY <1>1, <1>9 DEF vars
<1>10. ASSUME NEW a \in Accounts, CreateAccount(a) PROVE Inductive'
  BY <1>1, <1>10 DEF CreateAccount
<1>11. ASSUME NEW a \in Accounts, NEW s \in Statuses, SetAccountStatus(a, s)
       PROVE  Inductive'
  BY <1>1, <1>11 DEF SetAccountStatus
<1> HIDE DEF Inductive
<1> QED
  BY <1>2, <1>3, <1>4, <1>5, <1>6, <1>7, <1>8, <1>9, <1>10, <1>11
     DEF Next, WorkerStep

\* Whatever calls are interrupted, retried or overtaken, the memory of every
\* live call agrees with the rows it is about to write.
THEOREM Invariance == Spec => []Inductive
<1>1. Init => Inductive
  BY InductiveInit
<1>2. Inductive /\ [Next]_vars => Inductive'
  BY InductiveStep
<1> QED BY <1>1, <1>2, PTL DEF Spec

\* Every run continues exactly what its parent left: no run starts from an
\* unfinished or a foreign portfolio, or repeats a session.
THEOREM LineageHolds == Spec => []LineageIsSound
<1>1. Inductive => LineageIsSound
  BY DEF Inductive, BindingIsSound, LineageIsSound
<1> QED BY <1>1, Invariance, PTL

\* The head of an account is always a finished run of that account.
THEOREM HeadsAreFinished == Spec => []HeadIsFinishedRun
<1>1. Inductive => HeadIsFinishedRun
  BY DEF Inductive
<1> QED BY <1>1, Invariance, PTL

\* A running row has one live writer, and no call writes to a finished row.
THEOREM RunsHaveOneWriter == Spec => []OneWriterPerRun
<1>1. Inductive => OneWriterPerRun
  BY DEF Inductive
<1> QED BY <1>1, Invariance, PTL

-----------------------------------------------------------------------------
(* The heads implement the account history.                                *)

\* A head that does not move stands for the same portfolio after the step.
LEMMA HeadIsKept ==
    ASSUME Inductive, [Next]_vars, NEW a \in Accounts,
           selected'[a] = selected[a]
    PROVE  StateAfter(selected[a])' = StateAfter(selected[a])
<1>1. CASE selected[a] = 0
  BY <1>1 DEF StateAfter
<1>2. CASE selected[a] # 0
  <2>1. selected[a] \in RunIds /\ runs[selected[a]].status = "complete"
    BY <1>2 DEF Inductive, TypeOK, HeadIsFinishedRun, RunIds
  <2>2. TypeOK
    BY DEF Inductive
  <2>3. runs'[selected[a]] = runs[selected[a]]
    BY <2>1, <2>2, RowsKept DEF RowKept
  <2> QED BY <1>2, <2>3 DEF StateAfter
<1> QED BY <1>1, <1>2

\* A promotion extends the portfolio of one account: the head still is the
\* parent the run started from.
LEMMA PromotionGrows ==
    ASSUME Inductive, [Next]_vars, NEW w \in Workers, CompleteRun(w),
           call[w].request.promote
    PROVE  \E a \in Accounts : AH!Grow(a)
<1>0. TypeOK /\ Inductive' /\ TypeOK'
  BY CompleteRunStep DEF Inductive
<1>1. PICK s \in RunIds, b \in Binding, st \in History :
        /\ s = call[w].run /\ b = runs[s].binding /\ st = call[w].state
        /\ selected[b.account] = b.parent
        /\ runs' = [runs EXCEPT ![s].status = "complete", ![s].final = st]
        /\ selected' = [selected EXCEPT ![b.account] = s]
        /\ AH!Extends(st, b.init) /\ Until(st, b)
        /\ BindingIsSound(b)
  <2>1. call[w].run \in RunIds /\ call[w].pc = "execute"
    BY <1>0 DEF CompleteRun, TypeOK
  <2>2. call[w].state \in History
    BY <1>0, <2>1, CallFields DEF TypeOK
  <2>3. /\ runs[call[w].run].binding \in Binding
        /\ BindingIsSound(runs[call[w].run].binding)
    BY <2>1, Sound
  <2> QED BY <2>1, <2>2, <2>3, CompleteRunStep DEF CompleteRun
<1>2. b.account \in Accounts
  BY DEF Binding
<1>3. StateAfter(selected[b.account]) = b.init
  BY <1>1 DEF BindingIsSound, Lineage, StateAfter
<1>4. StateAfter(selected[b.account])' = st
  <2>1. runs[s] \in Run /\ s # 0
    BY <1>0, RunFields DEF RunIds, TypeOK
  <2>3. runs'[s] = [runs[s] EXCEPT !.status = "complete", !.final = st]
    BY <1>1 DEF RunIds
  <2>4. runs'[s].final = st
    BY <2>1, <2>3 DEF Run
  <2>2. selected'[b.account] = s
    BY <1>0, <1>1, <1>2 DEF TypeOK
  <2> QED BY <2>1, <2>2, <2>4 DEF StateAfter
<1>5. ASSUME NEW a \in Accounts, a # b.account
      PROVE  StateAfter(selected[a])' = StateAfter(selected[a])
  BY <1>0, <1>1, <1>5, HeadIsKept DEF TypeOK
<1>6. ASSUME NEW a \in Accounts PROVE StateAfter(selected[a])' \in History
  <2>1. StateAfter(selected[a]) \in History
    BY <1>0, StateAfterIsHistory DEF TypeOK
  <2> QED BY <2>1, <1>4, <1>5
<1>7. AH!Grow(b.account)
  <2> DEFINE hist == [a \in Accounts |-> StateAfter(selected[a])]
  <2>1. AH!History = History
    BY DEF AH!History, AH!Applied, AH!Days, History, Applied, Days
  <2>2. hist' \in [Accounts -> AH!History]
    BY <1>6, <2>1
  <2>3. hist'[b.account] = st /\ hist[b.account] = b.init
    BY <1>2, <1>3, <1>4
  <2>4. \A a \in Accounts \ {b.account} : hist'[a] = hist[a]
    BY <1>5
  <2>5. AH!Extends(st, b.init) /\ AH!Increasing(st)
    BY <1>1 DEF Until
  <2> HIDE DEF hist
  <2>6. AH!Extends(hist'[b.account], hist[b.account]) /\ AH!Increasing(hist'[b.account])
    BY <2>3, <2>5
  <2> USE DEF hist
  <2> QED BY <2>2, <2>4, <2>6 DEF AH!Grow
<1> QED BY <1>2, <1>7

\* A step grows the history of one account, or none.
LEMMA HistoryStep ==
    ASSUME Inductive, [Next]_vars
    PROVE  [AH!Next]_[a \in Accounts |-> StateAfter(selected[a])]
<1> DEFINE hist == [a \in Accounts |-> StateAfter(selected[a])]
<1>1. CASE selected' = selected
  BY <1>1, HeadIsKept
<1>2. ASSUME NEW w \in Workers, CompleteRun(w), call[w].request.promote
      PROVE  AH!Next
  BY <1>2, PromotionGrows DEF AH!Next
<1>3. \/ selected' = selected
      \/ \E w \in Workers : CompleteRun(w) /\ call[w].request.promote
  BY DEF Next, WorkerStep, vars, CreateAccount, SetAccountStatus,
     StartCall, ReuseHead, RejectRequest, BindRun, AccountIsActive,
     AccountIsNotActive, ReuseRun, BeginRun, AppendSession, CompleteRun,
     LosePromotion, RunRaises, FailRun, FailRunRaises, Crash
<1> QED BY <1>1, <1>2, <1>3

\* The heads only ever extend the histories of their accounts, by later
\* sessions and one account at a time, whatever is concurrent, retried or lost.
THEOREM HeadsImplementHistory == Spec => HistorySpec
<1> DEFINE hist == [a \in Accounts |-> StateAfter(selected[a])]
<1>1. Init => AH!Init
  BY DEF Init, AH!Init, StateAfter
<1>2. Inductive /\ [Next]_vars => [AH!Next]_hist
  BY HistoryStep
<1> QED BY <1>1, <1>2, Invariance, PTL DEF Spec, HistorySpec, AH!Spec

-----------------------------------------------------------------------------
(* Sequences in order.                                                     *)

InOrder(rows) == \A i, j \in DOMAIN rows : i < j => rows[i] < rows[j]
Elements(rows) == {rows[i] : i \in DOMAIN rows}

\* A set of numbers that is not empty has a smallest one.
LEMMA SmallestExists ==
    ASSUME NEW S \in SUBSET Nat, S # {}
    PROVE  \E x \in S : \A y \in S : x <= y
<1>1. PICK x \in S : \A y \in S : ~(<<y, x>> \in OpToRel(<, Nat))
  BY NatLessThanWellFounded, WFMin
<1>2. \A y \in S : ~(y < x)
  BY <1>1 DEF OpToRel
<1> QED BY <1>2

\* A set of numbers has one order.
LEMMA OneOrder ==
    ASSUME NEW f \in Seq(Nat), NEW g \in Seq(Nat), InOrder(f), InOrder(g),
           Elements(f) = Elements(g)
    PROVE  f = g
<1>a. PICK m \in Nat, n \in Nat : m = Len(f) /\ n = Len(g)
  OBVIOUS
<1>b. DOMAIN f = 1..m /\ DOMAIN g = 1..n
  BY <1>a
<1>0. /\ \A i \in 1..m : f[i] \in Nat /\ \E j \in 1..n : f[i] = g[j]
      /\ \A i \in 1..n : g[i] \in Nat /\ \E j \in 1..m : g[i] = f[j]
      /\ \A i, j \in 1..m : i < j => f[i] < f[j]
      /\ \A i, j \in 1..n : i < j => g[i] < g[j]
  <2>1. \A i \in DOMAIN f : f[i] \in Elements(g)
    BY DEF Elements
  <2>2. \A i \in DOMAIN g : g[i] \in Elements(f)
    BY DEF Elements
  <2>3. (\A i \in DOMAIN f : f[i] \in Nat) /\ (\A i \in DOMAIN g : g[i] \in Nat)
    OBVIOUS
  <2> QED BY <1>b, <2>1, <2>2, <2>3 DEF Elements, InOrder
<1> DEFINE Differ == {i \in 1..m : i \in 1..n /\ f[i] # g[i]}
<1>1. Differ = {}
  <2> SUFFICES ASSUME Differ # {} PROVE FALSE
    OBVIOUS
  <2>1. PICK k \in Differ : \A i \in Differ : k <= i
    <3>1. Differ \in SUBSET Nat
      OBVIOUS
    <3> QED BY <3>1, SmallestExists
  <2>2. /\ k \in 1..m /\ k \in 1..n /\ f[k] # g[k]
        /\ \A i \in 1..m : i \in 1..n /\ i < k => f[i] = g[i]
    BY <2>1
  <2>3. g[k] < f[k]
    <3>1. PICK j \in 1..n : f[k] = g[j]
      BY <1>0, <2>2
    <3>2. ~(j < k)
      <4> SUFFICES ASSUME j < k PROVE FALSE
        OBVIOUS
      <4>1. j \in 1..m /\ f[j] = g[j]
        BY <2>2
      <4>2. f[j] < f[k] /\ f[k] \in Nat
        BY <1>0, <2>2, <4>1
      <4> QED BY <3>1, <4>1, <4>2
    <3>3. k < j
      BY <2>2, <3>1, <3>2
    <3> QED BY <1>0, <2>2, <3>1, <3>3
  <2>4. f[k] < g[k]
    <3>1. PICK j \in 1..m : g[k] = f[j]
      BY <1>0, <2>2
    <3>2. ~(j < k)
      <4> SUFFICES ASSUME j < k PROVE FALSE
        OBVIOUS
      <4>1. j \in 1..n /\ f[j] = g[j]
        BY <2>2
      <4>2. g[j] < g[k] /\ g[k] \in Nat
        BY <1>0, <2>2, <4>1
      <4> QED BY <3>1, <4>1, <4>2
    <3>3. k < j
      BY <2>2, <3>1, <3>2
    <3> QED BY <1>0, <2>2, <3>1, <3>3
  <2>5. f[k] \in Nat /\ g[k] \in Nat
    BY <1>0, <2>2
  <2> QED BY <2>3, <2>4, <2>5
<1>2. \A i \in 1..m : i \in 1..n => f[i] = g[i]
  BY <1>1
<1>3. ~(m < n)
  <2> SUFFICES ASSUME m < n PROVE FALSE
    OBVIOUS
  <2>1. m + 1 \in 1..n
    OBVIOUS
  <2>2. PICK j \in 1..m : g[m + 1] = f[j]
    BY <1>0, <2>1
  <2>3. j \in 1..n /\ j < m + 1 /\ f[j] = g[j]
    BY <1>2
  <2>4. g[j] < g[m + 1] /\ g[j] \in Nat
    BY <1>0, <2>1, <2>3
  <2> QED BY <2>2, <2>3, <2>4
<1>4. ~(n < m)
  <2> SUFFICES ASSUME n < m PROVE FALSE
    OBVIOUS
  <2>1. n + 1 \in 1..m
    OBVIOUS
  <2>2. PICK j \in 1..n : f[n + 1] = g[j]
    BY <1>0, <2>1
  <2>3. j \in 1..m /\ j < n + 1 /\ f[j] = g[j]
    BY <1>2
  <2>4. f[j] < f[n + 1] /\ f[j] \in Nat
    BY <1>0, <2>1, <2>3
  <2> QED BY <2>2, <2>3, <2>4
<1>5. m = n
  BY <1>3, <1>4
<1> QED BY <1>a, <1>b, <1>2, <1>5

-----------------------------------------------------------------------------
(* The rows of a run and its portfolio.                                    *)

\* The sessions of b but todo are the rows, in order, and the portfolio st is
\* the initial one with these applied.
IsWhole(b, rows, todo, st) ==
    /\ Elements(rows) \cup todo = Sessions(b.config, b.start, b.end)
    /\ InOrder(rows)
    /\ \A i \in DOMAIN rows : \A d \in todo : rows[i] < d
    /\ Len(st) = Len(b.init) + Len(rows)
    /\ \A i \in DOMAIN b.init : st[i] = b.init[i]
    /\ \A i \in DOMAIN rows : st[Len(b.init) + i] = [day |-> rows[i], config |-> b.config]

RunsAreWhole ==
    /\ \A r \in RunIds : runs[r].status = "complete" =>
          IsWhole(runs[r].binding, runs[r].sessions, {}, runs[r].final)
    /\ \A w \in Workers : call[w].pc = "execute" =>
          IsWhole(runs[call[w].run].binding, runs[call[w].run].sessions,
                  call[w].todo, call[w].state)

\* A row that is not finished and no call is in the loop of may change; any
\* other run and loop stays as whole as it is.
LEMMA WholeStep ==
    ASSUME Inductive, [Next]_vars, RunsAreWhole, NEW w \in Workers, NEW c \in Call, Step(w, c),
           \A r \in RunIds' \ RunIds : runs'[r].status # "complete",
           \A r \in RunIds : runs'[r] # runs[r] =>
               /\ call[w].pc \in {"execute", "fail"} /\ r = call[w].run
               /\ runs'[r].status = "complete" =>
                     IsWhole(runs'[r].binding, runs'[r].sessions, {}, runs'[r].final),
           c.pc = "execute" => IsWhole(runs'[c.run].binding, runs'[c.run].sessions,
                                       c.todo, c.state)
    PROVE  RunsAreWhole'
<1>1. TypeOK /\ TypeOK'
  BY TypeStep DEF Inductive
<1>2. \A r \in RunIds' : runs'[r].status = "complete" =>
          IsWhole(runs'[r].binding, runs'[r].sessions, {}, runs'[r].final)
  BY DEF RunsAreWhole
<1>3. ASSUME NEW v \in Workers, call'[v].pc = "execute"
      PROVE  IsWhole(runs'[call'[v].run].binding, runs'[call'[v].run].sessions,
                     call'[v].todo, call'[v].state)
  <2>1. call'[v] = IF v = w THEN c ELSE call[v]
    BY <1>1 DEF Step, TypeOK
  <2>2. CASE v = w
    BY <1>3, <2>1, <2>2
  <2>3. CASE v # w
    <3>1. call[v].pc = "execute" /\ call[v].run \in RunIds
      BY <1>1, <1>3, <2>1, <2>3 DEF TypeOK
    <3>2. runs'[call[v].run] = runs[call[v].run]
      BY <2>3, <3>1 DEF Inductive, OneWriterPerRun
    <3> QED BY <2>1, <2>3, <3>1, <3>2 DEF RunsAreWhole
  <2> QED BY <2>2, <2>3
<1> QED BY <1>2, <1>3 DEF RunsAreWhole

\* A new attempt has no rows, and all its sessions to do.
LEMMA BeginIsWhole ==
    ASSUME Inductive, [Next]_vars, RunsAreWhole, NEW w \in Workers, BeginRun(w)
    PROVE  RunsAreWhole'
<1>1. TypeOK
  BY DEF Inductive
<1>2. PICK n \in Nat \ {0}, b \in Binding, x \in Run :
        /\ b = call[w].binding
        /\ x = [binding |-> b, attempt |-> n, status |-> "running",
                sessions |-> <<>>, final |-> <<>>]
        /\ runs' = Append(runs, x)
        /\ Step(w, [pc |-> "execute", request |-> call[w].request,
                    run |-> Len(runs) + 1,
                    todo |-> Sessions(b.config, b.start, b.end), state |-> b.init])
  BY <1>1, BeginRunEffect
<1>3. PICK c \in Call :
        /\ c = [pc |-> "execute", request |-> call[w].request, run |-> Len(runs) + 1,
                todo |-> Sessions(b.config, b.start, b.end), state |-> b.init]
        /\ Step(w, c)
  <2>1. call[w].request \in Request /\ Len(runs) + 1 \in Nat
        /\ Sessions(b.config, b.start, b.end) \in SUBSET Days /\ b.init \in History
    BY <1>1, CallFields, SessionsAreDays DEF BeginRun, TypeOK, Binding
  <2>2. [pc |-> "execute", request |-> call[w].request, run |-> Len(runs) + 1,
         todo |-> Sessions(b.config, b.start, b.end), state |-> b.init] \in Call
    BY <2>1 DEF Call
  <2> QED BY <1>2, <2>2
<1>4. /\ RunIds = 1..Len(runs) /\ RunIds' = RunIds \cup {c.run}
      /\ runs'[c.run] = x
      /\ \A r \in RunIds : runs'[r] = runs[r]
  BY <1>1, <1>2, <1>3, AddRun DEF TypeOK, RunIds
<1>5. IsWhole(b, <<>>, c.todo, c.state)
  <2>1. b.init \in Seq(Applied)
    BY DEF Binding, History
  <2>2. c.todo = Sessions(b.config, b.start, b.end) /\ c.state = b.init
    BY <1>3
  <2>3. Elements(<<>>) = {} /\ DOMAIN <<>> = {} /\ Len(<<>>) = 0
    BY DEF Elements
  <2> QED BY <2>1, <2>2, <2>3 DEF IsWhole, InOrder
<1>6. x.binding = b /\ x.sessions = <<>> /\ x.status = "running"
  BY <1>2
<1> QED BY <1>3, <1>4, <1>5, <1>6, WholeStep

\* The earliest session left becomes the last row and the last one applied.
LEMMA AppendIsWhole ==
    ASSUME Inductive, [Next]_vars, RunsAreWhole, NEW w \in Workers, AppendSession(w)
    PROVE  RunsAreWhole'
<1>1. TypeOK
  BY DEF Inductive
<1>2. PICK s \in RunIds, b \in Binding, st \in History, todo \in SUBSET Days :
        /\ s = call[w].run /\ b = runs[s].binding
        /\ st = call[w].state /\ todo = call[w].todo
        /\ call[w].pc = "execute" /\ runs[s].status = "running"
        /\ IsWhole(b, runs[s].sessions, todo, st)
  <2>1. /\ call[w].run \in RunIds /\ call[w].pc = "execute"
        /\ runs[call[w].run].status = "running"
    BY <1>1 DEF AppendSession, TypeOK
  <2>2. call[w].state \in History /\ call[w].todo \subseteq Days
    BY <1>1, <2>1, CallFields DEF TypeOK
  <2>3. runs[call[w].run].binding \in Binding
    BY <2>1, Sound
  <2> QED BY <2>1, <2>2, <2>3 DEF RunsAreWhole
<1>3. PICK d \in todo :
        /\ IsFirst(d, todo)
        /\ runs' = [runs EXCEPT ![s].sessions = Append(@, d)]
        /\ Step(w, [pc |-> "execute", request |-> call[w].request, run |-> s,
                    todo |-> todo \ {d},
                    state |-> Append(st, [day |-> d, config |-> b.config])])
  BY <1>2 DEF AppendSession
<1> DEFINE rows == runs[s].sessions
           longer == Append(rows, d)
<1>4. PICK e \in Applied, c \in Call :
        /\ e = [day |-> d, config |-> b.config]
        /\ c = [pc |-> "execute", request |-> call[w].request, run |-> s,
                todo |-> todo \ {d}, state |-> Append(st, e)]
        /\ Step(w, c)
  <2>1. PICK f \in Applied : f = [day |-> d, config |-> b.config]
    BY DEF Applied, Binding
  <2>2. /\ Append(st, f) \in History /\ call[w].request \in Request
        /\ s \in Nat /\ todo \ {d} \in SUBSET Days
    BY <1>1, <1>2, CallFields DEF History, TypeOK, RunIds
  <2>3. [pc |-> "execute", request |-> call[w].request, run |-> s,
         todo |-> todo \ {d}, state |-> Append(st, f)] \in Call
    BY <2>2 DEF Call
  <2> QED BY <2>1, <2>3, <1>3
<1>5. runs[s] \in Run /\ rows \in Seq(Days)
  BY <1>1, RunFields
<1>6. /\ runs'[s].binding = b /\ runs'[s].sessions = longer
      /\ runs'[s].status = "running"
      /\ RunIds' = RunIds
      /\ \A r \in RunIds : r # s => runs'[r] = runs[r]
  <2>1. runs'[s] = [runs[s] EXCEPT !.sessions = longer]
    BY <1>3 DEF RunIds
  <2>2. runs'[s].binding = b /\ runs'[s].sessions = longer /\ runs'[s].status = "running"
    <3> HIDE DEF longer
    <3> QED BY <1>2, <1>5, <2>1 DEF Run
  <2> QED BY <1>3, <2>2 DEF RunIds
<1>7. IsWhole(b, longer, todo \ {d}, Append(st, e))
  <2> DEFINE g == Append(st, e)
  <2>1. /\ Elements(rows) \cup todo = Sessions(b.config, b.start, b.end)
        /\ InOrder(rows)
        /\ \A i \in DOMAIN rows : \A y \in todo : rows[i] < y
        /\ Len(st) = Len(b.init) + Len(rows)
        /\ \A i \in DOMAIN b.init : st[i] = b.init[i]
        /\ \A i \in DOMAIN rows : st[Len(b.init) + i] = [day |-> rows[i], config |-> b.config]
    BY <1>2 DEF IsWhole
  <2>2. /\ DOMAIN longer = DOMAIN rows \cup {Len(rows) + 1}
        /\ Len(longer) = Len(rows) + 1 /\ longer[Len(rows) + 1] = d
        /\ \A i \in DOMAIN rows : longer[i] = rows[i] /\ i \in 1..Len(rows)
        /\ Len(rows) \in Nat
    BY <1>5
  <2>3. /\ st \in Seq(Applied) /\ b.init \in Seq(Applied)
        /\ Len(g) = Len(st) + 1 /\ g[Len(st) + 1] = e
        /\ \A i \in 1..Len(st) : g[i] = st[i]
        /\ Len(st) \in Nat /\ Len(b.init) \in Nat
        /\ DOMAIN b.init = 1..Len(b.init)
    BY DEF History, Binding
  <2> HIDE DEF longer, g, rows
  <2>4. Elements(longer) = Elements(rows) \cup {d}
    BY <2>2 DEF Elements
  <2>5. Elements(longer) \cup (todo \ {d}) = Sessions(b.config, b.start, b.end)
    BY <2>1, <2>4
  <2>6. d \in Nat /\ \A y \in todo \ {d} : d < y
    BY <1>3 DEF IsFirst, Days
  <2>7. InOrder(longer)
    <3> SUFFICES ASSUME NEW i \in DOMAIN longer, NEW j \in DOMAIN longer, i < j
                 PROVE  longer[i] < longer[j]
      BY DEF InOrder
    <3>1. i \in DOMAIN rows
      BY <2>2
    <3> QED BY <3>1, <2>1, <2>2 DEF InOrder
  <2>8. \A i \in DOMAIN longer : \A y \in todo \ {d} : longer[i] < y
    BY <2>1, <2>2, <2>6
  <2>a. PICK k \in Nat, m \in Nat, n \in Nat :
          k = Len(b.init) /\ m = Len(rows) /\ n = Len(st) /\ n = k + m
    BY <2>1, <2>2, <2>3
  <2>b. k + (m + 1) = n + 1
    <3>1. n = k + m
      BY <2>a
    <3> QED BY <3>1
  <2>9. Len(g) = Len(b.init) + Len(longer)
    BY <2>2, <2>3, <2>a, <2>b
  <2>10. \A i \in DOMAIN b.init : g[i] = b.init[i]
    <3>1. \A i \in DOMAIN b.init : i \in 1..Len(st)
      BY <2>1, <2>2, <2>3
    <3> QED BY <2>1, <2>3, <3>1
  <2>11. \A i \in DOMAIN longer :
            g[Len(b.init) + i] = [day |-> longer[i], config |-> b.config]
    <3> SUFFICES ASSUME NEW i \in DOMAIN longer
                 PROVE  g[Len(b.init) + i] = [day |-> longer[i], config |-> b.config]
      OBVIOUS
    <3>1. CASE i \in DOMAIN rows
      <4>1. Len(b.init) + i \in 1..Len(st)
        BY <2>1, <2>2, <2>3, <3>1
      <4> QED BY <2>1, <2>2, <2>3, <3>1, <4>1
    <3>2. CASE i = Len(rows) + 1
      BY <1>4, <2>2, <2>3, <2>a, <2>b, <3>2
    <3> QED BY <2>2, <3>1, <3>2
  <2>12. IsWhole(b, longer, todo \ {d}, g)
    BY <2>5, <2>7, <2>8, <2>9, <2>10, <2>11 DEF IsWhole
  <2> QED BY <2>12 DEF g
<1>8. c.run = s /\ c.todo = todo \ {d} /\ c.state = Append(st, e)
  BY <1>4
<1> HIDE DEF longer
<1> QED BY <1>2, <1>4, <1>6, <1>7, <1>8, WholeStep

\* Nothing is left to do when a run completes.
LEMMA CompleteIsWhole ==
    ASSUME Inductive, [Next]_vars, RunsAreWhole, NEW w \in Workers, CompleteRun(w)
    PROVE  RunsAreWhole'
<1>1. TypeOK
  BY DEF Inductive
<1>2. PICK s \in RunIds, st \in History :
        /\ s = call[w].run /\ st = call[w].state
        /\ call[w].pc = "execute" /\ call[w].todo = {}
        /\ runs' = [runs EXCEPT ![s].status = "complete", ![s].final = st]
        /\ Step(w, [pc |-> "complete", request |-> call[w].request, run |-> s])
  <2>1. call[w].run \in RunIds /\ call[w].pc = "execute"
    BY <1>1 DEF CompleteRun, TypeOK
  <2>2. call[w].state \in History
    BY <1>1, <2>1, CallFields DEF TypeOK
  <2> QED BY <2>1, <2>2 DEF CompleteRun
<1>3. PICK c \in Call : c.pc = "complete" /\ Step(w, c)
  <2>1. call[w].request \in Request /\ s \in Nat
    BY <1>1, <1>2, CallFields DEF TypeOK, RunIds
  <2>2. [pc |-> "complete", request |-> call[w].request, run |-> s] \in Call
    BY <2>1 DEF Call
  <2> QED BY <1>2, <2>2
<1>4. /\ runs'[s].binding = runs[s].binding /\ runs'[s].sessions = runs[s].sessions
      /\ runs'[s].final = st /\ RunIds' = RunIds
      /\ \A r \in RunIds : r # s => runs'[r] = runs[r]
  <2>1. runs[s] \in Run
    BY <1>1, RunFields
  <2>2. runs'[s] = [runs[s] EXCEPT !.status = "complete", !.final = st]
    BY <1>2 DEF RunIds
  <2>3. /\ runs'[s].binding = runs[s].binding /\ runs'[s].sessions = runs[s].sessions
        /\ runs'[s].final = st
    BY <2>1, <2>2 DEF Run
  <2> QED BY <1>2, <2>3 DEF RunIds
<1>5. IsWhole(runs[s].binding, runs[s].sessions, {}, st)
  BY <1>2 DEF RunsAreWhole
<1> QED BY <1>2, <1>3, <1>4, <1>5, WholeStep

\* A run that fails is not finished.
LEMMA FailIsWhole ==
    ASSUME Inductive, [Next]_vars, RunsAreWhole, NEW w \in Workers, FailRun(w)
    PROVE  RunsAreWhole'
<1>1. TypeOK
  BY DEF Inductive
<1>2. PICK s \in RunIds : /\ s = call[w].run /\ call[w].pc = "fail"
                          /\ runs' = [runs EXCEPT ![s].status = "failed"]
  BY <1>1 DEF FailRun, TypeOK
<1>3. PICK c \in Call : c.pc = "idle" /\ Step(w, c)
  BY DEF FailRun, Idle, Call
<1>4. /\ runs'[s].status = "failed" /\ RunIds' = RunIds
      /\ \A r \in RunIds : r # s => runs'[r] = runs[r]
  <2>1. runs[s] \in Run
    BY <1>1, RunFields
  <2>2. runs'[s] = [runs[s] EXCEPT !.status = "failed"]
    BY <1>2 DEF RunIds
  <2> QED BY <1>2, <2>1, <2>2 DEF Run, RunIds
<1> QED BY <1>2, <1>3, <1>4, WholeStep

\* Any other step leaves the rows and the loops alone.
LEMMA RunsStayWhole ==
    ASSUME Inductive, [Next]_vars, RunsAreWhole
    PROVE  RunsAreWhole'
<1>1. ASSUME runs' = runs, \A w \in Workers : call'[w].pc = "execute" => call'[w] = call[w]
      PROVE  RunsAreWhole'
  BY <1>1 DEF RunsAreWhole, RunIds
<1>2. ASSUME NEW w \in Workers,
             BeginRun(w) \/ AppendSession(w) \/ CompleteRun(w) \/ FailRun(w)
      PROVE  RunsAreWhole'
  BY <1>2, BeginIsWhole, AppendIsWhole, CompleteIsWhole, FailIsWhole
<1>3. ASSUME NEW w \in Workers, NEW c, c.pc # "execute", Step(w, c)
      PROVE  \A v \in Workers : call'[v].pc = "execute" => call'[v] = call[v]
  <2>1. \A v \in Workers : call'[v] = IF v = w THEN c ELSE call[v]
    BY <1>3 DEF Step, Inductive, TypeOK
  <2> QED BY <1>3, <2>1
<1>4. Idle.pc # "execute"
  BY DEF Idle
<1>5. CASE UNCHANGED <<runs, call>>
  BY <1>1, <1>5
<1>6. ASSUME NEW w \in Workers,
             \/ ReuseHead(w) \/ RejectRequest(w) \/ BindRun(w) \/ AccountIsActive(w)
             \/ AccountIsNotActive(w) \/ ReuseRun(w) \/ LosePromotion(w) \/ RunRaises(w)
             \/ FailRunRaises(w) \/ Crash(w) \/ \E q \in RequestAfter(0..Len(runs)) : StartCall(w, q)
      PROVE  RunsAreWhole'
  <2>1. runs' = runs
    BY <1>6 DEF ReuseHead, RejectRequest, BindRun, AccountIsActive, AccountIsNotActive,
                ReuseRun, LosePromotion, RunRaises, FailRunRaises, Crash, StartCall
  <2>2. \E c : c.pc # "execute" /\ Step(w, c)
    BY <1>4, <1>6 DEF ReuseHead, RejectRequest, BindRun, AccountIsActive, AccountIsNotActive,
                      ReuseRun, LosePromotion, RunRaises, FailRunRaises, Crash, StartCall
  <2> QED BY <1>1, <1>3, <2>1, <2>2
<1> QED BY <1>2, <1>5, <1>6 DEF Next, WorkerStep, vars, CreateAccount, SetAccountStatus

\* Whatever calls are interrupted, retried or overtaken, every finished run
\* and every live loop is whole.
THEOREM Wholeness == Spec => []RunsAreWhole
<1>1. Init => RunsAreWhole
  BY DEF Init, Idle, RunsAreWhole, RunIds
<1>2. Inductive /\ RunsAreWhole /\ [Next]_vars => RunsAreWhole'
  BY RunsStayWhole
<1> QED BY <1>1, <1>2, Invariance, PTL DEF Spec

\* A finished run has committed every session of its binding, once and in
\* order, and its portfolio is the initial one with exactly those applied
\* (append_session, complete_run), however many calls and attempts there are.
THEOREM FinishedRunsStayWhole == Spec => []FinishedRunsAreWhole
<1>1. RunsAreWhole => FinishedRunsAreWhole
  BY DEF RunsAreWhole, FinishedRunsAreWhole, IsWhole, Elements, InOrder
<1> QED BY <1>1, Wholeness, PTL

\* Two finished attempts of one binding hold the same sessions and the same
\* portfolio, so it does not matter which of them a later call reuses
\* (begin_run takes the first).
THEOREM SameBindingsAgree == Spec => []SameBindingSameResult
<1>1. Inductive /\ RunsAreWhole => SameBindingSameResult
  <2> SUFFICES ASSUME Inductive, RunsAreWhole, NEW r \in RunIds, NEW s \in RunIds,
                      runs[r].binding = runs[s].binding,
                      runs[r].status = "complete", runs[s].status = "complete"
               PROVE  runs[r].sessions = runs[s].sessions /\ runs[r].final = runs[s].final
    BY DEF SameBindingSameResult
  <2>1. PICK b \in Binding, f \in Seq(Days), g \in Seq(Days), x \in Seq(Applied),
             y \in Seq(Applied) :
          /\ b = runs[r].binding /\ f = runs[r].sessions /\ g = runs[s].sessions
          /\ x = runs[r].final /\ y = runs[s].final
    BY RunFields DEF Inductive, History
  <2>2. IsWhole(b, f, {}, x) /\ IsWhole(b, g, {}, y)
    BY <2>1 DEF RunsAreWhole
  <2>3. f = g
    <3>1. f \in Seq(Nat) /\ g \in Seq(Nat)
      BY DEF Days
    <3>2. InOrder(f) /\ InOrder(g) /\ Elements(f) = Elements(g)
      BY <2>2 DEF IsWhole
    <3> QED BY <3>1, <3>2, OneOrder
  <2>4. PICK k \in Nat, m \in Nat : k = Len(b.init) /\ m = Len(f)
    BY DEF Binding, History
  <2>5. /\ DOMAIN b.init = 1..k /\ DOMAIN f = 1..m
        /\ Len(x) = k + m /\ Len(y) = k + m
    <3>1. b.init \in Seq(Applied)
      BY DEF Binding, History
    <3> QED BY <2>2, <2>3, <2>4, <3>1 DEF IsWhole
  <2>6. ASSUME NEW i \in 1..(k + m) PROVE x[i] = y[i]
    <3>1. CASE i \in 1..k
      BY <2>2, <2>5, <3>1 DEF IsWhole
    <3>2. CASE i \notin 1..k
      <4>1. PICK j \in 1..m : i = k + j
        <5>1. i - k \in 1..m /\ i = k + (i - k)
          BY <3>2
        <5> QED BY <5>1
      <4>2. x[k + j] = [day |-> f[j], config |-> b.config]
            /\ y[k + j] = [day |-> g[j], config |-> b.config]
        BY <2>2, <2>3, <2>4, <2>5 DEF IsWhole
      <4> QED BY <2>3, <4>1, <4>2
    <3> QED BY <3>1, <3>2
  <2>7. x = y
    BY <2>5, <2>6
  <2> QED BY <2>1, <2>3, <2>7
<1> QED BY <1>1, Wholeness, Invariance, PTL

-----------------------------------------------------------------------------
(* What a call was asked for.                                              *)

\* b is what q asks for.
AsAsked(q, b) ==
    /\ b.account = q.account
    /\ b.mode = q.mode
    /\ b.config = q.config
    /\ Sessions(q.config, b.start, b.end) = Sessions(q.config, q.start, q.end)
    /\ ~FollowsHead(q) => b.parent = q.parent

\* At each point of a call, what it holds is what it was asked for.
KeepsAsked(c, rows) ==
    /\ c.pc = "select" => (c.request.mode = "daily" => c.request.start = c.request.end)
    /\ c.pc \in {"check", "insert"} => AsAsked(c.request, c.binding)
    /\ c.pc \in {"execute", "fail", "complete", "reused"} =>
          AsAsked(c.request, rows[c.run].binding)
    /\ c.pc \in {"complete", "reused"} => rows[c.run].status = "complete"

CallsAreAsked == \A w \in Workers : KeepsAsked(call[w], runs)

\* One call moves to what still is what it was asked for.
LEMMA AskedStep ==
    ASSUME TypeOK, [Next]_vars, CallsAreAsked, NEW w \in Workers, NEW c, Step(w, c),
           KeepsAsked(c, runs')
    PROVE  CallsAreAsked'
<1> SUFFICES ASSUME NEW v \in Workers PROVE KeepsAsked(call'[v], runs')
  BY DEF CallsAreAsked
<1>1. call'[v] = IF v = w THEN c ELSE call[v]
  BY DEF Step, TypeOK
<1>2. \A r \in RunIds : /\ runs'[r].binding = runs[r].binding
                        /\ runs[r].status = "complete" => runs'[r].status = "complete"
  BY RowsKept DEF RowKept
<1>3. CASE v # w
  <2>1. KeepsAsked(call[v], runs)
    BY DEF CallsAreAsked
  <2>2. call[v].pc \in {"execute", "fail", "complete", "reused"} => call[v].run \in RunIds
    BY DEF TypeOK
  <2> QED BY <1>1, <1>2, <1>3, <2>1, <2>2 DEF KeepsAsked
<1> QED BY <1>1, <1>3

\* The sessions between the first and the last of some are these.
LEMMA BoundsAreSessions ==
    ASSUME NEW q \in Request, NEW first, NEW last,
           first \in Sessions(q.config, q.start, q.end),
           last \in Sessions(q.config, q.start, q.end),
           IsFirst(first, Sessions(q.config, q.start, q.end)),
           IsLast(last, Sessions(q.config, q.start, q.end))
    PROVE  Sessions(q.config, first, last) = Sessions(q.config, q.start, q.end)
<1>1. OpenDays[q.config] \subseteq Nat /\ q.start \in Nat /\ q.end \in Nat
  BY DEF Request, RequestAfter, Days
<1>2. first \in Nat /\ last \in Nat /\ q.start <= first /\ last <= q.end
  BY <1>1 DEF Sessions
<1>3. \A d \in OpenDays[q.config] :
          (first <= d /\ d <= last) <=> (q.start <= d /\ d <= q.end)
  <2> SUFFICES ASSUME NEW d \in OpenDays[q.config]
               PROVE  (first <= d /\ d <= last) <=> (q.start <= d /\ d <= q.end)
    OBVIOUS
  <2>1. q.start <= d /\ d <= q.end => first <= d /\ d <= last
    BY DEF IsFirst, IsLast, Sessions
  <2>2. d \in Nat
    BY <1>1
  <2> QED BY <1>1, <1>2, <2>1, <2>2
<1> QED BY <1>3 DEF Sessions

\* A call keeps to what it was asked for in every step.
LEMMA CallsStayAsked ==
    ASSUME Inductive, [Next]_vars, CallsAreAsked
    PROVE  CallsAreAsked'
<1>0. TypeOK
  BY DEF Inductive
<1>1. CASE UNCHANGED <<runs, call>>
  BY <1>1 DEF CallsAreAsked, KeepsAsked, AsAsked, FollowsHead
<1>2. ASSUME NEW w \in Workers,
             \/ RejectRequest(w) \/ AccountIsNotActive(w) \/ FailRun(w)
             \/ FailRunRaises(w) \/ Crash(w)
      PROVE  CallsAreAsked'
  <2>1. Step(w, Idle)
    BY <1>2 DEF RejectRequest, AccountIsNotActive, FailRun, FailRunRaises, Crash
  <2>2. KeepsAsked(Idle, runs')
    BY DEF KeepsAsked, Idle
  <2> QED BY <1>0, <2>1, <2>2, AskedStep
<1>3. ASSUME NEW w \in Workers, NEW q \in RequestAfter(0..Len(runs)), StartCall(w, q)
      PROVE  CallsAreAsked'
  <2>1. PICK c : c = [pc |-> "select", request |-> q] /\ Step(w, c)
    BY <1>3 DEF StartCall
  <2>2. c.pc = "select" /\ c.request = q /\ (q.mode = "daily" => q.start = q.end)
    BY <1>3, <2>1 DEF StartCall
  <2>3. KeepsAsked(c, runs')
    BY <2>2 DEF KeepsAsked
  <2> QED BY <1>0, <2>1, <2>3, AskedStep
<1>4. ASSUME NEW w \in Workers, ReuseHead(w) PROVE CallsAreAsked'
  <2>1. PICK q \in Request : q = call[w].request
    BY <1>0, <1>4, CallFields DEF ReuseHead, TypeOK
  <2>2. PICK r \in RunIds : r = selected[q.account]
    BY <1>0, <1>4, <2>1 DEF ReuseHead, RepeatsHead, TypeOK, RunIds, Request, RequestAfter
  <2>3. PICK c : c = [pc |-> "reused", request |-> q, run |-> r] /\ Step(w, c)
    BY <1>4, <2>1, <2>2 DEF ReuseHead
  <2>4. c.pc = "reused" /\ c.request = q /\ c.run = r /\ runs' = runs
    BY <1>4, <2>3 DEF ReuseHead
  <2>5. FollowsHead(q) /\ MatchesDailyRequest(runs[r], q)
    BY <1>4, <2>1, <2>2 DEF ReuseHead, RepeatsHead
  <2>6. q.start = q.end
    BY <1>4, <2>1, <2>5 DEF ReuseHead, CallsAreAsked, KeepsAsked, FollowsHead
  <2>7. AsAsked(q, runs[r].binding) /\ runs[r].status = "complete"
    BY <2>5, <2>6 DEF MatchesDailyRequest, AsAsked, FollowsHead
  <2>8. KeepsAsked(c, runs')
    BY <2>4, <2>7 DEF KeepsAsked
  <2> QED BY <1>0, <2>3, <2>8, AskedStep
<1>5. ASSUME NEW w \in Workers, BindRun(w) PROVE CallsAreAsked'
  <2>1. PICK q \in Request : q = call[w].request
    BY <1>0, <1>5, CallFields DEF BindRun, TypeOK
  <2>2. PICK first \in Sessions(q.config, q.start, q.end),
             last \in Sessions(q.config, q.start, q.end) :
          /\ IsFirst(first, Sessions(q.config, q.start, q.end))
          /\ IsLast(last, Sessions(q.config, q.start, q.end))
          /\ Step(w, [pc |-> "check", request |-> q,
                      binding |-> [account |-> q.account, mode |-> q.mode,
                                   config |-> q.config, start |-> first, end |-> last,
                                   parent |-> ParentOf(q), init |-> StateAfter(ParentOf(q))]])
    BY <1>5, <2>1 DEF BindRun
  <2>3. PICK b : b = [account |-> q.account, mode |-> q.mode, config |-> q.config,
                      start |-> first, end |-> last, parent |-> ParentOf(q),
                      init |-> StateAfter(ParentOf(q))]
    OBVIOUS
  <2>4. PICK c : c = [pc |-> "check", request |-> q, binding |-> b] /\ Step(w, c)
    BY <2>2, <2>3
  <2>5. c.pc = "check" /\ c.request = q /\ c.binding = b
    BY <2>4
  <2>6. AsAsked(q, b)
    <3>1. /\ b.account = q.account /\ b.mode = q.mode /\ b.config = q.config
          /\ b.start = first /\ b.end = last /\ b.parent = ParentOf(q)
      BY <2>3
    <3>2. Sessions(q.config, first, last) = Sessions(q.config, q.start, q.end)
      BY <2>2, BoundsAreSessions
    <3> QED BY <3>1, <3>2 DEF AsAsked, ParentOf
  <2>7. KeepsAsked(c, runs')
    BY <2>5, <2>6 DEF KeepsAsked
  <2> QED BY <1>0, <2>4, <2>7, AskedStep
<1>6. ASSUME NEW w \in Workers, AccountIsActive(w) PROVE CallsAreAsked'
  <2>1. PICK c : /\ c = [pc |-> "insert", request |-> call[w].request,
                         binding |-> call[w].binding]
                 /\ Step(w, c)
    BY <1>6 DEF AccountIsActive
  <2>2. c.pc = "insert" /\ c.request = call[w].request /\ c.binding = call[w].binding
    BY <2>1
  <2>3. KeepsAsked(c, runs')
    BY <1>6, <2>2 DEF AccountIsActive, CallsAreAsked, KeepsAsked
  <2> QED BY <1>0, <2>1, <2>3, AskedStep
<1>7. ASSUME NEW w \in Workers, ReuseRun(w) PROVE CallsAreAsked'
  <2>1. PICK r \in RunIds :
          /\ runs[r].binding = call[w].binding /\ runs[r].status = "complete"
          /\ Step(w, [pc |-> "reused", request |-> call[w].request, run |-> r])
    BY <1>7 DEF ReuseRun, SameBinding
  <2>2. PICK c : c = [pc |-> "reused", request |-> call[w].request, run |-> r] /\ Step(w, c)
    BY <2>1
  <2>3. c.pc = "reused" /\ c.request = call[w].request /\ c.run = r
    BY <2>2
  <2>4. AsAsked(call[w].request, call[w].binding) /\ runs' = runs
    BY <1>7 DEF ReuseRun, CallsAreAsked, KeepsAsked
  <2>5. KeepsAsked(c, runs')
    BY <2>1, <2>3, <2>4 DEF KeepsAsked
  <2> QED BY <1>0, <2>2, <2>5, AskedStep
<1>8. ASSUME NEW w \in Workers, BeginRun(w) PROVE CallsAreAsked'
  <2>1. PICK x, c :
          /\ x \in Run /\ x.binding = call[w].binding /\ runs' = Append(runs, x)
          /\ c.pc = "execute" /\ c.request = call[w].request /\ c.run = Len(runs) + 1
          /\ Step(w, c)
    BY <1>0, <1>8, BeginRunEffect
  <2>2. runs'[c.run] = x
    BY <1>0, <2>1, AddRun DEF TypeOK
  <2>3. AsAsked(call[w].request, call[w].binding)
    BY <1>8 DEF BeginRun, CallsAreAsked, KeepsAsked
  <2>4. KeepsAsked(c, runs')
    BY <2>1, <2>2, <2>3 DEF KeepsAsked
  <2> QED BY <1>0, <2>1, <2>4, AskedStep
<1>9. ASSUME NEW w \in Workers,
             AppendSession(w) \/ CompleteRun(w) \/ LosePromotion(w) \/ RunRaises(w)
      PROVE  CallsAreAsked'
  <2>1. call[w].pc = "execute" /\ call[w].run \in RunIds
    BY <1>0, <1>9 DEF AppendSession, CompleteRun, LosePromotion, RunRaises, TypeOK
  <2>2. PICK c : /\ Step(w, c) /\ c.request = call[w].request /\ c.run = call[w].run
                 /\ \/ c.pc = "execute" \/ c.pc = "fail"
                    \/ c.pc = "complete" /\ CompleteRun(w)
    <3>1. CASE AppendSession(w)
      <4>1. PICK e, todo, state :
              /\ e = [pc |-> "execute", request |-> call[w].request, run |-> call[w].run,
                      todo |-> todo, state |-> state]
              /\ Step(w, e)
        BY <3>1 DEF AppendSession
      <4>2. e.pc = "execute" /\ e.request = call[w].request /\ e.run = call[w].run
        BY <4>1
      <4> QED BY <4>1, <4>2
    <3>2. CASE LosePromotion(w) \/ RunRaises(w)
      <4>1. PICK e : /\ e = [pc |-> "fail", request |-> call[w].request, run |-> call[w].run]
                     /\ Step(w, e)
        BY <3>2 DEF LosePromotion, RunRaises
      <4>2. e.pc = "fail" /\ e.request = call[w].request /\ e.run = call[w].run
        BY <4>1
      <4> QED BY <4>1, <4>2
    <3>3. CASE CompleteRun(w)
      <4>1. PICK e : /\ e = [pc |-> "complete", request |-> call[w].request, run |-> call[w].run]
                     /\ Step(w, e)
        BY <3>3 DEF CompleteRun
      <4>2. e.pc = "complete" /\ e.request = call[w].request /\ e.run = call[w].run
        BY <4>1
      <4> QED BY <3>3, <4>1, <4>2
    <3> QED BY <1>9, <3>1, <3>2, <3>3
  <2>3. runs'[call[w].run].binding = runs[call[w].run].binding
    BY <1>0, <2>1, RowsKept DEF RowKept
  <2>4. AsAsked(call[w].request, runs[call[w].run].binding)
    BY <2>1 DEF CallsAreAsked, KeepsAsked
  <2>5. CompleteRun(w) => runs'[call[w].run].status = "complete"
    <3>1. runs[call[w].run] \in Run
      BY <1>0, <2>1, RunFields
    <3>2. CompleteRun(w) => runs'[call[w].run] = [runs[call[w].run] EXCEPT
              !.status = "complete", !.final = call[w].state]
      BY <2>1 DEF CompleteRun, RunIds
    <3> QED BY <3>1, <3>2 DEF Run
  <2>6. KeepsAsked(c, runs')
    BY <2>2, <2>3, <2>4, <2>5 DEF KeepsAsked
  <2> QED BY <1>0, <2>2, <2>6, AskedStep
<1> QED BY <1>1, <1>2, <1>3, <1>4, <1>5, <1>6, <1>7, <1>8, <1>9
        DEF Next, WorkerStep, vars, CreateAccount, SetAccountStatus

\* Every call works on what it was asked for.
THEOREM Asking == Spec => []CallsAreAsked
<1>1. Init => CallsAreAsked
  BY DEF Init, Idle, CallsAreAsked, KeepsAsked
<1>2. Inductive /\ CallsAreAsked /\ [Next]_vars => CallsAreAsked'
  BY CallsStayAsked
<1> QED BY <1>1, <1>2, Invariance, PTL DEF Spec

\* What run_daily and run_historical return is a finished run of what was
\* asked for, whether it was executed, reused or found at the head.
THEOREM CallsReturnWhatWasAsked == Spec => []ReturnedRunIsTheOneAsked
<1>1. CallsAreAsked => ReturnedRunIsTheOneAsked
  BY DEF CallsAreAsked, KeepsAsked, AsAsked, ReturnedRunIsTheOneAsked
<1> QED BY <1>1, Asking, PTL

-----------------------------------------------------------------------------
(* What a promoted run is part of.                                         *)

\* A history an account has been on stays a part of it.
LEMMA HistoryIsKept ==
    ASSUME Inductive, [Next]_vars, NEW a \in Accounts, NEW h \in History, OnHistory(a, h)
    PROVE  OnHistory(a, h)'
<1> DEFINE hist == [b \in Accounts |-> StateAfter(selected[b])]
<1>1. TypeOK /\ TypeOK'
  BY TypeStep DEF Inductive
<1>2. PICK g \in History : g = StateAfter(selected[a])
  BY <1>1, StateAfterIsHistory DEF TypeOK
<1>3. StateAfter(selected[a])' = g \/ AH!Extends(StateAfter(selected[a])', g)
  <2>1. hist' = hist \/ \E b \in Accounts : AH!Grow(b)
    BY HistoryStep DEF AH!Next
  <2>2. hist[a] = g /\ hist'[a] = StateAfter(selected[a])'
    BY <1>2
  <2>3. ASSUME NEW b \in Accounts, AH!Grow(b)
        PROVE  hist'[a] = hist[a] \/ AH!Extends(hist'[a], hist[a])
    BY <2>3 DEF AH!Grow
  <2> HIDE DEF hist
  <2> QED BY <2>1, <2>2, <2>3
<1>4. Len(h) <= Len(g) /\ \A i \in DOMAIN h : g[i] = h[i]
  BY <1>2 DEF OnHistory
<1>5. PICK k \in Nat, m \in Nat :
        /\ k = Len(h) /\ m = Len(g) /\ DOMAIN h = 1..k /\ DOMAIN g = 1..m /\ k <= m
  BY <1>4 DEF History
<1>6. CASE StateAfter(selected[a])' = g
  BY <1>4, <1>6 DEF OnHistory
<1>7. CASE AH!Extends(StateAfter(selected[a])', g)
  <2>0. StateAfter(selected[a])' \in History
    <3>1. selected'[a] \in 0..Len(runs') /\ runs' \in Seq(Run)
      BY <1>1 DEF TypeOK
    <3>2. CASE selected'[a] = 0
      BY <3>2 DEF StateAfter, History
    <3>3. CASE selected'[a] # 0
      <4>1. runs'[selected'[a]] \in Run
        BY <3>1, <3>3
      <4> QED BY <3>3, <4>1 DEF StateAfter, Run
    <3> QED BY <3>2, <3>3
  <2>1. PICK f \in History : f = StateAfter(selected[a])'
    BY <2>0
  <2>2. PICK n \in Nat : n = Len(f)
    BY DEF History
  <2>3. m < n /\ \A i \in 1..m : f[i] = g[i]
    BY <1>5, <1>7, <2>1, <2>2 DEF AH!Extends
  <2>4. k <= n /\ \A i \in 1..k : f[i] = h[i]
    BY <1>4, <1>5, <2>3
  <2> QED BY <1>5, <2>1, <2>2, <2>4 DEF OnHistory
<1> QED BY <1>3, <1>6, <1>7

\* A call that completes with a promotion has just moved the head to its run.
LEMMA PromotionIsOnHistory ==
    ASSUME Inductive, [Next]_vars, CallsAreAsked, NEW w \in Workers, CompleteRun(w),
           call[w].request.promote
    PROVE  OnHistory(call[w].request.account, runs[call[w].run].final)'
<1>0. TypeOK
  BY DEF Inductive
<1>1. PICK s \in RunIds, st \in History, a \in Accounts :
        /\ s = call[w].run /\ st = call[w].state /\ a = runs[s].binding.account
        /\ runs' = [runs EXCEPT ![s].status = "complete", ![s].final = st]
        /\ selected' = [selected EXCEPT ![a] = s]
  <2>1. call[w].run \in RunIds /\ call[w].pc = "execute"
    BY <1>0 DEF CompleteRun, TypeOK
  <2>2. call[w].state \in History
    BY <1>0, <2>1, CallFields DEF TypeOK
  <2>3. runs[call[w].run].binding.account \in Accounts
    BY <2>1, Sound DEF Binding
  <2> QED BY <2>1, <2>2, <2>3 DEF CompleteRun
<1>2. call[w].request.account = a
  BY <1>1 DEF CompleteRun, CallsAreAsked, KeepsAsked, AsAsked
<1>3. runs'[s].final = st
  <2>1. runs[s] \in Run
    BY <1>0, RunFields
  <2>2. runs'[s] = [runs[s] EXCEPT !.status = "complete", !.final = st]
    BY <1>1 DEF RunIds
  <2> QED BY <2>1, <2>2 DEF Run
<1>4. selected'[a] = s /\ s # 0
  BY <1>0, <1>1 DEF TypeOK, RunIds
<1>5. call'[w].request = call[w].request /\ call'[w].run = s
  BY <1>0, <1>1 DEF CompleteRun, Step, TypeOK
<1>6. Len(st) <= Len(st)
  BY DEF History
<1> QED BY <1>2, <1>3, <1>4, <1>5, <1>6 DEF OnHistory, StateAfter

\* Other steps keep what is promoted on the history.
LEMMA PromotedStays ==
    ASSUME Inductive, [Next]_vars, CallsAreAsked, PromotedRunStaysOnHistory
    PROVE  PromotedRunStaysOnHistory'
<1>0. TypeOK
  BY DEF Inductive
<1> SUFFICES ASSUME NEW w \in Workers, call'[w].pc = "complete", call'[w].request.promote
             PROVE  OnHistory(call[w].request.account, runs[call[w].run].final)'
  BY DEF PromotedRunStaysOnHistory
<1>1. CASE call'[w] = call[w]
  <2>1. /\ call[w].pc = "complete" /\ call[w].request.promote
        /\ OnHistory(call[w].request.account, runs[call[w].run].final)
    BY <1>1 DEF PromotedRunStaysOnHistory
  <2>2. PICK a \in Accounts, r \in RunIds :
          a = call[w].request.account /\ r = call[w].run
    BY <1>0, <2>1, CallFields DEF TypeOK, Request, RequestAfter
  <2>3. runs[r].status = "complete"
    BY <2>1, <2>2 DEF CallsAreAsked, KeepsAsked
  <2>4. PICK h \in History : h = runs[r].final /\ h = runs'[r].final
    BY <1>0, <2>3, RowsKept, RunFields DEF RowKept
  <2>5. OnHistory(a, h)'
    BY <2>1, <2>2, <2>4, HistoryIsKept
  <2> QED BY <1>1, <2>2, <2>4, <2>5 DEF OnHistory
<1>2. CASE call'[w] # call[w]
  <2>1. CompleteRun(w)
    <3>1. \A v, c : v \in Workers /\ Step(v, c) => call'[w] = IF w = v THEN c ELSE call[w]
      BY <1>0 DEF Step, TypeOK
    <3>2. \A v, c : v \in Workers /\ Step(v, c) => v = w /\ c.pc = "complete"
      BY <1>2, <3>1
    <3>3. ~UNCHANGED call
      BY <1>2
    <3>4. Idle.pc # "complete"
      BY DEF Idle
    <3>5. PICK v \in Workers :
            (\E q \in RequestAfter(0..Len(runs)) : StartCall(v, q)) \/ WorkerStep(v) \/ Crash(v)
      BY <3>3 DEF Next, vars, CreateAccount, SetAccountStatus
    <3>6. ASSUME NEW q, StartCall(v, q) PROVE FALSE
      <4>1. PICK c : c = [pc |-> "select", request |-> q] /\ Step(v, c)
        BY <3>6 DEF StartCall
      <4>2. c.pc = "select"
        BY <4>1
      <4> QED BY <3>2, <4>1, <4>2
    <3>7. ~RejectRequest(v) /\ ~AccountIsNotActive(v) /\ ~FailRun(v) /\ ~FailRunRaises(v)
          /\ ~Crash(v)
      BY <3>2, <3>4 DEF RejectRequest, AccountIsNotActive, FailRun, FailRunRaises, Crash
    <3>8. ~ReuseHead(v) /\ ~ReuseRun(v)
      <4> SUFFICES ASSUME ReuseHead(v) \/ ReuseRun(v) PROVE FALSE
        OBVIOUS
      <4>1. PICK q, r, c : c = [pc |-> "reused", request |-> q, run |-> r] /\ Step(v, c)
        BY DEF ReuseHead, ReuseRun
      <4>2. c.pc = "reused"
        BY <4>1
      <4> QED BY <3>2, <4>1, <4>2
    <3>9. ~BindRun(v) /\ ~AccountIsActive(v)
      <4> SUFFICES ASSUME BindRun(v) \/ AccountIsActive(v) PROVE FALSE
        OBVIOUS
      <4>1. PICK q, b, c : /\ Step(v, c)
                           /\ \/ c = [pc |-> "check", request |-> q, binding |-> b]
                              \/ c = [pc |-> "insert", request |-> q, binding |-> b]
        BY DEF BindRun, AccountIsActive
      <4>2. c.pc # "complete"
        BY <4>1
      <4> QED BY <3>2, <4>1, <4>2
    <3>10. ~BeginRun(v) /\ ~AppendSession(v)
      <4> SUFFICES ASSUME BeginRun(v) \/ AppendSession(v) PROVE FALSE
        OBVIOUS
      <4>1. PICK q, r, todo, st, c :
              /\ c = [pc |-> "execute", request |-> q, run |-> r, todo |-> todo, state |-> st]
              /\ Step(v, c)
        BY DEF BeginRun, InsertRun, AppendSession
      <4>2. c.pc = "execute"
        BY <4>1
      <4> QED BY <3>2, <4>1, <4>2
    <3>11. ~LosePromotion(v) /\ ~RunRaises(v)
      BY <3>2 DEF LosePromotion, RunRaises
    <3>12. CompleteRun(v)
      BY <3>5, <3>6, <3>7, <3>8, <3>9, <3>11, <3>10 DEF WorkerStep
    <3>13. v = w
      BY <3>2, <3>12 DEF CompleteRun
    <3> QED BY <3>12, <3>13
  <2>2. call'[w].request = call[w].request
    BY <1>0, <2>1 DEF CompleteRun, Step, TypeOK
  <2> QED BY <2>1, <2>2, PromotionIsOnHistory
<1> QED BY <1>1, <1>2

\* A call that executed its run, promoted it and returned has put it on the
\* account's history for good, whatever other calls promote before and after.
THEOREM PromotedRunsStay == Spec => []PromotedRunStaysOnHistory
<1>1. Init => PromotedRunStaysOnHistory
  BY DEF Init, Idle, PromotedRunStaysOnHistory
<1>2. Inductive /\ CallsAreAsked /\ PromotedRunStaysOnHistory /\ [Next]_vars
        => PromotedRunStaysOnHistory'
  BY PromotedStays
<1> QED BY <1>1, <1>2, Invariance, Asking, PTL DEF Spec
=============================================================================
