# Formal models of miniQMT / fundlab

TLA+ modules, TLC configurations and TLAPS proofs kept beside the Python package
`fundlab`: a research-to-simulation system for Chinese funds and stocks. It builds
canonical market-data snapshots from several public sources, publishes them in a
content-addressed warehouse, and replays strategies over them on persistent
simulated accounts.

## 1. The system

| part | source | state it keeps | operations | what makes it hard |
| --- | --- | --- | --- | --- |
| Trading runs and accounts | `trading/runtime.py`, `trading/repository.py` | SQLite tables: accounts (status, selected run), runs (binding, attempt, status, final state), ledger events and checkpoints per session | `create_account`, `set_account_status`, `run_daily`, `run_historical` (= `begin_run`, a loop of `append_session`, `complete_run` or `fail_run`) | several processes; state read in one transaction and used in a later one; crashes between transactions; retries |
| Trading kernel | `trading/kernel.py`, `state.py`, `fees.py`, `intent.py`, `schedule.py` | portfolio: cash, lots, orders, entitlements | `process_session` (corporate actions, expiry, execution, valuation), `submit_intent` | conservation of cash and cost, T+1, quantity rules, integer boundaries, order of the steps of one session |
| Warehouse | `marketdata/warehouse.py` | content-addressed objects, snapshot manifests, one current pointer | `commit_observation`, `publish`, `publish_if_current`, `current_snapshot_id` | compare-and-swap on a file, writers in several processes, crash between object and pointer |
| Reconciliation | `marketdata/reconciliation.py` | none (a function of observations) | `reconcile` | voting with tolerances, order dependence, gaps claimed by sources |
| History build | `marketdata/history.py` | staged batches, checkpoints, locks and shards on disk | `build`, `refresh`, `assemble` | resumption after a crash, parallel capture, retries, overlapping partitions |
| Components, incremental | `marketdata/components.py`, `incremental.py` | component manifests and their heads | `commit`, `extend`, `apply_scoped_update`, `publish_if_equivalent` | stale base, retry and collision of commits, partial failure |
| Trade rules | `marketdata/trade_rules.py`, `etf_rules.py` | none | price limits and quantity rules by date | intervals and their boundaries |
| Corporate actions | `marketdata/corporate_actions.py` | none | matching of announcements | duplicates and conflicts between sources |
| Point-in-time data | `marketdata/portal.py`, `adjustments.py` | an open snapshot | `session`, `PointInTimeMarketView`, adjustment factors | look-ahead: what a decision of day d may know |
| Simulation data | `marketdata/simulation_data.py` | staged frames | assembly of a simulation-grade snapshot | completeness checks across tables |
| Source adapters, contracts, legacy import, CLI, reports | `marketdata/sources/*`, `contracts.py`, `schema.py`, `legacy.py`, `cli.py`, `reporting.py` | none or remote | parsing, validation, output | outside the scope of a model |

How they interact: source adapters answer the history build and the incremental
updates, whose observations reconciliation turns into one frame per table; the
warehouse publishes it as an immutable snapshot; the trading runtime opens one
pinned snapshot, and in each session calls the kernel with the portfolio, the
strategy with a point-in-time view, and the repository with the result. The only
shared mutable state is the SQLite file of the repository and the directory of the
warehouse, both written by any number of processes.

## 2. Modules

### `TradingRuns` and `AccountHistory`

`TradingRuns` is the repository with its callers. Its state:

| variable | code |
| --- | --- |
| `status` | `trading_accounts.status`, `"absent"` before `create_account` |
| `selected` | `trading_accounts.selected_run_id`, the account head |
| `runs` | the rows of `simulation_runs` with the sessions that have a committed checkpoint; a run id is the row's place in the order of insertion |
| `call` | what each process holds in memory at the points where another one can come between: the request, the binding, the portfolio, the sessions left |

One SQLite transaction (`BEGIN IMMEDIATE`) is one action. A call of `run_daily` or
`run_historical` goes through

    StartCall -> ReuseHead | RejectRequest | BindRun          (reads of _run / run_daily)
              -> AccountIsActive | AccountIsNotActive         (begin_run, first connection)
              -> BeginRun | ReuseRun                          (begin_run, its transaction)
              -> AppendSession ...                            (one per session)
              -> CompleteRun | LosePromotion | RunRaises -> FailRun | FailRunRaises

and `Crash` may end it at any point. `BindRun` is one step although the code makes
several reads: the head is read once, and every other row it reads is a completed
run, which no step changes.

The portfolio is abstracted to the sequence of (day, configuration) pairs applied to
the account's initial portfolio. The kernel is a deterministic function of the state,
the session and what the binding pins, so two portfolios with equal sequences are
equal, and a session applied twice, left out, out of order or under another
configuration shows. A `Config` stands for the snapshot, strategy, policy and fee
hashes and the seed together; a snapshot also fixes the calendar, hence `OpenDays`.

`AccountHistory` is the promise: one variable, the history of each account; a step
appends later sessions to one account's history. `TradingRuns` implements it under
the refinement mapping `hist[a] = StateAfter(selected[a])`.

`MCTradingRuns` gives the model values, `TradingRunsProofs` holds the theorems.

### `TradingKernel`

One account's sessions, one after the other, with the arithmetic of the code: money in
cents (`money`), prices in ticks of one cent, quantities in whole shares. Its state is
`PortfolioState` (`cash`, `lots`, `orders`, `entitlements`, `prices`, `realized`,
`dividends`, `incomplete`), the session in progress (`day`, `bars`, `horizon` = the
last session of the snapshot's calendar), and what is left of it (`todo`, `due`). `held`
is the quantities in the session checkpoints. A session goes through

    OpenSession -> AllocateShareCost | ApplySplit | NoteAction | DeclineRights
                 | PayDividend | ListShares ...             (_apply_open_actions)
                -> SelectOrders -> RejectOrder | Buy | Sell ...   (_execute_order)
                -> CloseSession                  (_value_at_close, _capture_entitlements)
                -> NoIntent | SubmitIntent                        (submit_intent)

`pc = "actions"`, `"orders"`, `"decide"` and `"idle"` are the places in between; a
`ValueError` puts its reason in `pc`, and the run ends. The market may bring any bar of
`Bars` in any session and the strategy may ask for any weights of `Intents`. Orders of
one side execute in an order that the code takes from the instruments' names; the model
allows every order. `lot_id` is a digest, so where the code sorts by it the model uses
`Digests`, any injective numbering. The last lot of `_allocate_share_action_cost`
depends on how earlier steps left the tuple of lots; the model lets it be any lot.

A lot is identified by its instrument, its session and what it came from; that two lots
never share these rests on `OrdersAreForTomorrow` (at most one order for an instrument in
a session), which the `kernel_trading` run checks.

The corporate actions that fall on a session are a set, `todo`; `Precedes` gives the order
in which `_apply_open_actions` takes them. The binary search of `_affordable_buy_quantity`
is a recursive function, `AffordableSlot`.

`MCTradingKernel` gives the bars, the corporate actions and the policies.
`TradingLotsProofs` and `TradingKernelProofs` hold the theorems.

### `ComponentSnapshots` and `SnapshotPublication`

`ComponentSnapshots` is what a componentized snapshot means: a component is its
content (kind, scope, cells, dependencies), a snapshot an ordered list of references
with priorities, and its rows are composed from them (`OverlayKind`, `Compose`); a view
over a range of bars must replay exactly its `Closure`. `BootstrapRefs`, `ExtendRefs`
and `CorrectionRefs` are the references that `bootstrap`, `extend` and
`apply_scoped_update` append. Two tables are kept: bars, whose rows are dated, and
instruments, whose rows are not.

`SnapshotPublication` is the warehouse with its publishers:

| variable | code |
| --- | --- |
| `components`, `stored` | the component and snapshot directories in place; `stored` also counts how often a content was written, which stands for the bytes of its manifest (`created_at`) |
| `pointer` | `current.json`: a snapshot and the checksum of its manifest |
| `lock` | the holder of `.current.lock` |
| `call` | what each process's call holds: the snapshot it derives from, the one it builds, the components left to record |

    BeginBootstrap | BeginExtend | BeginCorrection | BeginResearch
        -> RecordComponents -> RenameSnapshot -> LoadSnapshot
        -> LockAndCompare -> ReplacePointer
    BeginShadow -> LoadSnapshot -> ...          (publish_if_equivalent)

and `Crash` at any point, which frees the lock as the system does. A directory is put in
place by a rename that fails if another process was first, and `LoadSnapshot` is the
verification that follows it. `BeginResearch` is `publish`, which takes the lock and
compares nothing.

### `HistoryReconciliation` and `HistoryBuild`

`HistoryReconciliation` is how the answers of two sources, or three, become the rows of
a partition: `SafeSuspensionKeys`, `PairPartition` with the tolerance of a pair, and
`AdjudicatedPartitions` with `Clusters`, `Winners` and `Published` for the consensus of
independent backends. Where the code breaks a tie by the providers' names, the model
takes any of the tied sets.

`HistoryBuild` is the builders. `observed` is the log of source observations,
`canonical` the partitions recorded, `checkpoint` the outcome of each batch of each build
(a build is its specification and its universe), `pointer` the partitions of what was
published, `call` a builder's memory, its copy of the checkpoint included.

    Begin -> ObserveUniverse                              (unless one is stored)
          -> OpenBatch -> Capture | SourceFails (twice, in any order)
                       -> ReconcilePair -> Capture | SourceFails -> Adjudicate
                       -> WriteCheckpoint ...             (one round per batch)
          -> FinishBuild

`Stop` may end a builder between any two steps. `OpenBatch` skips a batch that
`_restore_batch` accepts, and reuses observations of the same request unless the build
refreshes. `Assemble` joins the latest partitions of the builds over one universe, and
refuses any overlap.

### `EvidenceCollection`

The collectors of factor and action evidence and of the status of securities
(`SimulationEvidenceCollector`, `SimulationStatusCollector` of `simulation_data.py`): one machine with a `kind`, since both keep one
checkpoint for all batches (`checkpoint`), restore from it or from stored observations
(`Restore`, `Match`), ask for whole batches or for what failed, round after round
(`AskWhole`, `AskActions`, `AskFails`, `GatherActions`), and write the checkpoint whole
(`WriteCheckpoint`, `Report`). A refresh holds another lock than a normal collection and
shares its checkpoint. `Crash` at any point.

### `MarketData` with `Reconciliation`, `TradeRules`, `EtfRules`, `CorporateActions`, `SimulationStatus`, `PointInTime`

The preparation of canonical data is a set of functions of frames without state. Each is
a module of operators:

* `Reconciliation`: `ReconciliationService.reconcile` for daily bars: claims of
  completeness, clusters within a tolerance, one vote a backend, priorities, the
  suspended row;
* `TradeRules`: the dated rule of a stock, the cache of decisions by bucket, rounding to
  ticks, the exceptions and the audit of providers' limits;
* `EtfRules`: the rules of an ETF, the ratio inferred from today's limits, reuse of a
  report;
* `CorporateActions`: actions matched with factors, a second source, quarantine, the
  proof of the result;
* `SimulationStatus`: suspension, ST state, previous close and gaps of the dense bars;
* `PointInTime`: what a pinned snapshot answers at a date.

`MarketData` applies each of them to any of its inputs (`Study...`: the variable `study`
holds the input and the result) and runs the collection of evidence beside them. The
studies start only where no collection has begun, so the state space is the sum of the
two and not their product; nothing is lost, since a function does not depend on when it
is called. What the code requires of the inputs of a step before it takes them is an assumption of
`MarketData` (`BarInputsAssumption`, `StockInputsAssumption`, ...), which TLC evaluates.

## 3. Runs

| run | instance | what it shows |
| --- | --- | --- |
| `replay` | 2 accounts, 2 workers, 1 configuration, 3 days, 2 rows | what a run continues, who writes it, that attempts of one binding agree, and that the heads implement the append-only account history (the refinement), under all interleavings of two callers with crashes and retries |
| `calendars` | 1 account, 2 workers, 2 configurations whose calendars differ, 3 days, 2 rows, an operator who pauses the account, fair | the run returned is the run asked for, runs hold the open sessions only, every call returns |
| `inactive` | expected violation | a run starts on an account paused between `begin_run`'s two transactions |
| `promotion` | expected violation | a promoting call reuses a completed, never promoted run and leaves the head behind |
| `kernel_trading` | 2 instruments, 4 sessions, 4 kinds of bars, calendars that end at 3 or 4, calls that skip a session, a stock dividend and a cash dividend | what orders that compete for cash may fill, that the affordability search finds the largest, order expiry, settlement, disclosure of what could not be distributed |
| `kernel_actions` | 1 instrument, 5 sessions, 5 kinds of bars, seven corporate actions | conservation of cash and cost, one settlement for every entitlement, proportion of splits |
| `kernel_consolidation` | expected violation | a reverse split to no share loses the cost basis |
| `kernel_skipped` | expected violation | a skipped payment date is never made up for |
| `kernel_calendar_end` | expected violation | a lot bought on a calendar's last session never settles |
| `publication` | 1 instrument, 2 days of which the legacy snapshot has one, 2 processes, 4 snapshots, corrections of bars | the current snapshot stays whole and readable, increments and corrections change exactly what they were made for, publication is a compare-and-swap and loses no simulation update |
| `history` | 2 builders, 2 instruments, a build of both that publishes and one shard of another, 5 observations; two of the three sources may fail, one disagrees and marks a suspension | published rows are corroborated, no trade is hidden, publications have no instrument twice, finished batches stay |
| `data` | the small inputs of `MCMarketData` for every study; 2 collectors, 2 batches, 2 rounds, 2 observations | what each step prepares against a reference definition; evidence is sound and only failures are asked again |

Bounds of `TradingRuns`: two rows hold a failed or crashed attempt and its retry, a run
and its continuation, or two callers that race; three days a session before, between and
after; the second account shows that neither a head nor a parent crosses accounts, and the
second configuration that a binding is more than its dates. Longer
chains of runs are left to the theorems, which hold for every constant. `MaxRuns` only
stops new calls (`StartCall`), so it cuts no call short. In `replay` deadlock is not
checked: once crashed attempts have used up the rows, no call can start.

Bounds of `TradingKernel`: an order takes two sessions and a settlement a third, so four
sessions hold a purchase, a purchase on top of it and a sale of both, five a record date,
an ex-date and a payment date with trading in between. 73 cents at prices of 6 to 11
make every rounding (fees, impact, cost of a partial sale, proportional cost) happen and
leave too little cash for all orders. The minimum lot and the step differ between bars
(2 by 1, 3 by 2), so that a quantity may be normal at the close and not at the open.
Participation is half of a volume of 6 to 12, so the cap cuts orders too. Lots settle on
the session they are bought, the next or the one after: with one order an instrument
and session, a sale meets an unsettled lot only if settlement takes two sessions.
`MaxGap` is the number of sessions a daily call skips. Deadlock is not checked: after
the last session nothing is left to do.

Bounds of `SnapshotPublication`: the legacy snapshot, its bootstrap, and two derived ones
are enough for an increment and a correction in either order and for two publishers that
derive from the same snapshot. Two processes race for each directory and for the lock.
The corrections reach to the end of the history and not beyond. Deadlock is checked.

Bounds of `HistoryBuild`: one universe and the answers of two sources to one request take
three observations, the third source a fourth, and the fifth is a second look at the
universe or a request of the other shape. Each source answers about two sessions, in which
the pair agrees, differs in a volume, or marks a suspension. The two builds overlap in one
instrument and share a cohort. Deadlock is not checked: the observations may be used up.

Bounds of `MarketData`: inputs are made so that each boundary lies inside them: sessions on
both sides of every reform and of the five sessions after a listing, up to four providers
of three backends in every order, prices within and beyond a tolerance, previous closes
that round up and down, actions and factors up to and beyond 31 days apart, calendars with
a gap. One batch of two instruments may be half answered, the second batch shows that the
checkpoint is shared. Deadlock is not checked: a study is the last step.

Fairness: weak fairness of each worker's next statement. A call is synchronous code,
each transaction ends (SQLite's busy timeout raises an exception otherwise, which is
`RunRaises` or `FailRunRaises`), and nothing in a call waits for another call.
Neither an operator's action, a new call nor a crash is ever assumed to happen.

## 4. Proofs

`TradingRunsProofs`, from the assumptions on the constants only (`LastDay` a natural
number, calendars sets of days, statuses among the three):

* `TypeCorrect`: types and referential integrity.
* `RunsAppendOnly`: `RunsAreAppendOnly`, from `TypeOK` alone.
* `Invariance`: `Inductive`. The safety invariants are not inductive by themselves:
  that a run's lineage is sound depends on the binding a call fixed earlier and has not
  inserted yet, and that a finished portfolio extends the initial one depends on the
  loop variables of the call that wrote it. `Inductive` therefore adds
  `BindingIsSound` for bindings in flight and `LoopIsSound` for calls in their loop.
  Four lemmas carry the induction: what is sound stays sound (`SoundnessIsStable`,
  since a finished row never changes), a step that touches no row (`QuietStep`), one
  that rewrites the caller's own row (`WriteStep`), one that adds a row (`BeginRunStep`).
* `LineageHolds`, `HeadsAreFinished`, `RunsHaveOneWriter`: its corollaries.
* `HeadsImplementHistory`: `Spec => HistorySpec`. Only a promoting `CompleteRun` moves a
  head; `complete_run` has compared the head with the run's parent, so the new portfolio
  extends exactly the one the head stood for.

What runs hold and calls return, on top of `Inductive`:

* `FinishedRunsStayWhole` (`FinishedRunsAreWhole`) and, from it, `SameBindingsAgree`
  (`SameBindingSameResult`): the sessions and the portfolio of a finished run are
  functions of its binding. The invariant says of a call in its loop which
  sessions are committed and which are left.
* `CallsReturnWhatWasAsked` (`ReturnedRunIsTheOneAsked`): the binding of a call stays the
  one of its request through every branch.
* `PromotedRunsStay` (`PromotedRunStaysOnHistory`): a head only moves to a run that
  continues it.

Of `TradingRuns` only `CallsReturn` is left to TLC: liveness is beyond the prover.

`SnapshotPublicationProofs`, for any number of processes, any increments and corrections:

* `PointerIsIntact` (`CurrentIsIntact`), `OneReplaces` and `PointerIsSwapped`
  (`PublishedBySwap`). That the current snapshot loads is not inductive: it must be known
  of the snapshot about to replace it. `IInv` adds that the holder of the lock is the one
  process about to replace the pointer (`LockIsExclusive`), that what it compared still
  holds (`ComparisonHolds`), and that what was loaded before the lock stays loaded
  (`ReadyIsLoaded`), which follows since components and snapshots are only added, and the
  manifest of a stored snapshot is never written again.
* `WorkIsKept` (`NoUpdateLost`) and `TypeCorrect` (`TypeOK`). `WorkIsSound` says of every call
  that what it builds continues the snapshot it derives from, since references are only
  appended, or has been compared with it; the comparison under the lock makes that the
  current one. It needs that the references of every snapshot are a tuple, hence
  `LegacyAssumption` and the lemmas `BootstrapRefsAreListed` ... `CorrectionRefsAreListed`.
* `PublishedIsReadable` (`CurrentIsReadable`). A query of bars fails unless every view names
  exactly the components it replays, so a publisher must not disturb the closure of a view it
  did not make. `ArePlaced` says where every reference is: bars are dated within the snapshot's
  end, rows lie within their scope, and a table no correction touches has priorities in the
  order of its ordinals. An increment's bars are then later than everything there is and
  overlap nothing (`IncrementIsAfter`), a correction goes above everything
  (`CorrectionIsAbove`), and either way the closures of the older views are what they were
  (`ClosureIsStable`). That a view replays its closure is claimed also of snapshots without a
  row of bars (`IsSound`): readable alone is not inductive, since a query without rows looks at
  no view, and the first rows would bring it to light. Loading verifies the missing part.
* `DerivedIsExact` (`SuccessorsAreExact`). The rows of a snapshot are determined cell by cell by
  the topmost reference that holds it (`OverlayTop`, `ComposeRow`); a derived snapshot adds
  references above those in place (`CorrectionRows`) or for cells that had none
  (`IncrementBars`, `IncrementInstruments`), for any chain of increments and corrections.

The last two rest on two assumptions on the legacy snapshot. `LegacySlicesAssumption`: the
priority of its slices is at most 100 (`history.py` and the readers of manifests leave the
default 0; an increment adds 100, `incremental.py:652-727`), bars are dated, not
empty and lie within the slice, which is what recording a source component checks.
`LegacyReadableAssumption`: the accepted snapshot can be queried, which the bootstrap's caller
compares in `publish_if_equivalent`. TLC evaluates both in `publication`.

`HistoryBuildProofs`, from `SpecsAreValid`, `MasterAssumption` (one row an instrument),
`DistinctProviders` and `MaxObservedAssumption`, for any answers, backends and failures:

* `FinishedWorkStays` (`FinishedBatchesStay`): the checkpoint is replaced whole, from a
  copy read many steps earlier. The copy is current because the build lock admits one
  build with a specification, and a build that refreshes, which restores nothing, is past
  everything its checkpoint holds. These are `BuildsAreExclusive`, `CallsAreSound` and
  `CheckpointsAreSound` of `IInv`; `PartitionsAreSound` and `ObservedIsLog` tie partitions
  to the observations they name.
* `PublicationsAreSingle` (`PublishedOnce`): the batches of one shard are disjoint chunks
  of the master, and an assembly refuses any overlap.
* `TypesAreRight` (`TypeOK`).

`HistoryTradesProofs`, on top of it and from `HistoriesAssumption` (prices and volumes are
numbers), by one invariant `TInv`: an observation answers only what was asked
(`AnswersAreAsked`), a build's sources are those of its batch or of its conflicts (`IsAsking`),
and what is recorded is shown and backed.

* `TradesAreShown` (`NoTradeIsHidden`): `IsShown` is the claim itself for partitions in memory
  and on disk.
* `RowsHaveTwoBackends` (`RowsAreCorroborated`). Of a pair both values are within the tolerance
  of the one that is kept (`PairBacks`). Of three the value is that of one of the winners
  (`PublishedIsReported`), who have one exact key and two backends (`FieldIsBacked`). The exact
  key of a volume is a number of lots: BaoStock keeps odd-lot shares (`history.py:1901-1905`),
  so the volumes behind a row need not be equal, and with the volumes themselves in place of
  their keys the claim is false. The pair's two backends differ whenever a third source is
  asked; without that a failure to ask anybody about equal backends would pass for agreement.

`EvidenceCollectionProofs`, from `BatchesAssumption`: `EvidenceStaysSound`
(`EvidenceIsSound`) and `SuccessesAccumulate` (`OnlyFailuresAreAskedAgain`), from
`CollectionInv`, which says of the raw observations a call gathers and of its evidence in
memory what `EvidenceIsSound` says of what is stored.

`MarketDataProofs`: `DataEvidenceIsSound` and `DataSuccessesAccumulate` carry these over to the
specification that the `data` run checks. What is studied is the result for one of the inputs
(`StudiesAreMade`), so each of the following is a statement about a pure step, for every input
that the named assumption of `MarketData` admits:

* `ViewsDoNotLookAhead` (`NoLookAhead`), for every content of a snapshot: none of the operators
  of `PointInTime` looks at what the property cuts off.
* `AcceptedBarsAreSound` (`DenseBarsAreSound`), from `StatusInputsAssumption`: no volume is
  negative (`schema.py:318`) and no suspension is unknown (`simulation_data.py:758`). What is
  accepted has the expected sessions, and the sources agree that the active ones are those with
  a price (`CanonicalIsExpected`); a hole in the ST evidence is filled from the session before
  it or from nothing.
* `ReadyBarsAreCorroborated` (`CanonicalBarsAreCorroborated`), from `BarInputsAssumption`: a row
  has at most one value a field, and prices are whole ticks. The latter makes the half-tick
  tolerance an equality; between closer prices, clusters depend on the order of
  the rows, and "what two backends report" has no meaning of its own. By induction over the rows
  there is one cluster for each value, with everything that reports it, so that the
  winner is the value with the most backends and a tie is not ready.
* `AuditedLimitsAreTrue` (`LimitsAreTrue`), from `LimitInputsAssumption`: the row is bounded. Of
  two backends that agree one is right when at most one errs (`OneIsRight`).
* `RulesAreTheirDates` (`RulesAreDated`), from `StockInputsAssumption` (the calendar lacks no
  session after its first, sessions are from 2007 on, no stock is older than its board) and
  `EtfInputsAssumption` (the previous close of an ETF is more than ten ticks, without which
  rounding hides the ratio). A stock's decision is taken on the first day of its bucket of
  sessions and with an ordinal of at most six: `BucketsDecide` shows that neither makes a
  difference, `OrdinalIsTrue` that a calendar which starts late does not either, once it is
  past the fifth session. Of an ETF exactly one of the starts applies on a session
  (`OneStartApplies`), and the ratio that is rebuilt from the rounded limits is the one they
  were made with (`RatioIsObserved`).
* `AcceptedEventsAgree` (`ActionsAndFactorsAgree`), from `ActionInputsAssumption`: dates and
  rights are numbers and announced cash is positive (`schema.py:473-478`). It follows the two
  stages. What a second source leaves has every official action but restructurings, every
  factor that is not quarantined, and a fund's own cash alone with its factor
  (`CorroboratedKeeps`, `EtfKeeps`, `CarriedOver`). Of what is accepted (`VerifiedSays`) each
  matched date has one factor, because factors of different dates are at most two at one
  distance (`NearestIsOne`), and what is left over is technical or a copy of a factor that
  stays. Copies agree with it only as far as `Proves` does: the market may have taken up fewer
  rights than were offered, so two factors that prove one group may differ in their rights, and
  the property compares whether there are any, and their price.

`TradingKernelProofs`, for every market, calendar, policy and strategy that the named
assumptions of `TradingKernel` admit: `MarketAssumption` is what `schema.py` requires of a
simulation-ready snapshot, `PolicyAssumption` what the constructors of the policies and of
the fee schedule validate, `IntentsAssumption` what `TargetPortfolio` validates, and
`DigestsAssumption` that lot ids do not collide.

* `SettlementHolds`: `UnsettledLotsStay`. It needs no invariant: `Sell` is the only
  order step that removes lots, and it looks at `SettledLots`.
* `OrdersLiveOneSession`: `OrdersAreForTomorrow`, which alone is not inductive, since it
  says nothing of the time inside a session. `OrderLife` adds that at the open the
  orders of the last decision are due by now (also when the call skipped their session)
  and that `SelectOrders` leaves none, so that `SubmitIntent` adds to an empty set.
* `KernelTypes` (`TypeOK`), `NothingIsOverdrawn` (`NoneOverdrawn`) and
  `EveryCentIsSomewhere` (`BooksBalance`), from the invariant `Kept`: the types (`Typed`),
  that a name stands for one lot (`Named`: what was bought today is no name of an order
  still due, what was distributed none of a listing still to come), that cost waits with
  an entitlement only between its ex-date and its listing (`Waiting`), and one order an
  instrument (`Orderly`). Without `Named` a purchase could replace a lot in the set
  instead of adding one, and its cost would be lost. Each step has a lemma that says it
  keeps `Kept`, and, if the books balanced, that they still do. `EveryCentIsSomewhere` has
  the hypothesis `Growing`, that no split leaves fewer shares than there were: without it
  the theorem is false, as the `kernel_consolidation` run shows.
* `FillsAreLegal` (`FillsAreAllowed`): what a sale takes of each lot, the earliest first, adds
  up to the quantity that was approved (`TakenTotal`).
* `BuysAreTheLargest` (`BuysAreMaximal`): the price, the amount and the fees grow with the
  quantity through every division, limit and minimum (`BuyTotalGrows`), so that everything
  above what the search returns is unaffordable (`SearchIsComplete`). `NoneWaits` adds that
  an order is due only while orders execute.

Corporate actions, on top of `Kept`:

* `ListedSharesArrive` (`SharesArrive`): an entitlement to new shares has the quantity of the
  record date's checkpoint, and the listing adds it to the position or discloses what is
  missing, whatever `Sell` took in between.
* `EveryDividendIsPaid` (`DividendsArePaid`) and `EveryEntitlementIsSettled`
  (`EntitlementsAreSettled`), by one invariant: whoever saw a record date has an entitlement
  until the date that settles it, of what the checkpoint counted (`Promised`); what is still
  recorded is not yet due, and what was received is the sum over all that was due, action for
  action (`PaidOut`); and no action of a session is left over once orders execute
  (`NothingTodo`). Two hypotheses are stated in the theorems. `Daily` (`MaxGap = 0`) says that
  every session is processed: the run `kernel_skipped` shows what happens otherwise.
  `RecordedBefore` says that the record date is before the payment or the listing:
  `schema.py:460-500` admits all of them on one day, on which the payment at the open would
  come before the close that records who is entitled.
* `SplitsHandOutTheTotal` (`SplitsAreProportional`): the remainders of the lots add up to less
  than one share a lot with a remainder, so that the shares left over are no more than the lots
  that may take one (`TradingLotsProofs`), and the ranks by remainder are an injection into as
  many numbers, so that each rank is taken once.

`TradingLotsProofs` holds what these rest on. The library's induction theorems take the
property as an operator; `AllNaturals` and `SmallerFirst` state induction with the property as
a set instead, and derive it from the well-foundedness of the natural numbers. With it the
sum of a function over a finite set, which the community modules define by a fold over
`CHOOSE`, is shown not to depend on the order, and to split over disjoint sets; and the
recursive function of the search is shown to be defined and to keep `low` affordable.

Model-checked only: the liveness property `CallsReturn`.

## 5. What the code does and its documents do not say

Five disagreements have a run (section 3) and are listed in `PROJECT.json`. The following
showed while modelling; the properties above hold beside them, and where one is set aside
by a property or an instance it is said here.

Publication

* `publish` of a research history (`warehouse.py:744-752`) replaces the pointer without
  comparing it; `docs/foundation.md:86-87` calls publication "compare-and-swap protected".
  `PublishedBySwap` and `NoUpdateLost` allow exactly that.
* The instruments of an increment take the priority of its ordinals plus 100, a scoped
  update the greatest priority plus 100: a corrected instrument rule stays above the values
  of later increments. `SuccessorsAreExact` claims the rules of instruments only where they
  are not corrected.
* A declared impact that reaches beyond the end of the history makes a snapshot that is
  extended later unreadable: its view does not replay the new bars. The instances keep
  impacts within the history.
* An instrument rule that changes from A to B, to A and again to B yields the same component
  twice, and the verification of the snapshot raises. The instance has one rule.
* Two processes that record the same component or snapshot at once: the second rename
  raises and its call fails, although the content is in place. A snapshot's directory is in
  place before it is verified.

History

* A cohort (`history.py:345-350`, `:600-607`) leaves out batch size, shards, the universe's
  date and `publish`: builds of two shapes over one universe leave overlapping partitions,
  and none can be assembled from then on. So does a crash between the record of a partition
  and its checkpoint if the third source answers otherwise in the retry.
* `--refresh` captures the universe again, so each refreshed shard has a cohort of its own;
  two shards that both capture the first universe are split as well.
* A batch without a partition is retried, but from the same stored observations; the
  comment at `:1319-1321` holds for sources that failed.

Market data

* The increment validator (`simulation_data.py:1209-1222`, `:1253`) passes a calendar that
  starts with the increment, while `trade_rules.py:449-451` takes a session to be "certainly
  past the IPO first-five-session window"; `RulesAreDated` sets aside calendars that start
  within these sessions.
* A session that two providers reject and two accept becomes unbounded; `LimitsAreTrue`
  speaks of sessions in which at most one backend errs.
* Two factors of one rights issue within seven days that differ in the rights taken up both
  prove it; the nearer one counts and the other is dropped as a copy without a word
  (`corporate_actions.py:384-391`). `ActionsAndFactorsAgree` does not compare these numbers.
* The matching of actions and factors is not injective (`corporate_actions.py:130-139`), and
  a factor that is moved onto the date of a technical one collides with it and fails.
* `reconciliation.py:454` clusters in the order of digests: a chain of values, each within the
  tolerance of the next, is cut differently in another order. The inputs are two prices a
  tick apart, for which no chain arises.
* The lock of a collection includes whether it refreshes, its checkpoint does not: of a
  refresh and a normal collection at once the later writer's checkpoint stays.
* A stored status observation that claims to be complete, but that research refutes, blocks
  its batch until a refresh.

## 6. What is left

1. History: liveness of a build that is resumed while its sources answer again.
2. A composition of `TradingRuns` with the kernel's calendar over successive snapshots
   (`DailySchedule`), for liveness of daily operation.

## 7. Not modelled

Parsing and downloading in the source adapters, frame and column validation
(`contracts.py`, `schema.py`), the legacy audit, the command line, settings and reports:
no state of their own that outlives a call, or pure input and output. The conditions
that `schema.py` puts on a simulation-ready snapshot are assumptions of
`TradingKernel`. The hash chain of ledger events and the checksums inside a snapshot's
directory are left out: they detect tampering from outside, which no modelled actor does.
The assembly of an increment candidate from its parts (`simulation_data.py`) is checks
that raise or pass, and appears as what `BeginExtend` may be given. Tables other than daily
bars and instruments take the same path through components and reconciliation. The lineage
and the digests of rows, and the conflict check between the subclass and the ratio of a
Shanghai ETF (`etf_rules.py:132-138`), are left out.
