# QuantEngine: TLA+ models and proofs

This directory holds TLA+ models of QuantEngine (the Python platform under `src/`:
FastAPI backend, market-data feed, paper-order engine, research tools), the TLC
configurations that check them, and proofs about them for the TLA+ proof system.

## 1. The system

One Python process serves everything.  Its asyncio **event loop** runs the `async def`
endpoints and the market-data task; the `def` endpoints run in a **thread pool** beside it.
State that lasts is in SQLite (`database/engine.py`): every statement opens a connection of
its own and **commits alone**, so no two writes are ever one transaction.  Everything else
(flags, counters, caches, the event bus) is memory, and `startup_event` reads none of it back.

| Component (source) | State | Operations | Interacts with | Correct when |
|---|---|---|---|---|
| Order state machine (`core/execution/order_state_machine.py`) | `OrderRecord.status` | `transition` | called by the order engine | a status moves along one edge of the graph, and a final one stays |
| Paper order engine (`core/execution/paper_engine.py`) | `paper_orders`, `paper_fills` | `submit_paper_order` | gate, risk engine, connector, portfolio | the tables never claim what the venue did not do, and always know what the venue may know |
| Safety gate (`core/execution/safety_gate.py`) | `_reconciliation_blocked` | `evaluate_order`, `set_reconciliation_blocked` | order engine, reconciliation, audit log | nothing leaves while the stop or the block stands |
| Risk engine (`core/risk/risk_engine.py`) | stop flags, last trade time | `evaluate_pre_trade_risk`, `trigger/reset_emergency_stop` | positions table | an order is checked against the positions as they are when its fill is booked |
| Portfolio (`core/portfolio/portfolio_engine.py`) | `paper_positions`, `paper_balances` | `apply_fill`, `mark_to_market`, `get_portfolio_summary` | order engine, feed, UI threads | positions, cash and P&L are the sums of the fills |
| Reconciliation (`core/execution/reconciliation.py`) | none of its own | `reconcile_venue` | account adapters, safety gate | a report agrees with the gate, and every discrepancy in it has a cause |
| Connectors (`connectors/`) | websocket, sessions | submit, account queries, `connect/disconnect_market_data` | Coinbase, Alpaca | failures are reported as failures |
| Feed worker (`core/marketdata/worker.py`), session, queue | `_running`, session, writer, caches, counters | `start`, `stop`, `on_incoming_*`, `put` | adapter, raw chain, portfolio, bus | one session at a time; every message counted once |
| Raw chain (`core/marketdata/tamper_chain.py`) | JSONL file, handle, sequence, hash | resume, append, verify | feed worker | an accident never looks like tampering, tampering is seen, what was appended stays |
| Audit engine (`core/audit/audit_engine.py`) | `audit_events`, sequence, hash | `log_event`, `verify`, `reconstruct` | gate, startup, health endpoint | the chain verifies, and any edit of it is seen |
| Event bus (`core/events/bus.py`) | handlers | `subscribe`, `publish` | feed worker | nothing subscribes |
| Strategy registry (`core/strategies/base.py`) | `strategies`, `strategy_versions` | singleton, `register`, `freeze`, `promote` | API, research endpoints, certification | every builtin has its two rows, frozen together |
| Dataset registry (`core/research/dataset.py`) | parquet files, `datasets`, `risk_events` | `register`, `load`, `seal` | research endpoints, certification | no row without a file; a sealed dataset is not read, and every attempt leaves a row in `risk_events` |
| Credential vault (`core/security/credentials.py`) | data, salt and key file, singleton, error state | `store`, `get`, `remove`, `health` | connectors, API, certification | what was stored is kept, and a vault that does not open is not overwritten |
| Operator token (`core/security/credentials.py`) | token in memory and file | `get_or_create_token`, `verify_token` | API, frontend | every caller is given one token, also after a restart |
| Certification (`core/reporting/deterministic_reporter.py`) | sixteen report files | `evaluate_all_domains` | vault, registries, audit, guard | the files are of one evaluation, and what CERTIFIED needs was there |
| Backtest, walk-forward, validation (`core/research/`) | none | pure computations | API | no use of the future; windows do not overlap; corrections are the textbook ones |
| Lookahead guard, strategy library (`core/research/lookahead_guard.py`, `core/strategies/library.py`) | none | truncation and perturbation test; entries | certification | a strategy that reads ahead is caught, a causal one is not |
| Microstructure (`core/analytics/microstructure.py`) | footprint levels, cvd, bar, snapshot | `process_trade`, `calculate_volume_profile` | feed worker, UI threads | the sums agree; a value area covers 70% |
| Provenance, logging, configuration, scripts, frontend | files, browser state | rendering | all | not modelled: presentation |

What is hard here, and what no test of the repository reaches:

* **interleavings at an `await`**: two submissions between risk check and fill; a reconciliation
  between fetching and comparing; `stop` and `start` of the feed crossing each other;
* **failure between two commits**: order row, fill row, position and balance are four commits;
* **process death**: every flag, including the emergency stop and the reconciliation block, is lost;
* **answers that lie about failure**: an empty timeout text, an empty balance dictionary;
* **shared read-modify-write**: the vault file and the registries, from several threads.

`PROJECT.json` lists each hazard at its line with the properties that cover it.

## 2. Plan

In order of importance; the modules marked * exist.

1. `OrderLifecycle`* - the abstract promise of the order state machine.
2. `PaperExecution`* - submissions, tables, venue, crashes; implements `OrderLifecycle`.
   `PaperExecutionProofs`* - its invariants, for all constants.
3. `Reconciliation`*, `ReconciliationProofs`* - concurrent reconciliations and the one block flag.
4. `HashChain`* - linked records; `AuditChain`* and `RawChain`* - the event table and the raw
   message file that are made of them.
5. `MarketFeed`* - start/stop/connect/disconnect, the websocket task, queue counters;
   `MarketFeedProofs`* - its invariants, for all constants.
6. `Portfolio`*, `Microstructure`* - what fills and trades add up to, and what a reader in a thread
   sees meanwhile; `LiveState`* composes them with the two chains; `LiveStateProofs`* - the safety
   properties of all four, for all constants, on `SumTheorems`* and `FoldTheorems`*.
7. `Requests`* - calls in the thread pool; on it `OperatorToken`*, `CredentialVault`*,
   `StrategyRegistry`*, `DatasetRegistry`* and `Certification`*; `Platform`* composes them;
   `PlatformProofs`* - every property of theirs, for all constants.
8. `WalkForward`*, `Backtest`*, `MultipleTesting`*, `LookaheadGuard`* - algorithms against what they
   promise; `Research`* composes them; `ResearchProofs`* - all four, for all constants.

### 2.1 How the proofs are built

Every theorem is `Spec => []P` or `Spec => A` for an action property `A`, with an inductive
invariant in named parts: the initial states have it (`...Init` lemmas), every action keeps each
part it can disturb, and it implies the property.  Where components share a specification the proof
goes component by component: a step of one leaves the others' variables alone.

Two modules hold facts about the community modules' operators that the proofs need.

* `SumTheorems`: the sum of a function over a finite set (`SumFunctionOnSet`) - what it is when an
  element enters or leaves, when one value changes, when it grows, when zeros are left out.
* `FoldTheorems`: `FoldLeft` with an operator that is a CONSTANT of the module; a proof takes the
  module once for each operator it folds with (`INSTANCE FoldTheorems WITH Op <- Split`).  `Folded`
  is the recursion: the fold of `Append(s, e)` is the operator applied to the fold of `s` and to
  `e`. `RunsOver` is a function defined by recursion over an interval of integers: it exists, it
  satisfies its equation (`RunsAt`), and two that agree on what they read up to a bar agree up to it
  (`RunsAgree`).

The library's induction rules take an operator as a parameter, which the installed provers cannot
instantiate.  Both modules, and every induction in the proofs, use the *minimal counterexample*
instead: a set of finite sets that is not empty has a member without a smaller one in it
(`MinimalSubset`, from the library's well-founded orderings), and the lemma holds for it since it
holds for what is smaller.

Every invariant and action property that a run checks is a theorem.  Four properties stay with TLC,
since fairness and ENABLED are out of the provers' reach: `SubmissionEnds`, `ReconciliationEnds`,
`StopEnds` and `WalkEnds`.  So do the five claims that runs refute, which are false.

## 3. The order engine

### 3.1 Modules

`OrderLifecycle` is LEGAL_TRANSITIONS and `transition` and nothing else: an order is absent,
is created, and then moves along one edge.  It is checked and proved as what `PaperExecution`
implements (`FollowsLifecycle`), so a finished order stays as it is and a fill needs an acknowledgement.

`PaperExecution` has one coroutine per order.  `loop` names the coroutine that holds the event loop,
`pc[o]` the next statement of the submission, `task[o]` how it stands.  A statement that commits to
SQLite is an action that may also fail, which raises where the code raises; `Crash` ends every
coroutine and clears the flags between any two actions.  `mem[o]` is the `OrderRecord`, `row[o]`,
`fills[o]`, `position`, `cash` are the tables.  The sandbox is `venue` and `vfill`: it may take,
refuse or execute an order at any time after the request left, also after the coroutine stopped
waiting.  `stopOrder` is a history variable: it records what the operator asked for.

What the adapters do decides what can happen (`Dispatch`, `DispatchMock`).  Coinbase's reads
`order.time_in_force` of a LIMIT order (coinbase_connector.py:237) and Alpaca's of every order
(alpaca_connector.py:54); `OrderRecord` has no such attribute, so a LIMIT never leaves and nothing
leaves for Alpaca.  Coinbase orders of the other types are sent, and the coroutine awaits the
answer, which never has the keys the engine takes a fill from (coinbase_connector.py:252-257): the
ledger does not hear of what the sandbox executes.  The only adapter that reports fills is the mock
of the tests, which `ExchangeRegistry` takes in TEST mode: it books the whole order at the request's
price, or at an invented one, without suspending.  So a booked fill has a price of its own, and is
always of the submission that holds the loop.

The risk check is at prices too: `Exposure` is the positions at their stored market prices (`mark`),
which a fill sets in a new row only and `MarkToMarket` moves; `Estimate` is the price of the request,
whatever its type, or else the ticker's, and without either the check raises.

Abstracted: a fee is one number, the same for every fill; the gate's checks of constants (paper
mode, connector capabilities, canonical host) hold for every registered connector; `risk_events` and
the audit log are written and read by nothing here; reads of SQLite do not fail; average prices are
in `Portfolio`.

### 3.2 Runs

| Run | Question | Bounds |
|---|---|---|
| `paper_execution` | the invariants, the action properties and the refinement | 2 orders (symmetric), 2 symbols, 12 requests: fills through the mock at, above and below market and estimate, a sale, a price that is no price, one order for each sandbox, and one request per check that turns requests down; quantities to 3, market prices 1 and 2, limits 2 / 3 / 1, so that each is reached by one order and broken by two |
| `paper_liveness` | every submission ends | 2 orders, 5 requests: two that reach the sandbox, one of each other adapter or outcome |
| `rejected_live` | "REJECTED: fails validation, safety gate, or risk limits" (docs/PAPER_TRADING.md:28; does not hold: a MARKET order whose request timed out is REJECTED and booked) | 2 orders, the 2 requests that reach the sandbox |

Two orders are enough for the interleavings: every property speaks of one order or of a pair, and
the only things orders share are the loop, the flags and the positions.  `paper_execution` has
276,694 distinct states, `paper_liveness` 292,424.

Fairness: `FairSpec` asks that a submission whose next step is enabled takes it.  The event loop
resumes ready coroutines, and the adapters give `aiohttp` a total timeout of 5 seconds, so the
await ends whatever the venue does.  The venue, the operator and crashes have no fairness.

### 3.3 Proofs (`PaperExecutionProofs`)

For every set of orders, symbols and requests and every limit (`RequestsAssumption`,
`FiniteAssumption`): type correctness, `WriteAhead`, `NoSyntheticFill`, `RowsSettle`,
`LedgerFollowsFills`, `FillKeepsLimits`, `StopHolds`, `RowsMoveForward`, and that `PaperExecution`
implements `OrderLifecycle`.

The argument rests on the inductive invariant `IInv`.  None of the properties is inductive: that a
request leaves only after its row says SUBMITTING depends on where the coroutine stands, so `IInv`
says for every statement of the submission what the record (`RecordAt`), the row (`RowAt`), the
venue and the fill (`VenueAt`) and the loop (`LoopAt`) are at that point.  `StopHolds` needs that a
coroutine between its checks and the request holds the loop, so that the operator's stop cannot come
in between.  `FillKeepsLimits` says that when a fill is booked the number of positions is within its
limit, and so is the exposure, unless the position is then valued above what the check estimated.
It needs `LimitsReserved`: a submission that passed the check and may still book a fill holds the
loop, and finds its place and its share of the exposure free (`ExposureGrows`, over the lemmas of
`SumTheorems`, bounds what a fill adds).  `LedgerFollowsFills` is inductive with the fill records:
each ledger statement adds one fill to the sum, by the lemmas of `SumTheorems`.  The proofs split by
action; a step of one submission frames all others (`StepFrame`, `FrameKeeps`).

Left to TLC: `SubmissionEnds`, which is liveness.

Observations next to what is proved.  Between fills the exposure passes its limit without any
overlap: by `MarkToMarket`, by a fill above the estimate, by a LIMIT below the market, or by a
MARKET order that came with a price of its own, which nothing validates; the code does not watch for
it.  The emergency stop lives in memory: `StopHolds` is about one process, and a restart lifts the
stop (docs/SAFETY.md:25 does not say so).  Nor does the stop cancel anything, as docs/SAFETY.md:26
says: `cancel_paper_order` has no caller.  A FILLED answer without a size is booked with the size
and price of the order (paper_engine.py:143-145); `NoSyntheticFill` says that the venue did fill the
order, not how much of it.

## 4. Reconciliation

`Reconciliation` has one coroutine per call of `reconcile_venue`.  Its one real await is the request
for the balances: the position listings of both adapters are `[]` without suspending, so from the
answer on the call holds the loop.  Beside the calls run orders (`Send` is gate and request, which
no await separates; `VenueExecutes` comes any time later, also when the gate has closed meanwhile),
fills that are booked (`Book`), accounts that move at the venue (`Drift`) and restarts.
`VenueAnswers` chooses among what the account adapters return: an exception, the empty dictionary
into which both turn every failure, or the account as it was when the venue looked.  A venue lists
assets that `paper_balances` has no row for (Alpaca `equity` and `buying_power`, Coinbase an account
per currency): they count as zero (reconciliation.py:83), and whatever the venue has of them is a
discrepancy.  `differed`, `compared` and `verdict` are history.

| Run | Question | Bounds |
|---|---|---|
| `reconciliation` | the report never contradicts the gate (`ReportMatchesStatus`); what a report names did differ, at the venue or by a fill, while the call was under way (`DiscrepancyHasCause`); every call ends | 2 calls, 1 venue, 1 unknown name, one asset the ledger keeps and one it does not, balances to 1 unit; 346,736 states |
| `balanced_compared` | "never BALANCED when the comparison was not performed" (does not hold) | as above |
| `unknown_blocks` | "if venue state cannot be retrieved, state is UNKNOWN and new orders are blocked" (does not hold: one flag serves all venues, and one that balances lifts the block of another) | 2 venues |

Two calls are the smallest number that interleave, and a third adds no new pair.  With one venue
the first run is small enough for the fairness graph; the three theorems hold for any number of venues
and assets.  `FairSpec` asks for the steps of a call: the loop resumes ready coroutines and aiohttp's
total timeout answers for a silent venue.

`ReconciliationProofs`: `ReportHolds` rests on the loop being held from the verdict to the report,
so the flag that is read again is the flag that was set (`FlagInv`); `DiscrepancyHolds` on what a
waiting call has not seen differ being equal at the venue, in the ledger and in the listing it waits
for (`SeenInv`); `TypeCorrect` is the types.  The end of a call is liveness, and only model-checked.

What no property says, because it is not so: an order in flight when a block comes is executed all
the same; a block is lost with the process; and `DiscrepancyHasCause` does not say that money is
missing, only that the listing and the ledger did differ.  Asset by asset, an account whose extra
keys are above zero is DISCREPANCY_DETECTED every time, and new orders stay blocked.

## 5. The hash chains

`HashChain` is a record with the hash of the one before, and the test that a sequence of them is a
chain.  A hash is the pair of what was hashed, which is what "collision-free" means.  Both chains
are made of it, and differ in what can go wrong where they are kept.

### 5.1 The audit table

`AuditChain` is the table `audit_events`, the two counters in memory and the verification.  A
content stands for timestamp, signature and details together.  `actor` and `audit_id` are not
hashed by the code and are left out; a row whose details do not parse makes the verification
raise, and is left out too.

In the `live_state` run it has 2 contents besides the startup event, 5 numbers and 2 edits or
deletions: enough for an edit in the middle, a deletion before it, a failed insert and a restart
between.

* `ChainUnbroken`: rows nobody touched are linked (`LinksUnbroken`), and where the chain does
  not verify, an insert failed or somebody touched it (`BreakHasCause`);
* `TamperingIsSeen`: a row edited (`EditIsSeen`) or deleted (`HoleIsSeen`) earlier still shows
  after later rows and restarts;
* `StartExtendsChain`: after a restart the process goes on from the last row.

`LiveStateProofs` proves all of them for every set of contents and every bound (`ChainHolds`,
`TamperingHolds`, `StartHolds`).  The invariant (`AuditInv`) says that the numbers rise,
that every row is one that was written but for its content, that a missing number is in no row,
that untouched rows are one chain whose end the process holds, and that without failures the
numbers are the positions.  The nesting of the hashes does the work: a row whose hash fits its
content can only be the row that was written.

Observations: a failed INSERT uses up a number, and the chain then has a hole no one made
(docs/TROUBLESHOOTING.md:18 knows only outside causes); the newest rows can be deleted unseen
(docs/AUDIT.md:9 says any deletion is seen) - `HoleIsSeen` says which are.

### 5.2 The raw message file

`RawChain` is the JSONL file as text: a line is two halves and a newline, so a write may stop in
the middle of a record and just before its newline.  What a flush could not write stays in the
handle and goes out with the next one, or is lost with the process.  `Resume` reads the file as
the writer's constructor does: its non-blank lines, each of which must parse.  (The platform gives every
session a new id and so a new file; the writer takes an existing one up all the same.)

The `live_state` run has 3 messages, 2 accidents (failed appends, deaths) and 1 change of the
closed file (a payload, a line left out, two lines exchanged): a torn line, a resume behind it and a
third record fit in.  `RawFileKept` has three parts: a death and the resume after it never look
like tampering; what an append returned is in the file, also after appends that failed
halfway, unless a death tore a line; and in a file that verifies every record is as it was written.

`LiveStateProofs` proves it for any number of messages, accidents and changes (`RawFileHolds`).
`RawInv` looks at the file as the reader splits it (`SplitUp`): whole lines, and an open one.  An
untouched file without failed appends is in one of four states (`ChainedInv`): it holds a line that
does not parse; its last line is torn and has no writer; it is a chain whose end the writer holds; or
only the last newline is missing, and the next record will make it unreadable.  What has returned is
in a whole line, and with what the handle still holds the file ends in a newline (`KeptInv`).
That a file that verifies holds only what was written is the nesting of the hashes again, now for
bytes: `FileInv` says that every byte belongs to a record that was handed in, but for its content.

Observations: a line torn in the middle makes every later resume of that file raise; a line that
lost only its newline is glued to the next, and neither is read again.  A failed append
leaves a hole that verification reports, although nobody touched the file.

## 6. The market-data feed

`MarketFeed` is the worker's `start`, the adapter's `disconnect` with the worker's `stop` after it,
the websocket task, the session rows, the raw files and the queue's counters.  A start that
succeeds opens a session, a file and a task, so the three share numbers; where the configured venue has
no connector (`connector`), it opens session and file, creates no task and returns like any other
(`StartUnfed`, worker.py:80-82).  `Stop`, `StopCloses` and
`StopJoins` are the three parts of a stop between its awaits (`ws.close()`, the cancelled task).
`Cancelled` and `Swallowed` are the two ends of a cancellation that meets `asyncio.wait_for`: up to
Python 3.11 a cancellation can be lost there.

Left out: Alpaca as the configured venue (its connector has no feed, alpaca_connector.py:149: a
start raises after it set everything up, and a stop before it closes the session); the adapter's
`_connected` flag (nothing but the status page reads it, and it stays true after a clean close), the
branch in `connect` that first disconnects (unreachable, by `AdapterFollowsWorker`), the caches, and
consumers of the queue and the bus, of which there are none.

| Run | Question | Bounds |
|---|---|---|
| `market_feed` | each message is counted once (`Accounted`); one feeder, its own file and a true final hash while no start crosses a stop (`SerialFeed`); worker, adapter and task agree on whether there is a feed (`FeedFollowsWorker`); a disconnect ends | 2 starts, 2 stops, a queue for 1, 2 messages, a venue with and without a connector; 243,026 states |

Two starts and two stops give every crossing of one start and one stop.  One place in the queue
and two messages reach the full queue.  Fairness is on what the loop and time limits finish; none
is on messages, on the operator or on the network.

`MarketFeedProofs` proves the invariants for any number of starts, stops, messages and places in the
queue (`TypeCorrect`, `AccountsHold`, `SerialFeedHolds`, `FeedFollowsHolds`).  `SerialFeed` is not
inductive: it says nothing of what a start finds.  The invariant adds that a worker told to
stop has a stop which waits for whatever feeder is left (`StopsCover`), so that a start which crosses no
stop finds none (`StartAlone`); that the session with a feeder has an active row; and, whether or
not starts cross stops, that a number is used for one session only, that who may write has a file, and
that only a living feeder has a cancellation to get (`BaseInv`).  The accounts rest on lemmas about
the number of feeders in a put.  That a disconnect ends is liveness, and only model-checked.

`SerialFeed` and `FeedFollowsWorker` are conditional, and their conditions leave out what does go wrong:
starts that cross stops and starts that fail.

Observations: when a start crosses a stop, the old connection can outlive the stop and write into
the new session's file (coinbase_connector.py:62-66 and 87, worker.py:107), although session.py:3
speaks of enforced session boundaries; a start that failed leaves `_running` set and nothing
running, until the next stop; a session can then be closed with the hash of another session's file;
a put that was cancelled is in none of the queue's accounts (queue.py:4 lists them); `record_gap`
has no caller, so reconnects leave no gap.

## 7. What the loop writes while threads read: `LiveState`

`LiveState` composes the audit table, the raw file, the portfolio and the order flow.  No step of
the code writes to two of them, so a behaviour of the model looks at one part and the others
rest: the run covers each part's interleavings without their product, which no property asks about.

### 7.1 The portfolio

`Portfolio` has the prices that `PaperExecution` leaves out: `Book` is `apply_fill` up to the
position's commit with its five cases, `Pay` the balance's, which a failure or a crash may take
away, `MarkToMarket` the feed's mark, and `ReadBalance` / `ReadPositions` the summary, which runs
in the thread pool and so between any two of these.  `booked`, `paid`, `lost` and `marked` are history.

There are two symbols, 3 fills of 1 or 2 at two prices, one mark price and one
reader.  Three fills reach every case in both directions (open, increase, then reduce, close or
reverse).  Money is in units so small that the averages of three fills are whole: `Lot` is the
largest fill, and `Grain[n]` divides every average of n fills.  `GrainAssumption` asks that these
divisors get finer fast enough; for any bound on the fills and any lot there are prices that
satisfy it, so the assumption fixes the unit of money and not what may be traded.

* `MoneyConserved`: cash and what it is owed equal the initial balance plus realised profit less
  fees and the cost of what is held;
* `SummaryHonest`: a summary never shows a fill's cash without its position, because fills write
  positions first and summaries read them last (`SummaryNotAhead`); and its equity and profit are
  what the tables add up to, when no fill came between the reads and every position was marked
  since its last fill (`SummaryAddsUp`).

`LiveStateProofs` proves both for any symbols, fills, marks and readers (`MoneyHolds`,
`SummariesHonest`).  `MoneyConserved` is kept case by case (`Open`, `Increase`, `Reduce` to a rest,
to zero and beyond), which needs that an average is whole (`RowsInv`) and that a row without
quantity has no cost; each case is one change in the sums over the positions.  `SummaryHonest` needs
of a summary under way that it has not seen more payments than there were, and that one which has
seen them all has seen the cash (`ReadersInv`), and of a marked position that its unrealised profit
is that of its mark.

Observations: the equity is cash plus unrealised P&L, without what is invested; the realised P&L
of a closed position leaves the summary (`WHERE quantity > 0`); until the next mark a partly
closed position counts the closed part as realised and as unrealised.

### 7.2 The order flow

`Microstructure` is `process_trade` statement by statement (a level is found, then its side, then
its total, then the snapshot with its volume profile), and the same volume profile computed in
the endpoint's thread, which sums the levels one by one, in any order, and then reads them again
price by price.  A level that appears in the dictionary while it is summed makes the call raise; one
that appears between the sum and the sorting of the prices (`SortPrices`) does not, and is among them.

Four prices, four trades and one reader: a value area that grows both ways, uses up one side and
meets two new trades while it is computed.  The `live_state` run has 1,655,394 distinct states.
`FlowAddsUp` says that between two trades the running sums agree with the footprint (`SumsAgree`),
and that a value area, the snapshot's and the endpoint's, holds the point of control, covers 70% of
what it was computed for and of what was traded when the call began, and takes at one end no more
than that needs (`ProfileCovers`).

`LiveStateProofs` proves it for any prices, trades and readers (`FlowHolds`).  `NetInv` says what a
trade under way has and has not added yet.  `CallsInv` is about a reader: what it has summed and
what it has still to sum are at least what had been traded when it began, and what it has summed is
at most what is there, also when further levels come before the prices are sorted; so the volumes it
reads afterwards, which may have grown, are at least its total, and the search ends with 70% of it.
That the search is right is induction over the rows it takes in (`Widened`, through `FoldTheorems`):
the area is an interval of the map, covers what it counts, and was widened while it was still too
small. `TypesHold` is the types of all four parts.

## 8. Research

`Research` is one request: it runs one of four computations to its end, and shares nothing with
other requests.

`Backtest` is the bar loop.  One step reads one bar, with the signal of the bar before; bars and
signals are chosen as the loop reaches them, so the run covers every strategy and every history
within its bounds.  `ExitReason` is the order in which the code tries stop, target, holding limit
and opposite signal; `Taken` is the entry that may follow in the same bar.  A position has size 1.

`WalkForward` lays out the folds of a request, whose lengths are any integers, as the endpoint takes
them (main.py:413-421): a slice whose bound a negative length moves below zero counts from the end
(`Rows`).  `EvaluateFold` stands for the two backtests of a fold; a fold with an empty window
raises, after the training slice may have left its row in `backtest_runs`.

`MultipleTesting` is the three corrections, with `np.argsort` free to put ties in any order.  The
reference (`Rejected`) says which hypotheses a procedure rejects without sorting or adjusting.  The
empty family and a method of another name, which need no adjustment, are left out.

`LookaheadGuard` is the truncation test and the perturbation test with their real numbers (ten
sampled bars between bar 25 and the fifth from the end, the perturbed bars after bar 30), and the
strategies they judge: the five of the guard's own file, which read bars to come, and the two of the
library with their default windows and thresholds.  Quantiles, z-scores and factors are compared in
whole numbers: a comparison of reals is multiplied out.  Frames are quiet but for up to three event
bars.

| Run | Question | Bounds |
|---|---|---|
| `embargo` | "ensuring embargo boundary is respected" (walk_forward.py:158; does not hold) | as `research` |
| `research` | trades do not overlap and their costs are counted once (`TradesAddUp`); the book follows the signals and stops come first (`BarsPlayedByRules`); folds of requests without negative windows are out of sample and complete (`FoldsSound`), and runs end (`WalkEnds`); corrections are the textbook ones; what the guard's verdict is worth (`GuardJudges`) | 4 bars of 3 prices, holding limit 2; 12 bars, training -1 to 3, purge -1 to 2, test -2 to 3, embargo 0 and 1, step -1 to 4; 3 p-values in eighths, 2 levels; some 1900 frames of 43 bars and 15 of 39 to 41 |

Four bars hold an entry, a bar under the bracket, an exit with an entry behind it, and the end of
the data; the holding limit of 2 is reached.  Twelve bars hold up to ten folds; the negative lengths
reach folds whose training is most of the data, loops that go backwards, and the one that stands
still.  Three hypotheses are the fewest with a tie beside a third value.  The event bars of a frame
are among the sampled bars, the bars beside them, the ends of the warm-ups (14 and 30) and the last
bars; the shorter frames lie about the limits of both tests (40 bars, more than 40 bars).  Fairness:
the loop of a run waits for nothing.

`ResearchProofs` proves `TradesAddUp`, `BarsPlayedByRules`, `FoldsSound`, `RejectsTextbook`,
`GuardJudges` and `TypeOK` from the assumptions of the modules: for data of any length, any prices
and costs, all requests in integers, families of any size, and frames of any length with any bars
risen, fallen and loud.  A request runs one computation, so each has an invariant.  That a
walk-forward run ends (`WalkEnds`) is liveness, and only model-checked.

* `BacktestInv`: a position's stop and target lie on either side of each other (`Bracketed`; they
  come from the signal of an earlier bar, so a book is only right if `sig` is one of `SignalsAt`),
  every trade ended by now and before the open position began (`Ordered`), and the equity is the
  fold of the trades' cash.  That the code's gross result less slippage and fees is that cash, for
  either side, is `NetIsCash`; without the stop below the target, `WorstCase` would not follow from
  the order of the tests.
* `WInv` says of every fold that it ends before the next test window and is followed by a fold or
  is the last; a step is never shorter than a test window.  This is under `Proper`, training and test
  not negative, as `FoldsSound` is.
* For `RejectsTextbook` the sort is a permutation (`RankOf`: an injective map of a finite set on
  itself), hypotheses are counted by their ranks (`CountRanks`), and a value is taken at its first
  rank for Holm and at its last for Benjamini-Hochberg (`FirstRank`, `LastRank`), which is where the
  correction meets the textbook's count.  The cap at 1 hides nothing, since no level is above 1
  (`CapBelow`).
* For `GuardJudges` the state holds one frame and the verdict on one strategy (`GuardInv`); the rest
  is about the strategies.  One that reads ahead is silent on the last bar it is given
  (`ReaderBlind`).  The entries of a library strategy up to a bar are there after that bar and stay
  (`EntriesSettle`), so they depend on nothing later, the cooldown included (`EntriesLocal`), and
  the perturbed frame is the same up to the test bar.  The perturbed closes raise the mean of the
  frame above each close before them (`SumAtLeast`), on every frame long enough for the test, whose
  closes lie within 3% of the open.

What the conditions of these properties leave out does happen.

* With a negative training or test length, which no endpoint refuses, training, purge and test overlap:
  training -1 is the whole data but its last bar.  `FoldsSound` says nothing of such requests.
* A request with training -1, purge 1, test -1 and step 0 never ends: it evaluates the same two
  slices for ever (walk_forward.py:159 advances by max(0, -1)).  `WalkEnds` is about runs whose step
  is not 0 or whose test length is not negative; it is checked for those without exception.
* `BarsPlayedByRules` is about one bar: the book agrees with the signal of the bar before, and a
  position that the bar begins with and whose stop it reaches is closed in it, by one trade at the
  stop's level, which is never better than the target's.  It does not say that a backtest is never
  too good.  The stop of the bar that opens a position is not tested (backtest.py:163 comes before
  230).

Observations.  The embargo is recorded and not kept: unless the step is longer than the test window
by the embargo, the next test window begins inside it, and the next rolling training window lies
over both.  An entry that follows a stop or target in the same bar is booked at that bar's open,
before the prices that made room for it.  A stop is booked at its price even when the bar opened
beyond it, so a gap costs nothing.  A position closed at the end of the data is not in the equity
curve, and not in the drawdown.  A failed walk-forward run leaves backtest rows behind.  The guard
finds a leak only at a sampled bar, so README.md:35 of the repository claims more than it shows; and
it takes the warm-up of the profile strategy for a leak when that strategy has an entry at bar 30
and bar 30 is sampled, because the strategy wants two bars more than its window.

## 9. The platform's calls: `Platform`

`Requests` is a call in the thread pool: a statement it stands at and its local variables, while
other threads run between any two statements.  A statement may fail, and the process may die; what
is in memory is then gone, and files and tables stay.  `overlapped` and `cut` are history: which
parts two calls used at once, and which a call left half written.

| Module | Code | What is there |
|---|---|---|
| `OperatorToken` | `OperatorAuthManager` | the token in memory and in its file, which is truncated and then written; a read that fails is swallowed (`TokenUnread`), and a fresh token replaces the whole one |
| `CredentialVault` | `CredentialVault` | the singleton, the salt, key and data files, each rewritten in place, the error state, which any failed read sets (`Readings`) |
| `StrategyRegistry` | `core/strategies/base.py` | the singleton and its loading of the builtins: memory, then SELECT (`LookupFails`), then two INSERTs, each of which may fail unseen; freeze in two UPDATEs |
| `DatasetRegistry` | `core/research/dataset.py` and the research endpoints up to their data | file, row and the exception behind it; the seal, and loads that meet it |
| `Certification` | `deterministic_reporter.py` and its endpoint | the domains in the order in which they read the other parts, and the report files |

The vault is the one that is built on Windows, where DPAPI refuses a master key that is not whole;
encryption is a key and a salt that must be those of decryption.  What a torn file reads as is a
choice.  A certificate's sixteen files are two here, since only "the same as the first" is asked of
the rest.

| Run | Question | Bounds |
|---|---|---|
| `platform` | the properties below | 2 threads, 3 calls, 1 failed statement, token read or death, any failed reads of the vault; 3,663,036 states |
| `certificate` | the endpoint's `overall_status` is what the evaluation came to (does not hold) | one call; the verification of the audit chain may come to either verdict |

Two threads are enough for any two calls to meet, and a third call finds what the two left.  Two
bounds are named in the modules: calls that share no part are made one after another, and one
certificate is made at a time (two at once mix their files, whatever else they do).

* `SecretsKept`: while calls on a part come one after another and no write is cut short, the token
  in memory is the one in the file, every caller was given it unless a read of the file failed
  (`TokenLasts`), and the vault file opens and holds exactly what was stored, after any restart and
  any failed reads (`VaultKeeps`);
* `VaultFailsClosed`: a vault file that does not open is never written by a call that came alone;
* `RegistriesWhole`: a registry built alone has every builtin with both rows, also when an earlier
  process died among them (`BuiltinsComplete`); no dataset has a row without a file (`DatasetsWhole`);
* `SealHolds`: no call reads a dataset that was sealed before the call looked for it, and, undisturbed,
  every load that met a seal left one row in `risk_events`;
* `CertificateHonest`: a directory's files belong to one evaluation, and CERTIFIED means that
  datasets, strategies and a vault were there.

`PlatformProofs` proves all of them, and `TypeOK`, for any number of threads, calls, failures,
deaths, exchanges, builtins and datasets, from no assumption on the constants but those the modules
declare (names are not numbers, a verdict is a boolean, a certificate has a file).  The invariant has
a part for each component.

* `CallInv`: a call stands at a statement of its own operation (`Labels` is the platform's control
  flow, and the `...Flow` lemmas are that every step follows it), and unless an overlap is on record,
  one call at a time uses the token, the vault, the registry, the datasets or the reports.
* `VaultInv`: a call that is about to rewrite the vault found a file that opens, and it still does; this
  needs `CallInv`, since another call could put a new key under it.
* `SealInv`: a call that looks for a dataset knows what was sealed before, and a refused load that is
  not yet in `risk_events` belongs to the one call that is about to write it there, or to a death that
  left its mark in `cut`.
* `TokenInv`: a token that was generated is on its way into the file, or is in it and, unless a read
  failed, is the one that everybody was given.
* `KeepInv`: where the vault's calls came one after another, a torn file has the one call that
  is about to write it, the root files are whole once there are entries, and the file holds under
  that root what was stored and not removed.
* `RegistryInv`: a registry under construction has every builtin before the one it stands at, each
  with its rows, but for the one between its two INSERTs; a freeze likewise.
* `FilesInv`: a call that is about to insert a dataset's row has written its file.
* `ReportInv`: what a certificate is about to say of the datasets, strategies and vault has been
  found so and still is, since nothing deletes them; the files up to the one it stands at show what
  it found.
* `CountInv`: tokens, datasets and violations are no more than the calls that could make one.

What the conditions on these properties leave out does happen, and is reachable in the run:

* a reader of the token that overlaps its writer may be handed an empty or cut token;
* two threads that store credentials at once lose one entry; two that build the vault at once may
  each write a key, and what the first stored never opens again;
* two threads that build the strategy registry at once: an INSERT fails, the error is swallowed, and
  the remaining builtins are missing from memory until a restart;
* one failed read of the token file, and a fresh token replaces the whole one that the frontend has;
* one failed read of the vault, and its instance says VAULT_ERROR until a restart, of a file that opens;
* a statement that fails in the building of the registry, or the second of a freeze: builtins are
  missing until a restart, or strategy and version disagree for good;
* a report file that cannot be written leaves a directory with files of two evaluations;
* a seal that comes between the check of a call and its read comes too late.

Further observations.  docs/RESEARCH.md:7 says that a refused read of a sealed dataset "is logged to the
audit engine"; the code writes a row of `risk_events` and no audit event (dataset.py:158-172), and
`SealHolds` is about that row.  `promote_to_paper` raises `AttributeError` for every strategy with a row
(base.py:151 names `StrategyStatus.VALIDATED`, models.py:70-75 has none), so the promotion README.md:38
describes cannot happen.  `register_dataset` raises `NameError` after its row is committed
(dataset.py:94, `get_config` is not imported), so manifest and quality audit are never reached.
A broken vault makes the certification raise (deterministic_reporter.py:256), so its
security domain cannot say FAIL for that reason.

## 10. What is not modelled

* The event bus: nothing in the platform subscribes, so publishing changes nothing that is read.
* Message parsing (`normalizer.py`), the quality auditor and the statistics of backtest reports:
  formulas over one message or one frame, without state.  The auditor's only caller raises before it.
* Bootstrap and Monte Carlo in the statistical validation: random, without a reference to check against.
* The dataset seeder, provenance files, logging, configuration, the frontend, the installer and the
  scripts: I/O and presentation.  Database migrations: they run before anything else does.
* The caches of the feed worker and the status pages made of them; Alpaca as the venue of the feed:
  its connector raises `NotImplementedError` for it (alpaca_connector.py:149); cancelling and
  querying of orders, which nothing calls.
* What a message gap does: `record_gap` has no caller, so nothing says that messages were missed between
  two connections, and there is nothing to compare a gap with.
