# ngv-trader: formal models

TLA+ models of the parts of ngv-trader in which several processes, retries,
crashes or late answers meet: the jobs queue, the orders table, the two-phase
FlexQuery sync, the ingest of settled fills, the handoff of fills and their
trade-group tags from the live feed to the settled tables, the tables kept
beside the trades (positions, tags and tasks, groups, contracts, quotes, broker
sessions) and what the pages make of them (figures, lists, event stream). TLC
checks each on small instances; TLAPS proves every safety property that a passing
run checks for every instance that meets the hypotheses section 5 names.

Paths below are relative to the repository root (`src/…` the Python package,
`scripts/…` the entry points, `frontend/…` the browser client).

## 1. The system

Three kinds of process share one PostgreSQL database:

- the **API** (FastAPI, `src/api`), many requests at once, each a transaction;
- one **jobs worker** (`scripts/work_jobs.py`), which takes jobs from the
  `jobs` table one at a time and runs a handler of `src/workers/jobs.py`;
- one **orders worker** (`scripts/work_order_queue.py`), which takes orders from
  the `orders` table.

Two outside systems answer them: TWS, the broker's terminal (live fills,
positions, orders), and IBKR's FlexQuery web service (settled fills and
positions, one trading day late). Transactions run at READ COMMITTED. No read
takes a row lock, so state read by one transaction may be stale when it
writes. Workers tell the API what changed by HTTP calls that are neither
retried nor acknowledged, and the API pushes events to browsers.

| component | state | operations | what is hard | modules |
|---|---|---|---|---|
| jobs queue (`services/jobs.py`, `work_jobs.py`, `routers/jobs.py`) | `jobs` rows; the worker's session snapshot | enqueue, enqueue if idle, claim, complete, defer, fail or retry, rerun, archive | claims without locks, crashes after a committed claim, check-then-insert, attempt accounting | JobQueue, JobLedger, JobQueueProofs |
| orders (`order_queue.py`, `order_mutations.py`, `order_worker.py`, `work_order_queue.py`, `routers/orders.py`) | `orders`, `order_events`; row locks; the view of a reconciliation | create, cancel, startup reconciliation, claim and process | three writers with stale reads, worker crash inside a transaction | OrderQueue, OrderQueueProofs |
| broker order sync (`order_sync_tws.py`) | the same rows | fetch, match, create or copy onto a row, commit | matching by ids the broker reuses; overwriting newer writes | OrderQueue, OrderImport, RecordsProofs |
| FlexQuery two-phase reporting (`workers/jobs.py`, `flex_credentials.py`, `flex_client_factory.py`, `routers/flexquery_tokens.py`) | jobs with payloads, `flexquery_tokens` | fan out, initiate, fetch, pause, resume, edit | rate limits shared by jobs, bounded polling, children enqueued in their own commit, half-synced reports | FlexReport, FlexReportProofs |
| settled fill ingest (`fill_ingest.py`, `sync_common.py`, `trade_sync_flexquery.py`) | `trades`, `trade_executions` | upsert, parent resolution, combo summary, canonical flags, aggregates | overlapping windows, corrections, reports collected out of order | FillIngest, Sums, SettlementProofs |
| live-to-settled handoff (`intraday_sync_tws.py`, `live_reconcile.py`, `group_link_carryover.py`, `routers/trade_groups.py`) | `live_executions`, `trade_group_executions`, `trade_group_live_executions` | intraday sync, FlexQuery sync, tag and untag fills and positions | ids that differ between the feeds, fills TWS reports again after they settled, users tagging while a sync is open | Settlement, SettlementProofs |
| trades page (`routers/trades.py`) | none: reads the tables of the row above | list settled and live fills, one combo a row | the same fill in both tables, combos tagged leg by leg | TradesPage, SettlementProofs |
| positions and overlay (`position_sync_flexquery.py`, `intraday_sync_tws.py`, `intraday_overlay.py`, `routers/positions.py`) | `positions`, `live_positions`, position tags | snapshot, capture, purge, merge for display, end tags of flat positions | older snapshot after a newer one, accounts gone flat, evening trading for the next date | PositionBook, PositionBookProofs |
| tags and tasks (`item_links.py`, `item_refs.py`, `tags.py`, both routers) | `tags`, `tag_links`, `tasks`, `task_links` | attach, detach, merge, carry over, inherit | requests that expand an order and commit after a sync; ids TWS leaves at zero | ItemLinks, RecordsProofs |
| trade groups (`routers/trade_groups.py`) | `trade_groups`, memberships, their events | create, assign, reassign, unassign, delete | overlapping requests that read, then write by key | GroupBook, RecordsProofs |
| groups' figures (`trade_group_pnl.py`, `intraday_overlay.py`, `execution_pnl.py`, `routers/positions.py`) | none: functions of fills, snapshot, capture | holdings, shares, realized and open profit, lots | one figure computed along several paths, positions shared by groups | GroupFigures, Sums, PagesProofs |
| event stream (`ui_events.py`, `routers/events.py`, `worker_heartbeat.py`, `useSseList.ts`, `events.ts`) | subscriber queues, streams, browser lists | publish, drop, deliver, load, reopen | full queues, lost and reordered notifications, a snapshot overtaken by events | UiEvents, PagesProofs |
| broker sessions (`workers/jobs.py`) | the session pool, TWS's own connections | take, replace, close idle, close all | connections that drop, client ids TWS refuses | JobSessions, RecordsProofs |
| contract catalogue (`contract_sync.py`, `contract_lookup.py`, `ibkr_select_contracts.py`, `cl_contracts.py`) | contracts, chain catalogue, activated product | sync specs, chain, product; look up; choose one contract | jobs of several transactions that fail half-way, choices that must not guess | Catalogue, ContractPicks, RecordsProofs, PagesProofs |
| quote boards (`market_data.py`, `option_metrics_sync_tws.py`, `routers/watch_lists.py`, `routers/futures.py`) | `ts_*` and `latest_*` tables, greeks, watch lists | quote jobs, metrics job, board reads, refresh requests | jobs of several workers that commit out of order, partial answers | MarketBoard, PagesProofs |

`PROJECT.json` lists the remaining components (the chatbot, the semantic layer,
token administration, dormant TWS syncs, scripts, migrations, the React pages)
with the reason each is left out: single-row CRUD, read-only computation or
glue, whose only protocol is the jobs queue.

**How they meet.** Everything slow is a job: the API, the chatbot and the orders
worker enqueue, the jobs worker drains. A FlexQuery sync is a chain of jobs
(fan-out → initiate → fetch); its fetch job calls the ingest for each account
and, in the same transaction, the handoff. The intraday sync is another job of
the same worker, which is why the two never overlap; tagging requests come from
the API and overlap both. The orders worker's passes enqueue `order.fetch_sync`
through the idle check. The FlexQuery position sync ends position tags and purges
the capture the intraday sync made; both syncs carry tags and group membership
along with the fills. Every broker job takes its TWS connection from one pool.
What a worker commits it posts to the API, which pushes the row to the browsers.

**What makes each correct.** Queue: a job has a verdict only after it succeeded
or spent its budget, and keeps it. Orders: processed once, never stranded,
every terminal row stamped, nothing the broker lost left as working. Reporting:
no call during a cooldown, bounded polling, no child twice, a completed fetch
synced everything. Ingest: the latest correction counts and aggregates follow
the executions. Handoff: nothing counts twice, a tag follows its fill, nothing
lingers as unsettled. Positions: nothing is listed that newer data has overtaken,
no tag ends while the position may be open. Links: each is where the user put it,
on something that exists. Groups: the history explains the membership. Figures:
a figure has one value whichever page computes it, and a shared position is
counted once. Lists: what a connected page shows is what was committed, but for
the known gaps. Sessions: none is lost sight of. Catalogue: nothing is guessed.
Boards: the latest row is the newest row.

## 2. Modules and their code

Two conventions throughout. **Transactions**: an action is a transaction or, if
others may commit between its reads and its writes, one action per half, the
later one using what the earlier one read. **History variables** (commented
`history` or `for the bound`) are not in the code; no guard of the code's steps
reads them except the bounds.

### JobQueue — the `jobs` table and its workers
`status`, `attempts`, `maxAttempts`, `jobType`, `archived` are columns; `due` is
the set of rows whose `available_at` has passed; ids grow with `created_at`.
A worker's loop is `SelectNext` (the SELECT of `claim_next_job`), `Claim` (its
UPDATE and commit), `Load` (the second session's `get`), then `Complete`,
`Defer` or `Fail` — what the handler does is left open — or
`RejectUnsupported`. `seen` is the session's copy of the row: an UPDATE names
only columns that differ from it (`SetStatus`). `CheckIdle`/`InsertIdle` are the
two halves of `enqueue_job_if_idle`. `Crash` loses everything uncommitted.

**JobLedger** is the abstract promise to whoever enqueues: pending until one
execution succeeds or as many as the budget have failed; then a verdict, for
good. JobQueue (one worker) and FlexReport both implement it (`KeepsLedger`).

### OrderQueue — the `orders` table and its three writers
`CreateQueued`; `CancelRead`/`CancelWrite` (the API); `Start`, `ReconcileRead`/
`ReconcileWrite`, `SelectBatch`, `ClaimAndProcess`, `CommitBatch`, `CrashWorker`
(the orders worker); `SyncFetch`/`SyncLoad`/`SyncWrite` (`order.fetch_sync`).
`locked` holds the rows an open pass has claimed: the claim is the only
statement that keeps a row lock across others. `process_order` raises before
`placeOrder` at this revision, so a claimed order goes to `failed` in the same
transaction. The broker (`BrokerMoves`) is external: orders of an earlier
release and orders entered by hand. `Allowed` is the transition table,
`normalize` is `normalize_ib_status`. An order whose IB status is still empty
(`unset`) normalises to `queued`, so reconciliation or a sync that lists it makes
its row the orders worker's to process, whatever the row said before. `claims`
is a history: how often the row was processed since a writer last queued it
(`Requeued`). `ProcessedOnce` bounds it by one; `CancelledStaysIdle` says that a
cancelled row is not processed as it stands and that no stale writer queues an
ended order of ours again; `QueuedEnds` says that an order of ours ends, and that
one the broker knows of leaves the queue.

### OrderImport — which row a broker order lands on
One sync is one action: `ImportedUpTo`, a recursive function, is the table after each
turn of the loop, a turn being `_find_matching_order` (`FindMatch`) and the copy
(`Copied`). The broker lists its orders in any order (`Listings`), the completed ones
without an order id, which reads as 0, and an order may complete between the two
lists: it is then met twice, with its id and without (`_trade_key` has the id in it).

### FlexReport — fan-out, initiate, fetch
The one jobs worker (`pc`, `job`) runs the handlers; each commit is a step of
its own, so a crash can fall between a child job's commit and its parent's
completion, between the answer 1025 and the recording of its pause (`RecordPause`,
whose write may also fail), and between that and the deferral. `left` is
`paused_until`, `wait` is `available_at`, both as ticks left; `Second` is a second
in ticks, to which `pause_remaining_seconds` rounds down. IBKR's answers are
nondeterministic. `cooling` and `lost` are histories: the pause IBKR asked for, and
the tokens whose last 1025 a crash or an error kept from being recorded.

### FillIngest — settled fills
A row of a report (`Rows`) carries only what the ingest tells apart. `Written`
is the batch's rows with parents, roles and summaries; `Upserted` the ON
CONFLICT; `Flagged` is `_enforce_canonical_flags`; `Aggregate`/`Recomputed` the
parents' totals; `IngestFills` all of it in the caller's transaction. Reports
are requested over any closed window and collected in any order. Prices are
kept as cash (quantity × price), so the gcd in a summary's quantity cannot hide
or create money.

### Settlement — extends FillIngest
`ReadIntraday`/`CommitIntraday` and `ReadFlex`/`CommitFlex` are the two syncs,
split where API requests commit in between: `sync.links` and `sync.held` are
the link tables as read. `Reconciled` is `live_reconcile.py` (leg strip, then
book events, then BAG summaries), `Purged` is `_purge_settled`, `HandOver` is
`group_link_carryover.py`. The deletion of a link the sync read is by primary
key: a link inserted meanwhile survives (`fresh`). `Abort` is the unique
violation on `trade_group_executions`, which rolls the sync back.
The tagging endpoints are actions of their own.

### TradesPage — extends Settlement
`SettledShown` and `LiveShown` are the two parts of `list_all_trade_executions`,
`ParentsOf` and `GroupsShown` are `_live_combo_index`. The page is a function of
the state, read in any of Settlement's states, a sync open or not.

### PositionBook — positions over days and reports out of order
Time runs in half days, so that an evening fill trades for the next date.
`SyncFlexPositions` is one report for one account: it replaces the snapshot,
purges what it supersedes (`Superseded`, `ClosedSince`) and ends the tags of flat
positions (`Ended`). `StartCapture`/`CommitCapture` are the intraday sync, which
reads TWS and commits later. `Listed` and `Merged` are the two views. What the
brokerage holds (`moves`) is external and is what the properties compare with.

### ItemLinks — tags and tasks
A request expands its items when it reads (`BeginRequest`) and commits later
(`FinishAttach`, `FinishDetach`); a merge likewise (`BeginMerge`, `FinishMerge`).
`SyncIntraday` and `SyncFlex` carry (`Carried`) and inherit (`Inherited`) links in
between. `SameKey` is `live_order_key`, by which fills inherit; `SameOrder` is
`live_order_fills`, by which a request expands: a fill without permId reaches, by
orderId, also rows that have a permId, and those do not reach it. `wanted` is a
history of what the user asked for, `late` of the links a request committed on a
live fill that a sync had purged since it was read.

### GroupBook — membership and its history
Each endpoint is a read (`BeginAssign`, …) and a commit (`CommitAssign`, …). The
ORM names the primary key it read: an UPDATE that finds no such row fails
(`StillThere`), a DELETE that finds none only warns, and a key of a deleted row
is refused (`KeysHold`, `Refused`). `Settle` and `HandOver` stand for Settlement's
handoff when the fill settles and at any later sync: a membership for a settled row
that has none, also one the user took out of its group meanwhile, and no event. The
model's `history` keeps a "handed" entry in its place.

### GroupFigures — what a group is shown with
The state is fills in order of execution, the snapshot and the capture; the
figures are operators named after their functions: `Executions`, `TotalHeld` (the
ledger), `HeldPart` (`held_fraction`), `RealizedTotal`, `ViewsOf`, `Apportioned`,
`SettledUnrealized`, `IntradayTotal`, `BatchUnrealized` (the list without overlay),
`OpenLots` (first in, first out). Marks are chosen so that every share is a whole
amount.

### UiEvents — from a commit to a browser's list
`WorkerCommit`, `RequestCommit`, `Heartbeat` and `SilentCommit` change a row and post,
publish or say nothing. The API reads the row when it handles a post and offers it
to each queue (`Offered`, dropping a subscriber whose queue is full). A tab opens a
stream, loads a snapshot, merges events, and reloads when a stream that was
disconnected is connected (`Reloaded`). Loads do not replace each other: `asked`
counts those not yet read, `answers` holds those read, which land in any order
(`LandSnapshot`) or fail (`FailLoad`; the workers' lights then show their fallback).
A component that follows another topic reopens the stream, also a disconnected one
(`Reopen`), which then connects without a reload. `suspect` is a history of the tabs a
known gap has hit since their last load was asked for. A page's own call of `reload()`
adds a load at a time of the user's choosing and is left out.

### JobSessions, Catalogue, ContractPicks, MarketBoard
*JobSessions*: the table of handlers with their client ids and required fields,
`IBSessionPool`, the idle and final closing of `work_jobs.py`, and a TWS that
refuses a second client of an id. *Catalogue*: a job is a sequence of transactions
(`work.todo`), each an action, and may fail between two. *ContractPicks* is pure:
one question, one step, one answer (`AnswerTo`); the questions enumerate codes, tables
with rows that expire together or have no month, and lists of chains. *MarketBoard*: a
quote job picks contracts, fetches, reads the clock and commits, each a step of its own,
in several workers at once.

### Compositions
`Settlement` extends FillIngest and `TradesPage` extends it: they share the tables.
`JobQueue` and `FlexReport` instantiate JobLedger. **MCRecords** and **MCPages**
bring together components that share *no* state: `part` is chosen at the start and
only that component moves, so that one TLC run checks several components without
multiplying their states. Where two of them touch the same fact in the code, one
models it and the other takes it as an event (a fill settling, a group deleted).

## 3. Runs

| run | module, cfg | shows |
|---|---|---|
| jobs_one_worker | MCJobQueue, JobQueueOneWorker | the deployment: attempts are exact, every running row is owned or orphaned, verdicts are final, the idle check never stacks, an orphan stays and blocks its type, and the ledger's promise is kept |
| jobs_two_workers | MCJobQueue, JobQueueTwoWorkers | what survives double claims: no attempt without a failure, no early verdict, and every queued job ends |
| orders_races | MCOrderQueue, OrderQueueRaces | two workers, a cancel and a sync: processed once each time an order is queued, never stranded, not processed after a cancel, lost orders flagged |
| orders_live | MCOrderQueue, OrderQueueLive | a queued order ends, or leaves the queue by the broker's word, through cancels, syncs and a crash |
| import_unwatched | MCOrderImport, OrderImportUnwatched | *violation*, see findings |
| flex_two_tokens | MCFlexReport, FlexReportTwoTokens | bounded checks, no duplicate child, complete syncs, ledger kept, with a crash and a rate limit |
| flex_live | MCFlexReport, FlexReportLive | two syncs on a token: cooldown respected but for its last part of a second, every fetch ends |
| settlement_day | MCSettlement, SettlementDay | the page shows each fill once and each combo whole; corrections, aggregates and cash stay right, a live fill is matched with its own settled rows only, tags follow their fills, nothing lingers |
| ingest_two_days | MCFillIngest, FillIngestTwoDays | *violation*, see findings |
| records | MCRecords, Records | positions listed were held and tags end only on evidence; links stay where they were put and land on trades; no session leaks; the catalogue guesses nothing; orders seen open keep one row; history explains membership |
| pages | MCPages, Pages | lists are current, shares stay within the position, one value per figure, the contract picked is the one asked for, boards agree, greeks are kept |
| catalogue_specs | MCCatalogue, CatalogueSpecs | *violation*, see findings |

**Bounds, and why they are enough.**
- *Jobs*: two rows (an older and a younger job, the pair that ordering, idle
  checks and double claims need), budgets 1 and 2 (the two sides of the
  comparison in `fail_or_retry_job`), one deferral per job, one crash. The
  two-worker run drops requests' variety and crashes to afford liveness.
- *Orders*: two orders and two workers: every race is between two writers of a
  row. Up to two starts per worker: one restart after a crash. The batch limit
  of the code (20) is above the number of orders, so it never cuts. The two
  workers are symmetric; liveness is checked without symmetry. The runs' views leave
  out columns and histories that no guard and no property of the run reads.
- *Import*: two broker orders that complete unwatched and three syncs in the run that
  finds the violation; in *records* three orders and four syncs, enough for a row to be
  matched by each of the three keys and rewritten twice. MCRecords ASSUMEs of its instance
  what `ImportIsIdempotent` supposes.
- *Reporting*: delays are compressed to one to three ticks and keep their order
  (recheck ≤ first check ≤ pause). `MaxChecks` 2 (1 would make the first miss
  final), `MaxAttempts` 2, one rate limit, one crash. `Prompt` says handling
  takes less than a tick; it keeps the live run small, and the safety run and the
  proofs do without it. In the live run a second is two ticks and a pause three, so
  that a pause with a fraction is rounded; an operator's pause is two. That run has
  no crash, for an orphaned fetch job never ends; a pause is lost there when its write
  fails, and a crash in its stead is covered by `CooldownIsRespected`.
- *Settlement*: three trading days — fill, settle, correct — with `Lookback` 1,
  so that a fill is still reported by TWS on the day after it settled and gone
  the day after that. Two reports outstanding, the least for one to overtake the
  other. Two user requests: a tag, and a change of it while a sync is open. Two
  groups. The instance has a combo with one leg whose ids differ and one whose
  ids agree, its BAG fill, an expiration and a corrected plain fill. The combo
  fills in one day here; the two-day combo is `ingest_two_days`. MCSettlement
  ASSUMEs of the instance what the theorems suppose (`ParentsStable`, `CombosWhole`,
  `RowsStable`, `FillsToldApart`, `IdsNameFills`, `CombosOfADay`, `FillsFound`), so TLC shows that instances of that kind exist.

- *Records*. Positions: five half days, so that a report can be two dates late, and two
  moves, enough to open and close or to open twice; one account of the login's
  (`PositionBookProofs` has any number). Links: two orders, one of two fills, one fill
  renamed when it settles, order ids 5, 5 and 0 beside permIds 7, 0 and 0, so that of two
  fills of an order only one reaches the other, and two requests, so that one can overlap a
  merge or a sync (`LinksStayExact` holds of any number). Sessions: four job types, two
  of which share no client id, and payloads that lack a field or have one that is no
  list. Catalogue: three futures
  on two venues, three options, two jobs. Groups: two callers, two fills in two
  accounts, three requests: a conflict of two and what a third makes of it.
- *Pages*. Events: three changes over three rows, two faults (a break and what follows it, or a reopened
  stream that was down), a queue of one, which a second event fills. Figures: up to four fills in two contracts of one account
  and two groups, of sizes 2 and −1, so that closes are partial. Picks: years over the
  turn of a decade, read up to ten years off (beyond the four and the nine that
  `YearRecovered` claims); every table of at most six rows; every pair of chains. Board:
  two workers and four readings of the clock, enough for one job to read before and
  commit after another. Workers and groups are symmetric.

Deadlock checking is off where the system may rest: nothing queued, nothing
requested, bounds used up.

**Fairness.**
- *Jobs and orders*: weak fairness of each worker's next step, of its restart
  (a supervisor), of time passing, and of the second half of a request or job
  that has begun. Nothing is assumed of users, the broker or crashes; a handler
  may defer or fail as often as the bound lets it.
- *Reporting*: weak fairness of the worker, of its restart and of ticks; none of
  IBKR's particular answers. `FetchEnds` holds because polling is bounded in the
  code, not because IBKR is assumed to answer; rate limits are assumed finite.
- *Settlement*: the intraday sync runs again and again (strong fairness of
  `ReadIntraday`: it is queued behind other jobs but its turn comes, JobQueue's
  `EveryJobEnds`), and an open sync ends (`[]<>(sync = Idle)`: one of commit and
  abort is possible whenever one is open). Nothing is assumed of reports or
  users.
- *Records*: weak fairness of a settled sync that brings nothing new
  (`RecordsFairness`): the fetch jobs are enqueued daily and every queued job ends
  (`EveryJobEnds`). Users and TWS may stop at any time.
- *Pages*: none.

## 4. Findings

Shown by a run:

- `order_sync_tws.py:163` — an `orderId` of 0 is taken for an id, so two orders
  first seen when completed share a row (run import_unwatched). The same look-up
  takes two API clients' orders with the same orderId for one order
  (`reqAllOpenOrders` lists every client's): `OidsApart` names what the proof of
  `MatchingIsIdempotent` has to suppose, and the property fails without it.
- `fill_ingest.py:387` — a combo order filled over two days gets two summary
  rows and is counted through both, against the comment at
  `fill_ingest.py:102-103` (run ingest_two_days).
- `contract_sync.py:140` — syncing one spec of a product retires the active
  contracts of its other specs, against the comment at `contract_sync.py:135`
  (run catalogue_specs).

Met while modelling; the models have the behaviour, no run is spent on it:

- `item_links.py:202` — an account with no rows in `positions` is dated by the newest
  snapshot of any account, so another account's report can end its position tags
  although the position was never flat; the docstring (`item_links.py:185-187`) lets
  only the account's own settled snapshot do so. `TagEndsOnOwnSnapshot` excepts the case.
- `order_sync_tws.py:325` — the broker sync writes `order.status` itself when
  the table disallows a move, and logs `broker_order_synced_status`;
  `docs/design/workers.md:97-100` says every status write goes through
  `transition_order_status` and a disallowed move is recorded as
  `forced_status_change`.
- `order_worker.py:99` and `order_sync_tws.py:87` — an order the broker lists with an
  empty status normalises to `queued`, and the sync writes that over any status
  (`:327`), without `submitted_at`: an order of the broker's, also one already failed,
  is then taken up and processed by the orders worker. `ProcessedOnce` counts from
  the last time a writer queued the row.
- `useSseList.ts:5-6` — a list is said to fetch its snapshot again after the stream
  reconnects; a disconnected tab that follows a new topic goes from disconnected to
  connecting to connected (`events.ts:106-107`), and `useSseList.ts:20` reloads only on
  disconnected to connected. The older of two loads may also land last
  (`useSseList.ts:78-86`). `ListIsCurrent` excepts both.
- `workers/jobs.py:474` — an initiate job has no bound on refusals, against
  `services/jobs.py:29-31`.
- `ui_events.py:122-124` says a dropped subscriber's connection will be closed; its
  stream goes on waiting on its queue, and the browser is not told.
- `intraday_overlay.py:362-365` — a capture is said to be evidence only if it
  postdates the settled snapshot; one of the snapshot's own date counts as current
  (the comparison at `:125` is strict), so a position opened after the capture on
  that date is merged as closed until the next capture.
- `option_metrics_sync_tws.py:75-77` — a stored row's timestamp is said to reflect
  the freshness of its values; a partial fetch stamps the greeks it kept, too.
- `trade_group_pnl.py:441` — the accounts' figures are said to reconcile to the
  group's totals; with live fills of a contract that several groups hold, the live
  realized profit is in each of them (`trade_group_pnl.py:500`).
- `trade_group_pnl.py:574-576` — a contract split across groups is said to be counted
  once; a group's share is capped by the whole position only (`held_fraction`,
  `trade_group_pnl.py:131-135`), so with two groups on one side and a third on the
  other the parts come to more than the position (−3 and −3 of −4, a third group
  holding 2). `SharesWithinBook` excepts the case (`Opposed`); it came to light in the
  attempt to prove it without.
- `fill_ingest.py:355` — the cash of a combo's summary is summed over all leg rows of
  the report; a report with a leg and its correction has both in it, although only the
  correction is canonical (`sync_common.py:177-202`). `CashConserved` is proved for
  combos without corrected legs (`CombosWhole`).
- `routers/trades.py:568` — with no settled row to show, the page returns before it
  looks for live fills, which `_unsettled_live_executions` says are surfaced for
  tagging.
- `watchlist_instrument_sync.py:162` — a lookup for a watch list passes columns
  `WatchListInstrument` no longer has: each such job fails until its budget is spent.

## 5. Proofs

`JobQueueProofs` proves, for any finite or infinite set of workers, producers
and types, any budgets and any bounds (`ConstantsAssumption` only):

- `TypeCorrect`, `TypeInvariant`: `Spec => []TypeOK`. `TypeOK` alone is not
  inductive: a worker writes to the row it holds, so the invariant adds that a
  busy worker holds an inserted row (`ClaimsInserted`) and that exactly the rows
  up to `lastId` are inserted (`InsertedUpToLast`).
- `AttemptsAreFailures`: `Spec => []AttemptsWereFailures`, with any number of
  workers. The strengthening is about the snapshots: what a session loaded of a
  row's `attempts` is at most the failures the row has had, because failures
  only grow. A worker that writes `seen + 1` late therefore still writes no more
  than the failures counted, its own included.
- `NoEarlyVerdict`: `Spec => []FailedSpentBudget`: a row reaches `failed` only
  by a write of at least `maxAttempts` attempts, which by the former bound were
  failures, and `max_attempts` never changes after the insert.

and, of the deployment, one jobs worker (`OneWorker`, an assumption of each
theorem), with any number of producers, jobs, deferrals and crashes:

- `ImplementsLedger`: `Spec => KeepsLedger`, the refinement of JobLedger. An
  enqueue is a submission of one job, a completion succeeds, a failure or an
  unsupported type charges, everything else (claim, deferral, crash, restart,
  archive) leaves the ledger alone.
- `FailuresAreAttempts` (`AttemptsExact`), `RunningIsAccounted`
  (`RunningIsOwned`), `VerdictsStand` (`VerdictIsFinal`), `OrphansStay`
  (`OrphanBlocksIdle`).

These five rest on one invariant, `Solo`. Its heart is `SessionCurrent`: what the
worker's session loaded of its row is still what the table says, because with
one worker nobody else writes the status or the attempts of a queued or running
row. That is exactly what a second worker breaks, and why the two-worker run
checks only the bounds above. The rest of `Solo` says that orphans stay running,
that a running row is owned or orphaned, and that an unused id was charged
nothing while a used one has a type and a positive budget.

`IdleNeverStacks` (`IdleNotStacked`) supposes one producer as well (`OneProducer`):
`work_order_queue.py` is the only caller of `enqueue_job_if_idle`. The invariant,
`Unstacked`, says what the check still knows when the insert comes: none of the
producer's own earlier jobs of the type is active (`CheckedIsIdle`). It is kept
because nothing revives a row — a rerun inserts a new one, an archived row stays
archived and a verdict stands — which is one lemma, `NoRevival`.

`OrderQueueProofs` proves, for any sets of orders, workers, syncs and cancel
requests (`OrdersAssumption` only):

- `TypeCorrect`, then `Once` (`ProcessedOnce`), `NeverStranded`
  (`NoneStranded`) and `AlwaysStamped` (`TerminalIsStamped`) from the invariant
  `Safe`. `ProcessedOnce` alone is not inductive: an order processed since it was queued
  must also have left `queued` (`ProcessedLeftQueue`), else it could be claimed
  again. The two writers with stale reads are handled together: `Rewrites` says
  what reconciliation and sync have in common (unlocked rows only, statuses of
  the broker only, never `submitting` or `failed`, stamped where terminal, and the
  count of processings started anew where the row is queued), and one lemma shows
  that this keeps `Safe`.
- The action properties `CancelHolds` (`CancelledStaysIdle`), `LostAreFlagged`
  (`RestartFlagsLost`) and `ForcedAreRecorded` (`ReconcileRecordsForced`). The
  first follows from "a locked row is queued" and from `OursUnlisted`, no reader ever
  holds an order the broker does not know; the other two from the only step
  that ends a reconciliation.

`FlexReportProofs` proves, for any finite set of tokens, any accounts, delays and
budgets, with crashes, edits and rate limits in any number (`FlexAssumption` only):

- `FlexTypes` (`TypeOK`), `ChecksStayBounded` (`ChecksBounded`),
  `ReportsStayCovered` (`CompletedCoversReport`) and `ChildrenStaySingle`
  (`NoDuplicateChildren`) from `FlexInv`. None is inductive alone. `Charged` relates
  each answer "not ready" to a check or an attempt it cost; `Covered` says that the
  accounts a fetch job has still to do are all it lacks; `Parents` that a job with a
  child has finished, is about to, or was orphaned by a crash, so a retry cannot
  come to the enqueue twice; `Holding` that the worker holds a running job of the
  kind its step is for. `TableFits` counts: a fan-out has one child per token and an
  initiate job one, both by injections, so the table's bound `MaxJobs` never cuts.
- `CooldownIsRespected` (`CooldownRespected`), for any resolution of the clock and with
  crashes. What the code does not give is in the property: `pause_remaining_seconds`
  rounds down, so less than a second of a pause reads as none, and a crash or an error
  between IBKR's 1025 and the commit of `pause_token` loses the pause. The invariant
  `Cooled`: the table's pause is no shorter than IBKR's, unless IBKR's is yet to be
  recorded or was lost.
- `FlowKeepsLedger`: `Spec => KeepsLedger`, the second refinement of JobLedger. A
  request, a fan-out and an accepted statement submit, a completion succeeds, a
  failure and the last check charge, and every deferral leaves the ledger alone.

`RecordsProofs` also proves `LinksStayExact` (`LinksSpec => []LinksExact`) under
`LinksAssumption` and two hypotheses of its own: fills that `live_order_key` or
`live_order_fills` takes for one order are fills of one order (`IdsNameOrders`; two API
clients that use the same orderId would break it), and rows of different tables are
different rows (`TablesApart`). A link may be on a live fill that is gone only if a
request committed it after the purge (`late`), and then the fill has settled: it stays
there until a later sync carries it (`LinkLands`), or, where the fill settled under
another id, until TWS reports the fill again. The invariant adds what a request that
is under way aims at (`RequestAims`) and that the tags of a merge under way are
still there (`MergeAims`); with the links equal to what was asked for, each commit
keeps them so however late it comes.

`SettlementProofs` proves of the ingest and of the handoff, for any rows, fills,
windows and groups, reports collected in any order, syncs that abort and requests
that commit while a sync is open:

- `IngestKeepsLatestRevision` and `SettlementKeepsLatestRevision`
  (`LatestRevisionCounts`), of FillIngest alone and inside the syncs. A batch re-flags
  every revision of every fill it touches (`FlaggedRows`); what it does not touch has
  the same revisions as before.
- `IngestKeepsAggregates` and `SettlementKeepsAggregates` (`AggregatesCurrent`). An
  ingest recomputes only the trades its own rows name, so a trade that loses or
  regains a canonical row must be among them. That needs `ParentsStable`: every
  report that can be requested gives the revisions of a fill the same parent. It is
  stated of the constants, and the invariant that carries it is `Parented`: each stored
  execution has the parent some report gave it. Without it the property fails: a
  combo of which one report has a single leg leaves a trade behind that is never
  recomputed (section 7). Totals are equal because the canonical rows are.
- `MatchesStayHome` (`MatchesAreHome`): the reconcile and the carry-over find, for a
  live fill, rows of that fill only. Two hypotheses on the constants: `RowsStable`, an
  id comes with the same row in every report that has it (a correction has an id of its
  own), and `FillsToldApart`, what the matchers compare tells a live fill from every
  row of a report that is not its own. Two combos filled in one second break the
  second. What is proved is that the table, after any upserts and flags, in which some
  columns are kept from older rows (`Kept`), is no worse than a single report
  (`AsWritten`).
- `HandoffIsSafe` (`HandoffKeepsGroup` and `NoStrayTag`) from `MatchesStayHome`. Every
  move of a commit is a match in the table it leaves (`CommitMoves`); the handover
  drops a tag only where a target has one (`HandOverSafe`); and no other step commits
  (`OnlyCommits`).
- `PageStaysRight` (`PageIsRight`). `PageInv` says that no live fill that shows has
  settled (`NoTwin`), that a leg that shows has its BAG summary beside it
  (`LegsHaveBag`), and that an open intraday sync has read, with a fill, all live fills
  of its order (`SyncWhole`): a sync that saw the summary alone would write it as a fill
  of its own. Both syncs leave through the reconcile, so one lemma, `ReconcileLeaves`,
  serves them: it drops what has a match (`ReconcileDrops`), and a BAG summary only with
  its legs (`ReconcileSpares`). That exactly one settled row shows is
  `SettlementKeepsLatestRevision` and a highest revision's existence (`LatestShown`).
  The hypotheses, beside `RowsStable` and `FillsToldApart`: `IdsNameFills`, ids that
  differ in the revision are of one fill, and TWS reports a fill under one id (a
  correction that TWS itself sends would show twice until it settles);
  `CombosOfADay`; and `FillsFound`, a report that settles a fill has a row the
  matchers know it by.
- `CashIsConserved` (`CashConserved`). In the table as it stands a combo has its legs
  and one summary, all canonical, and nothing else (`ComboStands`), so its trade is worth
  the summary's cash, which is the legs' sum under another name (`SumRenamed`). It
  rests on `CombosWhole`: no window splits a combo (`ingest_two_days` is what happens
  otherwise), and no leg is corrected, because the summary is built of every leg row of
  the report, both revisions of a corrected one included (section 4).

`PositionBookProofs` proves, for any accounts, contracts, moves and reports:

- `BookStaysHeld` (`BookIsHeld`). `BookInv` relates three dates: a report is older
  than the day it is collected on and than any capture under way, and a live row is
  no older than the report that would supersede it (`ReportsArePast`); the settled rows
  are the book at the end of the day they are dated (`RowsAreTheBook`); and a live row is
  of a contract held now or moved since its capture began (`LiveRowsWereHeld`).
- `TagsEndOnOwnSnapshot`: the step property of the same name, from the same invariant.
  Without its exception it is false of the code as soon as there are two accounts
  (section 4).

`RecordsProofs` holds, beside the links, four components that share no state:

- `NothingLeaks` (`NoSessionLeaks`) from `PoolKnows`: TWS's connections are the pool's
  live ones. The pool forgets an entry only when its connection is gone.
- `CatalogueStaysSound` (`CatalogueSound`) from `WorkVouched`: what a job carries from
  one transaction to the next — the futures a chain sync wrote, the exchange a product
  sync loaded — is still vouched for by the tables when it is used.
- `ImportIsIdempotent` (`MatchingIsIdempotent`), for any orders, listed in any order, and
  any number of syncs, from `ImportInv`. Its heart is `TableTrue`: the ids on a row are
  those of the order it holds, and an orderId is never there without the permId. So all
  rows that any of the three keys finds hold the order that is looked for, and none is
  found only when no row holds it (`MatchFinds`); a copy keeps that (`CopyKeeps`), and
  `SyncKeeps` carries it through the loop, by induction over the collected list. An order
  without its orderId is met only when a row knows its permId (`TradesMeet`): it was seen
  open by an earlier sync, or earlier in the same list. The two hypotheses are those: no
  order completes unseen (`~Unwatched`), and orderIds are not 0 and not shared
  (`OidsApart`). Each is needed (section 4).
- `HistoryStaysTrue` (`HistoryTellsGroup`). A request writes by the key it read;
  the invariant adds what a request in flight carries (`RequestRead`) and that fills not
  settled have no history. Handoffs are entries of the history, for the code keeps no
  event of them: the events alone do not tell the group of a fill that a sync put back
  into one. The lemmas are about `LeftIn`: what one more event of either
  kind makes of the group a history leads to.

`PagesProofs` holds four:

- `BoardsStayRight` (`BoardsRight`) and `GreeksStay` (`GreeksKept`), for any contracts,
  workers and lists. The heart of `Board` is `LatestIsNewest`: the upsert's guard on
  the timestamp makes the latest row the newest of the history, in whatever order jobs
  commit; `RunsSound` says that a run stamps with a time it has read and not before it
  was asked.
- `ListStaysCurrent` (`ListIsCurrent`), for any browsers and rows and queues of any
  length, with any number of loads under way. The invariant `Follows` is a promise about
  what is under way: for a row nobody has a post of, the last event of the row in a tab's
  queue carries the committed value, or there is none and the list has it, or the
  newest answer on its way, or a load still to be read will (`Sees`). It is broken off
  where the list has gone past the newest answer (`Doomed`), which then lands last.
- `SharesStayWithin` (`SharesWithinBook`) and `FiguresStayAgreed` (`FiguresAgree`), for
  any accounts, contracts, groups and fills. What moves is little: `FiguresInv` says that
  the summaries of the combos carry what their legs realized (`SummariesSpeak`), which
  only `BookCombo` has to keep; the rest is about the operators, in any typed state.
  The held parts of a position add up group by group (`NetByGroup`), and where all are
  on its side, or one alone is, the caps leave no more than the position (`SharesStay`).
  First in, first out takes from the lots what the fill has and leaves one sign
  (`FifoKeeps`, then by induction over the fills, `LotsStay`). The pages' sums agree
  because what one leaves out is zero (`PathsStay`, `OvernightStays`).
- `PicksStayRight` (`PicksRight`), for any years of this century, tables, windows and
  lists of chains (`PicksAssumption` only). A digit and an expiry up to four years off
  leave one year, because of the three candidates the two others are six years off or
  more (`DigitNearest`); a digit alone is right up to nine years ahead (`DigitAhead`).
  The first rows of the months contain a first of every month (`FirstOfMonthIs`),
  so the first among them is the first of all (`FirstIs`). That a chain picked has
  both the month and the strike (`ChainIs`) is due to the order of the filters: the filter
  for the strike keeps only chains the one for the month kept, and what the
  candidates offer together they offer singly.

`SumTheorems` is what those rest on: induction over the natural numbers and over a
finite set, stated with sets in the place of predicates and got from the minimum of a
well-founded set (`LeastOf`), and what `SumOver`, the sum of a column over rows, comes to
element by element, part by part, class by class and under a renaming.

Each theorem has one lemma per action or group of actions, and the usual three
facts (initial, step, implication) under a PTL step.

Some of what is proved has no run of its own any more, because a theorem says it
for every instance and runs are few: `TypeOK`,
`AttemptsWereFailures` and `VerdictIsFinal` of JobQueue, `TypeOK`, `TerminalIsStamped` and `ReconcileRecordsForced` of OrderQueue,
`TypeOK` of FlexReport.

Only model-checked: all liveness (`EveryJobEnds`, `QueuedEnds`, `FetchEnds`,
`SettledLeaves`, `LinkLands`), which is out of the prover's reach with ENABLED. Every
safety property of a passing run is a theorem, under the hypotheses named above.

## 6. Not modelled

The dormant TWS source of the ingest (permId matching, re-tagging of legs) and the
two TWS history syncs have no caller. Order creation answers 501 and placement is
after a `raise`, so what follows it is unreachable. The accounts are one in
FillIngest and Settlement: every key of the ingest contains the account, and two
matchers that do not (`_match_leg_strip`, `_has_live_siblings`) compare ids that
are unique across accounts. Names, notes, timelines, meta YAML, links between
groups, filters, sorting, the strategy list, saved structures, preferences and
account aliases are single-row edits or formatting. The chatbot is a loop around a
language model whose tools read tables and enqueue jobs; the semantic layer compiles
queries; both change no table that a model here has. Arithmetic in prices is kept to
whole amounts; rounding and missing marks are left out.

## 7. Plan

Done, in this order: JobQueue with its ledger and proofs, OrderQueue with proofs,
OrderImport, FlexReport, FillIngest, Settlement; then PositionBook, ItemLinks,
UiEvents, JobSessions, Catalogue, ContractPicks, MarketBoard, GroupFigures,
GroupBook, TradesPage and the two compositions.

Left, if more is wanted:
1. *Settlement* with two combos in the same second and with legs of a combo
   arriving in different windows.
2. *GroupFigures* with corrected executions, and with closes through zero.
3. The idempotent-create match of `order_mutations.py`, once orders can be created.

Hazards no property covers, beside those the findings name: a tag inserted on a
live fill while the sync that drops that fill is open stays as a link without a
fill (`routers/trade_groups.py:941`), and the page's header counts it (`:472`);
`delete_trade_group` takes a fill assigned meanwhile without an event (`:549`); an
execution that moves to another parent leaves the old one's aggregates
(`fill_ingest.py:314`), and a combo's gcd is over single executions (`:363`); two
combos filled in one second share their tag (`live_reconcile.py:224`); a second jobs
worker could re-insert retired live fills (`work_jobs.py:157`); a 1025 shortens a
longer pause (`flex_credentials.py:93`), and a pause's last part of a second reads as none
(`:53`); open lots are read without the canonical filter
(`routers/positions.py:209`), and a stale capture keeps its live profit (`:378`); no
event says that an intraday sync changed positions (`work_jobs.py:86`), nor what
`order.fetch_sync` changed (`order_sync_tws.py:445`); each lookup that misses stacks
another job (`contract_lookup.py:386`); a repeated create request is recognised for
30 seconds only (`order_mutations.py:107`).

A request that enqueues a job between the check and the insert of
`enqueue_job_if_idle` leaves two of its type (`services/jobs.py:99`): `IdleNotStacked`
speaks of the producer's own jobs.

Theorems worth proving next: that the ingest keeps a combo's cash where a report corrects
one of its legs, once the summary is built from canonical rows; and `IdleNotStacked` with
more producers, once the check and the insert are one statement.
