# Iron Fish API: TLA+ models

The Iron Fish API indexes an Iron Fish chain: a node uploads the blocks and
transactions it sees, the API keeps them in Postgres together with what it
derives from them (assets, their supply, daily metrics), and serves them to
explorers and wallets. It also runs a faucet, takes telemetry and answers
questions about a bridge.

Modelled are the write path of blocks and transactions, what its readers may
rely on, the jobs that derive assets from it, the daily snapshots, the faucet,
the list of verified assets, the requests that read and list, the native
supply, the bridges and the telemetry. What is modelled is model-checked with
TLC. Every safety property of these models is also proved with TLAPS, for any
number of blocks, requests, workers, rows and so on, and so is that the write
path implements its abstract specification. Liveness is only model-checked.

## Inventory

Paths are relative to `src/src/`. "State" is what a component keeps between
calls; almost all of it is in one Postgres database (`src/prisma/schema.prisma`).

| component | state | operations | called by / calls |
|---|---|---|---|
| **Blocks and transactions loader** `blocks-transactions-loader/` | none of its own; one request's progress through its batch | `createMany`: per block, one database transaction (upsert block, create transactions, link them), then one job per transaction; at the end two more jobs | `POST /blocks`; calls Blocks, Transactions, BlocksTransactions, GraphileWorkerService, BlocksDaily |
| **Blocks** `blocks/` | table `blocks` (hash, sequence, parent, `main`, `time_since_last_block_ms`, ...) | `upsert`, `head`, `disconnectAfter`, `list`, `find`, `getDateMetrics`, supply formulas | `POST /blocks`, `POST /blocks/disconnect`, reads |
| **Transactions** `transactions/` | table `transactions` (hash, `seen_sequence`, ...) | `createMany`, `createManyWithClient`, `findMany`, `find`, `list` | `POST /transactions`, the loader, reads |
| **Blocks-transactions** `blocks-transactions/` | table `blocks_transactions` (block, transaction, index) | `createMany`, `findTransactionsByBlock`, ... | the loader, Blocks |
| **Assets loader** `assets-loader/` | progress of a job | `loadDescriptions`: undo and delete a transaction's descriptions, make them anew; `refreshNativeAssetSupply` | jobs LOAD_ASSET_DESCRIPTIONS, REFRESH_NATIVE_ASSET_SUPPLY |
| **Assets** `assets/` | tables `assets` (identifier, `supply`), `verified_asset_metadata` | `upsert`, `updateSupply`, `updateNativeAssetSupply`, `updateVerified`, `deleteUnverified`, `lastUpdate`, lists | Assets loader, `POST /assets/verified`, reads with If-Modified-Since |
| **Asset descriptions** `asset-descriptions/` | table `asset_descriptions` (mint or burn, value, asset, transaction) | `create`, `findByTransaction`, `deleteByTransaction`, `list` | Assets loader, reads |
| **Graphile worker** `graphile-worker/`, `worker.ts` | the job table; in each API process the lazily made `workerUtils` | `addJob`; in the worker, take a job, call its handler, retry when it throws | the loader, daily sync |
| **Blocks daily** `blocks-daily/`, `blocks-daily-loader/` | table `blocks_daily`, one row a day | job SYNC_BLOCKS_DAILY: compute a day when the head is a day past it, queue the next day | the loader, itself |
| **Faucet** `faucet-transactions/` | table `faucet_transactions` (email, key, started, completed, tries, hash) | `create` (two per three days), `next`, `start`, `complete`, `getGlobalStatus` | clients, the faucet bot |
| **Prisma service** `prisma/` | two connection pools, primary and replica | `$transaction`, queries; raw queries go to the replica in production | everything |
| **Supply** `supply/` | none | `circulating`, `total` | reads |
| **Versions** `versions/` | table `versions` | `create`, `getLatest`, `getLatestAtDate` | releases, reads |
| **Telemetry, InfluxDB** `telemetry/`, `influxdb/` | the Influx client's buffer | filter points, write them | nodes |
| **Bridges** `bridges/` | none | filtered calls of Chainport | wallets |
| **Process start, configuration, auth, health, logging** | none that changes | - | - |

### How they interact

`POST /blocks` is served by any process of the API cluster. For each block of
its batch it reads the parent, then runs one interactive transaction, then adds
LOAD_ASSET_DESCRIPTIONS jobs outside that transaction; after the last block it
adds SYNC_BLOCKS_DAILY and REFRESH_NATIVE_ASSET_SUPPLY. Worker processes take
jobs in any order, several at once, and retry those that throw. So the same
tables are written by concurrent uploads, by `POST /transactions` and
`POST /blocks/disconnect`, and the derived tables by concurrent jobs, all at
READ COMMITTED; the only coordination is unique keys and row locks.

### What is hard, and what makes it correct

- **Write path.** Uploads of the same transactions wait for each other's
  uncommitted rows and skip them; they may deadlock; any statement may fail and
  the batch is sent again. Correct: a stored block is whole; a transaction's
  `seen_sequence` is that of a block that exists; a job's transaction is
  committed when the job is added; an answered upload has done everything; what
  is written once stays.
- **Description jobs.** They overlap, fail and are retried, and a burn may run
  before its mint. Correct: a transaction's descriptions are those its last job
  makes, and an asset's supply is the sum of its descriptions.
- **Faucet.** The limit is checked by one statement and used by another; so is
  "not completed". Correct: the limit holds up to the requests served at once;
  nothing completed is completed by a later request; `next` and `status` give
  sensible answers while rows move; requests end although each holds one
  connection and asks for a second.
- **Daily metrics.** Chains of jobs, a lagging replica, reorganisations.
  Correct: no day is skipped, and a row describes a complete day.
- **Verified assets.** A post is many statements, and another may run between
  them; a client's copy has the date of one server and the rows of another.
  Correct: the table is what the last post said; a client that is told its copy
  is up to date has every row.
- **Reads.** An answer takes several queries, some of the primary, some of a
  replica that lags behind, while uploads and jobs commit. Correct: a block that
  is found is whole, nothing throws because two queries saw different tables.
- **Lists.** Cursor pages over tables that change between the pages and between
  the queries of a page. Correct: no row twice, no row missed.
- **Native supply.** Jobs under one key, several workers, processes whose worker
  utilities fail. Correct: when all is quiet, the row has the supply of the head.
- **Bridges.** Another company's service answers, well or not, and its answers
  are joined with each other and with our assets. Correct: what is offered was
  listed and verified; one gap in an answer does not spoil the rest.
- **Telemetry.** Points are filtered one by one and written as a whole.

The hazards, each at its line and with the properties about it, are listed in
`PROJECT.json`.

## Plan

Modules, in the order of their importance; those that are left stand last.

1. `BlocksTransactionsLoader` - the write path. *Done, proved.*
2. `AssetsLoader` - the description jobs. *Done, proved.*
3. `FaucetTransactions` - the faucet. *Done, proved.*
4. `BlockStore` - an abstract specification of the write path. *Done;
   `BlocksTransactionsLoader` implements it, checked and proved.*
5. `BlocksDaily` - head, job chain, replica, `blocks_daily`. *Done, proved.*
6. `VerifiedAssets` - `updateVerified`, `deleteUnverified`, If-Modified-Since.
   *Done, proved.*
7. `Reads`, on `BlockStore`; `Lists`; `NativeSupply`; `Bridges`; `Telemetry`;
   `Services`, which puts them side by side. *Done, proved.*
8. `Indexer` - would compose 1, 2 and 5's jobs with a node that uploads forks.
   Nothing in the repository says what that node does, or which block's
   descriptions should stay, so it is left out.

## The modules

### BlocksTransactionsLoader

One request is a record with a program counter; a step is one SQL statement,
one `addJob`, or a commit.

| variable | code |
|---|---|
| `stored`, `main`, `timed` | rows of `blocks`; columns `main`, and whether `time_since_last_block_ms` is set |
| `seen` | rows of `transactions` with `seen_sequence` |
| `links` | rows of `blocks_transactions` |
| `jobs`, `chores` | jobs ever added: LOAD_ASSET_DESCRIPTIONS; the two closing ones |
| `sweep` | rows the running UPDATE of `disconnectAfter` has in its snapshot |
| `req` | what a request's process remembers, and its uncommitted rows |

| actions | code |
|---|---|
| `ReceiveBlocks`, `ReceivePool`, `Resend` | the controllers; the uploading node sends a failed body again |
| `Lookup` .. `CommitBlock`, `NextBlock` | one turn of the loop of `createMany` |
| `QueueDescription`, `QueueSync`, `QueueRefresh` | the `addJob` calls |
| `ReadHead` .. `CommitPool` | `bulkCreate` |
| `DisconnectStart`, `DisconnectEnd` | `disconnectAfter`, from snapshot to commit |
| `Abort`, `DeadlockAbort` | crash, timeout, lost connection; Postgres breaking a cycle of waits |

What an open transaction wrote is in its request's record until the commit.
`INSERT ... ON CONFLICT` waits for an uncommitted row with the same key
(`WaitsFor`), then updates or skips it; a later statement of the same
transaction sees what has been committed meanwhile. Hashes are standardized, a
hash determines the content of its block, there is one `network_version`; the
`index` column and the columns nothing depends on are left out. `createMany`
inserts the rows of one statement one after the other.

### BlockStore

What others see of the write path: `StoreBlock(b)` adds a block, its
transactions and its links in one step, new or again, on the main chain or off
it; `StorePool` adds transactions seen at a block that is stored; `Disconnect`
takes blocks off the main chain. Under the mapping `chain <- {b : main[b]}` the
loader implements it: `CommitBlock` is `StoreBlock`, `CommitPool` is `StorePool`,
`DisconnectEnd` is `Disconnect`, every other step of the loader, its statements,
jobs, failures and retries, is a stutter. `Reads` builds on `BlockStore` and not
on the loader, so its readers see what the refinement allows and nothing more.

### Reads

`stored`, `chain`, `seen`, `links` are those of `BlockStore`; `assets` and
`descs` are the tables the jobs write, `copy` what the read replica has of all
these; the replica takes over the primary's commits whole (`CatchUp`). `query` is
the request at hand; one step is one query.

| actions | code | server |
|---|---|---|
| `ReadHead` | `BlocksService.head` | primary |
| `FindBlock`, `FindTransactions`, `FindPrevious` | `find`, `findTransactionsByBlock`, the end of `GET /blocks/head` | replica |
| `FindTransaction`, `FindAsset` | `TransactionsService.find`, `GET /assets/find` | primary |
| `FindBlocks`, `FindDescriptions`, `FindDescribedAsset` | `findBlocksByTransaction`, `getAssetDescriptionsWithAssets` | replica |

`head` picks any of the highest main blocks: nothing makes it unique.

### Lists

One walk: a client asks for a page, and with its last item (or first, with
`before`) for the next. `primary` and `replica` are the two copies of the table;
a row is not there, deleted, there but outside the filter, or in the list, and
`hidden` are those whose transaction has no main block on it (for a description
that the replica does not have yet, the block may be on the replica or not:
`ShowRow`). Where `list` and
`getListMetadata` of each service read is `DataTable` and `FlagsTable`: the page
of blocks comes from the replica and its flags from the primary, those of assets
both from the replica, those of descriptions from the primary. `FindMany` is
Prisma's `findMany` with a cursor, which need not be in the filter but has to
exist; it is stated by rank - a row is found when the number of selected rows
between the cursor and it is within the page - and `Ordered` is the order in which
the rows come. `steady` and `lost` are history: the rows that were in the list all along,
and whether a query began at a row that was not in it any more. A client that gets
an empty page with `has_next` (all its rows had no main block) is `stuck`.

### NativeSupply

`upload` is each API process' `POST /blocks` after its commits, `utils` its
`GraphileWorkerService`; `pending` is the job under the key of the native supply,
`run` what the workers do. `InitWorkerUtils` may fail, which leaves the
process' promise rejected; `AddRefresh` replaces the waiting job, and takes its
key from one that runs. `MiningRewards`, `Unlocked`, `Total` and `Circulating`
are the formulas of `BlocksService`, in units that make them whole numbers.
Rewards are multiples of an eighth of an IRON, and `assets.supply` is a BigInt:
`Refused` says that the total of the head a job has read is no whole number of
IRON (`Iron` units), which Prisma rejects; the job then fails as for any other
reason, until its attempts are used up.
`stale` is history: why the row may differ from the head's supply at rest - no
`addJob` of the last upload succeeded, the chain was cut since (no job is added
for that), two jobs ran at once, or the last gave up.

### Bridges

One request from its arrival to its answer, with all that Chainport may answer:
an error with or without an explanation, entries that are missing or malformed,
targets `meta` does not know. `Accepts` is a Joi schema: one bad entry rejects
the answer. `ChangeAsset` are the jobs and posts that change assets between the
lookups. Version 1 and 2 of Chainport's interface are both modelled.

### Telemetry

`place` is the loop the handler of `POST /telemetry` is in; `found` what
`processPoints` remembers, `influx` what has been handed to the client library.
A point is its version, agent, network and what the whitelist tells apart.

### Services

`Reads`, `Lists`, `NativeSupply`, `Bridges` and `Telemetry` share no state; a step
of `Services` is a step of one of them. `MCServices` adds a `scenario`, so that
a run looks at each by itself and not at the product of all five.

### VerifiedAssets

`post` are the `POST /assets/verified` being served: `Stamp` and `Upsert` are one
turn of the loop (Prisma takes `updated_at` before it sends the statement). Of
an entry, `extra` stands for decimals, logo and website, which a body may leave
out: they are then `Undefined`, and Prisma leaves the column as it is, null on a
new row (`Written`).
`DeleteUnverified` its end, `Fail` a crash at any point. `client` holds each
client's copy of the list, its date, and its request: `Ask` reads the latest
`updated_at` on the primary, `ListMetadata` the rows on the replica. Dates are
clock ticks, two to the second; `Fresh` is Express, which compares the header's
seconds where `NotModified` compares milliseconds.

### AssetsLoader

A job is a record with its program counter, its attempts and what its open
transaction wrote (`fresh`, `moved`, `delta`, `made`, `gone`). `ReadDescriptions`,
`UndoDescription`, `DeleteDescriptions` are `deleteAssetDescriptions`;
`UpsertAsset`, `FindAsset`, `AddDescription` are `createAssetDescriptions`, with
the create of a description and the supply update, which only a failure can part,
in one step. `updateSupply` increments in the database, so a job keeps the sum
of its increments and the row is locked from then to the commit. The upsert of
an asset that exists changes nothing (`update: {}`) and is taken to lock
nothing; it waits for another job's insert of the same asset. `overlapped` and
`last` are history: the transactions two jobs of which ran at once, and the
job that committed last.

### FaucetTransactions

`client`, `op` and `reader` are the requests being served: create; start and
complete; next and status. `Count` and `Insert` are the two statements of
`create`; the count goes through `this.prisma`, so it needs a free connection
while the transaction holds one (`Free`); a pool belongs to one of the
cluster's processes. A row's position in `rows` is its id
and its order by `created_at`. Time is counted in days; `Tick` may happen
between any two statements. An e-mail address that is left out matches no row.

`next` reads the primary, the three counts of `getGlobalStatus` (`CountPending`,
`CountRunning`, `CountCompleted`) the read replica, whose copy of the table is
`replica`. It takes over what the primary has (`Replicate`) at any time, also
between two counts. A replica that lags and shows the primary's states one by
one needs no steps of its own: status reads nothing else, so it cannot tell that
from reading the same states when the primary had them. `asked` is history: how
many rows the replica had when the request arrived. The rows on the primary may
be more, and status may miss those.

### BlocksDaily

A time is a day after 2023-04-20. `chain` is the `main` part of `blocks`, of
each block its day; `replica` is the read replica's copy of it; `row` is
`blocks_daily`, of each day its `blocks_count` (the other metrics come from the
same query). `job` holds the SYNC_BLOCKS_DAILY jobs, `req` the uploads from
their last block to the job they add.

| actions | code |
|---|---|
| `Upload`, `Disconnect` | the blocks `POST /blocks` commits; `disconnectAfter` |
| `NextDateToSync`, `QueueSync` | the end of `createMany`: the argument of `addJob`, then `addJob` |
| `CheckHead` .. `Finish` | `BlocksDailyJobsController.sync`, one step per await |
| `Fail` | a statement that throws, `head` without a block, a worker that dies |
| `Replicate` | the replica catches up, whenever it does |

Several chains of jobs run side by side, since each upload starts one and a job
that fails after its `addJob` starts another. `unsettled` is history: the
days the head was past and, after a reorganisation, was not, and those whose
metrics were read from a replica that was not past them. The models take blocks to
come with days that do not go down along the chain (a consensus rule, up to
clock tolerance) and processes to run in UTC (`addDays` uses local dates).

## The runs

| run | instance | shows |
|---|---|---|
| `loader` | 2 requests; a block and its child with the same two transactions in opposite orders; the batch of both, the child alone off the main chain, or a pool upload; each body sent at most twice | the safety properties, with every failure, resend and disconnect; `ImplementsBlockStore`; `EveryRequestEnds`: cycles of waits are broken |
| `assets` | 3 jobs, 2 transactions, 2 assets, 2 workers, 2 attempts; opposite lock orders, values over the limit, a burn before its mint | `SupplyMatches`, `FollowsLastJob`, `JobsEnd` |
| `assets_overlap` | as `assets` | violation: see below |
| `faucet` | either 3 clients of 2 processes, 2 connections each, limit 2, up to 4 rows over 2 days, a key, with or without an e-mail address, a window of one day; or 2 operators, 2 rows and 1 reader, of the next rows or, on a replica that lags, of the status | `LimitBound`, `CreateEnds`; `RejectsCompleted`, `NextDistinct`, `StatusLosesNobody` |
| `faucet_limit_exceeded`, `faucet_completed_twice` | as `faucet` | violations: see below |
| `blocks_daily` | 1 request at a time, 2 job slots, 3 days, up to 2 blocks, 2 attempts, with the replica (a replica that catches up before each query is none) | `NoGaps`, `QuietIsCaughtUp`, `RowMatches` |
| `blocks_daily_replica` | as `blocks_daily`, up to 3 blocks | violation: see below |
| `verified_assets` | 2 assets, 2 lists that differ in assets, values and in the fields they leave out, 3 posts of which 2 at once, 1 client, a clock of three ticks, two to the second | `LastPostHolds`, `NothingMissed` |
| `services` | `Reads` with a block and its child, `Lists` with 3 rows, pages of 1 or 2 and 2 changes, `NativeSupply` with 2 processes, 2 workers and heads at the boundaries of the schedule, the last two in the third year, one with a total that has a fraction, `Bridges` with 2 tokens and 2 networks, `Telemetry` with batches of up to 2 points; each by itself | their ten properties |
| `head_transactions`, `pages_follow` | as `services` | violations: see below |

**Bounds.** Two requests are enough for every conflict between two holders of a
row, and the proofs cover any number. Two attempts of a body show a failure and
its repair. Three jobs let two overlap while a third has run before or after.
Four rows are one more than `LimitBound` allows for a limit of two and two
processes with two connections each. Three days let a chain of jobs compute two
and stop at the third; two blocks are a day and what ends it, or a day that is
still growing; two slots are two chains, or one that adds its next job
(a queue has no such limit in the code, the proofs have any). Two posts that
overlap and a third that begins after or between them are what `LastPostHolds`
excludes and includes. Three rows are a page, its neighbour on one side and one
that comes or goes; two changes let one row come as another leaves. A block with
two transactions and a child that shares one give an answer of several queries
with something to disagree on. The heads of `services` lie on both sides of the
6th, 12th and 24th month, where the schedules change. `MaxTries`,
`MaxAttempts`, `MaxRows`, `MaxDay`, `MaxCount`, `MaxPosts`, `MaxTime`,
`MaxChanges`, `MaxUploads`, `MaxCuts`, `MaxBreaks`, `MaxReposts`, `MaxPoints`
bound what would otherwise grow; only `MaxAttempts` and `Attempts` (25 by
default), `MaxCount` and a batch's 3000 points exist in the code. Deadlock
checking is off but for the daily jobs: a system whose clients have sent all they
may send stops.

**Fairness.** `FairSpec` lets every live request or job take its next step
eventually: Node's event loop runs it, Postgres grants a lock when it is free and
its deadlock detector runs, graphile-worker polls for due jobs. Nothing obliges a client
to send, the loader to add a job, or a process to crash. In the faucet the step
may also be Prisma's own timeout of a transaction (5 s) or of a wait for
a connection, which fires when nothing else can happen: without it two `create` requests on the two
connections of a process wait for ever. `MCFairSpec` is the faucet's `FairSpec`
on the three scenarios of its run.

Every property of a passing run is also checked against a plausible bug in the
definition it depends on (the definitions `Mut...` beside the original, listed
under "mutants"): each makes its property fail.

### Disagreements with the tests and comments

- `blocks_daily_replica`: "the heaviest head should be at least 24 hours after
  `date`", says the job, and reads the head from the primary; its metrics are a
  raw query, which goes to the replica in production. A replica that is behind
  gives an incomplete day, and no later job comes back to it.
- `assets_overlap`: the tests say loading a loaded transaction again "deletes
  and reprocesses descriptions". Two overlapping jobs of one transaction both
  find nothing to delete, and the descriptions, and the supply, are there twice.
- `faucet_limit_exceeded`: two requests that both count before either inserts
  are both accepted.
- `faucet_completed_twice`: two complete requests that both read the row before
  either updates it are both accepted; the second replaces the hash.
- `head_transactions`: `GET /blocks/head` asserts that the head has a
  transaction, but reads the head from the primary and its transactions from the
  replica: it fails until the replica has caught up.
- `pages_follow`: `after` is documented as a cursor "to fetch records after"; the
  list of a transaction's blocks skips a row for the cursor and leaves the cursor
  out, so each later page is the list from its second row on.

What the models also show, where no text of the repository says otherwise: a
walk may end in an empty page that says there is more; a range of sequences
always says there is nothing more; a client keeps verified metadata that was
deleted when the date moves backwards; `with_tokens` under version 1 of Chainport
always gives a 502; a disconnect leaves the native supply as it was until the
next upload; from the third year on (the yearly rewards of the code are 20, 19
and 18.125 IRON) most totals have a fraction, so most refreshes of the native
supply are rejected until the head reaches a whole one; a list of verified
assets that leaves out a decimals, logo or website an earlier one gave does not
remove it; the counts of the faucet's status are those of a replica; a process
whose first `makeWorkerUtils` fails rejects every later
`addJob` until it dies; one point of another network drops the whole batch,
and the address of its node is written all the same.

## The proofs

Each proof module has an inductive invariant, checked by TLC on the instance of
the run before it was proved, one lemma for each kind of step, and the theorems
at its end. The only assumptions are those on the constants, which the modules
state beside them and TLC evaluates in every run.

### The write path

`BlocksTransactionsLoaderProofs` proves, for any set of requests, blocks,
transactions and bodies that satisfies `LoaderAssumption`:

- `TypeCorrect`: `Spec => []TypeOK`;
- `BlockCompleteHolds`, `NeverThrowsHolds`, `SeenSequenceRealHolds`,
  `JobsAfterCommitHolds`: the invariants of the same names;
- `WriteOnceHolds`: `Spec => WriteOnce`.

None of the properties is inductive. `Inv` adds to the type (`Shape`: where a
request stands in its body) the three properties of the tables, and for each
request `Local(r)`: what it knows at its program counter is true of the tables
and stays true whatever the others do. The core is the loop of inserts: every
transaction the loop has passed is committed or in the request's own `ins`
(a row that was skipped is committed, since a row that is not would have been
waited for), so what `findMany` returns is every transaction of the block,
nothing is thrown, and the commit makes block, transactions and links visible
together. `LocalStable` states once that a step of another request keeps
`Local`: tables only grow. A step is then proved from its own request's view,
one lemma for each kind of step.

`WriteOnce` needs `RowLocks` too: no two requests have inserted the same
transaction, and nobody has inserted a committed one, so a commit never
overwrites a `seen_sequence`.

`AnsweredIsCompleteHolds`: `Spec => []AnsweredIsComplete` builds on it. The answer
is given at the end, so the invariant says of each request what the items it has
passed have left behind - the block stored, its time known when its parent is
in the body, its jobs added - and, at the last steps, the closing jobs; blocks,
times and jobs only grow, so other requests keep it.

`LoaderImplementsBlockStore`: `Spec => ImplementsBlockStore`. Initial states map
to initial states, and one lemma per action says that it is a step of
`BlockStore` or leaves its variables alone. The one that takes work is the commit
of a block: that the rows it makes visible are all the block's transactions and
links is the `Local` of the proof of `BlockComplete`, and that it keeps the
`seen_sequence` of those that were there is `RowLocks`.

### The description jobs

`AssetsLoaderProofs` proves, for any transactions, assets, operations, workers and
attempts that satisfy `AssetsAssumption`: `AssetsTypeCorrect`, `SupplyIsTheSum`
(`Spec => []SupplyMatches`) and `DescriptionsFollowLastJob`
(`Spec => []FollowsLastJob`).

That supplies match says nothing of a job in the middle. `AssetsInv` adds, for
every running job, that its rows and what it moves are about its own transaction
(`Sound`), and, while no other job runs for that transaction, that what it moves is
the sum of the rows it has made less the sum of those it has undone, that it
deletes all there were, and that it has made those due so far (`Fits`). The commit then moves each
supply by just what its rows add up to. A supply is the sum of a set of rows: it
is a difference of two cardinalities (`UnitsOfUnion`, `SumOfUnion`), so that sums
of disjoint sets add without an induction over the data. `Recorded` says when
`overlapped`, the history variable, excuses a transaction; its rows are about the
assets it names and nothing else's, so the rest keep matching.

### The faucet

`FaucetProofs` proves, for any clients, operators, readers, processes,
connections, limit and window that satisfy `FaucetAssumption`:
`FaucetTypeCorrect`, `LimitIsBounded` (`Spec => []LimitBound`),
`CompletedIsRejected`, `NextIsDistinct`, `StatusCountsAll`.

- `Limited` is the heart of the first: the recent rows of an address or a key and
  the requests past their count are together less than the sum of the limit and
  the bound. A request passes the count when there are fewer rows than the limit; how
  many more are past it is bounded by `Connected`: the last of them to count
  needed a connection besides its own, so a process has at most one less than its
  pool inserting. `SpreadOverProcesses` adds that up over the processes.
- `InTime`: a request that found its row unfinished arrived before it was
  completed.
- `Found`: what the first query of `next` took was started, and is never
  unstarted, so the second does not take it again.
- `StatusSum`: of the rows the replica had when `status` arrived, those the counts
  so far have passed over are ones that a count to come will find. It rests on
  `Behind`: a row of the replica is on the primary and at least as far, so
  whatever is replicated between the counts, no row goes back (`ReplicaKept`).

### The daily snapshots

`BlocksDailyProofs` proves, for any number of uploads, job slots, days, blocks
and attempts that satisfies `DailyAssumption`:

- `DailyTypeCorrect`: `Spec => []TypeOK`;
- `NoGapsHolds`: `Spec => []NoGaps`. That the rows have no gap says nothing of
  the jobs waiting to add one. `SyncInv` adds that every job, and every upload
  about to add one, is at a day whose predecessors are all stored
  (`JobsInOrder`, `RequestsInOrder`), a job about to add the next day's at a
  stored one. Rows are never removed (`SyncedGrows`), so a job that is delayed
  stays in order, and the row it adds leaves no gap.
- `RowMatchesHolds`: `Spec => []RowMatches`. `CountInv` adds that the days of
  the chain never go down, and that a day which is stored, or at which a job has
  passed its check, is over: the head is past it, or the chain was cut back to
  it. `DaysKept` is the heart: a step leaves a day that is over with the same
  blocks, since a new block is of no earlier day than the head, and a cut that
  leaves the head past the day takes away only later blocks. `ReplicaFits` says
  the same of the replica, however far it lags: a day it is past has the main
  chain's blocks, or the chain was cut back to it.
- `QuietIsCaughtUpHolds`: `Spec => []QuietIsCaughtUp`. "No upload and no job" is
  strengthened to "none that will still look for a day": a job about to finish
  has left that to the one it added (`Pursued`). A job may stop because every day
  before its own is stored (`JobsInOrder`) and the head is not past its own; a cut
  takes the head past no day, since the days of the chain never go down
  (`CutGoesBack`).

### The verified assets

`VerifiedAssetsProofs` proves, for any lists, assets, posts and clients that
satisfy `VerifiedAssumption`: `VerifiedTypeCorrect`, `TableIsLastPost`
(`Spec => []LastPostHolds`) and `NotModifiedMeansWhole` (`Spec => NothingMissed`).
For the second, `ListsInv` says of each post what the entries it has passed have
left in the table, as long as every post that runs carries the same list: a row
that holds every field its entry gives (`Holds`), for a field left out is not
touched and no other list's post runs (`WrittenHolds`); the
deletion leaves the entries of that list, all of them passed. For the third,
`Complete` says of a copy that was settled when it was taken that it has every
row which is not of a later second, and that all upserts under way are; cutting
dates to seconds keeps their order (`UTCKeepsOrder`), so a date that passes for
not modified is that of a whole copy.

### The readers

`ReadsProofs` proves, for any blocks, transactions and assets:

- `AssetOfDescriptionHolds`: `ReadsSpec => []AssetOfDescription`. The invariant
  says that a description is there only with its asset, on the primary and on
  the replica (`Described`), and where between its queries a request stands
  (`Standing`): descriptions it has found came from a replica that had their
  assets, and the replica only grows.
- `FoundBlocksAreWhole`: `ReadsSpec => []FoundBlockIsWhole`. A block is on
  either server only with all its links, and no block leaves (`Linking`). It
  remains that the links of all the transactions, put in the order of their
  index, are the block's transactions: an increasing numbering of 1..n by 1..n is
  the identity (`IncreasingIsIdentity`).

That last step is an induction. The library's induction theorems take an operator
as parameter, out of the prover's reach; `SetInduction` states induction for a set
of numbers instead, and rests on `<` being well-founded (`WFMin`). `ListsProofs` and
`ServicesProofs` go by least elements in the same way.

### The lists

`ListsProofs` proves, for any number of rows and changes and any page sizes:
`WalksDescend` (`ListsSpec => []WalkDescends`) and `FinishedWalksAreWhole`
(`ListsSpec => []WalkComplete`). Its first part is about `FindMany` alone: later
rows have higher ranks (`RankGrows`), no rank is left out (`RankReached`), hence what
is found comes right after the cursor and leaves nothing out but what comes after
all of it (`FoundComesNext`), and a flag that says no, asked at a row that is
selected, is right (`FlagIsRight`). The invariant `ListsInv` then says of the walk
that all answers together are in order and the page comes after them
(`Walking`), and that a steady row beyond the beginning is in an answer, in the
page or after it, and not after it once a flag says so (`Covering`), unless a query
began at a row that had left the list.

### The native supply, the bridges, the telemetry

`ServicesProofs` proves, each for its part of `Services`:

- `QuietMeansRefreshed`: `NativeSpec => []RefreshedWhenQuiet`, for any processes,
  workers and attempts. `Refreshing` says that if nothing excuses it the row is the
  head's, or a job waits, or a run has read no older head (one whose total is
  refused waits again, or has given up); `OneKey`, that
  at most one run holds the key of the job.
- `SupplyOnlyGrows`: `NativeSpec => []SupplyGrows`, for any rewards and any lengths of
  months and years. `MiningRewards` is recursive: `MiningRewardsEquation` proves
  that the function its definition describes exists, and `MinedGrows` that it does not
  go down, both by `SetInduction`.
- `TokensOfferedAreVerified`, `SoundAnswersAreServed`: `BridgesSpec` implies
  `[]BridgeableTokens` and `[]SoundIsServed`. `Watched` relates what was
  verified always and ever since the request arrived to what is verified now,
  `Offered` what was offered to what was looked up.
- `BatchIsWholeOrNone`, `NodesAreKnown`: `TelemetrySpec` implies
  `[]WholeBatchOrNone` and `[]NodeIsKnown`, for batches of any length. `Gathered`
  and `Recognised` say what the points looked at so far leave behind,
  `HandedOver` and `Addressed` what has been written.
- `ServicesTypeCorrect`: `Spec => []TypeOK`, for all five: a step of `Services` is
  one of each part's or leaves it alone (`StepsProject`).

### Only model-checked

Liveness: `EveryRequestEnds`, `JobsEnd`, `CreateEnds` rest on fairness, for which the
prover has no rule. The properties that do not hold (see above) are for TLC to
refute.

## Not modelled

Versions, authentication, validation beyond what bounds a body, serialization of
answers, logging and metrics; the daily metrics other than a day's count; what a
search string selects; constants such as the bridges' status; the buffer of the
Influx client. The order of `blocks_transactions.index` matters to `Reads` only;
the content of notes, spends, names and metadata decides nothing here. Jobs of
other kinds do not touch the modelled tables, except
REFRESH_NATIVE_ASSET_SUPPLY, which writes the native asset's row only (mints and
burns do not name it). The chain node that uploads blocks and disconnects forks
is not in the repository, so what its protocol alone decides - that the main
blocks form a chain, that the descriptions left are those of the main chain - is
not stated.

## Running

    tlc -config BlocksTransactionsLoader.cfg MCBlocksTransactionsLoader.tla
    tlapm BlocksTransactionsLoaderProofs.tla
    tlapm ServicesProofs.tla

and so on for the other configurations and proof modules in this directory.
