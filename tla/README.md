# A verification project for IoTeX Analyser

IoTeX Analyser follows a blockchain and writes what it finds into a database.
Each kind of data (blocks, receipts, token transfers, rewards, ...) is a
*plugin*; the server gives every loaded plugin a goroutine, the *runner*, that
reads the blocks the plugin has not seen and puts them to it, and a row of the
table `index_heights` says how far each plugin has come. The correctness
question is therefore the same for all of them: **does the height in
`index_heights` mean that the plugin's tables hold exactly the blocks up to
it** - across failed RPCs, failed transactions, lost answers, plugins that are
unloaded and loaded again, and crashes?

And for each plugin: **are its tables then what the chain says** - the tokens,
the stakes, the rewards?

This directory holds TLA+ modules translated from the code, TLC
configurations that check them on small instances, and TLAPS proofs, for every
size of the instance, about the runner, its fetching, the block DAO's
synchronisation, the plugin service and ten of the plugins, the three that follow
the staking contracts among them. `PROJECT.json` says
which lines every definition models, which runs check what, and which mutation
of the code each property would catch.

## The system

| Part | State | Operations | Talks to |
| --- | --- | --- | --- |
| Block DAO sync, `server/server.go` | the block DAO (file, gRPC or in memory) and its height | every 4 s: read the chain's height, fetch and store what is missing | chain node, runners (who read the DAO) |
| Runner, `server/runner.go` | `isRunning`, local `tipHeight`, `nextHeight` | outer loop (3 s), inner loop over blocks, `getTipHeight`, `fetchBlocks`, `Stop` | DAO, index heights, its plugin |
| Batch size manager, `server/batch_size_manager.go` | `effectiveSize`, `consecutiveSuccesses` | `onSuccess`, `onFailure` | its runner only |
| Index heights, `db/index.go` | table `index_heights`, process-wide `indexCache` | `GetIndexHeight`, `UpdateIndexHeightByTx`, `GetCommittedIndexHeight` | everybody |
| Block and account plugins, `plugins/block*`, `action_*`, `account_*`, `slash`, `probation`, ... | a buffer, caches of the epoch or of accounts, running balances; their tables | `Start` (`AutoMigrate`, or a late first height), `PutBlock(s)` | Postgres, chain node; `account_vote` reads staking tables |
| Token plugins, `plugins/erc*`, `inscription` | a buffer, maps of contracts known (not) to follow a standard; events, holders, metadata | the same | Postgres, contract reads over RPC |
| ClickHouse sinks, `plugins/*_ch`, `clickhouse*` | a buffer, caches | the same, without a transaction around rows and height | ClickHouse for rows, Postgres for heights |
| Native staking, `service/staking_*`, `plugins/candidate*` | the bucket and candidate rows; `staking_actions_ch` a cache of bucket states | `PutBlocks`, which read their own last rows to write the next | Postgres, chain node |
| Staking contracts, `plugins/system_staking_bucket*_record` | a row per change of a bucket | one block at a time, and a one-time fix of old rows | Postgres |
| Workers, `plugins/delegate*`, `gas_burned` | a report of all delegates at some height; a watermark | a timer instead of a runner's loop | read the tables of up to five plugins |
| Voter rewards, `service/voter_reward` | rows, era totals and memos of the batch; payouts, eras, configurations | `putBlock` decodes logs and plans eras, `commit` | chain node, Postgres |
| Hermes rewards, `plugins/hermes`, `service/hermes_reward` | - ; rewards per voter and epoch, rebuilt from other plugins' tables | `PutBlocks` per epoch | tables of `reward_history`, `candidate`, staking, `voter_reward` |
| Plugin service, `server/service.go` | the registry `activeRunners`, each runner's `status` | RPC `Load`, `UnLoad`, `Info`; `pluginRefresh` every 5 s; `Stop` | runners, command line tool |

What makes it hard:

* a height lives in three places - the row, the cache in front of it, the
  runner's local variable - and a batch in three as well - the plugin's
  buffer, an open transaction, the tables. Failures between any two of them
  leave different combinations behind;
* the cache is written before the commit, by the owner, and on a miss by any
  other goroutine that asks (a dependent plugin's runner, the `Info` RPC);
* plugins depend on each other's tables and synchronise on heights only, some
  on the cached ones, some not at all;
* what a failed call leaves in a plugin's fields - rows, totals, maps of what
  is handled - is met by the replay of the same blocks;
* ClickHouse has no transaction, so a batch may be in it once, twice or in part
  while the height stands in front of it;
* a bucket's or holder's next row is made from its last one, so how the chain
  is cut into batches and how often a batch is put may change what it says;
* the registry and the status field are written by RPC goroutines, by the
  refresh goroutine, by every runner and by the shutdown, with locks that
  cover single reads and writes but no read-then-write.

The correctness properties, by component:

* **index heights and runners** - the tables hold every block up to the
  committed height, none above, none twice; heights never move back; after
  failures everything is indexed eventually; dependents do not overtake;
* **batch size** - between one block and the configured size; requests stay
  inside the chain; retries end; a stopped runner ends;
* **plugin service** - every live runner can be reached through the registry;
  a stopped plugin gets no more blocks; what is loaded is started, what is
  unloaded is stopped;
* **plugins that copy** - the tables are those of a run in which nothing failed,
  up to the committed height; in ClickHouse, once the batch was put again;
* **plugins that derive** - holders own what the transfers left them; buckets,
  candidates, votes and exits are the protocol's at that height; a delegate's
  stake counts every bucket once; rewards are shared out once and in full.

## Modules

| Module | Models | Role |
| --- | --- | --- |
| `IndexHeight` | `db/index.go` | operators on row and cache; no Next of its own, its users extend it |
| `Runner` | `server/runner.go`, `db.AutoMigrate`, `putBlock`/`commit` of `plugins/block`, `plugins/block_meta`, `plugins/account_income`, `Service.Info` | all runners of a process over one database |
| `Indexer` | - | what a reader of the database may rely on: the abstract specification `Runner` implements |
| `RunnerProofs`, `BatchFetchProofs`, `BlockSyncProofs`, `PluginServiceProofs` | - | the theorems about the module in their name |
| `AppenderProofs`, `SystemStakingProofs` | - | the theorems about seven plugins that append rows and seven token plugins, and about the three of the staking contracts, on `PluginHarness` |
| `FoldLemmas`, `TableProofs` | - | lemmas about folds over finite sets and about the statements of `Tables` |
| `BatchFetch` | `server/batch_size_manager.go`, `fetchBlocks` and the count computed in `runner.Start` | one runner's fetching |
| `PluginService` | `server/service.go`, registry, status and lifecycle of `server/runner.go` | loading, unloading, refreshing, stopping |
| `BlockSync` | `startRebuildBlockDaoWorker` and `startDaoWorker` of `server/server.go`, `kernel/virtualdao.go`, catch-up mode of `runner.Start` | filling the block DAO |
| `Tables` | tables and the statements of a transaction (external) | used by all plugins below |
| `PluginHarness` | one plugin under `server/runner.go`: batches, failures, restarts | the state machine of all plugins below |
| `BlockPlugins`, `AccountPlugins` | 19 plugins that copy blocks, receipts, actions, rewards, incomes, supply | operators `..._putBlock`, `..._commit`, `..._Start` |
| `TokenPlugins`, `HolderPlugins` | 13 plugins for ERC-20, 721 and 1155: events, holders, metadata | the same |
| `ContractPlugins` | `account_abstraction`, `erc1967_proxy`, `inscription`, `gas_burned` | the same |
| `ClickHouse` | `clickhouse`, `clickhouse_v1` | the same |
| `NativeStaking`, `StakingSink` | `staking_bucket`, `staking_actions`, `staking_actions_ch` | the same, and the staking protocol they are compared with |
| `SystemStaking` | `system_staking_bucket_record`, `..._v2_record`, `..._v3_record` | the same, and the contracts |
| `CandidatePlugins`, `Delegates` | `candidate`, `candidate_self_stake`, `account_vote`; `delegate`, `delegate_record` | the same, and the protocol's candidates |
| `VoterReward` | `service/voter_reward` | the same |
| `Hermes` | `plugins/hermes`, `service/hermes_reward` | the same |
| `MC...` | - | constants for TLC; `MCDataPlugins` and `MCStakingPlugins` also the chains |

### Runner and IndexHeight

A block is its height; what it writes is a number per height: absent, once,
more than once. Plugins differ in what a second write of the same block does
(`Write`): a plain INSERT is refused by the key (`plugins/block`), an upsert
replaces the row but is refused if the same key occurs twice in one statement
(`plugins/block_meta`; `CreateInBatches` cuts a buffer into statements of 1000
rows, and a buffer left behind is shorter than a batch of 1000, so the block
put first and its copy are in the same statement), and a delta is added again
(`plugins/account_income`).

| Action | Code |
| --- | --- |
| `Start` | `plugin.Start` -> `db.AutoMigrate`: a cached height of 0 drops the tables, the row keeps its height; the goroutine is launched |
| `GetTipHeight`, `NextHeight` | top of the outer loop |
| `Fetch` | the block(s) read in the inner loop; how many is `BatchFetch`'s subject, here any number up to the tip |
| `PutOne` | `putBlock`: append to the buffer |
| `PutFail` | `putBlock` returns an error or panics; the buffer keeps the earlier blocks |
| `InsertFail` | a statement of `commit` fails or is refused; the buffer was taken over before |
| `Insert` | the statements succeed, `UpdateIndexHeightByTx` has cached the height |
| `Commit`, `CommitLostAck`, `CommitFail` | the end of the transaction: done, done but reported as failed, rolled back |
| `LoopEnd`, `ReadFail`, `Stop`, `Exit` | the ways out of the loops |
| `Info`, `InfoStore` | another goroutine's `GetIndexHeight`; the store may come late |
| `Crash` | the process dies: cache, buffers, transactions are gone, rows and tables stay |
| `NewBlock`, `Calm` | external: the chain grows; failures stop |

A step is one database or DAO operation or one change of shared memory.
`GetIndexHeight` by the owner of a height is one step because nobody else
moves its row; by others it may be split (`ReadMiss`, `InfoStore`) when the
instance has the fault `"slowread"`. `lost` is a history variable: the blocks of a
transaction that rolled back after its height was cached, and those that a start
dropped because the cache held a stale 0. No action reads it.

### BatchFetch

The plugin's puts are abstracted to success or failure; how many blocks of the
chain fit into a message is the constant `Capacity`. The streak is counted up
to `Threshold`, where the code's counter goes on, because it is only compared
with it.

### PluginService

Runners are objects `1 .. MaxRunners`, made by `Load`; the registry, the map
under construction in `pluginRefresh`, a call in flight and `Service.Stop`
hold references to them. `pluginRefresh` visits registry entries one by one,
and `plugin.Start` and `wg.Wait` are the places where it can be overtaken. A
write to a Go map that another goroutine walks through is a data race: the
walk may or may not see the entry, or the runtime ends the process (`dead`).

### BlockSync

One pass of the worker is `BeginPass` (read the chain's and the DAO's height),
then for each batch `Request`, a `Put` per block and `NextBatch`, until
`EndPass`; `PassFail` and `PutRefused` are the early returns. What `PutBlock`
accepts is external for the file DAO (the next block only) and the gRPC DAO
(blocks the remote store has; `ErrRemoteHeightTooLow` otherwise), and read off
`kernel/virtualdao.go` for the one in memory. While `failing`, a node may lag
or answer with fewer blocks than asked for. Catch-up mode adds one plugin:
`StartPlugin` is `AutoMigrate` followed by the move of the index height, and
`IndexBlock` one block of the runner's loop, whose failures are the subject of
`Runner`. `from` is a history variable.

### PluginHarness and Tables

`Runner` looks at many plugins and counts effects; here there is one plugin,
with the content of its tables and of its fields. It is chosen, with the chain
it runs on, in the initial state, so that the state spaces of the plugins add
up and do not multiply. A plugin gives four operators, each translated from
its code:

| Operator | Code |
| --- | --- |
| `Fresh` | the package variable as the shared object has it |
| `StartOf` | `Start`: fields, tables and height, with `db.AutoMigrate` |
| `PutOf` | the work on one block before the transaction: every way it may end, and the fields it leaves |
| `CommitOf` | what `PutBlocks` does once all blocks are put: the transactions, each with its statements, the height it writes and the fields after a failure and after success |

and the harness runs them: `Start`, `Fetch` (any batch that fits) or `Tick` (a
worker's timer), `Put`, `Begin`, `Transact`, and as failures `Rollback`,
`LostAck`, `Reload` (unload and load: the fields stay) and `Crash` (the fields
go). Each failure is taken from the plugin's budget `FaultsOf`. A transaction fails
before `UpdateIndexHeightByTx`; what a rollback after it does is the subject
of `Runner` and is the same for all plugins. A failure that the code passes
over - a lookup whose error is answered with a default - sets the history
variable `hidden`, and properties that cannot hold after it say so. `want`
holds what the tables would be if the chain had been put block by block
without a failure.

`Tables` has the tables as one function from keys to values and the kinds of
statements the code uses: INSERT with and without ON CONFLICT, tables without a
key (their value is how often a row is there), ReplacingMergeTree, DELETE. This
is external: Postgres and ClickHouse.

### The plugins

What a block, an action, a log or a bucket *contains* is cut down to what
decides where it goes; the code's decisions are kept, among them the ones that
look like slips.

* `BlockPlugins`, `AccountPlugins`: a block is a sequence of receipts with
  their transaction logs. `block_action` and `block_action_partition` write in
  chunks with a position of their own; `slash`, `action_type` and others start
  late and move their height in `Start`.
* `TokenPlugins`, `HolderPlugins`: a block is a sequence of logs of contracts.
  The two ways in which contracts are asked for their standard differ: the
  first versions take an RPC error for "no" and remember it, the second ones
  fail the batch and leave what was buffered.
* `ContractPlugins`: user operations, upgrades of proxies, inscriptions (a
  token is deployed, minted and passed on, all by JSON in the data of a
  transaction), and the gas statistics, a worker with a watermark of its own.
* `ClickHouse`: five tables, one INSERT after the other, then the height in the
  other database; with `preDelete`, each after a DELETE.
* `NativeStaking`, `StakingSink`: a block is a sequence of receipts of staking
  actions. `Protocol` is the staking protocol as far as the comparison needs
  it: amount, owner, candidate and status of each bucket.
* `SystemStaking`: the events of three contracts; `ContractAt` is what the
  contract holds. The halving of the block interval and the one-time fix of
  the voting powers happen inside the instance.
* `CandidatePlugins`, `Delegates`: candidates as rows per change. A receipt
  carries its logs as far as the event parsers of `kernel/staking_event.go` look
  at them: whether the staking protocol wrote them, and their topic. The two
  workers read the tables of five other plugins, each at its own height, and
  `system_staking_buckets` and `system_staking_buckets_v2`, which no plugin they
  wait for fills.
* `VoterReward`: `Then`, `Fine` and `Read` thread the plugin's fields through
  a sequence of calls any of which may fail and leave the fields as they are
  at that point.
* `Hermes`: an epoch's rewards are rebuilt from rewards, buckets, profiles and
  configurations; percentages and divisions are integer, as in the code.

## Runs

No run takes more than three minutes; the bounds are in the `.cfg` files,
the chains of the last four in the `MC` modules.

| Run | Result | Question |
| --- | --- | --- |
| `RunnerFaults` | holds, 900,000 states | `block` and `block_meta` (which depends on it), 3 blocks, all faults but slow reads: `LossAccounted`, `NothingEarly`, `CacheAhead`, `DependencyGate`, `HeightMonotone` |
| `RunnerRefines` | holds, 180,000 states | a plugin that adds (`account_income`) and one that depends on it and whose put can fail, 3 blocks, all faults but slow reads and a rollback after the cache store: `ImplementsIndexer`, `AtMostOnce`; and with fairness `CatchUp`, although a put error leaves a buffer whose next commit is refused |
| `RunnerSlowRead` | holds, 7,050,000 states | late cache stores by other readers, with stops, crashes, rollbacks, put errors and lost answers, 2 blocks: `LossAccounted` |
| `RunnerReplay` | **violated** | `ReplayedVerbatim`: a comment in `voter_reward` relies on a failed batch being put again |
| `BatchFetch` | holds | `RequestInRange`, `RetryShrinks`, `StopReturns`, `Progress` |
| `PluginService` | holds, 480,000 states | `NoOrphan`, `NoPutAfterStop` (on refresh and on shutdown), `LoadedIsStarted` with one caller and a shutdown |
| `PluginServiceUnload` | **violated** | `UnloadStops`: a put's status overwrites the unload |
| `BlockSync` | holds, 140,000 states | three kinds of DAO, 4 blocks, batches of 2: `DaoMonotone`, `SyncCatchesUp`; in catch-up mode `IndexedSinceStart`, `NoHoleFromStart`, `CatchUpKeepsUp` |
| `DataPlugins` | holds, 380,000 states | 38 plugins (one of them in two configurations) that copy: `Exact`, `NothingLost`, `TokensExact`, `SinksConverge`, `Held`, and with fairness `Indexed` |
| `StakingPlugins` | holds, 920,000 states | 13 plugins that derive: `LatestRight`, `CandidateRight`, `StakeCounted`, `StakesBalance`, `ExitQueue`, `MatchesContract`, `PlanRecorded`, `RewardsShared` |
| `StakingBatch` | **violated** | `PutBlocksMatchesSequential`: the rows depend on how the chain is cut into batches |
| `VoterRewardTotals` | **violated** | `EraAgrees`: a replayed batch adds its totals to the era again |

### Bounds

Three blocks are enough for a batch that fails, a shorter one that is
put on top of its remains, and a block after both; the proofs remove the bound
for the safety properties. Two plugins are enough for one to depend on
another; plugins interact in no other way than through heights. `RunnerSlowRead`
has two blocks: one to be committed while a read of the height before it is
suspended, and one to be put after the stale store; `LossAccountedAlways` removes
this bound as well. For
`PluginService`, two runner objects are enough for a plugin to be
replaced by a later object of the same name, and two plugins for one to be
visited while the other is loaded. `BatchFetch` uses the code's own threshold
of 10; a configured size of 12 passes through 6, 3 and 1 when halved and
through every branch of the growth.
`BlockSync` has two full batches and catch-up starts of 0 (not set), 1 (the
index goes back to 0, where `AutoMigrate` empties the tables) and 2.

`DataPlugins` has chains of three blocks (`MaxHeight`) for the same reason and
two failures for each plugin (`FaultsOf`): one that leaves something behind and one while it
is cleaned up; for the plugins of `AppenderProofs` the proofs remove both
bounds. An epoch is two blocks (`EpochLength`), so that a batch spans
its boundary, a partition two (`PartitionStep`), a chunk of the gas statistics
two (`ChunkSize`), and plugins that start late start at block 2 (`StartHeight`).
The block contents are one or two per branch of the plugin's code.

`StakingPlugins` has chains of up to six blocks and the same two failures,
but none for `staking_actions_ch`: no property says what a failure makes of its
cache, see the exceptions below; and one for `delegate_record`, which makes a new
report at every tick and only adds rows. The plugins that a delegate worker reads from
are behind it by at most one block. The switches of the chain lie
inside: `GreenlandHeight` 3, `RedseaHeight` 3, `HalvingHeight` 4, the
deployment of the contract at `ContractHeight` 2; a `Day` is four blocks.
`XinguHeight` 2 has registrations with both shapes of logs on either side of it;
`CandidateIDs` lists the candidates in the order of their addresses. Two
buckets, two candidates and two owners are the least for something to be taken
from the wrong one. Two epochs make an era (`EpochsPerRewardEra`), frozen two
blocks ahead (`FreezeLead`), settled in two chunks. `CacheSize` 2 holds both
buckets. For the plugins of the staking contracts the proofs remove these
bounds.

### What the properties except

A property of these modules compares with what the chain says; where the code
does not keep to it, the property says when, and that is what a reader of the
tables has to know. None of the following is hidden by a bound.

* After a **failed batch**, rows may repeat in `block_reward`, `probation`,
  `reward_history`, `erc20_v2`, `erc721_v2` and `erc1155_v2`; `block_meta` may
  name producers of the next epoch, `candidatelist` stores an epoch early,
  `block_supply`'s running balances count the batch twice
  (`plugins/block_supply/block_supply_test.go:145` says they add up, without a
  failure) and so do the sums of `account_income_v1`; `erc1155_721_meta` and
  its second version may leave a contract out until the process restarts;
  `staking_actions_ch` computes amounts from what the failed batch left. `Exact`,
  `TokensExact` and `StakesBalance` are stated for these plugins while nothing
  has failed, `NothingLost` always for the plugins of the first two modules.
* After a **failure that is passed over** (`hidden`): a contract that could not
  be asked is none of its standard, an account without an answer is left out
  until it appears again, a sender is no contract, an upgrade or inscription is
  skipped, a delegate's report is made from incomplete tables.
* A token **burnt and minted again** in one batch of `erc1155_721_holder_v2` may
  keep a second holder (`Reminted`); an inscription passed **to oneself** grows
  (`ToOneself`); an update of a candidate without a reward address blanks it;
  an endorsement blanks the duration of the bucket's later rows.
* `candidate_self_stake` makes no row of a **registration** whose self-stake is
  logged in the old shape from Xingu on (`kernel/staking_event.go:162`: the parser
  looks for `CandidateActivated` only, and an unknown event is no error), nor of
  an activation without an event (`Unparsed`). After a **revoked endorsement** the
  last rows of two candidates may name the same bucket, of which an unstake
  reaches the first (`Revoked`).
* The workers wait for `system_staking_bucket_record` and `..._v2_record`, but
  **read** `system_staking_buckets` and `..._v2` (`plugins/delegate/util.go:442`,
  `:479`), which nothing in the repository fills; the gated plugins write
  `..._record` tables (`models/staking_bucket.go:79`). `FilledElsewhere` lets these
  two tables be empty, a block behind, or complete, whatever the gate says, and
  `StakeCounted` claims of the first two contracts only that a report has what their
  tables had; of the native buckets and of the third contract it claims the exact
  stake at the report's height.
* A plugin that **stands still for good** satisfies `CandidateRight` and the other
  invariants of its tables: no liveness is claimed for `StakingPlugins`.
* `candidate` looks up the bucket of an **activation** as of the epoch's start
  (`plugins/candidate/util.go:20`). A bucket that changed its candidate since
  then leaves one more row for the old candidate, with that candidate's own
  owner and operator. A bucket that did not exist yet is a nil pointer: the
  call panics, the runner recovers and puts the batch again, and the plugin
  does not get past it. Both are in the chains (`began`).
* The **chains** leave out what the protocol does not allow (`Legal...`
  operators in the `MC` modules) and the following, which it does, and for
  which the comparison fails: a second restake of an unstaked bucket before
  Greenland, which adds its amount again (`staking_bucket` in any case, so its
  chains have no such restake); an address that has been operator of one
  candidate and owner of another, where `models/candidate.go:59` may take the
  wrong row; two ticks of inscriptions held by one owner, whose balances are
  looked up by owner only; an exit scheduled for a candidate without a row, a
  bucket the node does not know: both stall the plugin for good. With a
  `CacheSize` smaller than the buckets of a batch (100,000 in the code),
  `StakesBalance` fails for `staking_actions_ch`, because pending deltas are
  added to an evicted state.

### The violated runs

The four violated runs state what the repository says of itself:

* *A failed batch is replayed.* `UpdateIndexHeightByTx` caches the height
  before the commit. When the commit fails the runner reads the cached height
  and goes on behind the batch; the loss becomes permanent when a later batch
  commits. `db/index.go:61-63` knows of the stale entry, the runner does not.
  `LossAccounted` shows that this and the start that finds a stale 0 in the cache
  (a reader of the index was suspended while the owner went on; `AutoMigrate`
  then drops the tables and leaves the row) are the *only* ways to lose a block.
* *Unload and load take effect without a restart.* The status is one field
  with two meanings (what the operator wants, what happened last).
* *`PutBlocks` writes the rows `PutBlock` writes one by one.* Within a batch a
  bucket's values come from its last row, across batches from its last row
  with a positive amount; after a restake these differ.
* *The era summary agrees with its payouts.* The payouts of a replayed batch
  are upserted, its totals are added.

Four more disagreements were met which have no run of their own: "every contract
table the run reads must have reached pluginHeight" (`plugins/delegate/util.go:49-53`)
is not so for the first two contracts, as said above; the
dependency gate compares cached heights, so a dependent may commit before its
dependency has; a batch size of 4 or less never grows again, since a fifth of
it rounds to nothing; and a plugin loaded while `pluginRefresh` walks through
the registry is dropped from it.

### Fairness

`Runner!LiveSpec` assumes that every goroutine keeps being scheduled (weak
fairness of `Work(p)`; both loops run until `isRunning` is cleared, and every
operation in them returns), and that faults stop some time (`Calm`). `Work` has
neither the faults, so nothing is assumed about *when* they happen, nor `Start`:
nobody is bound to load a plugin again that was stopped or whose process died.
`CatchUp` is therefore stated for a plugin that runs: a block the DAO and the
plugin's dependencies have is indexed, or the plugin is stopped. A plugin that is
started during the run has to catch up like any other.
`BatchFetch!LiveSpec` is the same for one runner. It assumes that every block
fits into a message by itself: `fetchBlocks` calls itself without looking at
`isRunning`, so without that assumption neither `StopReturns` nor `Progress`
holds. `PluginService!LiveSpec` assumes the ticker and the goroutines go on;
nobody is bound to call. `BlockSync!LiveSpec`
assumes that the worker's loop goes on, that the remote store follows the
chain and that failures stop; nobody is bound to start or reload a plugin.
`PluginHarness!LiveSpec` (run `DataPlugins`) assumes that the one goroutine
goes on as long as its process lives; losing an answer, reloading and crashing
are not fair, and failures end with their budget. `StakingPlugins` and the
violated runs are checked without fairness; they state invariants and action
properties, except `PluginServiceUnload`, whose counterexample uses
`PluginService!LiveSpec`.

### Deadlock

Deadlock is checked for `Runner` and `BlockSync`, whose goroutines always have
a step, and for `PluginHarness`, where a plugin that has come to the end of the
chain stutters (`Finished`) and one that is stuck before it is an error. It is
switched off where the modelled part ends: a runner that was stopped
(`BatchFetch`), a process that has died or shut down (`PluginService`).

## Proofs

| Module | Theorem | Assumes | States |
| --- | --- | --- | --- |
| `RunnerProofs` | `TypeCorrect` | - | `Spec => []TypeOK` |
| | `Inductive` | `Orderly` | `Spec => [](TypeOK /\ IInv)` |
| | `LossAccountedAlways` | - | `Spec => []LossAccounted` |
| | `NothingEarlyAlways`, `AtMostOnceAlways`, `CacheAheadAlways`, `DependencyGateAlways` | `Orderly` | the invariants of the runs |
| | `HeightMonotoneAlways` | `Orderly` | the action property |
| | `NoGapAlways` | `Orderly`, no `"commit"` fault | `Spec => []NoGap` |
| | `RunnerImplementsIndexer` | `Orderly`, no `"commit"` fault | `Spec => ImplementsIndexer` |
| `BatchFetchProofs` | `TypeCorrect`, `RequestInRangeAlways` | - | the invariants |
| | `RetryShrinksAlways` | - | the action property |
| `BlockSyncProofs` | `TypeCorrect`, `NoHoleFromStartAlways` | - | the invariants |
| | `DaoMonotoneAlways` | - | the action property |
| `PluginServiceProofs` | `TypeCorrect` | - | `Spec => []TypeOK`, for any number of callers |
| | `NoPutAfterStopAlways` | - | the action property, for any number of callers |
| | `NoOrphanAlways` | `OneCaller` | `Spec => []NoOrphan` |
| `AppenderProofs` | `AppenderTypes`, `AppendersExact`, `AppendersLoseNothing` | `Wired` | `TypeOK`, `Exact`, `NothingLost` |
| | `TokenInductive`, `TokenTypes`, `TokensMatchChain` | `TokensWired` | `TokenIInv`, `TypeOK`, `TokensExact` |
| `SystemStakingProofs` | `Inductive`, `StakingMatchesContract` | `Wired` | `IInv`, `MatchesContract` |

All of them also use the named assumptions on the constants of their modules:
that a count is a number (where the code divides by it or takes blocks by it,
not 0), that a subset is one, and that start heights lie in the chain.

### Runners

For any set of plugins, any dependency relation, any assignment of ways to
write and any chain length.
`Orderly` says that no other goroutine's index read is suspended across the
owner's update, and that a plugin whose `putBlock` can fail does not write
deltas. Both are needed: a stale cache entry makes a runner repeat committed
blocks, and a buffer left dirty is added twice by a plugin that adds.
`LossAccountedAlways` needs neither. Its invariant, `CoverInv`, does not say that
the cache is ahead of the row, but that every block up to the row, to the cached
height and before `nextHeight`, wherever each of them stands, is in the tables, in
the open transaction, or in `lost`; and that suspended reads of a row have all read
the same height, which neither row nor cache fall behind.
`NoGapAlways` says what is left of it when neither a rollback after the cache
store nor a suspended read happens: no block is missing at all.

The properties are not inductive: that a table holds a block once follows from
what the transaction held, that from what the buffer held when the INSERT was
accepted, and that from where the runner's locals stood when it began. `IInv`
has one part for each: `IndexInv` (row <= cache <= DAO), `LocalInv`
(`nextHeight` is the cached height plus one throughout a batch), `BufInv` (a
buffer is either exactly the blocks put so far, or holds the first block of
the batch that will be put again, and then the next INSERT meets it twice and
is refused - this is what makes a dirty buffer harmless for the plugins with
keys), `TxInv` (an open transaction is exactly the batch), `LostInv` (between
row and cache there are only lost heights and the open batch), `TableInv`, and
`DepInv` (the tip is behind every dependency's cache entry). `Frame` says that
a step which leaves a plugin alone, and only lets the DAO and the cached
heights grow, keeps that plugin's invariant; so every action has one lemma
about the plugin that takes it. `CommittedEffect` describes a COMMIT and is
shared by the invariant, by `HeightMonotoneAlways` and by the refinement,
where a COMMIT is the one step that is not a stutter of `Indexer` (besides
`NewBlock`); `QuietStep` says so of all others, using `DroppedWasEmpty`:
AutoMigrate's drop never removes anything.

### Fetching

For any configured size, threshold, capacity of a message and chain length.
That a request stays inside the chain depends on what is in hand: `IInv` says
that the blocks read but not yet put end at the tip, so that the put moves
`nextHeight` to the tip plus one at most, and that a count never exceeds the
size it was taken from, so that half of a refused count is still a legal size.
`SuccessGrows` and `HalvedShrinks` are the manager's arithmetic: a success
never takes the size above the configured one, and half of a size above 1 is
at least 1 and less than it. `RetryShrinks` is the second of these in every
refused fetch; a single block that is refused is asked for again unchanged.

### Block DAO

For any batch size, chain length and configured start, under every fault. That the
block file has no hole is not stated: it refuses all but the next block, whatever
the worker does. That a DAO's *height* does not move back depends on the worker:
the one in memory takes any height it is given. `PassInv` says that a pass
only puts blocks above the height it began with and up to its tip, `ChainInv`
that a remote store is never behind the DAO in front of it. Together they also
give the range of every request, which `TypeOK` needs. `NoHoleFromStart` is about a
plugin in catch-up mode: each start moves its index height back to the configured
start, and a crash or a failed start may leave it at 0, where the next one empties
the tables. Its blocks are one stretch from the configured start on all the same,
because the next block indexed is never past the stretch (`StartInv`: the index
height of a running plugin is not before the configured start, and never past
the end of the stretch).

### Plugin service

For any number of plugins, runner objects and callers. `NoPutAfterStop` says when
`plugin.Stop` may run - on refresh and on shutdown alike, never beside the
runner's goroutine - and when a goroutine may be launched. It needs that
`wg.Wait` was passed before `Stop` ran, and that a goroutine is launched for a
"Loaded" runner only, and nothing becomes "Loaded" a second time (`OnceInv`,
`StoppedInv`); `WalksInv` says that a map a goroutine walks through has runners
under their own names only. The one exception is in the formula: a shutdown may
stop a runner whose first start by `pluginRefresh` is under way
(`server/service.go:123`), and that start launches its goroutine afterwards. It
holds for any number of concurrent `Load`s and `UnLoad`s. `NoOrphan` does not: two callers
that both find a name free write over each other's entry. With one caller it
follows from `OrphanInv`: in the middle of a walk, every live runner is still
to be visited or already in the new map (`KeptInv`), what is in the new map is
what the registry has (`MapInv`), and a `Load` in flight has found its name
free (`LoadInv`).

### Plugins that append

`block_footer`, `block_receipts_transaction`, `illegal_action`,
`action_execution`, `block_action`, `account_abstraction` and `erc1967_proxy`
buffer the rows of a block and write them with the height in one transaction.
`Wired` says that the harness runs these plugins with the operators of
`BlockPlugins` and `ContractPlugins`, on any chain whose blocks have finitely
many actions and whose late start is not behind its end; any number of
failures, lost answers, reloads and crashes, and any batch size. This is the
instance `MCDataPlugins` has, restricted to them, without its bounds: its
chains are lawful, its start height is, and TLC has checked `IInv` on it.

`Exact` speaks of the tables only. The invariant has what leads to them:
`Shape` ties the transaction in flight to the buffer and the heights, and
`Content` says that the tables are those of the height in the row, that the
buffer, once added to them, leads to the tables of the last block put
(`Collected`), and that an idle plugin's buffer is empty - the point where a
plugin that keeps its buffer after a failure would write it twice.

Two things are about data. `want` is a recursive function of the height
(`WantIs` unfolds it block by block, by induction over the natural numbers
as a set), and the rows of a batch are folds over sets of actions. `FoldLemmas`
has what these inductions rest on: a fold is a recursive function on the subsets
of a set, and among the subsets of a finite set for which a claim is wrong there
would be a least one. `TableProofs` derives from it what INSERTs, upserts and
DELETEs do to a table; its `AddsConcat` says that two lists of rows inserted one
after the other leave the same table as both at once, which is why the size of a
batch does not matter to these plugins.

### Token plugins

`erc20`, `erc20_v2`, `erc721`, `erc721_v2`, `erc1155`, `erc1155_v2` and
`erc1155_721_holder` write rows for the logs of contracts that follow their
standard. Which contracts do is asked once and remembered in the plugin's
package variables, which outlive failed calls and unloads but not the process.
`TokensWired` says that the harness runs these plugins with the operators of
`TokenPlugins` and `HolderPlugins`, on chains whose blocks are lists of logs,
`erc1155_721_holder` one block at a time as its `PutBlock` has it. Nothing is asked
of the logs, and chains, batches and the budget of failures are of any size.

`TokenIInv` has the two parts of the section before, and three things more.

* `Known`: a contract in the map `yes` follows a standard the plugin asks for, one
  in `no` follows none. This is what makes the rows of a block the same whenever it
  is put (`TokenRows`), with an empty map after a crash or a full one after a
  reload. A failed check that the code takes for an answer breaks it; the property
  excepts that (`hidden`).
* `Same` instead of equality: `erc20` and `erc721_v2` insert the distinct holders of a
  batch, `erc20_v2` and `erc721` ignore those already there, so how often a holder is
  in the table depends on how the chain was cut into batches. `EffectConcat` says that
  the batches add up in everything else, `EffectSame` that a batch does not tell two
  such tables apart.
* `TokenSure`: `erc20_v2`, `erc721_v2` and `erc1155_v2` keep rows in the buffer after
  some failures and write them again, so nothing is claimed of their tables from the
  first failure on.

A batch is a list of rows here and its transaction up to four statements, each with
the rows of one table. `TokenRun` derives what the transaction makes of the tables from
`FromIs` (the rows of a table, in their order), `DistinctIs`, `IgnoreExec` and
`SerialAdds`, and shows that it is never refused: this is why a rollback of these
plugins always costs a failure. `erc1155_721_holder` makes its new table from the old one by
a fold over the logs (`HolderStep`); because its batch is one block, the proof needs no
law about that fold, only that the same rows meet the same table again.

### Staking contracts

The three versions of `system_staking_bucket_record` write a row per change of
a bucket, each made from the bucket's last one, and `MatchesContract` compares
them with the contract at the recorded height: the amounts of a bucket's rows
add up to its stake, and the last row of an open bucket is the bucket. It is
proved for any number of buckets, any length of the chain, any heights of Redsea,
of the halving and of the contract that `SystemAssumption` admits, and any number
of failures, lost answers, reloads and crashes.

`Wired` says that the harness runs the three plugins with the operators of
`SystemStaking`, one block at a time, on lawful chains. An instance may hold
other plugins beside them. A lawful chain (`LawfulChain`) has no event before the
contract, and each event is one the contract can emit as it then stands: a bucket
that is minted is staked by the next event, only an open bucket is changed and
only a closed one withdrawn, a merge takes other buckets than its own. Two things are asked of the data. A
duration that is stored in days is whole days: other ones the code would round.
And where rows are rewritten (v1's fix, at Redsea) or restated (the halving) an
open bucket has a stake and a duration, because the code decides by these
whether a bucket is still there. Every chain that `MCStakingPlugins` gives these
plugins is lawful in this sense.

`Rel` is the relation between tables and contract that every event keeps, one
lemma per event. It says more than the property: the rows' ids are the numbers
from 1 without a gap, so that the next row is the last one; types and durations
are those the height calls for; and the weight of every open bucket is the one
of before Redsea, or that of after it, or, once a failed fix has been passed
over, any. A bucket that was minted and not yet staked has no weight: this
happens within a block only. The sum over a bucket's rows is a fold over a set,
whose order is not known; `SumTake` shows that it does not matter, so a new row
adds its amount to the sum. `ReviseStep` is about the halving, which restates all
open buckets and must leave every sum as it is; `FixStep` about v1's fix, which
rewrites the weight of every row and nothing else.

`IInv` puts `Rel` on the runner. In the block at which v1's fix is due, the
plugin makes up to three transactions - the fix, the note that it was done, the
block - and may stop, fail or lose the answer after each of them; then the block
is put again and the plugin looks at what it finds. `Pending` says for each of
these places what is left to be done, given what the database has; `TxStep` that
one transaction of it leads to the next place, and the last one to the next
height. That the second pass does not fix rows twice is where the note matters.

### Only model-checked

* liveness and its fairness: `CatchUp`, `Indexed`, `StopReturns`, `Progress`,
  `LoadedIsStarted`, `SyncCatchesUp`, `CatchUpKeepsUp`. They are out of the
  prover's reach;
* `IndexedSinceStart`, which speaks of one start only; `NoHoleFromStart` is the
  theorem about all of them;
* nothing but `LossAccounted` and `TypeOK` is claimed of runs with slow reads, which
  `Orderly` excludes: the row may move back, and blocks are put again;
* `Exact`, `NothingLost` and `TypeOK` of the other plugins: those that read
  rows or caches of their own to write the next, or whose buffers outlive a
  failure, where the property is stated while nothing has failed;
* `TokensExact` of the other token plugins: `erc1155_721_holder_v2`, whose batch is
  applied at once and would need a law about `ApplyOperation` that two batches add up
  (it holds only while no burnt token is minted again), the two
  versions of `erc1155_721_meta`, and `erc20_meta`, which reads the table of `erc20`;
* everything else about the plugins that derive: `SinksConverge`,
  `Held`, `LatestRight`, `CandidateRight`, `StakeCounted`, `StakesBalance`,
  `ExitQueue`, `PlanRecorded`, `RewardsShared`. Each needs an invariant that says
  what a recursive definition (the protocol, the holders after so many logs) does
  for every chain. `SystemStakingProofs` shows the way: a relation between tables
  and protocol, one lemma per event, and the fold lemmas.

## Not modelled, and the plan

The map covers 17.5 % of the repository's Go lines. Half of these, some
40,000, are ABI bindings with their JSON strings and byte code, most of them
generated (`erc20.go`, `erc721.go`, `contract.go` under `plugins/`,
`kernel/systemstaking`): they have no state of their own and are present in
the model as the events and calls the plugins use. Of the code written by hand
the map covers about a third.

Left out for good: connection set-up, configuration, metrics, logging, the HTTP
and RPC front ends, table definitions with `EnsureTables` and `EnsureColumns`,
one-shot tools, and what the columns of a row hold where no property depends on
it.

Left out so far:

* plugins: `candidate_v1` (the first version of `candidate`, with a buffer of
  rows it also reads from), `hermes_retention`,
  `delegate_rewards`, `gastracker`, `iotexprice_worker`, `verifying`,
  `monitor`; productivity and probation of a delegate in the workers' reports;
  the start of Hermes in catch-up mode, where an epoch that has begun fails
  for ever because the candidates before it are not in the database
  (`plugins/hermes/hermes.go:179`);
* the workers' `Stop`, which does its work once per process: unloaded, loaded
  and unloaded again, a worker is never told to stop
  (`plugins/delegate_record/delegate.go:62`);
* the server's shutdown and its deadline (`cmd/server.go`), crawl mode, the
  creation of an index row by two goroutines at once (`db/index.go:55`), two
  callers of `Load` at once, and how long `runner.Start` waits for the
  in-memory DAO;
* several plugins with their tables at once: `Delegates` and `CandidatePlugins`
  read other plugins' tables at heights that are chosen, not at those of
  composed runners.

Next, in this order:

1. Proofs: `Exact` for the remaining plugins of `BlockPlugins` with a single
   INSERT; `TokensExact` for `erc1155_721_holder_v2`; `LatestRight` for `staking_bucket`, along
   the lines of `SystemStakingProofs`.
2. Shutdown composed with `PluginService`; the workers' `Stop`.
3. Crawl mode; Hermes started in catch-up mode; the remaining workers.
