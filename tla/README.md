# Verification of the Klayr gateway

The gateway follows one Klayr node over a websocket, indexes its chain into a
PostgreSQL database, and serves the result over HTTP. This directory holds TLA+
models of the parts of it that are hard to test, the TLC configurations that
check them on small instances, and TLAPS proofs of what matters most. Paths
below are relative to the repository; `indexer/` stands for
`src/modules/indexer/`.

## 1. Inventory

| Component | State it keeps | Operations | Talks to | Hard behaviours | Correct when |
|---|---|---|---|---|---|
| Websocket client (`node-api/websocket`) | the socket, `requestCounter`, `pendingRequests` | connect, reconnect after close, invoke with a timeout, subscribe, deliver answers and notifications, disconnect | the node; emits `open`, `closed`, `chain_newBlock` | lost connections, late answers, the counter restarts | an answer resolves only the request it answers; a live connection is subscribed |
| Node API (`node-api/node-api.service.ts`) | `nodeInfo`, `generatorList`, `tokenSummaryInfo`, schemas | invokeApi, getAndSetNodeInfo, cacheNodeApiOnNewBlock, subscribeToNewBlock | websocket client; read by everyone | cached values used after an await | readers never compute with a value that makes them stop or skip |
| Indexer (`indexer/indexer.service.ts`, `state/`) | mode, `nextBlockToSync` in memory and in the database, `processingBlocks` | boot, sync loop, new-block handler, handleNewBlockEvent | node API, block commands, event index | overlapping runs, swallowed errors, crash and restart | no height is passed over, no block is written twice, syncing ends |
| Block commands (`indexer/block/block-commands`) | Block, Transaction, Asset, Account rows | createMany per batch, account upserts | indexer | one statement fails as a whole | all or nothing per batch; accounts carry their keys |
| Post-block commands (`indexer/block/post-block-commands`) | isFinal, validator rewards, fee totals | finality, rewards, fees | indexer, node API | read, await, write back; crash between | each block is counted once; totals equal the sums |
| Event index (`indexer/event/event-index.service.ts`, `event.filters.ts`, gateways) | ChainEvents, Account rows | decode, write, filter, dispatch (not awaited) | indexer, event commands | order of dispatched commands | every affected account and validator is refreshed |
| Event commands (`indexer/event/commands`) | Account balances, Validator, Stake, executionStatus | update account, process validator, add stakes, ranks | node API, database; two mutexes | stale answers written last, mutex not shared | rows end up at the node's value; ranks are a permutation |
| Start-up commands (`indexer/startup`) | genesis accounts and validators, known names | run once, on the first boot | indexer | crash before the end | the genesis data is indexed exactly once |
| Health and endpoint lock (`health/`, `middleware/`) | none (read the mode) | isHealthy, use | state service | read while the mode changes | locked or unhealthy exactly while not indexed |
| Query controllers (`block`, `transaction`, `event`, `pos`, `validator`, ...) | none | build a database query from the parameters | database, node API | filters that overwrite each other | every given filter restricts the answer |

The indexer drives everything: the boot reads the pointer; a new block
announced by the node starts the sync loop, or is fetched and indexed directly;
both hand batches of blocks to `handleNewBlockEvent`, which runs the block
commands, the event index and the post-block commands one after the other. The
runs, the loop, the handler and the update of the pointer share the mode, the
pointer and the flag `processingBlocks`, and interleave at every `await`.

The hazards found while reading are listed in `PROJECT.json`, each at its line.

## 2. Plan

| Module | Models | Composed with |
|---|---|---|
| `Indexer`, `BlockLedger` | the indexer service; what it promises | the runs of every other module of the indexer are its runs |
| `WebSocketClient` | the connection to the node | |
| `EventIndex` | one batch of chain events, and the filters | its dispatch is what starts the tasks of `EventCommands` |
| `EventCommands` | account, validator and stake updates in flight | the row written by `UpdateBlockGeneratorCommand` |
| `ValidatorRanks` | the ranking, by both its callers | the changes `ProcessValidatorCommand` makes |
| `TransactionIndex` | accounts, fees and rows of a batch of transactions, and their results | the accounts that events create; the dispatch of `EventIndex` |
| `BlockTotals` | headers, finality, rewards, fee totals | runs of `Indexer` that overlap and fail |
| `Startup` | what a boot writes, over several boots | what blocks announced meanwhile set and write |
| `NodeCaches` | the caches of `NodeApiService` | refreshes by the sync loop or by new blocks; endpoints that read |
| `ListQueries`, `ValidatorQueries` | the list endpoints and a client that pages | blocks stored, generator lists replaced meanwhile |
| `Requests` | a request that looks up an account and asks the node | mode changes, `AddStakesCommand`, ranks, a silent node |

Each has an `MC` module and a cfg for TLC, except the last five, which `Gateway`
puts side by side: they share no variable that another of them writes, so a
behaviour picks one `part` and the rest stands still. `MCGateway` gives it the
clients and lists of the run. The theorems about a module
are in one named after it with `Proofs` at the end; those about the last five in
`GatewayProofs`, where they are `S!`, `C!`, `L!`, `V!` and `R!`.

The order was: the indexer and its ledger first, since every other module of the
indexer is one of its runs; then what a run does to shared rows; then what the
endpoints make of it. Each module was checked before anything about it was proved.

What is left: liveness (section 9); an abstract specification for `EventCommands`,
a register per account that ends at the last value the node had, of which
`NeverOlder` and the three settling properties are the parts; and one for
`ListQueries`, the sequence of all rows of which a client has a prefix.

## 3. Indexer

`Indexer` models `indexer.service.ts` and, as steps of a run, the commands it
awaits.

| Model | Code |
|---|---|
| `mode` | `StateService`, the indexer's state |
| `next`, `dbNext` | `nextBlockToSync` in memory, and its row |
| `nodeHeight` | `nodeApi.nodeInfo.height` |
| `processing` | `processingBlocks` |
| `boot` | where `onApplicationBootstrap` is; `row` is what `findFirst` returned |
| `loop[l]` | a run of `syncWithNode`: the range asked for, the node info answered |
| `job[j]` | a run of `handleNewBlockEvent` and the pointer update awaited with it |
| `header`, `rows` | rows of Block, and per step how often it was done for a height |
| `height`, `announced` | the node: its height, the last block announced |
| `claimed`, `faults` | history: heights ever handed to a run; faults so far |

JavaScript runs to the next `await` without interruption, so one action is the
code between two awaits: `BootLookup` is the database reading the row and
`BootRestart`/`BootFirstRun` the code after it; `LoopRequests` computes the
range and sends two requests, `LoopNodeInfo` is one of the answers and
`LoopStartsBatch` the code once both are there; `NewBlockFetches` is the handler
up to the request for the block and `BlockFetched` the code after it;
`PointerSaved` is the statement on the pointer and `PointerSet` the copy of the
returned row to memory. The steps of a run (`HeaderWritten`, `TableWritten`,
`FinalityChecked`, `RewardsCredited`, `FeesWritten`, `RanksUpdated`) are one
action per database statement whose partial effect matters: rewards are credited
per generator, fees per block. Any of them may throw (`StageFails`), which the
code swallows. `CacheFails` and `PointerFails` reject the `Promise.all` of a batch: the
loop ends in RESTART and the run goes on with nobody waiting. `Crash` loses the
memory and keeps the database; blocks announced meanwhile are lost.

Abstracted: the contents of blocks, accounts and `isFinal` (`TransactionIndex`,
`BlockTotals`), the commands dispatched by chain events (`EventCommands`; they
touch neither the mode nor the pointer). A block announced
twice or replaced by a fork is not modelled: events come in order of height.

### Properties and runs

| Run | Shows |
|---|---|
| `Indexer` | with two overlapping runs, if no block is announced before the boot knows the pointer: `SyncingHasOneLoop`, `NothingSkipped`, the refinement `KeepsLedger`; `SyncingEnds`, `FlagClears`: without a fault syncing ends, after one it may wait for the next block; the flag never stays set |
| `Indexer_boot` | `TypeOK`, `WrittenOnceInOrder` with events at any time during the boot, two overlapping runs and a fault |
| `Indexer_earlyblock` | violated `NothingSkipped`: a block announced during the boot loses blocks for good |
| `Indexer_overlap` | violated `OneRunAtATime`: runs overlap although events are said to be queued |

`SyncingHasOneLoop` also fails without the quiet boot: of two blocks announced
during the boot the first moves the pointer, the second starts a sync, the boot
then overwrites SYNCING with RESTART, and the next event starts a second loop.

Bounds. `MaxHeight` 2 or 3 gives batches of one and of two blocks
(`BatchSize` 1 asks for two blocks), a batch behind a batch, and a block
announced behind a running batch. Two loops show that a second one never starts
(or does, in the violation); a third adds nothing before a second exists. Two
slots give every pair of overlapping runs; one fault is a crash, a failed request or a failed
statement at any point. The boot run has two slots and a fault too, over a chain of
three blocks. Runs overlap there while the chain has at most two (`LastBlockAlone`): the
two blocks announced one behind the other, or one of them and a batch of the sync, with a
crash or a failure in either. The third block is what starts a sync during the boot, so
that the loop finds the state changed and exits. Deadlock is not checked: the chain is
bounded, and a gateway with nothing to do waits for the next block.

Fairness. Everything awaited ends: requests time out after `RESPONSE_TIMEOUT`
(`websocket.service.ts:96`), database statements return or throw, timers fire. So the boot,
each loop (and separately the node info it asked for) and each run is weakly
fair. Nothing is assumed of the chain's growth, of announcements, or of success.

### Proofs

`IndexerProofs` proves, for every chain, batch size, number of loops, runs and
faults, and with events at any time during the boot:

- `TypeCorrect`: `TypeOK` is invariant. `TypeOK` is not inductive: the range of
  a batch lies in the chain only because the pointer is known whenever a loop is
  alive; `PointerKnown` says so for the mode, the loops and the runs.
- `WrittenOnceInOrderHolds`: `WrittenOnceInOrder` is invariant. The strengthening
  `WriteInv` adds `RunsExact` (for a run past its header, exactly which rows of its
  blocks exist) and `RunsApart` (two such runs have no block in common). A header
  is stored only if none of the batch was, so by `WrittenOnceInOrder` its blocks
  have no row yet, and by `RunsExact` no other run holds one of them: that is what
  the unique height of a header buys.

Under the assumption `QuietBoot` (no block is announced before the boot knows the
pointer; `Indexer_earlyblock` shows why it is needed) it proves:

- `NothingSkippedHolds`: `NothingSkipped` is invariant. `LedgerInv` adds
  `BootKnows` (until the boot has the row, the pointer in memory is unknown and no
  run is alive; the row it found is still the stored one) and `PointersReached` (every pointer value that is anywhere under way, in a
  run, a loop or the row the boot read, lies at most one past heights that were
  handed out). `NothingSkipped` speaks of the two pointers only; an update that
  overtakes another writes a value that was computed earlier, so that value must
  be covered too.
- `KeepsLedgerHolds`: `Spec => KeepsLedger`, the refinement of `BlockLedger`, one
  lemma per action: it stores what `BlockLedger` may store, or moves its pointer,
  or stutters.

- `SyncingHasOneLoopHolds`: `LoopInv` adds to `SyncingHasOneLoop` that a handler
  still waiting for its block belongs to no loop.

The assumptions on the constants are `IndexerAssumption`. `SyncingEnds` and
`FlagClears` are only model-checked.

## 4. WebSocketClient

`WebSocketClient` models the connection to the node: `websocket.service.ts`, and
the subscription of `node-api.service.ts`.

| Model | Code |
|---|---|
| `socket[s]`, `ws` | every socket made by `connect()` by its `readyState`; the service's `this.ws` |
| `timers` | timers set by `reconnect()` that have not fired |
| `counter`, `pending` | `requestCounter`, `pendingRequests` |
| `wire` | requests and answers under way, each over its socket |
| `call[c]`, `answer[c]` | what the caller of an `invoke` has seen, and whose answer |
| `subscribed` | sockets over which `subscribe` was sent |
| `boot` | `onModuleInit`, then the listeners of `@OnEvent`, then `onApplicationBootstrap`; or the process has ended |

A handler is one action, since all of them run to the end without an await except
`disconnect()`: `Errors` is the error handler up to that await, `Closed` the close
handler, `DisconnectTimesOut` the rejection of the await, which nothing handles
and which ends the process. `Opens` includes the listener `onConnected`, because
events are emitted synchronously. A request that times out (`TimesOut`) keeps its
entry in `pendingRequests`, as in the code.

External: the node answers in any order or never; a connection fails, is closed
by the node, or breaks at any time; what is under way over a socket is lost when
it closes, and may still arrive while it is closing (the library delivers less).
The framework registers the listeners of `@OnEvent` before the bootstrap hooks of
the other services, as `@nestjs/event-emitter`, a global module, does. An error
always belongs to the current socket: that is `OneConnection`.

| Property | Says |
|---|---|
| `RightAnswer` | a call gets its own answer or none |
| `AnswerNotDropped` | an answer over the open connection finds the call that waits for it |
| `OneConnection` | one live socket or one timer, never both, never none |
| `SubscribedWhenOpen` | once up, an open connection is subscribed to new blocks |

Bounds. The run `WebSocketClient` has three calls, interchangeable, over three
connections: a call times out, its answer arrives late, a second reuses its number
after an error, a third goes on counting after a close by the node. Deadlock is
not checked: the sockets run out, and the process may end.

Proofs. `WebSocketClientProofs` proves all of these for any calls and sockets,
from `CallsAssumption` and `SocketsAssumption`. `ConnInv` joins the types to
`OneConnection`: a second live socket would make a second timer. `RightAnswer` says nothing of
numbers, so it needs `NumberInv`: what is on the wire travels on the current
socket, under different numbers below the counter; what is pending has numbers
below the counter; and the same number on both sides means the same call. An
error resets the counter, but the wire is then empty before any socket opens
again: that is why numbers may be reused, and why the reset must clear
`pendingRequests` too.

Nothing is claimed about progress: a connection that is never accepted is
retried for ever, and a gateway whose process ended needs a supervisor.

## 5. Events: EventIndex, EventCommands

### EventIndex

One batch, from the requests for its events to the dispatch. `chain` is what the
node has, in an order the chain allows; `answers` the order in which
`chain_getEvents` is answered; `events`, `accounts`, `rows`, `counts` what
`indexChainEvents` and `writeChainEventsToDb` make of it; `seen` and `filtered`
are the variables of `processChainEvents`, filtered one event per step
(`FilterNext`). Types of event are classes: those with the same filter behave alike.

| Property | Says |
|---|---|
| `RowsAreTheChain` | rows and counts follow the chain whatever the order of answers |
| `DispatchedHaveRows` | no dispatched event is about an account without a row |
| `RefreshedOnce` | what the filter is for |
| `LeftOutBehindSeenParty` | whom it leaves out, exactly: an account whose first event of the batch is a transfer with a party that had one before, or with itself |

Bounds: two blocks, three events of every class, three accounts, where the third
is needed for a chain of transfers. The accounts are interchangeable.

Proofs. `EventIndexProofs` proves all four, for any accounts, blocks and events,
from `EventIndexAssumption`. The answers arrive in any order, but they are laid one
behind the other by height, and the stretches of a chain so joined are the chain
(`DecodedIsChain`, for `StageInv`). `DispatchedHaveRows` needs `KnownInv`: all along, an account of the
chain has its row or an event of the chain that gives it one. `RefreshedOnce` is
that no two of the events passed on share a pair of `seen` (`SeenInv`,
`PassedInv`). `LeftOutBehindSeenParty` is an equivalence about whole batches, and
needs `FirstDecidesInv`: the first event of an account that asks for a refresh
decides whether the account is refreshed, since after it the account is seen;
`StakersInv` is the exception of the stakes, which are passed on either way.

### EventCommands

| Model | Code |
|---|---|
| `task[t]` | a call of `processChainEvent` that nobody awaits, or the generator's part of a run; `step` is the await it is at |
| `validatorMutex`, `stakesMutex` | the two mutexes, as queues: the head holds it |
| `balance`, `info`, `stakes` | the node's values, as versions |
| `balanceOf`, `validator`, `stake` | the rows, with the version of the answer they were written from |
| `account`, `columns` | a validator's account, with or without its name; the columns of its row that only one branch of `ProcessValidatorCommand` writes |
| `early`, `inserted` | history: validators that forged before they had a row; the version of the stakes inserted last |
| `doubt` | history: accounts whose last update failed, raced or was cut short |

`Step(t)` is a task's step from one await to the next; `Chain(t)` a change on the
node together with the event it causes. A failure that the command catches costs
its own update (`BalanceRefused`, `ProcessFails`, `AccountClash`); one it does not
catch ends the process (`Crash`, `InsertFails`), and every task with it.

| Property | Says |
|---|---|
| `BalanceSettles` | with no update under way a row has the node's balance, unless the last two answers were in flight together, or the last update failed: that is what the missing mutex costs |
| `ValidatorSettles` | what both branches write of a validator ends at the node's value, although `UpdateBlockGeneratorCommand` takes no mutex; its keys and name are there unless it forged before it had a row |
| `StakesSettle` | the rows of a staker end at the node's stakes |
| `NeverOlder` | an older answer never replaces a newer one; of stakes, none is inserted after a newer one, however many steps lie between |
| `EventsEnd` | every event's commands end, no mutex stays locked |

The two branches of `ProcessValidatorCommand` write different columns. The creation
(`ValidatorCreated`) asks for the keys and writes them, with the sharing
coefficients, after it has named the account; the update (`ValidatorUpdated`) writes
none of these, but the block reward, which a created row lacks until its first
update. So a row that `UpdateBlockGeneratorCommand` made first (`Bare`) never gets its
keys, coefficients and name, which `ValidatorSettles` says of such validators
(`Incomplete`). It also excepts validators that lost a whole stake: `ValidatorStaked`
asks about those in the node's answer only. Bounds: a holder, a staker, two
validators; two tasks, so that one can wait for a mutex that the other holds, or
come between its awaits; four changes; one fault. Fairness (`EventsEnd` only):
weak fairness of each task, since requests are answered or time out and
statements return. Taking turns at a mutex is the queue's own.

Proofs. `EventCommandsProofs` proves all of the table but `EventsEnd` for any
accounts, tasks, changes and faults. `EventCommandsAssumption` keeps the three
kinds of account apart and the tasks finite. The invariant has the mutexes as
queues (`ValidatorMutexInv`, `StakesMutexInv`): a task between two awaits behind a
mutex is in its queue once, and only the head has read anything. Then, per row,
who holds what the row will become:

- `BalanceInv`: without doubt and when nobody is about to ask, either one command
  holds the node's balance, or the row does;
- `StakesInv`, `RowsInv`: each command that holds stakes of a staker holds the node's
  newest, and the rows of a staker are of one answer, none being left when the
  next are inserted;
- `ValidatorInv`: some command will still process the validator, or the row is
  the node's; `AnswerInv` bounds an answer under way by the row and the node,
  which is `NeverOlder` of validators;
- `InsertedInv`: an answer about a staker that is not inserted yet is no older than
  the last that was, since it was asked for under the mutex, after that was
  inserted: `NeverOlder` of stakes;
- `ColumnsInv`: a row is whole once `ValidatorCreated` wrote it, and any other is of
  a validator that forged early.

`EventsEnd` is only model-checked.

## 6. Blocks: TransactionIndex, BlockTotals, ValidatorRanks

### TransactionIndex

`IndexTransactionCommand`, `IndexAssetCommand` and `ExecutionResultCommand` for
one batch. `met` is the map of accounts, `fees` the map of fees, `asked` the
lookups of `handlePosStake`, `updates` the results nobody awaits. `Processed` is
the turn in which every transaction runs to its first await; those that stake add
their fee when their last lookup is answered (`Found`). `Stopped` is a failure
elsewhere in the run, or the end of the process: the batch is not indexed again.

`FeesAreSums` compares the map with the sums of the chain, with fees that are
distinct powers of two; `FailsOnlyFor` says for what a batch may fail (a module
the node's metadata lacks; a stake on an account without a row); `SendersKnown`
which senders end without a public key; `PendingExplained` what stays pending
when everything is through: the transactions of modules without a gateway. Two
accounts, two blocks, three transactions of four kinds: every order of recipient
and sender, of one account in two blocks, and of two lookups. The fee and the
result of each transaction are constants (`Fee`, `Successful`), as is what
`calcMinFee` returns (`MinFee`); the theorems hold for all of them.

Proofs. `TransactionIndexProofs` proves all four from `TransactionIndexAssumption`.
`FeesInv` says what the map of fees holds at any time: the sums over the
transactions that went on, block by block. The loop over the transactions is
described by a closed form, `EntryOf(a, n)`: what the map of accounts holds of `a`
after `n` transactions; its key is lost exactly if `a` received first, sent only
once, and that was its transaction 0. `MapInv` says that the map agrees with it for
who is still in it and the table for everybody else, and `TableInv` that who never
sent has no row with a key before its upsert. So at the creation of the transactions every
account named has its row (`RowsInv`), which is what the foreign keys of
`FailsOnlyFor` need. `StatusInv` relates a status to the updates still under way.

### BlockTotals

Runs of `handleNewBlockEvent` with amounts. `run[r]` holds the blocks it has still
to credit (`left`) and what it has read and not yet used (`read`, `row`), which is
where another run comes in between. What each height gives, locks, burns and
pays are constants (`Expected`, `Minted`, `Locked`, `Burnt`, `Fee`), powers in the
run, so that no two sums are equal.

| Property | Says |
|---|---|
| `TotalsComplete` | runs that take turns leave exactly the chain's fees, rewards, counts and finality, validators being registered meanwhile |
| `NeverOverCredited` | whatever overlaps, fails or is asked for again, nobody is credited more than the chain gave |
| `FinalIsFinalized` | a block is marked final only when it is finalized |

Three heights, batches of two; once a run failed or overlapped the chain goes to
`MaxUnclean`, 2: two runs over one batch, or over two.

That an overlapping run may lose a credit is no violation of
`NeverOverCredited`; it is why `TotalsComplete` wants `clean`. A sync marks its
blocks final when they are at or below the node's height, which `Started` does
for the whole batch; `FinalIsFinalized` is about the blocks that are marked later.

Proofs. `BlockTotalsProofs` proves the three for any generators, amounts, heights and
runs, from `BlockTotalsAssumption`. `ApartInv` is the key: what a run past its
headers has left to credit is stored, and no other run's; it is the argument of
`RunsApart` of the indexer. A block of a generator is then owed by one run or
accounted for, and `CreditInv` bounds every row, and every row as a run has read
it, by the sum over what is accounted for; this needs no turns. As long
as runs take turns (`TurnsInv`), what was read is still so (`ReadInv`), each row has
exactly its blocks (`RowsInv`), and marks and fees are complete behind the run
(`FinalInv`, `FeesInv`). That the count a row gets is the number of the blocks up
to its last one uses that a run credits its blocks in ascending order, after all
earlier ones. `FinalIsFinalized` is an action property, from `InfoInv`: the node
info is never ahead of the node.

### ValidatorRanks

`RanksComputed` is the reading of all validators and the computation of their
updates (`Plan`), `RankWritten` one of them. `calcStatus` uses the rank of the
run before, and the order of equal weights in `findMany` is any. `calm` counts
runs that had the table to themselves. `RanksOrdered` and `ExcludedAtOnce` hold
after one such run, `ActiveAfterTwoRuns` after two: a seat that becomes free is
given only by the second. A validator has `punishmentPeriods`; `period` says whether
the node's height is in the first, in a later one, or in none, and the code looks at
the first only (`Punished`): in a later period a validator keeps its seat, and
`ExcludedAtOnce` claims nothing of it. Three validators, three weights, one seat,
four changes of a validator or of the mode.

Proofs. `ValidatorRanksProofs` proves the three for any number of validators, weights,
seats and changes. The order of the ranking is strict and total, so `Rank` is a
bijection of the validators on `1 .. n` (by a smallest validator that has none).
`PlanInv`, `PassedInv` and `CalmInv` follow one run: what it plans is of the
validators as they are, those it has passed have their ranks, and so after it
have all. `SeatsPlanInv`, `SeatsPassedInv` and `SeatsInv` say the same of the seats, one
run later, since a status is computed from the rank of the run before. `AloneInv`
is why nobody else's plan comes between.

## 7. Startup

Three boots on one database, and the blocks announced during them.

| Model | Code |
|---|---|
| `pc`, `todo`, `left` | the await the boot is at; assets, and accounts of the step at hand, still to handle |
| `env`, `assets` | the configuration; the order of the genesis assets |
| `pointer`, `account`, `validator` | the row of `NextBlockToSync`, and the rows of Account and Validator |
| `state` | `StateService`: START_UP, RESTART or SYNCING |
| `busy`, `command` | blocks announced are being indexed; the `ProcessValidatorCommand` of their events |
| `first`, `lost`, `early`, `others` | history: whether this boot creates the row of the pointer; whether such a boot ended half-way; whether a block came while it created the row; what announced blocks wrote |

`Dies` may happen at every await. `Announced` is `subscribeToNewBlock` as far as the
boot meets it: while the pointer is undefined a block takes the direct path and the
state stays; while the row is being created every block is above the genesis height
and the state becomes SYNCING; later either. `PointerCreated` then has the guard of
`executeStartUpCommands`: with the state no longer START_UP neither command runs,
and the gateway comes up without the genesis block. What indexes the announced
blocks may create accounts (`AccountInitialised`), the row of a generator that has an account
(`GeneratorWritten`), and, in three awaits, name a validator's account and create its
row (`CommandReads`, `CommandNames`, `CommandCreates`).

The row that switches the genesis block off is written before the first of its
rows. The price is `GenesisIn`: the genesis block and the names are complete
unless the boot that created the row was cut off (`lost`) or met a block while it did (`early`),
and then no later boot repairs it. Whatever else is in the tables, and whatever
other name an account has, an announced block wrote.
`ClashNeedsOther`: the boot fails on an existing row only if an announced block wrote
an account of the token asset or a validator of the PoS asset first; the other
writes of the boot are upserts. With `env.dev` each start clears the tables.

Bounds: two boots are one cut off and one that would have to repair it; the announced
blocks are about one genesis account that is also a validator, and about the generator,
and write up to twice: an account and its validator, or a name and its validator.

Proofs. `GatewayProofs` proves both for any number of boots, any accounts and names, and
any number of writes of announced blocks. `StartupInv`
ties each of the three tables to the step of the boot: `StartupOrderInv` which
assets are done when, `WrittenInv` and `UsersInv` what is stored by then, `LeftInv`
what the list in hand is of, `FirstInv` that without the pointer's row there is nothing
but what announced blocks wrote, `StateInv` that the state is START_UP at the guard
unless a block came that late, and `CompleteInv` that a boot that ended with the row
and without `lost` or `early` left everything. The writes of announced blocks are one
lemma: whatever only adds rows, and puts each in the history, keeps the invariant
(`Grows`, `GrowsInv`). A clash is with a row that neither this
boot nor an earlier one wrote: that is what `FirstInv` and `WrittenInv` give `ClashNeedsOther`.

## 8. The node's values and the endpoints

The run of `Gateway` checks these modules and `Startup`, each in behaviours of its own.

| Property | About | Says |
|---|---|---|
| `GenesisIn`, `ClashNeedsOther` | `Startup` | section 7 |
| `FiltersKept` | `ListQueries`, `ValidatorQueries`, `Requests` | every row, validator and account of an answer satisfies every parameter given, but those that the where-clause loses (`Lost`) |
| `NothingMissed` | `ListQueries` | a client that pages through `/blocks` misses no block it wants that was there, and has none twice in ascending order |
| `AnswersOfOneTime` | `ValidatorQueries`, `NodeCaches` | the times of an answer come from one generator list, the parts of the token summary from one refresh |
| `WholeStakes` | `Requests` | a reader sees the stakes of one answer of the node or none, never some of two |
| `CountsOffByChanges` | `Requests` | parallel counts are off from the validators with a status by no more than the changes meanwhile |
| `NeverOlder`, `OnceReadyAlwaysReady` | `NodeCaches` | no client goes back in time while refreshes take turns; no refresh takes a cache away |

### NodeCaches

A value is named by the height of the node at which it was true. `refresh[r]` is
a call of `cacheNodeApiOnNewBlock` at one of its four requests; `reader` an
endpoint between the capture of a cache and its answer. Without `overlap` the
refreshes take turns, as in the sync loop. With two at a time, as new blocks
allow, the older answer may come last, but the token summary is still of one
refresh and no endpoint that answered begins to fail. Heights up to 3 and a
summary every second block: refreshes with and without it.

Proofs. `CachesInv`: a call in flight holds values no newer than the node and in
the order in which it asked (`CallInv`); without overlap there is one, and the
caches are no newer than what it holds (`TurnsInv`, `CachesOrderInv`), from which
`NeverOlder` follows; `ReadyInv` and `BootInv` say which caches are there once the boot has ended
or an endpoint has answered, which is `OnceReadyAlwaysReady`.

### ListQueries, ValidatorQueries

A parameter means a set of rows; the where-clause is built from the entries of
the object literal in their order, a later entry replacing an earlier one of the
same key. Rows are numbers whose columns are functions of the number. A client
pages until a page is short, while blocks are stored. A parameter is lost
(`Lost`) where the literal repeats its key: `height` of `/blocks`, which the exclusion of the
genesis block replaces; `blockID` of `/transactions` next to `timestamp`, and
`timestamp` of `/events` next to `blockID`; `publicKey` of `/pos/validators`
next to `name`; and every parameter of `/pos/validators` in the sort by
`nextAllocatedTime`, which has a where-clause of its own. `FiltersKept` says that
these are all: every other parameter restricts the answer. What the DTO of
`/blocks` promises, `FiltersApplied`, the run `ListQueries_height` shows violated. `Asked` has the
sorts the DTOs accept by columns that do not exist, and `Replied` the slice of
`/generators` that leaves later pages empty and the limit that a sort by time drops.

Bounds: a genesis block and three more, of which one, two or three are stored at
first, and pages of two, so that a full page is followed by another and blocks are
stored before, between and after them; two transactions or events to a block;
clients with every pair of parameters named above, and with filters in the sort by
time; four validators in two generator lists, so that one leaves the list.

What a page is, is said by the places its rows can take: the i-th row after
`skip` is one of those with fewer than `skip + i` rows before it and none too few,
whichever the database prefers among equals.

Proofs. `ListsInv`: the parameters of a client are among those that the DTO of its endpoint
knows (`ClientInv`), and of these a key has one entry after the lost ones are left out (`ListKeys`,
`LastApplied`), so the where-clause is the conjunction of what the others ask
(`FiltersKept`); in
ascending order the i-th row sent has place i, so none is sent twice; every row stored when the client
began, and whose place is at most the number sent, has been sent: a block
stored meanwhile is above all of them, and moves each in descending order only
towards later pages. A short page means that the number sent is the number of
all (`LastPage`), hence `NothingMissed`. `ValidatorsInv` says the same of the
parameters of the validators' endpoints (`ValidatorKeys`, `MatchingAsked`), and that the times
of an answer are places on the one
list that was held when they were read, whatever the list is by then. The pages' size
is any number (`TakeAssumption`), the rows and heights are any, and so are the
combinations of parameters (`ListClientsAssumption`, `ValidatorClientsAssumption`) and
the generator lists (`ListsAssumption`).

### Requests

A request goes through the lock, the check of its parameters and the awaits of its
endpoint (`Steps`): account, node, rows, counts. The mode, the rows, the stakes
and the statuses change meanwhile; the node refuses, answers with an error, or is
silent until `RESPONSE_TIMEOUT`. A state that the request does not read any more
is not followed. The status of a validator is nullable: the genesis block,
`UpdateBlockGeneratorCommand` and `ProcessValidatorCommand` create rows without one
(`ValidatorCreated`), the ranks give them one (`StatusChanged`), and until then no
count has them, so that the sum is that of the validators with a status. Two accounts, two runs of `AddStakesCommand`, two changes. One
request is enough: requests share nothing that they write.

Proofs. `RequestsInv`, for finitely many accounts (`AskersAssumption`). `MutexInv` has one
run of `AddStakesCommand` between its awaits; so the rows of an account are those
of one answer, or none (`StakeInv`, `TaskInv`), and a request that has read them
has the same of what it read; the account it was about has what the client
gave of it (`FoundInv`). `CountInv`: the counts read so far, plus what is still to
be counted, differ from the number of validators with a status by no more than the changes since
the first was read. `StepsInv` says which awaits a request has still before it.

`GatewayInv` joins the five invariants: a behaviour keeps that of the part it
picked.

## 9. What is proved and what is only checked

Proved, for every value of the constants that the named assumptions allow: every
safety property and every action property that a passing run checks, and the
refinement of `BlockLedger`. `NothingSkipped`, `KeepsLedger` and `SyncingHasOneLoop`
are proved under `QuietBoot`, without which they are false (section 3).

Only model-checked, on the instances above: the liveness properties `SyncingEnds`,
`FlagClears` and `EventsEnd`, since fairness and ENABLED are out of the prover's
reach.

Where a proof needs induction over data (sums, ranks, places of rows) it takes a
smallest counterexample instead: the lemma `Least`, from the well-foundedness of
`<` on the naturals, gives one, and what the definition says of the number before
refutes it; the library's induction theorems, which take an operator, are out of
the provers' reach. For that the functions of the models that run over data are written
as recursive functions or as sets with a property, never as RECURSIVE operators.

The assumptions on constants are `IndexerAssumption`, `CallsAssumption`,
`SocketsAssumption`, `EventIndexAssumption`, `EventCommandsAssumption`,
`TransactionIndexAssumption`, `BlockTotalsAssumption`, `ValidatorRanksAssumption`,
and of `Gateway` `ListClientsAssumption`, `ValidatorClientsAssumption`, `ListsAssumption`,
`HeightAssumption`, `AskersAssumption` and `TakeAssumption`; TLC evaluates each in a passing run. They
are types, the finiteness of sets of accounts and runs, the kinds of
accounts and events that are told apart, and the parameters that DTOs let through.

## 10. Not modelled

- Forks: a block announced twice or replaced. The indexer has no handler for it.
- Balances of several tokens in one account row: the code writes whichever token
  an event was about, and nothing says which it should be.
- `/search` (three independent reads), `/nft` and `/network/peers` (they pass the
  node's answer on), response bodies and Swagger; the totals `/pos/validators`
  counts with the original where-clause.
- Decoding by schema, beyond "known" and "unknown".
- `sendMessage`, `unsubscribe`, `onModuleDestroy`: nothing calls them.
- Module wiring, logging, the Prisma client and its migrations.
