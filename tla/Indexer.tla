------------------------------- MODULE Indexer -------------------------------
(***************************************************************************)
(* The indexer of the gateway (src/modules/indexer/indexer.service.ts):    *)
(* its boot, its mode, the sync loop, the new-block handler, the runs of   *)
(* handleNewBlockEvent they start, and the nextBlockToSync pointer that is *)
(* kept both in memory and in the database.                                *)
(*                                                                         *)
(* The code is single-threaded JavaScript: what runs between two awaits is *)
(* one action here, and everything that is awaited (an RPC to the node, a  *)
(* database statement, a timer) completes in an action of its own, in any  *)
(* order with those of the other runs.                                     *)
(***************************************************************************)
EXTENDS Integers, FiniteSets

CONSTANTS
    GenesisHeight,  \* height of the chain's first block
    MaxHeight,      \* bound: the chain grows up to this height
    BatchSize,      \* NUMBER_OF_BLOCKS_TO_SYNC_AT_ONCE
    Loops,          \* bound: runs of syncWithNode alive at once
    Slots,          \* bound: runs of handleNewBlockEvent alive at once
    MaxFaults,      \* bound: faults, failed requests and failed statements in a behaviour
    QuietBoot       \* TRUE: no block is announced before the boot knows the pointer

ASSUME IndexerAssumption ==
    /\ GenesisHeight \in Nat
    /\ MaxHeight \in Nat
    /\ BatchSize \in Nat
    /\ MaxFaults \in Nat
    /\ GenesisHeight <= MaxHeight
    /\ QuietBoot \in BOOLEAN
    /\ Loops \cap {"free", "nobody"} = {}

VARIABLES
    \* the node, seen through its API
    height,      \* height of the node's chain
    announced,   \* height of the last chain_newBlock event handled
    \* memory of the process
    mode,        \* StateService: the indexer's state
    next,        \* IndexerService.nextBlockToSync
    nodeHeight,  \* NodeApiService.nodeInfo.height, as last cached
    processing,  \* IndexerService.processingBlocks
    boot,        \* progress of onApplicationBootstrap
    loop,        \* runs of syncWithNode
    job,         \* runs of handleNewBlockEvent and the tasks awaited with them
    \* the database
    dbNext,      \* the nextBlockToSync row
    header,      \* heights that have a row in the Block table
    rows,        \* per step that depends on the header, and height: how often it was done
    \* history
    claimed,     \* heights ever handed to handleNewBlockEvent
    faults       \* faults so far, for the bound

envVars  == <<height, announced>>
memVars  == <<mode, next, nodeHeight, processing, boot, loop, job>>
dbVars   == <<dbNext, header, rows>>
vars     == <<envVars, memVars, dbVars, claimed, faults>>

-----------------------------------------------------------------------------
(* Values *)

Heights   == GenesisHeight .. MaxHeight
Undefined == -1     \* a field not assigned yet, a row that does not exist

Modes == {"START_UP", "RESTART", "SYNCING", "INDEXING"}

\* The steps of handleNewBlockEvent, in the order in which it awaits them.
Fetching     == 0   \* getBlockByID, before handleNewBlockEvent is entered
Header       == 1   \* indexChainEvents (upserts accounts), then IndexBlockCommand
Transactions == 2   \* IndexTransactionCommand
Assets       == 3   \* IndexAssetCommand
ChainEvents  == 4   \* writeChainEventsToDb
Finality     == 5   \* CheckForBlockFinalityCommand
Rewards      == 6   \* UpdateBlockGeneratorCommand
Fees         == 7   \* UpdateBlocksFeeCommand
Ranks        == 8   \* UpdateValidatorRanks, only while SYNCING
Finished     == 9

\* The steps that write rows, or columns, which depend on the header of the block.
\* A block may have nothing to write (no transactions, the block at height 0 has
\* no reward): the step counts as done for it.
Tables == {Transactions, Assets, ChainEvents, Rewards, Fees}

\* A run of handleNewBlockEvent for the blocks first..last. A loop awaits its
\* own run; the run of an event handler, or one whose Promise.all has rejected,
\* goes on with nobody waiting for it.
Job == [owner : Loops \cup {"free", "nobody"},
        first : Heights, last : Heights,
        stage : Fetching .. Finished,
        todo  : SUBSET Heights,                \* heights the stage has yet to write
        ptr   : {"sent", "applied", "done"}]   \* updateNextBlockToSync

FreeJob == [owner |-> "free", first |-> GenesisHeight, last |-> GenesisHeight,
            stage |-> Finished, todo |-> {}, ptr |-> "done"]

\* A new-block handler that has asked for the announced block.
FetchingJob(h) ==
    [owner |-> "nobody", first |-> h, last |-> h, stage |-> Fetching, todo |-> {}, ptr |-> "done"]

\* The Promise.all over a batch, just entered.
StartedJob(owner, first, last) ==
    [owner |-> owner, first |-> first, last |-> last,
     stage |-> Header, todo |-> first .. last, ptr |-> "sent"]

\* A run of syncWithNode: the range it asked for, whether the node info it asked
\* for is still to come, and the height that answer gave.
Loop == [pc : {"idle", "ready", "fetching", "running"},
         from : Heights \cup {Undefined, MaxHeight + 1},
         to : Heights \cup {Undefined},
         asked : BOOLEAN,
         info : Heights \cup {Undefined}]

IdleLoop(asked) == [pc |-> "idle", from |-> Undefined, to |-> Undefined,
                    asked |-> asked, info |-> Undefined]

Fault == faults < MaxFaults /\ faults' = faults + 1

Span(j)       == job[j].first .. job[j].last
Processing(j) == job[j].stage \in Header .. Ranks
TasksDone(j)  == job[j].stage = Finished /\ job[j].ptr = "done"
PastHeader(j) == job[j].stage \in Transactions .. Ranks

-----------------------------------------------------------------------------
Init ==
    /\ height = GenesisHeight
    /\ announced = GenesisHeight
    /\ mode = "START_UP"
    /\ next = Undefined
    /\ nodeHeight = Undefined
    /\ processing = FALSE
    /\ boot = [pc |-> "nodeInfo", row |-> Undefined]
    /\ loop = [l \in Loops |-> IdleLoop(FALSE)]
    /\ job = [j \in Slots |-> FreeJob]
    /\ dbNext = Undefined
    /\ header = {}
    /\ rows = [t \in Tables |-> [h \in Heights |-> 0]]
    /\ claimed = {}
    /\ faults = 0

-----------------------------------------------------------------------------
(* onApplicationBootstrap. The subscription to new blocks is already active. *)

BootNodeInfo ==
    /\ boot.pc = "nodeInfo"
    /\ nodeHeight' = height
    /\ boot' = [boot EXCEPT !.pc = "lookup"]
    /\ UNCHANGED <<envVars, mode, next, processing, loop, job, dbVars, claimed, faults>>

\* findFirst reads the row ...
BootLookup ==
    /\ boot.pc = "lookup"
    /\ boot' = [pc |-> "found", row |-> dbNext]
    /\ UNCHANGED <<envVars, mode, next, nodeHeight, processing, loop, job, dbVars,
                   claimed, faults>>

\* ... and its answer is used: a row means RESTART, where the start-up commands are skipped.
BootRestart ==
    /\ boot.pc = "found"
    /\ boot.row # Undefined
    /\ mode' = "RESTART"
    /\ next' = boot.row
    /\ boot' = [pc |-> "done", row |-> Undefined]
    /\ UNCHANGED <<envVars, nodeHeight, processing, loop, job, dbVars, claimed, faults>>

BootFirstRun ==
    /\ boot.pc = "found"
    /\ boot.row = Undefined
    /\ next' = GenesisHeight
    /\ boot' = [boot EXCEPT !.pc = "create"]
    /\ UNCHANGED <<envVars, mode, nodeHeight, processing, loop, job, dbVars, claimed, faults>>

\* The row exists; the start-up commands run only if the state is still START_UP.
BootCreateRow ==
    /\ boot.pc = "create"
    /\ dbNext' = GenesisHeight
    /\ boot' = [boot EXCEPT !.pc = IF mode = "START_UP" THEN "startUp" ELSE "done"]
    /\ UNCHANGED <<envVars, mode, next, nodeHeight, processing, loop, job, header, rows,
                   claimed, faults>>

\* Genesis assets and known accounts are indexed.
BootStartUpCommands ==
    /\ boot.pc = "startUp"
    /\ boot' = [boot EXCEPT !.pc = "done"]
    /\ UNCHANGED <<envVars, mode, next, nodeHeight, processing, loop, job, dbVars,
                   claimed, faults>>

Boot == \/ BootNodeInfo \/ BootLookup \/ BootRestart
        \/ BootFirstRun \/ BootCreateRow \/ BootStartUpCommands

-----------------------------------------------------------------------------
(* subscribeToNewBlock: the handler of chain_newBlock *)

\* A new-block event for height h reaches the handler. Events come in order of
\* height; those sent while the connection is down are lost.
Announce(h) ==
    /\ h \in announced + 1 .. height
    /\ QuietBoot => next # Undefined
    /\ announced' = h

\* Mutant: a gateway that is syncing reacts to new blocks.
MutantIgnores == processing

Ignores == mode = "SYNCING" \/ processing

\* Mutant: only a restarted gateway goes back to syncing.
MutantGoesBackToSyncing(h) == mode = "RESTART"

\* `h > undefined` is false in JavaScript.
GoesBackToSyncing(h) ==
    \/ next # Undefined /\ h > next
    \/ mode = "RESTART"

NewBlockIgnored(h) ==
    /\ Announce(h)
    /\ Ignores
    /\ UNCHANGED <<height, memVars, dbVars, claimed, faults>>

\* The loop starts in a setImmediate callback.
NewBlockStartsSync(h, l) ==
    /\ Announce(h)
    /\ ~Ignores
    /\ GoesBackToSyncing(h)
    /\ loop[l].pc = "idle"
    /\ mode' = "SYNCING"
    /\ loop' = [loop EXCEPT ![l].pc = "ready"]
    /\ UNCHANGED <<height, next, nodeHeight, processing, boot, job, dbVars, claimed, faults>>

\* The handler asks for the block and yields; the flag is not set yet.
NewBlockFetches(h, j) ==
    /\ Announce(h)
    /\ ~Ignores
    /\ ~GoesBackToSyncing(h)
    /\ job[j].owner = "free"
    /\ job' = [job EXCEPT ![j] = FetchingJob(h)]
    /\ UNCHANGED <<height, mode, next, nodeHeight, processing, boot, loop, dbVars,
                   claimed, faults>>

\* The block is there: its three tasks start, whatever the mode is by now.
BlockFetched(j) ==
    /\ job[j].stage = Fetching
    /\ job' = [job EXCEPT ![j] = StartedJob("nobody", job[j].first, job[j].last)]
    /\ processing' = TRUE
    /\ claimed' = claimed \cup Span(j)
    /\ UNCHANGED <<envVars, mode, next, nodeHeight, boot, loop, dbVars, faults>>

BlockFetchFails(j) ==
    /\ Fault
    /\ job[j].stage = Fetching
    /\ job' = [job EXCEPT ![j] = FreeJob]
    /\ UNCHANGED <<envVars, mode, next, nodeHeight, processing, boot, loop, dbVars, claimed>>

-----------------------------------------------------------------------------
(* syncWithNode *)

\* Mutant: the range is not cut at the height of the node.
MutantLower(a, b) == a

Lower(a, b) == IF a > b THEN b ELSE a

\* getBlocks and getAndSetNodeInfo are sent together: the range is computed
\* from the node height cached before the latter answers.
LoopRequests(l) ==
    /\ loop[l].pc = "ready"
    /\ mode = "SYNCING"
    /\ loop' = [loop EXCEPT ![l] = [pc |-> "fetching", from |-> next,
                                   to |-> Lower(next + BatchSize, nodeHeight),
                                   asked |-> TRUE, info |-> Undefined]]
    /\ UNCHANGED <<envVars, mode, next, nodeHeight, processing, boot, job, dbVars,
                   claimed, faults>>

\* The condition of the while statement is false.
LoopExits(l) ==
    /\ loop[l].pc = "ready"
    /\ mode # "SYNCING"
    /\ loop' = [loop EXCEPT ![l] = IdleLoop(FALSE)]
    /\ UNCHANGED <<envVars, mode, next, nodeHeight, processing, boot, job, dbVars,
                   claimed, faults>>

\* getAndSetNodeInfo answers; after a failed getBlocks nobody awaits it, but it
\* still updates the cache.
LoopNodeInfo(l) ==
    /\ loop[l].asked
    /\ nodeHeight' = height
    /\ loop' = [loop EXCEPT ![l].asked = FALSE,
                            ![l].info = IF loop[l].pc = "fetching" THEN height ELSE Undefined]
    /\ UNCHANGED <<envVars, mode, next, processing, boot, job, dbVars, claimed, faults>>

Answered(l)   == loop[l].pc = "fetching" /\ ~loop[l].asked
EmptyRange(l) == loop[l].from > loop[l].to

LoopStartsBatch(l, j) ==
    /\ Answered(l)
    /\ ~EmptyRange(l)
    /\ job[j].owner = "free"
    /\ job' = [job EXCEPT ![j] = StartedJob(l, loop[l].from, loop[l].to)]
    /\ loop' = [loop EXCEPT ![l].pc = "running"]
    /\ processing' = TRUE
    /\ claimed' = claimed \cup (loop[l].from .. loop[l].to)
    /\ UNCHANGED <<envVars, mode, next, nodeHeight, boot, dbVars, faults>>

\* The node has no block in the range: wait RETRY_TIMEOUT, try again.
LoopRetries(l) ==
    /\ Answered(l)
    /\ EmptyRange(l)
    /\ loop' = [loop EXCEPT ![l] = [IdleLoop(FALSE) EXCEPT !.pc = "ready"]]
    /\ UNCHANGED <<envVars, mode, next, nodeHeight, processing, boot, job, dbVars,
                   claimed, faults>>

\* Its promise rejects: the catch of the setImmediate callback.
LoopRejects(l) ==
    /\ mode' = "RESTART"
    /\ loop' = [loop EXCEPT ![l] = IdleLoop(loop[l].asked)]

\* One of the two requests fails (the node may refuse an empty range).
LoopFetchFails(l) ==
    /\ loop[l].pc = "fetching"
    /\ IF EmptyRange(l) THEN UNCHANGED faults ELSE Fault
    /\ LoopRejects(l)
    /\ UNCHANGED <<envVars, next, nodeHeight, processing, boot, job, dbVars, claimed>>

\* Mutant: off by one, the loop waits for a block the node does not have.
MutantCaughtUp(l) == next > loop[l].info + 1

CaughtUp(l) == next > loop[l].info

LoopBatchDone(l, j) ==
    /\ job[j].owner = l
    /\ TasksDone(j)
    /\ job' = [job EXCEPT ![j] = FreeJob]
    /\ IF CaughtUp(l)
       THEN /\ mode' = "INDEXING"
            /\ loop' = [loop EXCEPT ![l] = IdleLoop(FALSE)]
       ELSE /\ loop' = [loop EXCEPT ![l] = [IdleLoop(FALSE) EXCEPT !.pc = "ready"]]
            /\ UNCHANGED mode
    /\ UNCHANGED <<envVars, next, nodeHeight, processing, boot, dbVars, claimed, faults>>

-----------------------------------------------------------------------------
(* handleNewBlockEvent *)

Goto(j, stage) == [job EXCEPT ![j].stage = stage, ![j].todo = Span(j)]

\* Mutant: no finally block.
MutantEnds(j) == /\ job' = [job EXCEPT ![j].stage = Finished, ![j].todo = {}]
                 /\ UNCHANGED processing

\* Both ends of the try block reach the finally block.
Ends(j) == /\ job' = [job EXCEPT ![j].stage = Finished, ![j].todo = {}]
           /\ processing' = FALSE

Written(t, S) == [rows EXCEPT ![t] = [h \in Heights |-> IF h \in S THEN @[h] + 1 ELSE @[h]]]

\* Mutant: headers are upserted, or duplicates skipped.
MutantNoHeaderYet(S) == TRUE

\* createMany is one statement and Block.height is unique: all heights or none.
NoHeaderYet(S) == S \cap header = {}

HeaderWritten(j) ==
    /\ job[j].stage = Header
    /\ NoHeaderYet(Span(j))
    /\ header' = header \cup Span(j)
    /\ job' = Goto(j, Transactions)
    /\ UNCHANGED <<envVars, mode, next, nodeHeight, processing, boot, loop, dbNext, rows,
                   claimed, faults>>

\* createMany of the transactions, the assets or the chain events of the batch.
TableWritten(j) ==
    /\ job[j].stage \in {Transactions, Assets, ChainEvents}
    /\ rows' = Written(job[j].stage, Span(j))
    /\ job' = Goto(j, job[j].stage + 1)
    /\ UNCHANGED <<envVars, mode, next, nodeHeight, processing, boot, loop, dbNext, header,
                   claimed, faults>>

FinalityChecked(j) ==
    /\ job[j].stage = Finality
    /\ nodeHeight' = height
    /\ job' = Goto(j, Rewards)
    /\ UNCHANGED <<envVars, mode, next, processing, boot, loop, dbVars, claimed, faults>>

\* One generator's rewards, for all its blocks S of the batch, are added.
RewardsCredited(j, S) ==
    /\ job[j].stage = Rewards
    /\ S \subseteq job[j].todo
    /\ S # {}
    /\ rows' = Written(Rewards, S)
    /\ job' = IF S = job[j].todo THEN Goto(j, Fees)
              ELSE [job EXCEPT ![j].todo = @ \ S]
    /\ UNCHANGED <<envVars, mode, next, nodeHeight, processing, boot, loop, dbNext, header,
                   claimed, faults>>

\* The fee totals of one block are written; the ranks follow only while SYNCING.
FeesWritten(j, h) ==
    /\ job[j].stage = Fees
    /\ h \in job[j].todo
    /\ rows' = Written(Fees, {h})
    /\ IF job[j].todo # {h}
       THEN /\ job' = [job EXCEPT ![j].todo = @ \ {h}]
            /\ UNCHANGED processing
       ELSE IF mode = "SYNCING"
            THEN job' = Goto(j, Ranks) /\ UNCHANGED processing
            ELSE Ends(j)
    /\ UNCHANGED <<envVars, mode, next, nodeHeight, boot, loop, dbNext, header,
                   claimed, faults>>

RanksUpdated(j) ==
    /\ job[j].stage = Ranks
    /\ Ends(j)
    /\ UNCHANGED <<envVars, mode, next, nodeHeight, boot, loop, dbVars, claimed, faults>>

\* Any step may throw (an RPC timeout, a database error); the error is logged
\* and swallowed.
StageFails(j) ==
    /\ Processing(j)
    /\ Fault
    /\ Ends(j)
    /\ UNCHANGED <<envVars, mode, next, nodeHeight, boot, loop, dbVars, claimed>>

\* A header of the batch exists already: the statement fails as a whole, the
\* error is swallowed, and no block of the batch is stored.
HeaderClash(j) ==
    /\ job[j].stage = Header
    /\ ~NoHeaderYet(Span(j))
    /\ Ends(j)
    /\ UNCHANGED <<envVars, mode, next, nodeHeight, boot, loop, dbVars, claimed, faults>>

Index(j) == \/ HeaderWritten(j) \/ HeaderClash(j) \/ TableWritten(j)
            \/ FinalityChecked(j) \/ RanksUpdated(j) \/ StageFails(j)
            \/ \E S \in SUBSET Heights : RewardsCredited(j, S)
            \/ \E h \in Heights : FeesWritten(j, h)

-----------------------------------------------------------------------------
(* The tasks awaited together with handleNewBlockEvent *)

\* cacheNodeApiOnNewBlock fails before the batch is over: the Promise.all
\* rejects, its loop ends, the other tasks go on. The success of this task
\* changes nothing here, nor does its failure when nobody waits.
CacheFails(j) ==
    /\ Fault
    /\ job[j].owner \in Loops
    /\ job' = [job EXCEPT ![j].owner = "nobody"]
    /\ LoopRejects(job[j].owner)
    /\ UNCHANGED <<envVars, next, nodeHeight, processing, boot, dbVars, claimed>>

\* Mutant: the pointer skips a block.
MutantHeightAfter(j) == job[j].last + 2

\* The argument of updateNextBlockToSync.
HeightAfter(j) == job[j].last + 1

\* The update reaches the database; without a row it throws.
PointerSaved(j) ==
    /\ job[j].ptr = "sent"
    /\ dbNext # Undefined
    /\ dbNext' = HeightAfter(j)
    /\ job' = [job EXCEPT ![j].ptr = "applied"]
    /\ UNCHANGED <<envVars, mode, next, nodeHeight, processing, boot, loop, header, rows,
                   claimed, faults>>

\* The updated row comes back and is copied to memory.
PointerSet(j) ==
    /\ job[j].ptr = "applied"
    /\ next' = HeightAfter(j)
    /\ job' = [job EXCEPT ![j].ptr = "done"]
    /\ UNCHANGED <<envVars, mode, nodeHeight, processing, boot, loop, dbVars, claimed, faults>>

PointerFails(j) ==
    /\ job[j].ptr # "done"
    /\ IF dbNext = Undefined THEN UNCHANGED faults ELSE Fault
    /\ job' = [job EXCEPT ![j].ptr = "done", ![j].owner = "nobody"]
    /\ IF job[j].owner \in Loops THEN LoopRejects(job[j].owner) ELSE UNCHANGED <<mode, loop>>
    /\ UNCHANGED <<envVars, next, nodeHeight, processing, boot, dbVars, claimed>>

\* The last task of a run nobody waits for is over.
Settles(j) ==
    /\ job[j].owner = "nobody"
    /\ TasksDone(j)
    /\ job' = [job EXCEPT ![j] = FreeJob]
    /\ UNCHANGED <<envVars, mode, next, nodeHeight, processing, boot, loop, dbVars,
                   claimed, faults>>

Await(j) == \/ CacheFails(j)
            \/ PointerSaved(j) \/ PointerSet(j) \/ PointerFails(j)
            \/ Settles(j)

-----------------------------------------------------------------------------
(* The environment *)

ChainGrows ==
    /\ height < MaxHeight
    /\ height' = height + 1
    /\ UNCHANGED <<announced, memVars, dbVars, claimed, faults>>

\* The process dies, of a failed boot or of anything else, and starts anew.
\* Blocks announced meanwhile are not announced again.
Crash ==
    /\ Fault
    /\ announced' = height
    /\ mode' = "START_UP"
    /\ next' = Undefined
    /\ nodeHeight' = Undefined
    /\ processing' = FALSE
    /\ boot' = [pc |-> "nodeInfo", row |-> Undefined]
    /\ loop' = [l \in Loops |-> IdleLoop(FALSE)]
    /\ job' = [j \in Slots |-> FreeJob]
    /\ UNCHANGED <<height, dbVars, claimed>>

NewBlock == \E h \in Heights : \/ NewBlockIgnored(h)
                               \/ \E l \in Loops : NewBlockStartsSync(h, l)
                               \/ \E j \in Slots : NewBlockFetches(h, j)

Handler(j) == BlockFetched(j) \/ BlockFetchFails(j)

Sync(l) == \/ LoopRequests(l) \/ LoopExits(l) \/ LoopNodeInfo(l) \/ LoopRetries(l)
           \/ LoopFetchFails(l)
           \/ \E j \in Slots : LoopStartsBatch(l, j) \/ LoopBatchDone(l, j)

Next == \/ Boot
        \/ NewBlock
        \/ \E l \in Loops : Sync(l)
        \/ \E j \in Slots : Handler(j) \/ Index(j) \/ Await(j)
        \/ ChainGrows
        \/ Crash

Spec == Init /\ [][Next]_vars

\* Everything awaited completes or fails: RPCs time out after RESPONSE_TIMEOUT,
\* database statements return, timers fire. Nothing is assumed of the chain,
\* of the announcements or of success.
Fairness == /\ WF_vars(Boot)
            /\ \A l \in Loops : WF_vars(Sync(l)) /\ WF_vars(LoopNodeInfo(l))
            /\ \A j \in Slots : /\ WF_vars(Handler(j))
                                /\ WF_vars(Index(j))
                                /\ WF_vars(Await(j))

FairSpec == Spec /\ Fairness

-----------------------------------------------------------------------------
(* Properties *)

\* Type invariant: every variable stays within the values the code can give it.
TypeOK ==
    /\ height \in Heights
    /\ announced \in Heights
    /\ mode \in Modes
    /\ next \in Heights \cup {Undefined, MaxHeight + 1}
    /\ nodeHeight \in Heights \cup {Undefined}
    /\ processing \in BOOLEAN
    /\ boot \in [pc : {"nodeInfo", "lookup", "found", "create", "startUp", "done"},
                 row : Heights \cup {Undefined, MaxHeight + 1}]
    /\ loop \in [Loops -> Loop]
    /\ job \in [Slots -> Job]
    /\ dbNext \in Heights \cup {Undefined, MaxHeight + 1}
    /\ header \in SUBSET Heights
    /\ rows \in [Tables -> [Heights -> Nat]]
    /\ claimed \in SUBSET Heights
    /\ faults \in 0 .. MaxFaults

\* The state SYNCING, which locks the endpoints and makes new blocks ignored,
\* holds exactly while syncWithNode is alive, and at most one batch has a loop
\* awaiting it: no failure leaves the gateway SYNCING with nobody syncing, and
\* no event starts a second loop.
SyncingHasOneLoop ==
    /\ \A l, m \in Loops : loop[l].pc # "idle" /\ loop[m].pc # "idle" => l = m
    /\ mode = "SYNCING" <=> \E l \in Loops : loop[l].pc # "idle"
    /\ \A l \in Loops : loop[l].pc # "idle" => next # Undefined
    /\ \A j, k \in Slots : job[j].owner \in Loops /\ job[k].owner \in Loops => j = k
    /\ \A l \in Loops : loop[l].pc = "running" <=> \E j \in Slots : job[j].owner = l

\* Whatever runs overlap, fail or are cut short by a crash, and however often a
\* height is handed out, what is stored for it is written at most once and in
\* the order of the steps: nothing without its header (the unique height gates
\* every later write), no reward credited twice, no fee totals without the
\* transactions they sum.
WrittenOnceInOrder ==
    \A h \in Heights, t \in Tables :
        /\ rows[t][h] <= 1
        /\ rows[t][h] = 1 => /\ h \in header
                             /\ \A u \in Tables : u < t => rows[u][h] = 1

\* A restart resumes at the stored pointer, so no height below it may have been
\* passed over: each was handed to handleNewBlockEvent at some time.
NothingSkipped ==
    dbNext # Undefined => GenesisHeight .. dbNext - 1 \subseteq claimed

\* The whole promise to a reader and to a restart: the ledger of blocks behaves
\* as BlockLedger specifies, headers being the stored heights and the row of
\* nextBlockToSync the pointer.
Ledger == INSTANCE BlockLedger WITH stored <- header, pointer <- dbNext
KeepsLedger == Ledger!Spec

\* Blocks are sent "to queue" (comment of IndexerService): one run of
\* handleNewBlockEvent ends before the next one starts.
OneRunAtATime ==
    \A j, k \in Slots : Processing(j) /\ Processing(k) => j = k

\* The sync loop does not go on forever: it hands over to INDEXING, or fails to
\* RESTART. Only after a fault may it wait, with all the chain has behind it, for
\* the next block: a run it abandoned has moved the pointer meanwhile.
SyncingEnds ==
    mode = "SYNCING" ~> mode # "SYNCING" \/ (faults > 0 /\ next > height)

\* New blocks are ignored while processingBlocks is set, so every run, failed
\* ones included, clears it.
FlagClears ==
    processing ~> ~processing
=============================================================================
