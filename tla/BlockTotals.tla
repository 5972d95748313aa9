------------------------------ MODULE BlockTotals ------------------------------
(***************************************************************************)
(* What a run of handleNewBlockEvent adds up: the headers with the reward  *)
(* the node expects (IndexBlockCommand), isFinal                           *)
(* (CheckForBlockFinalityCommand), the rewards of the generators           *)
(* (UpdateBlockGeneratorCommand) and the fees of the blocks                *)
(* (UpdateBlocksFeeCommand). Runs may fail between any two statements, and *)
(* two of them may go on at a time, as Indexer shows.                      *)
(***************************************************************************)
EXTENDS Integers, FiniteSets, FiniteSetsExt

CONSTANTS
    Validators,  \* addresses of generators
    MaxHeight,   \* bound: heights
    MaxUnclean,  \* bound: heights reached once a run failed or overlapped with another
    BatchSize,   \* bound: blocks in a batch
    Runs,        \* runs of handleNewBlockEvent that may go on at a time
    Expected,    \* per height: the node's expected reward when the block is indexed
    Minted,      \* rewardMinted, what the generator really got
    Locked,      \* the part of it locked for the stakers
    Burnt,       \* the sum of the minimum fees
    Fee          \* the sum of the fees; calcMinFee is fixed, so it may be lower

Heights == 1 .. MaxHeight

ASSUME BlockTotalsAssumption ==
    /\ IsFiniteSet(Validators) /\ IsFiniteSet(Runs)
    /\ MaxHeight \in Nat /\ MaxUnclean \in 0 .. MaxHeight /\ BatchSize \in Nat \ {0}
    /\ \A amounts \in {Expected, Minted, Locked, Burnt, Fee} : amounts \in [Heights -> Nat]

VARIABLES
    generator,  \* the chain: who generated each block
    finalized,  \* the node: its finalized height
    info,       \* nodeInfo.finalizedHeight
    next,       \* nextBlockToSync
    run,        \* the runs
    block,      \* rows of Block
    validator,  \* rows of Validator
    clean       \* history: no run failed or overlapped with another

vars == <<generator, finalized, info, next, run, block, validator, clean>>

\* Columns of Validator.
Bare == [last |-> 0, generated |-> 0, rewards |-> 0, shared |-> 0, selfStake |-> 0]

\* A run: its blocks (in the end those without fees), those whose generator is not yet
\* credited, and what it has read of the node or the database and not used.
Idle == [pc |-> "idle", kind |-> "none", blocks |-> {}, left |-> {}, read |-> 0, row |-> Bare]

Busy(r)   == run[r].pc # "idle"
At(r, pc) == run[r].pc = pc

Init ==
    /\ generator \in [Heights -> Validators]
    /\ finalized = 0 /\ info = 0
    /\ next = 1
    /\ run = [r \in Runs |-> Idle]
    /\ block = [h \in {} |-> 0]
    /\ validator = [v \in {} |-> Bare]
    /\ clean = TRUE

-----------------------------------------------------------------------------
(* The node, and ProcessValidatorCommand *)

Finalizes ==
    /\ finalized < MaxHeight
    /\ finalized' = finalized + 1
    /\ UNCHANGED <<generator, info, next, run, block, validator, clean>>

\* Its update does not touch the columns of the rewards.
Registered(v) ==
    /\ v \notin DOMAIN validator
    /\ validator' = [u \in DOMAIN validator \cup {v} |-> IF u = v THEN Bare ELSE validator[u]]
    /\ UNCHANGED <<generator, finalized, info, next, run, block, clean>>

-----------------------------------------------------------------------------
(* A run *)

Steps(r, pc) == run' = [run EXCEPT ![r].pc = pc]

\* A sync batch is marked final when it is fetched; nodeInfo is set with it.
Started(r, kind, last) ==
    /\ ~Busy(r)
    /\ last <= MaxUnclean \/ (clean /\ \A other \in Runs : ~Busy(other))
    /\ last \in next .. (IF kind = "sync" THEN next + BatchSize - 1 ELSE next) \cap Heights
    /\ run' = [run EXCEPT ![r] = [pc |-> "headers", kind |-> kind, blocks |-> next .. last,
                                  left |-> next .. last, read |-> 0, row |-> Bare]]
    /\ next' = last + 1
    /\ info' = IF kind = "sync" THEN finalized ELSE info
    /\ clean' = (clean /\ \A other \in Runs : ~Busy(other))
    /\ UNCHANGED <<generator, finalized, block, validator>>

\* The rows with those of the run's blocks.
Stored(r) ==
    [h \in DOMAIN block \cup run[r].blocks |->
        IF h \in DOMAIN block THEN block[h]
        ELSE [reward |-> Expected[h], burnt |-> 0, network |-> 0, forged |-> Expected[h],
              final |-> run[r].kind = "sync"]]

\* Mutant: skipDuplicates, so that a batch stored before goes on.
MutantHeadersWritten(r) ==
    /\ At(r, "headers")
    /\ block' = Stored(r)
    /\ Steps(r, "finality")
    /\ UNCHANGED <<generator, finalized, info, next, validator, clean>>

\* One statement, which fails (Failed) when one of the heights is stored already.
HeadersWritten(r) ==
    /\ At(r, "headers")
    /\ run[r].blocks \cap DOMAIN block = {}
    /\ block' = Stored(r)
    /\ Steps(r, "finality")
    /\ UNCHANGED <<generator, finalized, info, next, validator, clean>>

\* getAndSetNodeInfo: the node answers now, the answer may arrive later.
InfoAsked(r) ==
    /\ At(r, "finality")
    /\ run' = [run EXCEPT ![r].pc = "info", ![r].read = finalized]
    /\ UNCHANGED <<generator, finalized, info, next, block, validator, clean>>

InfoAnswered(r) ==
    /\ At(r, "info")
    /\ info' = run[r].read
    /\ run' = [run EXCEPT ![r].pc = "mark", ![r].read = 0]
    /\ UNCHANGED <<generator, finalized, next, block, validator, clean>>

\* Mutant: blocks below the finalized height only.
MutantMarked(r) ==
    /\ At(r, "mark")
    /\ block' = [h \in DOMAIN block |-> [block[h] EXCEPT !.final = @ \/ h < info]]
    /\ Steps(r, "count")
    /\ UNCHANGED <<generator, finalized, info, next, validator, clean>>

\* Mutant: the blocks of the batch are marked as well.
MutantMarkedBatch(r) ==
    /\ At(r, "mark")
    /\ block' = [h \in DOMAIN block |-> [block[h] EXCEPT !.final = @ \/ h <= info \/ h \in run[r].blocks]]
    /\ Steps(r, "count")
    /\ UNCHANGED <<generator, finalized, info, next, validator, clean>>

\* updateMany reads nodeInfo, which another run may have set since.
Marked(r) ==
    /\ At(r, "mark")
    /\ block' = [h \in DOMAIN block |-> [block[h] EXCEPT !.final = @ \/ h <= info]]
    /\ Steps(r, "count")
    /\ UNCHANGED <<generator, finalized, info, next, validator, clean>>

\* The sum of the amounts of some heights.
SumUpTo(amounts, hs) ==
    LET Part[h \in 0 .. MaxHeight] ==
            IF h = 0 THEN 0 ELSE Part[h - 1] + IF h \in hs THEN amounts[h] ELSE 0
    IN Part
Sum(amounts, hs) == SumUpTo(amounts, hs)[MaxHeight]

\* The generator whose turn it is: the map has them in the order of their first blocks.
Current(r) == generator[Min(run[r].left)]

\* Its entry in validatorData.
Mine(r)   == {h \in run[r].left : generator[h] = Current(r)}
Reward(r) == Sum(Minted, Mine(r))
Shared(r) == Sum(Locked, Mine(r))

BlocksOf(v) == {h \in DOMAIN block : generator[h] = v}

Counted(r) ==
    /\ At(r, "count") /\ run[r].left # {}
    /\ run' = [run EXCEPT ![r].pc = "find", ![r].read = Cardinality(BlocksOf(Current(r)))]
    /\ UNCHANGED <<generator, finalized, info, next, block, validator, clean>>

\* Without a row there are no amounts to add to.
Found(r) ==
    /\ At(r, "find")
    /\ LET v == Current(r)
       IN run' = [run EXCEPT ![r].pc = IF v \in DOMAIN validator THEN "update" ELSE "create",
                             ![r].row = IF v \in DOMAIN validator THEN validator[v] ELSE Bare]
    /\ UNCHANGED <<generator, finalized, info, next, block, validator, clean>>

\* The amounts that were read, and the share of the batch.
Credited(r) ==
    LET old == run[r].row
        new == [last |-> Max(Mine(r)), generated |-> run[r].read, rewards |-> old.rewards + Reward(r),
                shared |-> old.shared + Shared(r), selfStake |-> old.selfStake + Reward(r) - Shared(r)]
    IN [u \in DOMAIN validator \cup {Current(r)} |-> IF u = Current(r) THEN new ELSE validator[u]]

NextGenerator(r) ==
    run' = [run EXCEPT ![r].pc = "count", ![r].left = @ \ Mine(r), ![r].read = 0, ![r].row = Bare]

ValidatorUpdated(r) ==
    /\ At(r, "update")
    /\ validator' = Credited(r)
    /\ NextGenerator(r)
    /\ UNCHANGED <<generator, finalized, info, next, block, clean>>

\* The create fails when somebody else has created the row (Failed).
ValidatorCreated(r) ==
    /\ At(r, "create") /\ Current(r) \notin DOMAIN validator
    /\ validator' = Credited(r)
    /\ NextGenerator(r)
    /\ UNCHANGED <<generator, finalized, info, next, block, clean>>

GeneratorsDone(r) ==
    /\ At(r, "count") /\ run[r].left = {}
    /\ Steps(r, "fees")
    /\ UNCHANGED <<generator, finalized, info, next, block, validator, clean>>

\* The columns UpdateBlocksFeeCommand writes; the reward it reads before never changes.
Fees(h) ==
    LET network == Fee[h] - Burnt[h]
    IN [reward |-> block[h].reward, burnt |-> Burnt[h], network |-> network,
        forged |-> block[h].reward + network + Burnt[h], final |-> block[h].final]

FeesWritten(r) ==
    /\ At(r, "fees") /\ run[r].blocks # {}
    /\ LET h == Min(run[r].blocks)
       IN /\ block' = [block EXCEPT ![h] = Fees(h)]
          /\ run' = [run EXCEPT ![r].blocks = @ \ {h}]
    /\ UNCHANGED <<generator, finalized, info, next, validator, clean>>

Ended(r) ==
    /\ At(r, "fees") /\ run[r].blocks = {}
    /\ run' = [run EXCEPT ![r] = Idle]
    /\ UNCHANGED <<generator, finalized, info, next, block, validator, clean>>

\* A request or a statement fails, or the process stops.
Failed(r) ==
    /\ Busy(r)
    /\ run' = [run EXCEPT ![r] = Idle]
    /\ clean' = FALSE
    /\ UNCHANGED <<generator, finalized, info, next, block, validator>>

\* The pointer was not moved before the process stopped: a later start goes back to it.
Resumed(h) ==
    /\ h < next /\ ~clean
    /\ \A r \in Runs : ~Busy(r)
    /\ next' = h
    /\ UNCHANGED <<generator, finalized, info, run, block, validator, clean>>

Next == \/ Finalizes
        \/ \E v \in Validators : Registered(v)
        \/ \E h \in Heights : Resumed(h)
        \/ \E r \in Runs :
               \/ \E kind \in {"sync", "direct"}, last \in Heights : Started(r, kind, last)
               \/ HeadersWritten(r) \/ InfoAsked(r) \/ InfoAnswered(r) \/ Marked(r)
               \/ Counted(r) \/ Found(r) \/ ValidatorUpdated(r) \/ ValidatorCreated(r)
               \/ GeneratorsDone(r) \/ FeesWritten(r) \/ Ended(r) \/ Failed(r)

Spec == Init /\ [][Next]_vars

-----------------------------------------------------------------------------
(* Properties *)

\* Whatever fails, overlaps or is asked for again, no validator is credited more
\* than the chain gave it in the blocks that are stored.
NeverOverCredited ==
    \A v \in DOMAIN validator : validator[v].rewards <= Sum(Minted, BlocksOf(v))

\* When the runs ended and none failed or overlapped, every stored block has its
\* fees, every generator exactly its rewards, blocks and last height, and the
\* blocks up to the finalized height that was asked for are final.
TotalsComplete ==
    clean /\ (\A r \in Runs : ~Busy(r)) =>
        /\ \A h \in DOMAIN block : /\ block[h].burnt = Burnt[h]
                                   /\ block[h].network = Fee[h] - Burnt[h]
                                   /\ h <= info => block[h].final
        /\ \A h \in DOMAIN block :
               LET v == generator[h]
               IN /\ v \in DOMAIN validator
                  /\ validator[v].rewards = Sum(Minted, BlocksOf(v))
                  /\ validator[v].shared = Sum(Locked, BlocksOf(v))
                  /\ validator[v].generated = Cardinality(BlocksOf(v))
                  /\ validator[v].last = Max(BlocksOf(v))

\* A block that came with a new-block event is shown final only when it is
\* finalized, even if an older answer of the node came last. (A sync marks its
\* blocks final itself, and no later step takes that back.)
FinalIsFinalized ==
    [][\A h \in DOMAIN block : block'[h].final # block[h].final => block'[h].final /\ h <= finalized]_vars
=============================================================================
