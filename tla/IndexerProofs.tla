---------------------------- MODULE IndexerProofs ----------------------------
(***************************************************************************)
(* Theorems about Indexer, for every chain, batch size, number of runs and *)
(* number of faults.                                                       *)
(***************************************************************************)
EXTENDS Indexer, TLAPS

-----------------------------------------------------------------------------
(* Type correctness *)

\* The pointer is known wherever the code reads it.
PointerKnown ==
    /\ mode # "START_UP" => next # Undefined
    /\ \A l \in Loops : /\ loop[l].pc # "idle" => next # Undefined
                        /\ loop[l].pc = "fetching" => loop[l].from # Undefined
    /\ \A j \in Slots : job[j].owner \in Loops => next # Undefined

TypeInv == TypeOK /\ PointerKnown

\* Heights are natural numbers, distinct from the undefined value.
LEMMA HeightFacts ==
    /\ GenesisHeight \in Heights
    /\ Heights \subseteq Nat
    /\ Undefined \notin Heights
    /\ \A h \in Heights : h + 1 \in Heights \cup {MaxHeight + 1}
BY IndexerAssumption DEF Heights, Undefined

\* No loop is taken for the owner of a free slot or of a run nobody awaits.
LEMMA OwnerFacts == "free" \notin Loops /\ "nobody" \notin Loops
BY IndexerAssumption

\* A free slot is a job.
LEMMA FreeJobType == FreeJob \in Job
BY HeightFacts DEF FreeJob, Job, Fetching, Finished

\* A handler that waits for its block is a job.
LEMMA FetchingJobType ==
    ASSUME NEW h \in Heights
    PROVE  FetchingJob(h) \in Job
BY DEF FetchingJob, Job, Fetching, Finished

\* A batch that was just handed out is a job.
LEMMA StartedJobType ==
    ASSUME NEW owner \in Loops \cup {"nobody"}, NEW first \in Heights, NEW last \in Heights
    PROVE  StartedJob(owner, first, last) \in Job
BY IndexerAssumption DEF StartedJob, Job, Heights, Header, Fetching, Finished

\* A run of syncWithNode that is over, its node info perhaps still to come.
LEMMA IdleLoopType == ASSUME NEW asked \in BOOLEAN PROVE IdleLoop(asked) \in Loop
BY DEF IdleLoop, Loop

\* The process starts without a pointer, and with nothing running.
LEMMA InitTypeInv == Init => TypeInv
<1> SUFFICES ASSUME Init PROVE TypeInv
  OBVIOUS
<1>1. job \in [Slots -> Job] /\ loop \in [Loops -> Loop]
  BY FreeJobType, IdleLoopType DEF Init
<1>2. boot \in [pc : {"nodeInfo", "lookup", "found", "create", "startUp", "done"},
               row : Heights \cup {Undefined, MaxHeight + 1}]
  BY DEF Init
<1>3. rows \in [Tables -> [Heights -> Nat]] /\ faults \in 0 .. MaxFaults
  BY IndexerAssumption DEF Init
<1>4. TypeOK
  BY <1>1, <1>2, <1>3, HeightFacts DEF Init, TypeOK, Modes
<1>5. \A j \in Slots : job[j].owner = "free"
  BY DEF Init, FreeJob
<1>6. \A l \in Loops : loop[l].pc = "idle"
  BY DEF Init, IdleLoop
<1>7. PointerKnown
  BY <1>5, <1>6, OwnerFacts DEF Init, PointerKnown
<1>. QED BY <1>4, <1>7 DEF TypeInv

-----------------------------------------------------------------------------
\* The boot reads and writes the pointer, the mode and its own progress.
LEMMA BootTypeInv == TypeInv /\ Boot => TypeInv'
<1> SUFFICES ASSUME TypeInv, Boot PROVE TypeInv'
  OBVIOUS
<1> USE DEF TypeInv, TypeOK, envVars, memVars, dbVars
<1>1. CASE BootNodeInfo
  BY <1>1, HeightFacts DEF BootNodeInfo, PointerKnown
<1>2. CASE BootLookup
  BY <1>2, HeightFacts DEF BootLookup, PointerKnown
<1>3. CASE BootRestart
  BY <1>3, HeightFacts DEF BootRestart, PointerKnown, Modes
<1>4. CASE BootFirstRun
  BY <1>4, HeightFacts DEF BootFirstRun, PointerKnown
<1>5. CASE BootCreateRow
  BY <1>5, HeightFacts DEF BootCreateRow, PointerKnown
<1>6. CASE BootStartUpCommands
  BY <1>6, HeightFacts DEF BootStartUpCommands, PointerKnown
<1>. QED BY <1>1, <1>2, <1>3, <1>4, <1>5, <1>6 DEF Boot

\* The handler starts a loop only if the pointer is known or a restart set it.
LEMMA NewBlockTypeInv == TypeInv /\ NewBlock => TypeInv'
<1> SUFFICES ASSUME TypeInv, NEW h \in Heights,
                    \/ NewBlockIgnored(h)
                    \/ \E l \in Loops : NewBlockStartsSync(h, l)
                    \/ \E j \in Slots : NewBlockFetches(h, j)
             PROVE  TypeInv'
  BY DEF NewBlock
<1> USE DEF TypeInv, TypeOK, envVars, memVars, dbVars, Announce
<1>1. CASE NewBlockIgnored(h)
  BY <1>1 DEF NewBlockIgnored, PointerKnown
<1>2. ASSUME NEW l \in Loops, NewBlockStartsSync(h, l) PROVE TypeInv'
  BY <1>2 DEF NewBlockStartsSync, PointerKnown, GoesBackToSyncing, Modes, Loop
<1>3. ASSUME NEW j \in Slots, NewBlockFetches(h, j) PROVE TypeInv'
  <2>1. job' \in [Slots -> Job]
    BY <1>3, FetchingJobType DEF NewBlockFetches
  <2>2. \A k \in Slots : job'[k].owner = job[k].owner \/ job'[k].owner = "nobody"
    BY <1>3 DEF NewBlockFetches, FetchingJob
  <2>3. PointerKnown'
    BY <1>3, <2>2, OwnerFacts DEF NewBlockFetches, PointerKnown
  <2>. QED BY <1>3, <2>1, <2>3 DEF NewBlockFetches
<1>. QED BY <1>1, <1>2, <1>3

-----------------------------------------------------------------------------
\* The sync loop. The range it asks for lies in the chain or is empty.
LEMMA RangeType ==
    ASSUME NEW from \in Heights \cup {MaxHeight + 1},
           NEW top \in Heights \cup {Undefined}
    PROVE  Lower(from + BatchSize, top) \in Heights \cup {Undefined}
BY IndexerAssumption DEF Lower, Heights, Undefined

\* The catch of the sync loop: one loop becomes idle.
LEMMA LoopRejectsTypeInv ==
    ASSUME TypeInv, NEW l \in Loops, next # Undefined, LoopRejects(l)
    PROVE  /\ mode' \in Modes
           /\ loop' \in [Loops -> Loop]
           /\ \A m \in Loops : loop'[m] = loop[m] \/ loop'[m].pc = "idle"
<1>1. IdleLoop(loop[l].asked) \in Loop
  BY IdleLoopType DEF TypeInv, TypeOK, Loop
<1>. QED BY <1>1 DEF LoopRejects, TypeInv, TypeOK, Modes, IdleLoop

\* A loop asks for, gets and awaits blocks of the chain only.
LEMMA SyncTypeInv == TypeInv /\ (\E l \in Loops : Sync(l)) => TypeInv'
<1> SUFFICES ASSUME TypeInv, NEW l \in Loops, Sync(l) PROVE TypeInv'
  OBVIOUS
<1> USE DEF TypeInv, TypeOK, envVars, memVars, dbVars
<1>0. loop[l] \in Loop
  OBVIOUS
<1>1. CASE LoopRequests(l)
  <2>1. next \in Heights \cup {MaxHeight + 1}
    BY <1>1 DEF LoopRequests, PointerKnown
  <2>2. [pc |-> "fetching", from |-> next, to |-> Lower(next + BatchSize, nodeHeight),
         asked |-> TRUE, info |-> Undefined] \in Loop
    BY <2>1, RangeType DEF Loop
  <2>3. loop' \in [Loops -> Loop]
    BY <1>1, <2>2 DEF LoopRequests
  <2>4. PointerKnown'
    BY <1>1, <2>1, HeightFacts, IndexerAssumption DEF LoopRequests, PointerKnown, Undefined
  <2>. QED BY <1>1, <2>3, <2>4 DEF LoopRequests
<1>2. CASE LoopExits(l)
  BY <1>2, IdleLoopType DEF LoopExits, PointerKnown, IdleLoop
<1>3. CASE LoopNodeInfo(l)
  <2>1. loop' \in [Loops -> Loop]
    BY <1>0, <1>3 DEF LoopNodeInfo, Loop
  <2>2. PointerKnown'
    BY <1>0, <1>3 DEF LoopNodeInfo, PointerKnown, Loop
  <2>. QED BY <1>3, <2>1, <2>2 DEF LoopNodeInfo
<1>4. CASE LoopRetries(l)
  <2>1. [IdleLoop(FALSE) EXCEPT !.pc = "ready"] \in Loop
    BY DEF IdleLoop, Loop
  <2>2. PointerKnown'
    BY <1>4 DEF LoopRetries, PointerKnown, Answered, IdleLoop
  <2>. QED BY <1>4, <2>1, <2>2 DEF LoopRetries
<1>5. CASE LoopFetchFails(l)
  <2>1. next # Undefined
    BY <1>5 DEF LoopFetchFails, PointerKnown
  <2>2. /\ mode' \in Modes
        /\ loop' \in [Loops -> Loop]
        /\ \A m \in Loops : loop'[m] = loop[m] \/ loop'[m].pc = "idle"
    BY <1>5, <2>1, LoopRejectsTypeInv DEF LoopFetchFails
  <2>3. PointerKnown'
    BY <1>5, <2>1, <2>2 DEF LoopFetchFails, PointerKnown
  <2>4. faults' \in 0 .. MaxFaults
    BY <1>5, IndexerAssumption DEF LoopFetchFails, Fault
  <2>. QED BY <1>5, <2>2, <2>3, <2>4 DEF LoopFetchFails
<1>6. ASSUME NEW j \in Slots, LoopStartsBatch(l, j) PROVE TypeInv'
  <2>1. loop[l].from \in Heights /\ loop[l].to \in Heights
    BY <1>0, <1>6, IndexerAssumption
       DEF LoopStartsBatch, Answered, EmptyRange, PointerKnown, Loop, Heights, Undefined
  <2>2. StartedJob(l, loop[l].from, loop[l].to) \in Job
    BY <2>1, StartedJobType
  <2>3. next # Undefined
    BY <1>6 DEF LoopStartsBatch, Answered, PointerKnown
  <2>4. job' \in [Slots -> Job] /\ loop' \in [Loops -> Loop]
    BY <1>0, <1>6, <2>2 DEF LoopStartsBatch, Loop
  <2>5. claimed' \in SUBSET Heights
    BY <1>6, <2>1, IndexerAssumption DEF LoopStartsBatch, Heights
  <2>6. \A m \in Loops : loop'[m].pc = "fetching" => loop'[m] = loop[m]
    BY <1>0, <1>6 DEF LoopStartsBatch, Loop
  <2>7. PointerKnown'
    BY <1>6, <2>3, <2>6 DEF LoopStartsBatch, PointerKnown
  <2>. QED BY <1>6, <2>4, <2>5, <2>7 DEF LoopStartsBatch
<1>7. ASSUME NEW j \in Slots, LoopBatchDone(l, j) PROVE TypeInv'
  <2>1. next # Undefined
    BY <1>7 DEF LoopBatchDone, PointerKnown
  <2>2. [IdleLoop(FALSE) EXCEPT !.pc = "ready"] \in Loop
    BY DEF IdleLoop, Loop
  <2>3. job' \in [Slots -> Job] /\ loop' \in [Loops -> Loop] /\ mode' \in Modes
    BY <1>7, <2>2, FreeJobType, IdleLoopType DEF LoopBatchDone, Modes
  <2>4. \A m \in Loops : loop'[m].pc = "fetching" => loop'[m] = loop[m]
    BY <1>7 DEF LoopBatchDone, IdleLoop
  <2>5. PointerKnown'
    BY <1>7, <2>1, <2>4 DEF LoopBatchDone, PointerKnown
  <2>. QED BY <1>7, <2>3, <2>5 DEF LoopBatchDone
<1>. QED BY <1>1, <1>2, <1>3, <1>4, <1>5, <1>6, <1>7 DEF Sync

-----------------------------------------------------------------------------
\* The runs of handleNewBlockEvent. A run moves to another stage, keeping its
\* owner and its blocks.
LEMMA GotoType ==
    ASSUME TypeOK, NEW j \in Slots, NEW stage \in Fetching .. Finished
    PROVE  /\ Goto(j, stage) \in [Slots -> Job]
           /\ \A k \in Slots : Goto(j, stage)[k].owner = job[k].owner
<1>1. job[j] \in Job
  BY DEF TypeOK
<1>2. Span(j) \subseteq Heights
  BY <1>1, IndexerAssumption DEF Span, Job, Heights
<1>. QED BY <1>1, <1>2 DEF Goto, TypeOK, Job

\* A run writes some of its heights, keeping its owner.
LEMMA TodoType ==
    ASSUME TypeOK, NEW j \in Slots, NEW S
    PROVE  LET jobs == [job EXCEPT ![j].todo = @ \ S]
           IN  /\ jobs \in [Slots -> Job]
               /\ \A k \in Slots : jobs[k].owner = job[k].owner
<1>1. job[j] \in Job
  BY DEF TypeOK
<1>. QED BY <1>1 DEF TypeOK, Job

\* A run reaches its finally block, keeping its owner.
LEMMA EndsType ==
    ASSUME TypeOK, NEW j \in Slots, Ends(j)
    PROVE  /\ job' \in [Slots -> Job]
           /\ \A k \in Slots : job'[k].owner = job[k].owner
           /\ processing' \in BOOLEAN
<1>1. job[j] \in Job
  BY DEF TypeOK
<1>2. Finished \in Fetching .. Finished
  BY DEF Fetching, Finished
<1>3. processing' \in BOOLEAN
  BY DEF Ends
<1>. QED BY <1>1, <1>2, <1>3 DEF Ends, TypeOK, Job

\* Writing rows keeps every count a natural number.
LEMMA WrittenType ==
    ASSUME TypeOK, NEW t \in Tables, NEW S
    PROVE  Written(t, S) \in [Tables -> [Heights -> Nat]]
BY DEF TypeOK, Written

\* The steps of handleNewBlockEvent.
LEMMA IndexTypeInv == TypeInv /\ (\E j \in Slots : Index(j)) => TypeInv'
<1> SUFFICES ASSUME TypeInv, NEW j \in Slots, Index(j) PROVE TypeInv'
  OBVIOUS
<1> USE DEF TypeInv, envVars, memVars, dbVars
<1>a. job[j] \in Job
  BY DEF TypeOK
<1>b. Span(j) \subseteq Heights
  BY <1>a, IndexerAssumption DEF Span, Job, Heights
<1>c. /\ Transactions \in Fetching .. Finished
      /\ Rewards \in Fetching .. Finished
      /\ Fees \in Fetching .. Finished
      /\ Ranks \in Fetching .. Finished
      /\ {Transactions, Assets, ChainEvents, Rewards, Fees} \subseteq Tables
      /\ \A s \in {Transactions, Assets, ChainEvents} : s + 1 \in Fetching .. Finished
  BY DEF Fetching, Transactions, Assets, ChainEvents, Rewards, Fees, Ranks, Finished, Tables
\* What every step of a run leaves alone suffices for PointerKnown.
<1>d. ASSUME UNCHANGED <<mode, next, loop>>, \A k \in Slots : job'[k].owner = job[k].owner
      PROVE  PointerKnown'
  BY <1>d DEF PointerKnown
<1>1. CASE HeaderWritten(j)
  <2>1. job' \in [Slots -> Job] /\ \A k \in Slots : job'[k].owner = job[k].owner
    BY <1>1, <1>c, GotoType DEF HeaderWritten
  <2>2. header' \in SUBSET Heights
    BY <1>1, <1>b DEF HeaderWritten, TypeOK
  <2>. QED BY <1>1, <1>d, <2>1, <2>2 DEF HeaderWritten, TypeOK
<1>2. CASE HeaderClash(j)
  BY <1>2, <1>d, EndsType DEF HeaderClash, TypeOK
<1>3. CASE TableWritten(j)
  <2>1. job' \in [Slots -> Job] /\ \A k \in Slots : job'[k].owner = job[k].owner
    BY <1>3, <1>c, GotoType DEF TableWritten
  <2>2. rows' \in [Tables -> [Heights -> Nat]]
    BY <1>3, <1>c, WrittenType DEF TableWritten
  <2>. QED BY <1>3, <1>d, <2>1, <2>2 DEF TableWritten, TypeOK
<1>4. CASE FinalityChecked(j)
  <2>1. job' \in [Slots -> Job] /\ \A k \in Slots : job'[k].owner = job[k].owner
    BY <1>4, <1>c, GotoType DEF FinalityChecked
  <2>. QED BY <1>4, <1>d, <2>1 DEF FinalityChecked, TypeOK
<1>5. CASE RanksUpdated(j)
  BY <1>5, <1>d, EndsType DEF RanksUpdated, TypeOK
<1>6. CASE StageFails(j)
  <2>1. faults' \in 0 .. MaxFaults
    BY <1>6, IndexerAssumption DEF StageFails, Fault, TypeOK
  <2>. QED BY <1>6, <1>d, <2>1, EndsType DEF StageFails, TypeOK
<1>7. ASSUME NEW S \in SUBSET Heights, RewardsCredited(j, S) PROVE TypeInv'
  <2>1. job' \in [Slots -> Job] /\ \A k \in Slots : job'[k].owner = job[k].owner
    <3>1. CASE S = job[j].todo
      BY <1>7, <3>1, <1>c, GotoType DEF RewardsCredited
    <3>2. CASE S # job[j].todo
      BY <1>7, <3>2, TodoType DEF RewardsCredited
    <3>. QED BY <3>1, <3>2
  <2>2. rows' \in [Tables -> [Heights -> Nat]]
    BY <1>7, <1>c, WrittenType DEF RewardsCredited
  <2>. QED BY <1>7, <1>d, <2>1, <2>2 DEF RewardsCredited, TypeOK
<1>8. ASSUME NEW h \in Heights, FeesWritten(j, h) PROVE TypeInv'
  <2>1. /\ job' \in [Slots -> Job] /\ \A k \in Slots : job'[k].owner = job[k].owner
        /\ processing' \in BOOLEAN
    <3>1. CASE job[j].todo # {h}
      <4>1. job' = [job EXCEPT ![j].todo = @ \ {h}] /\ processing' = processing
        BY <1>8, <3>1 DEF FeesWritten
      <4>. QED BY <4>1, TodoType DEF TypeOK
    <3>2. CASE job[j].todo = {h} /\ mode = "SYNCING"
      <4>1. job' = Goto(j, Ranks) /\ processing' = processing
        BY <1>8, <3>2 DEF FeesWritten
      <4>. QED BY <4>1, <1>c, GotoType DEF TypeOK
    <3>3. CASE job[j].todo = {h} /\ mode # "SYNCING"
      <4>1. Ends(j)
        BY <1>8, <3>3 DEF FeesWritten
      <4>. QED BY <4>1, EndsType
    <3>. QED BY <3>1, <3>2, <3>3
  <2>2. rows' \in [Tables -> [Heights -> Nat]]
    BY <1>8, <1>c, WrittenType DEF FeesWritten
  <2>. QED BY <1>8, <1>d, <2>1, <2>2 DEF FeesWritten, TypeOK
<1>. QED BY <1>1, <1>2, <1>3, <1>4, <1>5, <1>6, <1>7, <1>8 DEF Index

-----------------------------------------------------------------------------
\* The tasks awaited with a run, and the answer to a new-block handler.
LEMMA HandlerTypeInv == TypeInv /\ (\E j \in Slots : Handler(j)) => TypeInv'
<1> SUFFICES ASSUME TypeInv, NEW j \in Slots, Handler(j) PROVE TypeInv'
  OBVIOUS
<1> USE DEF TypeInv, envVars, memVars, dbVars
<1>a. job[j] \in Job
  BY DEF TypeOK
<1>1. CASE BlockFetched(j)
  <2>1. StartedJob("nobody", job[j].first, job[j].last) \in Job
    BY <1>a, StartedJobType DEF Job
  <2>2. claimed' \in SUBSET Heights
    <3>1. Span(j) \subseteq Heights
      BY <1>a, IndexerAssumption DEF Span, Job, Heights
    <3>. QED BY <1>1, <3>1 DEF BlockFetched, TypeOK
  <2>3. \A k \in Slots : job'[k].owner = job[k].owner \/ job'[k].owner = "nobody"
    BY <1>1 DEF BlockFetched, StartedJob, TypeOK
  <2>4. PointerKnown'
    BY <1>1, <2>3, OwnerFacts DEF BlockFetched, PointerKnown
  <2>. QED BY <1>1, <2>1, <2>2, <2>4 DEF BlockFetched, TypeOK
<1>2. CASE BlockFetchFails(j)
  <2>1. \A k \in Slots : job'[k].owner = job[k].owner \/ job'[k].owner = "free"
    BY <1>2 DEF BlockFetchFails, FreeJob, TypeOK
  <2>2. PointerKnown'
    BY <1>2, <2>1, OwnerFacts DEF BlockFetchFails, PointerKnown
  <2>3. faults' \in 0 .. MaxFaults
    BY <1>2, IndexerAssumption DEF BlockFetchFails, Fault, TypeOK
  <2>. QED BY <1>2, <2>2, <2>3, FreeJobType DEF BlockFetchFails, TypeOK
<1>. QED BY <1>1, <1>2 DEF Handler

\* The pointer moves to at most one above the chain.
LEMMA AwaitTypeInv == TypeInv /\ (\E j \in Slots : Await(j)) => TypeInv'
<1> SUFFICES ASSUME TypeInv, NEW j \in Slots, Await(j) PROVE TypeInv'
  OBVIOUS
<1> USE DEF TypeInv, envVars, memVars, dbVars
<1>a. job[j] \in Job
  BY DEF TypeOK
<1>b. HeightAfter(j) \in Heights \cup {MaxHeight + 1}
  BY <1>a, HeightFacts DEF Job, HeightAfter
<1>1. CASE CacheFails(j)
  <2>1. job[j].owner \in Loops /\ next # Undefined
    BY <1>1 DEF CacheFails, PointerKnown
  <2>2. /\ mode' \in Modes
        /\ loop' \in [Loops -> Loop]
        /\ \A m \in Loops : loop'[m] = loop[m] \/ loop'[m].pc = "idle"
    BY <1>1, <2>1, LoopRejectsTypeInv DEF CacheFails
  <2>3. job' \in [Slots -> Job]
    BY <1>1, <1>a DEF CacheFails, Job, TypeOK
  <2>4. faults' \in 0 .. MaxFaults
    BY <1>1, IndexerAssumption DEF CacheFails, Fault, TypeOK
  <2>5. PointerKnown'
    BY <1>1, <2>1, <2>2 DEF CacheFails, PointerKnown
  <2>. QED BY <1>1, <2>2, <2>3, <2>4, <2>5 DEF CacheFails, TypeOK
<1>2. CASE PointerSaved(j)
  <2>1. job' \in [Slots -> Job] /\ \A k \in Slots : job'[k].owner = job[k].owner
    BY <1>2, <1>a DEF PointerSaved, Job, TypeOK
  <2>2. PointerKnown'
    BY <1>2, <2>1 DEF PointerSaved, PointerKnown
  <2>. QED BY <1>2, <1>b, <2>1, <2>2 DEF PointerSaved, TypeOK
<1>3. CASE PointerSet(j)
  <2>1. job' \in [Slots -> Job] /\ \A k \in Slots : job'[k].owner = job[k].owner
    BY <1>3, <1>a DEF PointerSet, Job, TypeOK
  <2>2. next' # Undefined
    BY <1>3, <1>b, HeightFacts, IndexerAssumption DEF PointerSet, Undefined
  <2>3. PointerKnown'
    BY <1>3, <2>1, <2>2 DEF PointerSet, PointerKnown
  <2>. QED BY <1>3, <1>b, <2>1, <2>3 DEF PointerSet, TypeOK
<1>4. CASE PointerFails(j)
  <2>1. job' \in [Slots -> Job]
    BY <1>4, <1>a DEF PointerFails, Job, TypeOK
  <2>2. \A k \in Slots : job'[k].owner = job[k].owner \/ job'[k].owner = "nobody"
    BY <1>4, <1>a DEF PointerFails, Job, TypeOK
  <2>3. faults' \in 0 .. MaxFaults
    BY <1>4, IndexerAssumption DEF PointerFails, Fault, TypeOK
  <2>4. /\ mode' \in Modes
        /\ loop' \in [Loops -> Loop]
        /\ \A m \in Loops : loop'[m] = loop[m] \/ loop'[m].pc = "idle"
        /\ next = Undefined => mode' = mode
    <3>1. CASE job[j].owner \in Loops
      <4>1. next # Undefined /\ LoopRejects(job[j].owner)
        BY <1>4, <3>1 DEF PointerFails, PointerKnown
      <4>. QED BY <3>1, <4>1, LoopRejectsTypeInv
    <3>2. CASE job[j].owner \notin Loops
      BY <1>4, <3>2 DEF PointerFails, TypeOK
    <3>. QED BY <3>1, <3>2
  <2>5. PointerKnown'
    BY <1>4, <2>2, <2>4, OwnerFacts DEF PointerFails, PointerKnown
  <2>. QED BY <1>4, <2>1, <2>3, <2>4, <2>5 DEF PointerFails, TypeOK
<1>5. CASE Settles(j)
  <2>1. \A k \in Slots : job'[k].owner = job[k].owner \/ job'[k].owner = "free"
    BY <1>5 DEF Settles, FreeJob, TypeOK
  <2>2. PointerKnown'
    BY <1>5, <2>1, OwnerFacts DEF Settles, PointerKnown
  <2>. QED BY <1>5, <2>2, FreeJobType DEF Settles, TypeOK
<1>. QED BY <1>1, <1>2, <1>3, <1>4, <1>5 DEF Await

\* A restart begins as the first start did, but for the database.
LEMMA CrashTypeInv == TypeInv /\ Crash => TypeInv'
<1> SUFFICES ASSUME TypeInv, Crash PROVE TypeInv'
  OBVIOUS
<1>1. job' \in [Slots -> Job] /\ loop' \in [Loops -> Loop]
  BY FreeJobType, IdleLoopType DEF Crash
<1>2. \A j \in Slots : job'[j].owner = "free"
  BY DEF Crash, FreeJob
<1>3. \A l \in Loops : loop'[l].pc = "idle"
  BY DEF Crash, IdleLoop
<1>4. PointerKnown'
  BY <1>2, <1>3, OwnerFacts DEF Crash, PointerKnown
<1>5. faults' \in 0 .. MaxFaults
  BY IndexerAssumption DEF Crash, Fault, TypeInv, TypeOK
<1>. QED BY <1>1, <1>4, <1>5 DEF Crash, TypeInv, TypeOK, Modes, dbVars

\* Every step preserves the types.
LEMMA NextTypeInv == TypeInv /\ [Next]_vars => TypeInv'
<1> SUFFICES ASSUME TypeInv, [Next]_vars PROVE TypeInv'
  OBVIOUS
<1>1. CASE ChainGrows
  BY <1>1, IndexerAssumption
     DEF ChainGrows, TypeInv, TypeOK, PointerKnown, Heights, memVars, dbVars
<1>2. CASE UNCHANGED vars
  BY <1>2 DEF vars, envVars, memVars, dbVars, TypeInv, TypeOK, PointerKnown
<1>. QED BY <1>1, <1>2, BootTypeInv, NewBlockTypeInv, SyncTypeInv, HandlerTypeInv,
            IndexTypeInv, AwaitTypeInv, CrashTypeInv DEF Next

\* The inductive invariant holds in every reachable state.
LEMMA TypeInvariant == Spec => []TypeInv
BY InitTypeInv, NextTypeInv, PTL DEF Spec

\* Every variable keeps its type; in particular the range a sync loop asks for
\* lies within the chain.
THEOREM TypeCorrect == Spec => []TypeOK
BY TypeInvariant, PTL DEF TypeInv

-----------------------------------------------------------------------------
(***************************************************************************)
(* WrittenOnceInOrder. The invariant needs to know, for every run that has *)
(* passed the header, exactly which rows of its blocks exist, and that two *)
(* such runs have no block in common: the unique height keeps them apart.  *)
(***************************************************************************)

RunsExact ==
    \A j \in Slots : PastHeader(j) =>
        /\ Span(j) \subseteq header
        /\ job[j].todo \subseteq Span(j)
        /\ job[j].stage \in {Transactions, Assets, ChainEvents} => job[j].todo = Span(j)
        /\ \A t \in Tables, h \in Span(j) :
              rows[t][h] = IF t < job[j].stage \/ (t = job[j].stage /\ h \notin job[j].todo)
                           THEN 1 ELSE 0

RunsApart ==
    \A j, k \in Slots : PastHeader(j) /\ PastHeader(k) /\ j # k => Span(j) \cap Span(k) = {}

WriteInv == WrittenOnceInOrder /\ RunsExact /\ RunsApart

\* Nothing is stored in the beginning.
LEMMA InitWriteInv == Init => WriteInv
<1> SUFFICES ASSUME Init PROVE WriteInv
  OBVIOUS
<1>1. \A j \in Slots : ~PastHeader(j)
  BY DEF Init, PastHeader, FreeJob, Finished, Transactions, Ranks
<1>2. \A t \in Tables, h \in Heights : rows[t][h] = 0
  BY DEF Init
<1>. QED BY <1>1, <1>2 DEF WriteInv, WrittenOnceInOrder, RunsExact, RunsApart

\* Steps that write no header and no row, and change neither the blocks nor the
\* progress of a run that is past its header, preserve the invariant.
LEMMA NothingWritten ==
    ASSUME WriteInv, UNCHANGED <<header, rows>>,
           \A k \in Slots : job'[k].stage \in Transactions .. Ranks =>
              /\ job'[k].stage = job[k].stage /\ job'[k].todo = job[k].todo
              /\ job'[k].first = job[k].first /\ job'[k].last = job[k].last
    PROVE  WriteInv'
<1>1. \A k \in Slots : PastHeader(k)' => /\ job'[k].stage = job[k].stage
                                         /\ job'[k].todo = job[k].todo
                                         /\ PastHeader(k) /\ Span(k)' = Span(k)
  BY DEF PastHeader, Span
<1>2. WrittenOnceInOrder'
  BY DEF WriteInv, WrittenOnceInOrder
<1>3. RunsExact'
  BY <1>1 DEF WriteInv, RunsExact
<1>4. RunsApart'
  BY <1>1 DEF WriteInv, RunsApart
<1>. QED BY <1>2, <1>3, <1>4 DEF WriteInv

\* A run writes the rows S of its current table t, then stays, goes on or ends.
LEMMA RowsWritten ==
    ASSUME TypeOK, WriteInv, NEW j \in Slots, NEW t \in Tables, NEW S,
           job[j].stage = t, S \subseteq job[j].todo,
           rows' = Written(t, S), header' = header,
           \/ job' = [job EXCEPT ![j].todo = @ \ S] /\ t \in {Rewards, Fees}
           \/ job' = Goto(j, t + 1) /\ S = job[j].todo
           \/ job' = [job EXCEPT ![j].stage = Finished, ![j].todo = {}]
    PROVE  WriteInv'
<1>0. job[j] \in Job /\ t \in Transactions .. Fees /\ PastHeader(j)
  BY DEF TypeOK, Tables, PastHeader, Transactions, Assets, ChainEvents, Rewards, Fees, Ranks
<1>1. S \subseteq Span(j) /\ Span(j) \subseteq header /\ header \subseteq Heights
  BY <1>0 DEF WriteInv, RunsExact, TypeOK
<1>2. \A u \in Tables, h \in Heights :
        rows'[u][h] = IF u = t /\ h \in S THEN rows[u][h] + 1 ELSE rows[u][h]
  BY DEF Written, TypeOK
<1>3. \A h \in S : rows[t][h] = 0 /\ \A u \in Tables : u < t => rows[u][h] = 1
  BY <1>0, <1>1 DEF WriteInv, RunsExact
<1>4. WrittenOnceInOrder'
  <2>. SUFFICES ASSUME NEW h \in Heights, NEW u \in Tables
                PROVE  /\ rows'[u][h] <= 1
                       /\ rows'[u][h] = 1 => /\ h \in header'
                                             /\ \A v \in Tables : v < u => rows'[v][h] = 1
    BY DEF WrittenOnceInOrder
  <2>1. CASE u = t /\ h \in S
    <3>1. \A v \in Tables : v < u => rows'[v][h] = 1
      BY <1>2, <1>3, <2>1 DEF Tables, Transactions, Assets, ChainEvents, Rewards, Fees
    <3>. QED BY <1>1, <1>2, <1>3, <2>1, <3>1
  <2>2. CASE ~(u = t /\ h \in S)
    <3>1. rows'[u][h] = rows[u][h]
      BY <1>2, <2>2
    <3>2. \A v \in Tables : rows[v][h] = 1 => rows'[v][h] = 1
      BY <1>2, <1>3
    <3>. QED BY <3>1, <3>2 DEF WriteInv, WrittenOnceInOrder
  <2>. QED BY <2>1, <2>2
<1>5. \A k \in Slots : Span(k)' = Span(k) /\ (k # j => job'[k] = job[k])
  <2>. SUFFICES ASSUME NEW k \in Slots
                PROVE  /\ job'[k].first = job[k].first /\ job'[k].last = job[k].last
                       /\ k # j => job'[k] = job[k]
    BY DEF Span
  <2>1. CASE job' = [job EXCEPT ![j].todo = @ \ S]
    BY <1>0, <2>1 DEF TypeOK, Job
  <2>2. CASE job' = Goto(j, t + 1)
    BY <1>0, <2>2 DEF Goto, TypeOK, Job
  <2>3. CASE job' = [job EXCEPT ![j].stage = Finished, ![j].todo = {}]
    BY <1>0, <2>3 DEF TypeOK, Job
  <2>. QED BY <2>1, <2>2, <2>3
<1>6. RunsApart'
  <2>1. \A k \in Slots : PastHeader(k)' => PastHeader(k)
    BY <1>0, <1>5 DEF PastHeader
  <2>. QED BY <1>5, <2>1 DEF RunsApart, WriteInv
<1>7. RunsExact'
  <2>. SUFFICES ASSUME NEW k \in Slots, PastHeader(k)'
                PROVE  /\ Span(k) \subseteq header
                       /\ job'[k].todo \subseteq Span(k)
                       /\ job'[k].stage \in {Transactions, Assets, ChainEvents}
                             => job'[k].todo = Span(k)
                       /\ \A u \in Tables, h \in Span(k) :
                            rows'[u][h] = IF \/ u < job'[k].stage
                                             \/ u = job'[k].stage /\ h \notin job'[k].todo
                                          THEN 1 ELSE 0
    BY <1>5 DEF RunsExact
  <2>1. CASE k # j
    <3>1. job'[k] = job[k] /\ PastHeader(k) /\ Span(k) \cap S = {}
      BY <1>0, <1>1, <1>5, <2>1 DEF PastHeader, WriteInv, RunsApart
    <3>2. \A u \in Tables, h \in Span(k) : rows'[u][h] = rows[u][h]
      BY <1>1, <1>2, <3>1 DEF WriteInv, RunsExact
    <3>. QED BY <3>1, <3>2 DEF WriteInv, RunsExact
  <2>2. CASE k = j
    <3>0. \A h \in Span(j) : h \in Heights
      BY <1>1
    <3>1. CASE job' = [job EXCEPT ![j].todo = @ \ S] /\ t \in {Rewards, Fees}
      <4>1. job'[j].stage = t /\ job'[j].todo = job[j].todo \ S
        BY <1>0, <3>1 DEF TypeOK, Job
      <4>2. t \notin {Transactions, Assets, ChainEvents}
        BY <3>1 DEF Transactions, Assets, ChainEvents, Rewards, Fees
      <4>. QED
        BY <1>0, <1>1, <1>2, <1>3, <2>2, <3>0, <4>1, <4>2 DEF WriteInv, RunsExact
    <3>2. CASE job' = Goto(j, t + 1) /\ S = job[j].todo
      <4>1. job'[j].stage = t + 1 /\ job'[j].todo = Span(j)
        BY <1>0, <3>2 DEF TypeOK, Job, Goto
      <4>2. \A u \in Tables, h \in Span(j) : rows'[u][h] = IF u < t + 1 THEN 1 ELSE 0
        BY <1>0, <1>1, <1>2, <1>3, <3>0, <3>2
           DEF WriteInv, RunsExact, Tables, Transactions, Assets, ChainEvents, Rewards, Fees
      <4>. QED BY <1>0, <1>1, <2>2, <4>1, <4>2
    <3>3. CASE job' = [job EXCEPT ![j].stage = Finished, ![j].todo = {}]
      BY <1>0, <2>2, <3>3 DEF PastHeader, Finished, Ranks, Transactions, TypeOK, Job
    <3>. QED BY <3>1, <3>2, <3>3
  <2>. QED BY <2>1, <2>2
<1>. QED BY <1>4, <1>6, <1>7 DEF WriteInv

\* A batch whose headers are stored: none of its blocks was stored before, hence
\* none of them has a row yet, and no other run past its header holds one.
LEMMA HeaderWriteInv == ASSUME TypeOK, WriteInv, NEW j \in Slots, HeaderWritten(j) PROVE WriteInv'
<1>0. job[j] \in Job /\ Span(j) \subseteq Heights /\ Span(j) \cap header = {}
  BY IndexerAssumption DEF TypeOK, Job, Span, Heights, HeaderWritten, NoHeaderYet
<1>1. /\ job'[j].stage = Transactions /\ job'[j].todo = Span(j)
      /\ job'[j].first = job[j].first /\ job'[j].last = job[j].last
      /\ \A k \in Slots : k # j => job'[k] = job[k]
  BY <1>0 DEF HeaderWritten, Goto, TypeOK, Job
<1>2. \A k \in Slots : Span(k)' = Span(k)
  BY <1>1 DEF Span
<1>3. \A k \in Slots : k # j /\ PastHeader(k)' => PastHeader(k) /\ Span(k) \cap Span(j) = {}
  BY <1>0, <1>1 DEF PastHeader, WriteInv, RunsExact
<1>4. rows' = rows /\ header' = header \cup Span(j)
  BY DEF HeaderWritten
<1>5. \A t \in Tables, h \in Span(j) : rows[t][h] = 0
  <2>. SUFFICES ASSUME NEW t \in Tables, NEW h \in Span(j) PROVE rows[t][h] = 0
    OBVIOUS
  <2>1. rows[t][h] \in Nat /\ rows[t][h] <= 1 /\ rows[t][h] # 1
    BY <1>0 DEF TypeOK, WriteInv, WrittenOnceInOrder
  <2>. QED BY <2>1
<1>6. WrittenOnceInOrder'
  BY <1>4 DEF WriteInv, WrittenOnceInOrder
<1>7. RunsApart'
  BY <1>2, <1>3 DEF RunsApart, WriteInv
<1>8. \A t \in Tables : ~(t < Transactions)
  BY DEF Tables, Transactions, Assets, ChainEvents, Rewards, Fees
<1>9. RunsExact'
  <2>. SUFFICES ASSUME NEW k \in Slots, PastHeader(k)'
                PROVE  /\ Span(k) \subseteq header'
                       /\ job'[k].todo \subseteq Span(k)
                       /\ job'[k].stage \in {Transactions, Assets, ChainEvents}
                             => job'[k].todo = Span(k)
                       /\ \A t \in Tables, h \in Span(k) :
                            rows[t][h] = IF \/ t < job'[k].stage
                                            \/ t = job'[k].stage /\ h \notin job'[k].todo
                                         THEN 1 ELSE 0
    BY <1>2, <1>4 DEF RunsExact
  <2>1. CASE k = j
    BY <1>1, <1>4, <1>5, <1>8, <2>1
  <2>2. CASE k # j
    BY <1>1, <1>3, <1>4, <2>2 DEF WriteInv, RunsExact
  <2>. QED BY <2>1, <2>2
<1>. QED BY <1>6, <1>7, <1>9 DEF WriteInv

\* Finality has no table of its own here: the run is where it was, one step on.
LEMMA FinalityWriteInv ==
    ASSUME TypeOK, WriteInv, NEW j \in Slots, FinalityChecked(j) PROVE WriteInv'
<1>0. job[j] \in Job /\ PastHeader(j) /\ job[j].stage = Finality
  BY DEF TypeOK, FinalityChecked, PastHeader, Finality, Transactions, Ranks
<1>1. /\ job'[j].stage = Rewards /\ job'[j].todo = Span(j)
      /\ job'[j].first = job[j].first /\ job'[j].last = job[j].last
      /\ \A k \in Slots : k # j => job'[k] = job[k]
  BY <1>0 DEF FinalityChecked, Goto, TypeOK, Job
<1>2. \A k \in Slots : Span(k)' = Span(k) /\ (PastHeader(k)' => PastHeader(k))
  BY <1>0, <1>1 DEF Span, PastHeader
<1>3. rows' = rows /\ header' = header
  BY DEF FinalityChecked, dbVars
<1>4. \A t \in Tables : (t < Rewards <=> t < Finality) /\ t # Finality
  BY DEF Tables, Transactions, Assets, ChainEvents, Finality, Rewards, Fees
<1>5. Rewards \notin {Transactions, Assets, ChainEvents}
  BY DEF Transactions, Assets, ChainEvents, Rewards
<1>6. RunsExact'
  <2>. SUFFICES ASSUME NEW k \in Slots, PastHeader(k)'
                PROVE  /\ Span(k) \subseteq header
                       /\ job'[k].todo \subseteq Span(k)
                       /\ job'[k].stage \in {Transactions, Assets, ChainEvents}
                             => job'[k].todo = Span(k)
                       /\ \A t \in Tables, h \in Span(k) :
                            rows[t][h] = IF \/ t < job'[k].stage
                                            \/ t = job'[k].stage /\ h \notin job'[k].todo
                                         THEN 1 ELSE 0
    BY <1>2, <1>3 DEF RunsExact
  <2>1. CASE k = j
    BY <1>0, <1>1, <1>4, <1>5, <2>1 DEF WriteInv, RunsExact
  <2>2. CASE k # j
    BY <1>1, <1>2, <2>2 DEF WriteInv, RunsExact
  <2>. QED BY <2>1, <2>2
<1>7. RunsApart' /\ WrittenOnceInOrder'
  BY <1>2, <1>3 DEF WriteInv, RunsApart, WrittenOnceInOrder
<1>. QED BY <1>6, <1>7 DEF WriteInv

\* Every step of a run preserves the invariant.
LEMMA IndexWriteInv == ASSUME TypeOK, WriteInv, NEW j \in Slots, Index(j) PROVE WriteInv'
<1>a. job[j] \in Job
  BY DEF TypeOK
<1>b. /\ {Transactions, Assets, ChainEvents, Rewards, Fees} \subseteq Tables
      /\ Finished \notin Transactions .. Ranks
      /\ Rewards + 1 = Fees /\ Fees + 1 = Ranks
  BY DEF Transactions, Assets, ChainEvents, Rewards, Fees, Tables, Ranks, Finished
<1>c. ASSUME Ends(j), UNCHANGED <<header, rows>> PROVE WriteInv'
  <2>1. /\ job'[j].stage = Finished
        /\ \A k \in Slots : k # j => job'[k] = job[k]
    BY <1>a, <1>c DEF Ends, TypeOK, Job
  <2>. QED BY <1>b, <1>c, <2>1, NothingWritten
<1>1. CASE HeaderWritten(j)
  BY <1>1, HeaderWriteInv
<1>2. CASE FinalityChecked(j)
  BY <1>2, FinalityWriteInv
<1>3. CASE HeaderClash(j) \/ RanksUpdated(j) \/ StageFails(j)
  BY <1>3, <1>c DEF HeaderClash, RanksUpdated, StageFails, dbVars
<1>4. CASE TableWritten(j)
  <2>1. job[j].stage \in {Transactions, Assets, ChainEvents} /\ job[j].todo = Span(j)
    BY <1>4 DEF TableWritten, WriteInv, RunsExact, PastHeader,
                Transactions, Assets, ChainEvents, Ranks
  <2>2. /\ rows' = Written(job[j].stage, Span(j)) /\ header' = header
        /\ job' = Goto(j, job[j].stage + 1)
    BY <1>4 DEF TableWritten
  <2>. QED BY <1>b, <2>1, <2>2, RowsWritten
<1>5. ASSUME NEW S \in SUBSET Heights, RewardsCredited(j, S) PROVE WriteInv'
  <2>1. /\ job[j].stage = Rewards /\ S \subseteq job[j].todo
        /\ rows' = Written(Rewards, S) /\ header' = header
        /\ \/ job' = Goto(j, Fees) /\ S = job[j].todo
           \/ job' = [job EXCEPT ![j].todo = @ \ S]
    BY <1>5 DEF RewardsCredited
  <2>. QED BY <1>b, <2>1, RowsWritten
<1>6. ASSUME NEW h \in Heights, FeesWritten(j, h) PROVE WriteInv'
  <2>1. /\ job[j].stage = Fees /\ {h} \subseteq job[j].todo
        /\ rows' = Written(Fees, {h}) /\ header' = header
        /\ \/ job' = Goto(j, Ranks) /\ {h} = job[j].todo
           \/ job' = [job EXCEPT ![j].todo = @ \ {h}]
           \/ job' = [job EXCEPT ![j].stage = Finished, ![j].todo = {}]
    BY <1>6 DEF FeesWritten, Ends
  <2>. QED BY <1>b, <2>1, RowsWritten
<1>. QED BY <1>1, <1>2, <1>3, <1>4, <1>5, <1>6 DEF Index

\* The runs that start or settle, and the tasks awaited with them, write nothing.
LEMMA OthersWriteInv ==
    ASSUME TypeOK, WriteInv,
           \/ Boot \/ NewBlock \/ ChainGrows \/ Crash \/ UNCHANGED vars
           \/ \E l \in Loops : Sync(l)
           \/ \E j \in Slots : Handler(j) \/ Await(j)
    PROVE  WriteInv'
<1> USE DEF vars, envVars, memVars, dbVars
<1>a. \A s \in {Fetching, Header, Finished} : s \notin Transactions .. Ranks
  BY DEF Fetching, Header, Finished, Transactions, Ranks
<1>b. ASSUME UNCHANGED <<header, rows, job>> PROVE WriteInv'
  BY <1>b, NothingWritten
<1>1. CASE Boot
  BY <1>1, <1>b DEF Boot, BootNodeInfo, BootLookup, BootRestart, BootFirstRun,
                    BootCreateRow, BootStartUpCommands
<1>2. ASSUME NEW j \in Slots, NEW J, job' = [job EXCEPT ![j] = J], UNCHANGED <<header, rows>>,
             J.stage \in {Fetching, Header, Finished}
      PROVE  WriteInv'
  <2>1. \A k \in Slots : job'[k] = job[k] \/ job'[k] = J
    BY <1>2 DEF TypeOK
  <2>. QED BY <1>2, <1>a, <2>1, NothingWritten
<1>3. CASE NewBlock
  <2>1. CASE \E j \in Slots, h \in Heights : NewBlockFetches(h, j)
    <3>. PICK j \in Slots, h \in Heights : NewBlockFetches(h, j)
      BY <2>1
    <3>. QED BY <1>2 DEF NewBlockFetches, FetchingJob
  <2>. QED BY <1>3, <1>b, <2>1 DEF NewBlock, NewBlockIgnored, NewBlockStartsSync
<1>4. CASE \E l \in Loops : Sync(l)
  <2>. PICK l \in Loops : Sync(l)
    BY <1>4
  <2>1. ASSUME NEW j \in Slots, LoopStartsBatch(l, j) PROVE WriteInv'
    BY <2>1, <1>2 DEF LoopStartsBatch, StartedJob
  <2>2. ASSUME NEW j \in Slots, LoopBatchDone(l, j) PROVE WriteInv'
    BY <2>2, <1>2 DEF LoopBatchDone, FreeJob
  <2>. QED BY <1>b, <2>1, <2>2
          DEF Sync, LoopRequests, LoopExits, LoopNodeInfo, LoopRetries, LoopFetchFails
<1>5. ASSUME NEW j \in Slots, Handler(j) PROVE WriteInv'
  BY <1>5, <1>2 DEF Handler, BlockFetched, BlockFetchFails, StartedJob, FreeJob
<1>6. ASSUME NEW j \in Slots, Await(j) PROVE WriteInv'
  <2>1. CASE Settles(j)
    BY <2>1, <1>2 DEF Settles, FreeJob
  <2>2. CASE ~Settles(j)
    <3>1. \A k \in Slots : /\ job'[k].stage = job[k].stage /\ job'[k].todo = job[k].todo
                           /\ job'[k].first = job[k].first /\ job'[k].last = job[k].last
      <4>1. job[j] \in Job
        BY DEF TypeOK
      <4>. QED BY <1>6, <2>2, <4>1
              DEF Await, CacheFails, PointerSaved, PointerSet, PointerFails, TypeOK, Job
    <3>2. UNCHANGED <<header, rows>>
      BY <1>6, <2>2 DEF Await, CacheFails, PointerSaved, PointerSet, PointerFails
    <3>. QED BY <3>1, <3>2, NothingWritten
  <2>. QED BY <2>1, <2>2
<1>7. CASE Crash
  <2>1. \A k \in Slots : job'[k].stage = Finished
    BY <1>7 DEF Crash, FreeJob
  <2>. QED BY <1>7, <1>a, <2>1, NothingWritten DEF Crash
<1>8. CASE ChainGrows \/ UNCHANGED vars
  BY <1>8, <1>b DEF ChainGrows
<1>. QED BY <1>1, <1>3, <1>4, <1>5, <1>6, <1>7, <1>8

\* Every step preserves the invariant.
LEMMA NextWriteInv == TypeInv /\ WriteInv /\ [Next]_vars => WriteInv'
BY OthersWriteInv, IndexWriteInv DEF Next, TypeInv

\* For every number of overlapping runs, faults and crashes, what is stored for a
\* block is written at most once and in the order of the steps: a chain event or
\* a credited reward never without its header, fee totals never without the rows
\* they sum. The code relies for this on the unique height of a header alone.
THEOREM WrittenOnceInOrderHolds == Spec => []WrittenOnceInOrder
<1>1. TypeInv /\ WriteInv /\ [Next]_vars => WriteInv'
  BY NextWriteInv
<1>. QED BY <1>1, InitWriteInv, TypeInvariant, PTL DEF Spec, WriteInv

-----------------------------------------------------------------------------
(* With a quiet boot, that is, when no block is announced before the boot      *)
(* knows the pointer, the indexer implements BlockLedger: heights are handed   *)
(* out without a gap and the pointer never passes one that was not.            *)

\* Every height below h has been handed to handleNewBlockEvent.
Reached(h) == GenesisHeight .. h - 1 \subseteq claimed

\* The pointer is unknown until the boot is over with it, and until then nothing
\* runs, so that what the boot read from the database is still what is there.
BootKnows ==
    /\ boot.pc \in {"nodeInfo", "lookup", "found"} => next = Undefined
    /\ boot.pc = "found" => boot.row = dbNext
    /\ next = Undefined => \A j \in Slots : job[j].owner = "free"
    /\ \A j \in Slots : job[j].owner = "free" => job[j] = FreeJob

\* Every height that is or may become a pointer has all heights below it handed out.
PointersReached ==
    /\ next # Undefined => Reached(next)
    /\ dbNext # Undefined => Reached(dbNext)
    /\ \A l \in Loops : loop[l].pc = "fetching" => Reached(loop[l].from)
    /\ \A j \in Slots : job[j].owner # "free" =>
          IF job[j].stage = Fetching
          THEN Reached(job[j].first) /\ job[j].ptr = "done" /\ job[j].first = job[j].last
          ELSE Reached(HeightAfter(j))

LedgerInv == BootKnows /\ PointersReached

-----------------------------------------------------------------------------
\* Initially nothing runs and there is no pointer.
LEMMA InitLedgerInv == Init => LedgerInv
<1> SUFFICES ASSUME Init PROVE LedgerInv
  OBVIOUS
<1>1. \A j \in Slots : job[j] = FreeJob
  BY DEF Init
<1>2. \A l \in Loops : loop[l].pc = "idle"
  BY DEF Init, IdleLoop
<1>. QED BY <1>1, <1>2 DEF Init, LedgerInv, BootKnows, PointersReached, FreeJob

\* The heights below h + 1 are handed out if those below first and first..h are.
LEMMA ReachedFurther ==
    ASSUME NEW first \in Heights, NEW last \in Heights, NEW S,
           GenesisHeight .. first - 1 \subseteq S
    PROVE  GenesisHeight .. (last + 1) - 1 \subseteq S \cup (first .. last)
BY IndexerAssumption DEF Heights

\* A height below one that is reached is reached.
LEMMA ReachedBelow ==
    ASSUME NEW h \in Heights, NEW top \in Heights \cup {MaxHeight + 1}, h <= top, Reached(top)
    PROVE  Reached(h)
BY IndexerAssumption DEF Heights, Reached

\* Steps that move no pointer and hand out nothing; runs go on, end or are let go.
LEMMA RunsGoOn ==
    ASSUME TypeInv, LedgerInv, UNCHANGED <<next, dbNext, boot, claimed>>,
           \A l \in Loops : loop'[l].pc = "fetching" =>
              loop[l].pc = "fetching" /\ loop'[l].from = loop[l].from,
           \A k \in Slots :
              \/ job'[k] = job[k]
              \/ job'[k] = FreeJob
              \/ /\ job[k].owner # "free" /\ job'[k].owner # "free"
                 /\ job[k].stage # Fetching /\ job'[k].stage # Fetching
                 /\ job'[k].last = job[k].last
    PROVE  LedgerInv'
<1>1. BootKnows'
  <2>1. \A k \in Slots : job[k].owner = "free" => job'[k].owner = "free"
    BY DEF FreeJob
  <2>2. \A k \in Slots : job'[k].owner = "free" => job'[k] = FreeJob
    BY DEF LedgerInv, BootKnows
  <2>. QED BY <2>1, <2>2 DEF LedgerInv, BootKnows
<1>2. \A k \in Slots : job'[k].owner # "free" =>
          IF job'[k].stage = Fetching
          THEN Reached(job'[k].first) /\ job'[k].ptr = "done" /\ job'[k].first = job'[k].last
          ELSE Reached(HeightAfter(k)')
  BY DEF LedgerInv, PointersReached, FreeJob, HeightAfter
<1>3. PointersReached'
  BY <1>2 DEF LedgerInv, PointersReached, Reached, HeightAfter
<1>. QED BY <1>1, <1>3 DEF LedgerInv

\* A batch or a block is handed out, the heights below its first being reached.
LEMMA BatchStarts ==
    ASSUME TypeInv, LedgerInv, UNCHANGED <<next, dbNext, boot>>, next # Undefined,
           NEW j \in Slots, NEW owner \in Loops \cup {"nobody"},
           NEW first \in Heights, NEW last \in Heights, Reached(first),
           job' = [job EXCEPT ![j] = StartedJob(owner, first, last)],
           claimed' = claimed \cup (first .. last),
           \A l \in Loops : loop'[l].pc = "fetching" => loop'[l] = loop[l]
    PROVE  LedgerInv'
<1>1. /\ job'[j] = StartedJob(owner, first, last)
      /\ \A k \in Slots : k # j => job'[k] = job[k]
  BY DEF TypeInv, TypeOK
<1>2. /\ job'[j].owner # "free" /\ job'[j].stage # Fetching /\ HeightAfter(j)' = last + 1
  BY <1>1, OwnerFacts DEF StartedJob, Fetching, Header, HeightAfter
<1>3. \A h : Reached(h) => Reached(h)'
  BY DEF Reached
<1>4. Reached(HeightAfter(j))'
  BY <1>2, ReachedFurther DEF Reached
<1>5. BootKnows'
  BY <1>1, <1>2 DEF LedgerInv, BootKnows
<1>6. \A k \in Slots : job'[k].owner # "free" =>
          IF job'[k].stage = Fetching
          THEN Reached(job[k].first)' /\ job'[k].ptr = "done" /\ job'[k] = job[k]
               /\ job[k].first = job[k].last
          ELSE Reached(HeightAfter(k))'
  <2>. SUFFICES ASSUME NEW k \in Slots, job'[k].owner # "free", k # j
                PROVE  IF job'[k].stage = Fetching
                       THEN Reached(job[k].first)' /\ job'[k].ptr = "done" /\ job'[k] = job[k]
                            /\ job[k].first = job[k].last
                       ELSE Reached(HeightAfter(k))'
    BY <1>2, <1>4
  <2>1. job'[k] = job[k] /\ HeightAfter(k)' = HeightAfter(k)
    BY <1>1 DEF HeightAfter
  <2>. QED BY <1>3, <2>1 DEF LedgerInv, PointersReached, Reached
<1>7. PointersReached'
  BY <1>3, <1>6 DEF LedgerInv, PointersReached, Reached
<1>. QED BY <1>5, <1>7 DEF LedgerInv

-----------------------------------------------------------------------------
\* The boot takes the pointer from its row, or starts it at the genesis height.
LEMMA BootLedgerInv == TypeInv /\ LedgerInv /\ Boot => LedgerInv'
<1> SUFFICES ASSUME TypeInv, LedgerInv, Boot PROVE LedgerInv'
  OBVIOUS
<1> USE DEF envVars, memVars, dbVars, LedgerInv, BootKnows, PointersReached, HeightAfter
<1>0. \A S : GenesisHeight .. GenesisHeight - 1 \subseteq S
  BY IndexerAssumption
<1>a. GenesisHeight # Undefined
  BY HeightFacts
<1>1. CASE BootNodeInfo
  BY <1>1 DEF BootNodeInfo, TypeInv, TypeOK, Reached
<1>2. CASE BootLookup
  BY <1>2 DEF BootLookup, Reached
<1>3. CASE BootRestart
  BY <1>3 DEF BootRestart, Reached
<1>4. CASE BootFirstRun
  BY <1>0, <1>a, <1>4 DEF BootFirstRun, TypeInv, TypeOK, Reached
<1>5. CASE BootCreateRow
  BY <1>0, <1>5 DEF BootCreateRow, TypeInv, TypeOK, Reached
<1>6. CASE BootStartUpCommands
  BY <1>6 DEF BootStartUpCommands, TypeInv, TypeOK, Reached
<1>. QED BY <1>1, <1>2, <1>3, <1>4, <1>5, <1>6 DEF Boot

\* A block is fetched directly only if no height before it is missing.
LEMMA NewBlockLedgerInv ==
    ASSUME QuietBoot PROVE TypeInv /\ LedgerInv /\ NewBlock => LedgerInv'
<1> SUFFICES ASSUME TypeInv, LedgerInv, NEW h \in Heights,
                    \/ NewBlockIgnored(h)
                    \/ \E l \in Loops : NewBlockStartsSync(h, l)
                    \/ \E j \in Slots : NewBlockFetches(h, j)
             PROVE  LedgerInv'
  BY DEF NewBlock
<1> USE DEF envVars, memVars, dbVars, TypeInv, TypeOK
<1>1. CASE NewBlockIgnored(h)
  BY <1>1, RunsGoOn DEF NewBlockIgnored
<1>2. ASSUME NEW l \in Loops, NewBlockStartsSync(h, l) PROVE LedgerInv'
  <2>1. \A m \in Loops : loop'[m].pc = "fetching" => loop'[m] = loop[m]
    BY <1>2 DEF NewBlockStartsSync, Loop
  <2>. QED BY <1>2, <2>1, RunsGoOn DEF NewBlockStartsSync
<1>3. ASSUME NEW j \in Slots, NewBlockFetches(h, j) PROVE LedgerInv'
  <2>1. next \in Heights \cup {MaxHeight + 1} /\ next # Undefined /\ h <= next
    BY <1>3, HeightFacts, IndexerAssumption
       DEF NewBlockFetches, Announce, GoesBackToSyncing, Heights
  <2>2. Reached(h)
    BY <2>1, ReachedBelow DEF LedgerInv, PointersReached
  <2>3. /\ job'[j] = FetchingJob(h)
        /\ \A k \in Slots : k # j => job'[k] = job[k]
    BY <1>3 DEF NewBlockFetches
  <2>4. BootKnows'
    BY <1>3, <2>1, <2>3 DEF NewBlockFetches, LedgerInv, BootKnows, FetchingJob
  <2>5. \A k \in Slots : job'[k].owner # "free" =>
          IF job'[k].stage = Fetching
          THEN /\ Reached(job'[k].first) /\ job'[k].ptr = "done"
               /\ job'[k].first = job'[k].last
          ELSE Reached(job'[k].last + 1)
    BY <2>2, <2>3 DEF FetchingJob, LedgerInv, PointersReached, HeightAfter
  <2>6. PointersReached'
    BY <1>3, <2>5 DEF NewBlockFetches, LedgerInv, PointersReached, Reached, HeightAfter
  <2>. QED BY <2>4, <2>6 DEF LedgerInv
<1>. QED BY <1>1, <1>2, <1>3

\* A loop asks for blocks from the pointer on, and hands out what it asked for.
LEMMA SyncLedgerInv ==
    ASSUME TypeInv, LedgerInv, NEW l \in Loops, Sync(l) PROVE LedgerInv'
<1> USE DEF envVars, memVars, dbVars
<1>0. loop \in [Loops -> Loop] /\ loop[l] \in Loop
  BY DEF TypeInv, TypeOK
<1>1. CASE LoopRequests(l)
  <2>1. next # Undefined
    BY <1>1 DEF LoopRequests, TypeInv, PointerKnown
  <2>2. \A m \in Loops : loop'[m].pc = "fetching" =>
           loop'[m] = loop[m] \/ loop'[m].from = next
    BY <1>0, <1>1 DEF LoopRequests
  <2>3. BootKnows'
    BY <1>1 DEF LoopRequests, LedgerInv, BootKnows
  <2>4. PointersReached'
    BY <1>1, <2>1, <2>2 DEF LoopRequests, LedgerInv, PointersReached, Reached, HeightAfter
  <2>. QED BY <2>3, <2>4 DEF LedgerInv
<1>2. CASE LoopExits(l) \/ LoopNodeInfo(l) \/ LoopRetries(l) \/ LoopFetchFails(l)
  <2>1. \A m \in Loops : loop'[m].pc = "fetching" =>
           loop[m].pc = "fetching" /\ loop'[m].from = loop[m].from
    BY <1>0, <1>2 DEF LoopExits, LoopNodeInfo, LoopRetries, LoopFetchFails, LoopRejects,
                      IdleLoop, Loop
  <2>. QED BY <1>2, <2>1, RunsGoOn
          DEF LoopExits, LoopNodeInfo, LoopRetries, LoopFetchFails, LoopRejects
<1>3. ASSUME NEW j \in Slots, LoopStartsBatch(l, j) PROVE LedgerInv'
  <2>1. loop[l].from \in Heights /\ loop[l].to \in Heights
    BY <1>0, <1>3, IndexerAssumption
       DEF LoopStartsBatch, Answered, EmptyRange, TypeInv, PointerKnown, Loop, Heights, Undefined
  <2>2. next # Undefined /\ Reached(loop[l].from)
    BY <1>3 DEF LoopStartsBatch, Answered, TypeInv, PointerKnown, LedgerInv, PointersReached
  <2>3. \A m \in Loops : loop'[m].pc = "fetching" => loop'[m] = loop[m]
    BY <1>0, <1>3 DEF LoopStartsBatch, Loop
  <2>. QED BY <1>3, <2>1, <2>2, <2>3, BatchStarts DEF LoopStartsBatch
<1>4. ASSUME NEW j \in Slots, LoopBatchDone(l, j) PROVE LedgerInv'
  <2>1. \A m \in Loops : loop'[m].pc = "fetching" => loop'[m] = loop[m]
    BY <1>0, <1>4 DEF LoopBatchDone, IdleLoop
  <2>. QED BY <1>4, <2>1, RunsGoOn DEF LoopBatchDone, TypeInv, TypeOK
<1>. QED BY <1>1, <1>2, <1>3, <1>4 DEF Sync

\* The announced block is there: it is handed out.
LEMMA HandlerLedgerInv ==
    ASSUME TypeInv, LedgerInv, NEW j \in Slots, Handler(j) PROVE LedgerInv'
<1> USE DEF envVars, memVars, dbVars
<1>0. job[j] \in Job /\ job[j].owner # "free"
  BY DEF TypeInv, TypeOK, Handler, BlockFetched, BlockFetchFails, LedgerInv, BootKnows,
         FreeJob, Fetching, Finished
<1>1. CASE BlockFetched(j)
  <2>1. Reached(job[j].first) /\ next # Undefined
    BY <1>0, <1>1 DEF BlockFetched, LedgerInv, PointersReached, BootKnows
  <2>2. job[j].first \in Heights /\ job[j].last \in Heights
    BY <1>0 DEF Job
  <2>. QED BY <1>1, <2>1, <2>2, BatchStarts DEF BlockFetched, Span
<1>2. CASE BlockFetchFails(j)
  BY <1>2, RunsGoOn DEF BlockFetchFails, TypeInv, TypeOK
<1>. QED BY <1>1, <1>2 DEF Handler

\* The steps of a run leave the pointers alone.
LEMMA IndexLedgerInv ==
    ASSUME TypeInv, LedgerInv, NEW j \in Slots, Index(j) PROVE LedgerInv'
<1>a. \/ job[j].stage \in {Header, Transactions, Assets, ChainEvents, Finality, Rewards, Fees, Ranks}
      \/ job[j].stage \in Header .. Ranks
  BY DEF Index, HeaderWritten, HeaderClash, TableWritten, FinalityChecked,
         RanksUpdated, StageFails, RewardsCredited, FeesWritten, Processing
<1>0. job[j] \in Job /\ job[j].stage \in Header .. Ranks
  BY <1>a DEF TypeInv, TypeOK, Header, Transactions, Assets, ChainEvents, Finality, Rewards,
              Fees, Ranks
<1>1. job[j].owner # "free" /\ job[j].stage # Fetching
  BY <1>0 DEF LedgerInv, BootKnows, FreeJob, Fetching, Header, Ranks, Finished
<1>2. UNCHANGED <<next, dbNext, boot, claimed, loop>>
  BY DEF Index, HeaderWritten, HeaderClash, TableWritten, FinalityChecked, RanksUpdated,
         StageFails, RewardsCredited, FeesWritten, envVars, memVars, dbVars
<1>3. \/ \E stage \in {Transactions, Assets, ChainEvents, Finality, Rewards, Fees, Ranks} :
            job' = Goto(j, stage)
      \/ \E S : job' = [job EXCEPT ![j].todo = @ \ S]
      \/ job' = [job EXCEPT ![j].stage = Finished, ![j].todo = {}]
  <2>1. CASE TableWritten(j)
    BY <2>1 DEF TableWritten, Transactions, Assets, ChainEvents, Finality
  <2>2. CASE ~TableWritten(j)
    BY <2>2 DEF Index, HeaderWritten, HeaderClash, FinalityChecked, RanksUpdated,
                StageFails, RewardsCredited, FeesWritten, Ends
  <2>. QED BY <2>1, <2>2
<1>4. \A s \in {Transactions, Assets, ChainEvents, Finality, Rewards, Fees, Ranks, Finished} :
         s # Fetching
  BY DEF Fetching, Transactions, Assets, ChainEvents, Finality, Rewards, Fees, Ranks, Finished
<1>5. /\ job'[j].owner = job[j].owner /\ job'[j].stage # Fetching /\ job'[j].last = job[j].last
      /\ \A k \in Slots : k # j => job'[k] = job[k]
  <2>1. CASE \E stage \in {Transactions, Assets, ChainEvents, Finality, Rewards, Fees, Ranks} :
               job' = Goto(j, stage)
    BY <1>0, <1>4, <2>1 DEF Goto, TypeInv, TypeOK, Job
  <2>2. CASE \E S : job' = [job EXCEPT ![j].todo = @ \ S]
    BY <1>0, <1>1, <2>2 DEF TypeInv, TypeOK, Job
  <2>3. CASE job' = [job EXCEPT ![j].stage = Finished, ![j].todo = {}]
    BY <1>0, <1>4, <2>3 DEF TypeInv, TypeOK, Job
  <2>. QED BY <1>3, <2>1, <2>2, <2>3
<1>. QED BY <1>1, <1>2, <1>5, RunsGoOn

\* A run whose pointer update is under way has been handed out, and its end reached.
LEMMA PointerUnderWay ==
    ASSUME TypeInv, LedgerInv, NEW j \in Slots, job[j].ptr # "done"
    PROVE  /\ job[j].owner # "free" /\ job[j].stage # Fetching
           /\ next # Undefined /\ Reached(HeightAfter(j))
           /\ HeightAfter(j) \in GenesisHeight .. MaxHeight + 1
<1>1. job[j].owner # "free"
  BY DEF LedgerInv, BootKnows, FreeJob
<1>2. HeightAfter(j) \in GenesisHeight .. MaxHeight + 1
  BY IndexerAssumption DEF TypeInv, TypeOK, Job, HeightAfter, Heights
<1>. QED BY <1>1, <1>2 DEF LedgerInv, BootKnows, PointersReached

\* The pointer moves to the end of a run, which is reached.
LEMMA AwaitLedgerInv ==
    ASSUME TypeInv, LedgerInv, NEW j \in Slots, Await(j) PROVE LedgerInv'
<1> USE DEF envVars, memVars, dbVars
<1>0. job[j] \in Job
  BY DEF TypeInv, TypeOK
\* Only ptr or the owner of the run changes.
<1>a. ASSUME UNCHANGED <<boot, claimed>>, job[j].ptr # "done" \/ job[j].owner \in Loops,
             /\ job'[j].owner # "free" /\ job'[j].stage = job[j].stage
             /\ job'[j].last = job[j].last /\ job'[j].first = job[j].first
             /\ job'[j].ptr = "done" \/ job[j].stage # Fetching,
             \A k \in Slots : k # j => job'[k] = job[k],
             next' = next \/ (next' = HeightAfter(j) /\ job[j].ptr # "done"),
             dbNext' = dbNext \/ (dbNext' = HeightAfter(j) /\ job[j].ptr # "done"),
             \A l \in Loops : loop'[l].pc = "fetching" => loop'[l] = loop[l]
      PROVE  LedgerInv'
  <2>1. next # Undefined /\ job[j].owner # "free"
    BY <1>a, PointerUnderWay, OwnerFacts DEF TypeInv, PointerKnown
  <2>2. next' # Undefined
    BY <1>a, <2>1, PointerUnderWay, IndexerAssumption DEF Undefined
  <2>3. BootKnows'
    BY <1>a, <2>1, <2>2 DEF LedgerInv, BootKnows
  <2>4. Reached(next)' /\ (dbNext' # Undefined => Reached(dbNext)')
    BY <1>a, <2>1, PointerUnderWay DEF LedgerInv, PointersReached, Reached
  <2>5. PointersReached'
    BY <1>a, <2>1, <2>4 DEF LedgerInv, PointersReached, Reached, HeightAfter
  <2>. QED BY <2>3, <2>5 DEF LedgerInv
<1>1. CASE CacheFails(j)
  <2>1. /\ job'[j] = [job[j] EXCEPT !.owner = "nobody"]
        /\ \A k \in Slots : k # j => job'[k] = job[k]
    BY <1>1 DEF CacheFails, TypeInv, TypeOK
  <2>2. \A l \in Loops : loop'[l].pc = "fetching" => loop'[l] = loop[l]
    BY <1>1 DEF CacheFails, LoopRejects, IdleLoop, TypeInv, TypeOK
  <2>3. job[j].ptr = "done" \/ job[j].stage # Fetching
    BY PointerUnderWay
  <2>. QED BY <1>0, <1>1, <1>a, <2>1, <2>2, <2>3 DEF CacheFails, Job
<1>2. CASE PointerSaved(j)
  <2>1. /\ job'[j] = [job[j] EXCEPT !.ptr = "applied"]
        /\ \A k \in Slots : k # j => job'[k] = job[k]
    BY <1>2 DEF PointerSaved, TypeInv, TypeOK
  <2>. QED BY <1>0, <1>2, <1>a, <2>1, PointerUnderWay DEF PointerSaved, Job
<1>3. CASE PointerSet(j)
  <2>1. /\ job'[j] = [job[j] EXCEPT !.ptr = "done"]
        /\ \A k \in Slots : k # j => job'[k] = job[k]
    BY <1>3 DEF PointerSet, TypeInv, TypeOK
  <2>. QED BY <1>0, <1>3, <1>a, <2>1, PointerUnderWay DEF PointerSet, Job
<1>4. CASE PointerFails(j)
  <2>1. /\ job'[j] = [job[j] EXCEPT !.ptr = "done", !.owner = "nobody"]
        /\ \A k \in Slots : k # j => job'[k] = job[k]
    BY <1>4 DEF PointerFails, TypeInv, TypeOK
  <2>2. \A l \in Loops : loop'[l].pc = "fetching" => loop'[l] = loop[l]
    BY <1>4 DEF PointerFails, LoopRejects, IdleLoop, TypeInv, TypeOK
  <2>3. /\ job'[j].owner # "free" /\ job'[j].stage = job[j].stage /\ job'[j].ptr = "done"
        /\ job'[j].last = job[j].last /\ job'[j].first = job[j].first
    BY <1>0, <2>1 DEF Job
  <2>4. UNCHANGED <<boot, claimed, next, dbNext>> /\ job[j].ptr # "done"
    BY <1>4 DEF PointerFails
  <2>. QED BY <1>a, <2>1, <2>2, <2>3, <2>4
<1>5. CASE Settles(j)
  BY <1>5, RunsGoOn DEF Settles, TypeInv, TypeOK
<1>. QED BY <1>1, <1>2, <1>3, <1>4, <1>5 DEF Await

\* After a crash the pointer in memory is unknown and nothing runs.
LEMMA CrashLedgerInv == ASSUME TypeInv, LedgerInv, Crash PROVE LedgerInv'
<1>1. \A j \in Slots : job'[j] = FreeJob
  BY DEF Crash
<1>2. \A l \in Loops : loop'[l].pc = "idle"
  BY DEF Crash, IdleLoop
<1>3. \A h : Reached(h) => Reached(h)'
  BY DEF Crash, Reached
<1>4. next' = Undefined /\ dbNext' = dbNext /\ boot'.pc = "nodeInfo"
  BY DEF Crash, dbVars
<1>5. BootKnows'
  BY <1>1, <1>4 DEF BootKnows, FreeJob
<1>6. PointersReached'
  BY <1>1, <1>2, <1>3, <1>4 DEF LedgerInv, PointersReached, FreeJob, Reached
<1>. QED BY <1>5, <1>6 DEF LedgerInv

\* Every step preserves the invariant.
LEMMA NextLedgerInv ==
    ASSUME QuietBoot PROVE TypeInv /\ LedgerInv /\ [Next]_vars => LedgerInv'
<1> SUFFICES ASSUME TypeInv, LedgerInv, [Next]_vars PROVE LedgerInv'
  OBVIOUS
<1>1. CASE ChainGrows \/ UNCHANGED vars
  <2>1. UNCHANGED <<next, dbNext, boot, claimed, loop, job>>
    BY <1>1 DEF ChainGrows, vars, memVars, dbVars
  <2>. QED BY <2>1, RunsGoOn
<1>. QED BY <1>1, BootLedgerInv, NewBlockLedgerInv, SyncLedgerInv, HandlerLedgerInv,
            IndexLedgerInv, AwaitLedgerInv, CrashLedgerInv DEF Next

\* Both invariants hold in every reachable state.
LEMMA LedgerInvariant == ASSUME QuietBoot PROVE Spec => [](TypeInv /\ LedgerInv)
<1>1. TypeInv /\ LedgerInv /\ [Next]_vars => LedgerInv'
  BY NextLedgerInv
<1>. QED BY <1>1, InitLedgerInv, TypeInvariant, PTL DEF Spec

\* With a quiet boot, whatever overlaps, fails or crashes, the stored pointer never
\* passes a height that was not handed to handleNewBlockEvent, so that a restart,
\* which resumes at the pointer, leaves no height out.
THEOREM NothingSkippedHolds == ASSUME QuietBoot PROVE Spec => []NothingSkipped
<1>1. LedgerInv => NothingSkipped
  BY DEF LedgerInv, PointersReached, NothingSkipped, Reached
<1>. QED BY <1>1, LedgerInvariant, PTL

-----------------------------------------------------------------------------
(* The refinement: every step is a step of BlockLedger or leaves it as it is. *)

\* The header of a batch that was handed out is stored by a Store step.
LEMMA HeaderIsStore ==
    ASSUME TypeInv, LedgerInv, NEW j \in Slots, HeaderWritten(j) PROVE Ledger!Next
<1>1. job[j] \in Job
  BY DEF TypeInv, TypeOK
<1>2. job[j].owner # "free" /\ job[j].stage # Fetching
  BY DEF HeaderWritten, LedgerInv, BootKnows, FreeJob, Fetching, Header, Finished
<1>3. job[j].first \in Heights /\ job[j].last \in Heights
  BY <1>1 DEF Job
<1>4. GenesisHeight .. job[j].last \subseteq claimed
  BY <1>2, <1>3, IndexerAssumption
     DEF LedgerInv, PointersReached, Reached, HeightAfter, Heights
<1>5. Span(j) \subseteq claimed
  BY <1>3, <1>4, IndexerAssumption DEF Span, Heights
<1>6. Ledger!Store(job[j].first, job[j].last)
  BY <1>5 DEF Ledger!Store, HeaderWritten, NoHeaderYet, Span
<1>. QED BY <1>3, <1>6 DEF Ledger!Next, Ledger!Heights, Heights

\* A step that hands out, stores or points is a step of BlockLedger; every other
\* step leaves what BlockLedger speaks of alone.
LEMMA StepRefines ==
    ASSUME QuietBoot PROVE TypeInv /\ LedgerInv /\ [Next]_vars => [Ledger!Next]_(Ledger!ledgerVars)
<1> SUFFICES ASSUME TypeInv, LedgerInv, [Next]_vars
             PROVE  Ledger!Next \/ UNCHANGED <<claimed, header, dbNext>>
  BY DEF Ledger!ledgerVars
<1> USE DEF envVars, memVars, dbVars
<1>1. ASSUME NEW j \in Slots, HeaderWritten(j) PROVE Ledger!Next
  BY <1>1, HeaderIsStore
<1>2. ASSUME NEW j \in Slots, PointerSaved(j) PROVE Ledger!Next
  <2>1. HeightAfter(j) \in GenesisHeight .. MaxHeight + 1 /\ Reached(HeightAfter(j))
    BY <1>2, PointerUnderWay DEF PointerSaved
  <2>2. Ledger!Point(HeightAfter(j))
    BY <1>2, <2>1 DEF PointerSaved, Ledger!Point, Ledger!Reached, Reached
  <2>. QED BY <2>1, <2>2 DEF Ledger!Next
<1>3. CASE BootCreateRow
  <2>1. Ledger!Point(GenesisHeight)
    BY <1>3, IndexerAssumption DEF BootCreateRow, Ledger!Point, Ledger!Reached
  <2>. QED BY <2>1, IndexerAssumption DEF Ledger!Next
<1>4. ASSUME NEW j \in Slots, BlockFetched(j) PROVE Ledger!Next
  <2>1. job[j] \in Job
    BY DEF TypeInv, TypeOK
  <2>2. job[j].first \in Heights /\ job[j].last \in Heights /\ Reached(job[j].first)
    BY <1>4, <2>1 DEF BlockFetched, LedgerInv, BootKnows, PointersReached, FreeJob,
                      Fetching, Finished, Job
  <2>3. Ledger!Claim(job[j].first, job[j].last)
    BY <1>4, <2>2 DEF BlockFetched, Span, Ledger!Claim, Ledger!Reached, Reached
  <2>. QED BY <2>2, <2>3 DEF Ledger!Next, Ledger!Heights, Heights
<1>5. ASSUME NEW l \in Loops, NEW j \in Slots, LoopStartsBatch(l, j) PROVE Ledger!Next
  <2>1. loop[l] \in Loop
    BY DEF TypeInv, TypeOK
  <2>2. loop[l].from \in Heights /\ loop[l].to \in Heights
    BY <1>5, <2>1, IndexerAssumption
       DEF LoopStartsBatch, Answered, EmptyRange, TypeInv, PointerKnown, Loop, Heights, Undefined
  <2>3. Ledger!Claim(loop[l].from, loop[l].to)
    BY <1>5 DEF LoopStartsBatch, Answered, LedgerInv, PointersReached,
                Ledger!Claim, Ledger!Reached, Reached
  <2>. QED BY <2>2, <2>3 DEF Ledger!Next, Ledger!Heights, Heights
\* All other actions leave the three variables alone.
<1>6. CASE Boot
  BY <1>3, <1>6 DEF Boot, BootNodeInfo, BootLookup, BootRestart, BootFirstRun,
                    BootStartUpCommands
<1>7. CASE NewBlock
  BY <1>7 DEF NewBlock, NewBlockIgnored, NewBlockStartsSync, NewBlockFetches
<1>8. ASSUME NEW l \in Loops, Sync(l)
      PROVE  Ledger!Next \/ UNCHANGED <<claimed, header, dbNext>>
  BY <1>5, <1>8 DEF Sync, LoopRequests, LoopExits, LoopNodeInfo, LoopRetries, LoopFetchFails,
                    LoopBatchDone
<1>9. ASSUME NEW j \in Slots, Handler(j)
      PROVE  Ledger!Next \/ UNCHANGED <<claimed, header, dbNext>>
  BY <1>4, <1>9 DEF Handler, BlockFetchFails
<1>10. ASSUME NEW j \in Slots, Index(j)
       PROVE  Ledger!Next \/ UNCHANGED <<claimed, header, dbNext>>
  BY <1>1, <1>10 DEF Index, HeaderClash, TableWritten, FinalityChecked, RanksUpdated,
                     StageFails, RewardsCredited, FeesWritten
<1>11. ASSUME NEW j \in Slots, Await(j)
       PROVE  Ledger!Next \/ UNCHANGED <<claimed, header, dbNext>>
  BY <1>2, <1>11 DEF Await, CacheFails, PointerSet, PointerFails, Settles
<1>12. CASE ChainGrows \/ Crash \/ UNCHANGED vars
  BY <1>12 DEF ChainGrows, Crash, vars
<1>. QED BY <1>6, <1>7, <1>8, <1>9, <1>10, <1>11, <1>12 DEF Next

\* With a quiet boot the indexer implements BlockLedger: blocks are handed out
\* without a gap, a header is stored once and only for a block handed out, and the
\* stored pointer stays within what was handed out.
THEOREM KeepsLedgerHolds == ASSUME QuietBoot PROVE Spec => KeepsLedger
<1>1. Init => Ledger!Init
  BY DEF Init, Ledger!Init, Undefined
<1>2. TypeInv /\ LedgerInv /\ [Next]_vars => [Ledger!Next]_(Ledger!ledgerVars)
  BY StepRefines
<1>. QED BY <1>1, <1>2, LedgerInvariant, PTL DEF Spec, KeepsLedger, Ledger!Spec

-----------------------------------------------------------------------------
(* With a quiet boot the gateway is SYNCING exactly while one run of           *)
(* syncWithNode is alive. The invariant is almost inductive: it needs the      *)
(* pointer's boot (BootKnows) and that no loop owns a handler that is still    *)
(* waiting for its block.                                                      *)

LoopInv == /\ SyncingHasOneLoop
           /\ \A j \in Slots : job[j].stage = Fetching => job[j].owner = "nobody"

\* Steps after which every loop is as alive as it was.
LEMMA LoopsKept ==
    ASSUME LoopInv, mode' = mode, next # Undefined => next' # Undefined,
           \A l \in Loops : /\ loop'[l].pc = "idle" <=> loop[l].pc = "idle"
                            /\ loop'[l].pc = "running" <=> loop[l].pc = "running",
           \A k \in Slots : \/ job'[k].owner = job[k].owner
                            \/ job'[k].owner \notin Loops /\ job[k].owner \notin Loops,
           \A k \in Slots : job'[k].stage = Fetching => job'[k].owner = "nobody"
    PROVE  LoopInv'
BY DEF LoopInv, SyncingHasOneLoop

\* Steps after which no loop is alive.
LEMMA LoopsOver ==
    ASSUME mode' # "SYNCING", \A l \in Loops : loop'[l].pc = "idle",
           \A k \in Slots : job'[k].owner \notin Loops,
           \A k \in Slots : job'[k].stage = Fetching => job'[k].owner = "nobody"
    PROVE  LoopInv'
BY DEF LoopInv, SyncingHasOneLoop

\* Steps after which l is alive, as the only one, and awaits at most the run j.
LEMMA OneLoop ==
    ASSUME mode' = "SYNCING", next' # Undefined,
           NEW l \in Loops, loop'[l].pc # "idle",
           \A m \in Loops : m # l => loop'[m].pc = "idle",
           NEW j \in Slots, \A k \in Slots : k # j => job'[k].owner \notin Loops,
           IF loop'[l].pc = "running" THEN job'[j].owner = l ELSE job'[j].owner \notin Loops,
           \A k \in Slots : job'[k].stage = Fetching => job'[k].owner = "nobody"
    PROVE  LoopInv'
BY DEF LoopInv, SyncingHasOneLoop

\* While l is alive no other loop is, and only l awaits a run.
LEMMA AliveAlone ==
    ASSUME LoopInv, NEW l \in Loops, loop[l].pc # "idle"
    PROVE  /\ mode = "SYNCING" /\ next # Undefined
           /\ \A m \in Loops : m # l => loop[m].pc = "idle"
           /\ \A k \in Slots : job[k].owner \in Loops => job[k].owner = l
           /\ loop[l].pc # "running" => \A k \in Slots : job[k].owner \notin Loops
BY DEF LoopInv, SyncingHasOneLoop

-----------------------------------------------------------------------------
\* Initially no loop is alive.
LEMMA InitLoopInv == Init => LoopInv
<1> SUFFICES ASSUME Init PROVE LoopInv
  OBVIOUS
<1>1. \A l \in Loops : loop[l].pc = "idle"
  BY DEF Init, IdleLoop
<1>2. \A j \in Slots : job[j].owner = "free" /\ job[j].stage # Fetching
  BY DEF Init, FreeJob, Fetching, Finished
<1>. QED BY <1>1, <1>2, OwnerFacts DEF Init, LoopInv, SyncingHasOneLoop

\* The boot sets RESTART while the pointer is unknown, when no loop is alive.
LEMMA BootLoopInv == ASSUME TypeInv, BootKnows, LoopInv, Boot PROVE LoopInv'
<1> USE DEF envVars, memVars, dbVars
<1>0. \A k \in Slots : job[k].stage = Fetching => job[k].owner = "nobody"
  BY DEF LoopInv
<1>1. CASE BootRestart
  <2>1. \A l \in Loops : loop[l].pc = "idle"
    BY <1>1 DEF BootRestart, BootKnows, TypeInv, PointerKnown
  <2>2. \A k \in Slots : job[k].owner \notin Loops
    BY <1>1 DEF BootRestart, BootKnows, TypeInv, PointerKnown
  <2>. QED BY <1>0, <1>1, <2>1, <2>2, LoopsOver DEF BootRestart
<1>2. CASE ~BootRestart
  <2>1. mode' = mode /\ loop' = loop /\ job' = job /\ (next # Undefined => next' # Undefined)
    BY <1>2, HeightFacts
       DEF Boot, BootNodeInfo, BootLookup, BootFirstRun, BootCreateRow, BootStartUpCommands
  <2>. QED BY <1>0, <2>1, LoopsKept
<1>. QED BY <1>1, <1>2

\* A loop starts only if the mode is not SYNCING, hence no other is alive.
LEMMA NewBlockLoopInv ==
    ASSUME QuietBoot PROVE TypeInv /\ LoopInv /\ NewBlock => LoopInv'
<1> SUFFICES ASSUME TypeInv, LoopInv, NEW h \in Heights,
                    \/ NewBlockIgnored(h)
                    \/ \E l \in Loops : NewBlockStartsSync(h, l)
                    \/ \E j \in Slots : NewBlockFetches(h, j)
             PROVE  LoopInv'
  BY DEF NewBlock
<1> USE DEF envVars, memVars, dbVars
<1>0. \A k \in Slots : job[k].stage = Fetching => job[k].owner = "nobody"
  BY DEF LoopInv
<1>1. CASE NewBlockIgnored(h)
  BY <1>0, <1>1, LoopsKept DEF NewBlockIgnored
<1>2. ASSUME NEW l \in Loops, NewBlockStartsSync(h, l) PROVE LoopInv'
  <2>1. mode # "SYNCING" /\ next # Undefined
    BY <1>2 DEF NewBlockStartsSync, Ignores, Announce
  <2>2. /\ \A m \in Loops : loop[m].pc = "idle"
        /\ \A k \in Slots : job[k].owner \notin Loops
    BY <2>1 DEF LoopInv, SyncingHasOneLoop
  <2>3. /\ mode' = "SYNCING" /\ next' = next /\ job' = job
        /\ loop'[l].pc = "ready" /\ \A m \in Loops : m # l => loop'[m].pc = "idle"
    BY <1>2, <2>2 DEF NewBlockStartsSync, TypeInv, TypeOK, Loop
  <2>4. LoopInv'
    BY <1>0, <2>1, <2>2, <2>3 DEF LoopInv, SyncingHasOneLoop
  <2>. QED BY <2>4
<1>3. ASSUME NEW j \in Slots, NewBlockFetches(h, j) PROVE LoopInv'
  <2>1. job[j].owner = "free" /\ job'[j].owner = "nobody"
        /\ \A k \in Slots : k # j => job'[k] = job[k]
    BY <1>3 DEF NewBlockFetches, FetchingJob, TypeInv, TypeOK
  <2>. QED BY <1>0, <1>3, <2>1, LoopsKept, OwnerFacts DEF NewBlockFetches
<1>. QED BY <1>1, <1>2, <1>3

\* A loop stays alive until it hands over or fails.
LEMMA SyncLoopInv == ASSUME TypeInv, LoopInv, NEW l \in Loops, Sync(l) PROVE LoopInv'
<1> USE DEF envVars, memVars, dbVars
<1>0. \A k \in Slots : job[k].stage = Fetching => job[k].owner = "nobody"
  BY DEF LoopInv
<1>a. loop \in [Loops -> Loop] /\ loop[l] \in Loop
  BY DEF TypeInv, TypeOK
<1>1. CASE LoopRequests(l) \/ LoopRetries(l) \/ LoopNodeInfo(l)
  <2>1. \A m \in Loops : /\ loop'[m].pc = "idle" <=> loop[m].pc = "idle"
                         /\ loop'[m].pc = "running" <=> loop[m].pc = "running"
    BY <1>a, <1>1 DEF LoopRequests, LoopRetries, LoopNodeInfo, Answered, IdleLoop, Loop
  <2>2. mode' = mode /\ next' = next /\ job' = job
    BY <1>1 DEF LoopRequests, LoopRetries, LoopNodeInfo
  <2>. QED BY <1>0, <2>1, <2>2, LoopsKept
<1>2. CASE LoopExits(l)
  BY <1>2, AliveAlone DEF LoopExits
<1>3. CASE LoopFetchFails(l)
  <2>1. \A m \in Loops : loop'[m].pc = "idle"
    BY <1>a, <1>3, AliveAlone DEF LoopFetchFails, LoopRejects, IdleLoop
  <2>2. \A k \in Slots : job[k].owner \notin Loops
    BY <1>3, AliveAlone DEF LoopFetchFails
  <2>. QED BY <1>0, <1>3, <2>1, <2>2, LoopsOver DEF LoopFetchFails, LoopRejects
<1>4. ASSUME NEW j \in Slots, LoopStartsBatch(l, j) PROVE LoopInv'
  <2>0. loop[l].pc = "fetching"
    BY <1>4 DEF LoopStartsBatch, Answered
  <2>1. /\ job'[j].owner = l /\ job'[j].stage = Header
        /\ \A k \in Slots : k # j => job'[k] = job[k]
    BY <1>4 DEF LoopStartsBatch, StartedJob, TypeInv, TypeOK
  <2>2. /\ loop'[l].pc = "running" /\ mode' = mode /\ next' = next
        /\ \A m \in Loops : m # l => loop'[m] = loop[m]
    BY <1>4, <1>a DEF LoopStartsBatch, Loop
  <2>3. Header # Fetching
    BY DEF Header, Fetching
  <2>. QED BY <1>0, <2>0, <2>1, <2>2, <2>3, AliveAlone, OneLoop
<1>5. ASSUME NEW j \in Slots, LoopBatchDone(l, j) PROVE LoopInv'
  <2>1. loop[l].pc = "running"
    BY <1>5 DEF LoopBatchDone, LoopInv, SyncingHasOneLoop
  <2>2. \A k \in Slots : k # j => job[k].owner \notin Loops
    BY <1>5 DEF LoopBatchDone, LoopInv, SyncingHasOneLoop
  <2>3. /\ job'[j].owner = "free" /\ job'[j].stage # Fetching
        /\ \A k \in Slots : k # j => job'[k] = job[k]
    BY <1>5 DEF LoopBatchDone, FreeJob, TypeInv, TypeOK, Fetching, Finished
  <2>4. CASE CaughtUp(l)
    <3>1. \A m \in Loops : loop'[m].pc = "idle"
      BY <1>a, <1>5, <2>1, <2>4, AliveAlone DEF LoopBatchDone, IdleLoop
    <3>. QED BY <1>0, <1>5, <2>2, <2>3, <2>4, <3>1, LoopsOver, OwnerFacts DEF LoopBatchDone
  <2>5. CASE ~CaughtUp(l)
    <3>1. /\ loop'[l].pc = "ready" /\ mode' = mode /\ next' = next
          /\ \A m \in Loops : m # l => loop'[m] = loop[m]
      BY <1>a, <1>5, <2>5 DEF LoopBatchDone, IdleLoop
    <3>. QED BY <1>0, <2>1, <2>2, <2>3, <3>1, AliveAlone, OneLoop, OwnerFacts
  <2>. QED BY <2>4, <2>5
<1>. QED BY <1>1, <1>2, <1>3, <1>4, <1>5 DEF Sync

\* The steps of a run touch no loop and keep its owner.
LEMMA IndexLoopInv == ASSUME TypeInv, LoopInv, NEW j \in Slots, Index(j) PROVE LoopInv'
<1>0. job[j] \in Job
  BY DEF TypeInv, TypeOK
<1>1. UNCHANGED <<mode, next, loop>>
  BY DEF Index, HeaderWritten, HeaderClash, TableWritten, FinalityChecked, RanksUpdated,
         StageFails, RewardsCredited, FeesWritten, envVars, memVars, dbVars
<1>2. \/ \E stage \in {Transactions, Assets, ChainEvents, Finality, Rewards, Fees, Ranks} :
            job' = Goto(j, stage)
      \/ \E S : job' = [job EXCEPT ![j].todo = @ \ S]
      \/ job' = [job EXCEPT ![j].stage = Finished, ![j].todo = {}]
  <2>1. CASE TableWritten(j)
    BY <2>1 DEF TableWritten, Transactions, Assets, ChainEvents, Finality
  <2>2. CASE ~TableWritten(j)
    BY <2>2 DEF Index, HeaderWritten, HeaderClash, FinalityChecked, RanksUpdated,
                StageFails, RewardsCredited, FeesWritten, Ends
  <2>. QED BY <2>1, <2>2
<1>3. \A s \in {Transactions, Assets, ChainEvents, Finality, Rewards, Fees, Ranks, Finished} :
         s # Fetching
  BY DEF Fetching, Transactions, Assets, ChainEvents, Finality, Rewards, Fees, Ranks, Finished
<1>4. /\ job'[j].owner = job[j].owner
      /\ job'[j].stage = job[j].stage \/ job'[j].stage # Fetching
      /\ \A k \in Slots : k # j => job'[k] = job[k]
  <2>1. CASE \E stage \in {Transactions, Assets, ChainEvents, Finality, Rewards, Fees, Ranks} :
               job' = Goto(j, stage)
    BY <1>0, <1>3, <2>1 DEF Goto, TypeInv, TypeOK, Job
  <2>2. CASE \E S : job' = [job EXCEPT ![j].todo = @ \ S]
    BY <1>0, <2>2 DEF TypeInv, TypeOK, Job
  <2>3. CASE job' = [job EXCEPT ![j].stage = Finished, ![j].todo = {}]
    BY <1>0, <1>3, <2>3 DEF TypeInv, TypeOK, Job
  <2>. QED BY <1>2, <2>1, <2>2, <2>3
<1>. QED BY <1>1, <1>4, LoopsKept DEF LoopInv

\* A new-block handler is owned by nobody before and after its answer.
LEMMA HandlerLoopInv == ASSUME TypeInv, LoopInv, NEW j \in Slots, Handler(j) PROVE LoopInv'
<1> USE DEF envVars, memVars, dbVars
<1>1. job[j].owner = "nobody"
  BY DEF Handler, BlockFetched, BlockFetchFails, LoopInv
<1>2. /\ job'[j].owner \in {"nobody", "free"} /\ job'[j].stage # Fetching
      /\ \A k \in Slots : k # j => job'[k] = job[k]
  BY DEF Handler, BlockFetched, BlockFetchFails, StartedJob, FreeJob, TypeInv, TypeOK,
         Header, Fetching, Finished
<1>3. UNCHANGED <<mode, next, loop>>
  BY DEF Handler, BlockFetched, BlockFetchFails
<1>. QED BY <1>1, <1>2, <1>3, LoopsKept, OwnerFacts DEF LoopInv

\* A rejected Promise.all ends its loop and lets its run go.
LEMMA RunLetGo ==
    ASSUME TypeInv, LoopInv, NEW j \in Slots, job[j].owner \in Loops,
           LoopRejects(job[j].owner), job'[j].owner = "nobody",
           job'[j].stage = job[j].stage, \A k \in Slots : k # j => job'[k] = job[k]
    PROVE  LoopInv'
<1> DEFINE l == job[j].owner
<1>1. loop[l].pc = "running"
  BY DEF LoopInv, SyncingHasOneLoop
<1>2. \A m \in Loops : loop'[m].pc = "idle"
  BY <1>1, AliveAlone DEF LoopRejects, IdleLoop, TypeInv, TypeOK
<1>3. \A k \in Slots : job'[k].owner \notin Loops
  BY OwnerFacts DEF LoopInv, SyncingHasOneLoop
<1>4. \A k \in Slots : job'[k].stage = Fetching => job'[k].owner = "nobody"
  BY DEF LoopInv
<1>. QED BY <1>2, <1>3, <1>4, LoopsOver DEF LoopRejects

\* The tasks awaited with a run end its loop only by rejecting.
LEMMA AwaitLoopInv ==
    ASSUME TypeInv, LoopInv, NEW j \in Slots, Await(j) PROVE LoopInv'
<1> USE DEF envVars, memVars, dbVars
<1>0. job[j] \in Job /\ \A k \in Slots : job[k].stage = Fetching => job[k].owner = "nobody"
  BY DEF TypeInv, TypeOK, LoopInv
<1>1. CASE CacheFails(j)
  <2>1. /\ job'[j].owner = "nobody" /\ job'[j].stage = job[j].stage
        /\ \A k \in Slots : k # j => job'[k] = job[k]
    BY <1>0, <1>1 DEF CacheFails, TypeInv, TypeOK, Job
  <2>. QED BY <1>1, <2>1, RunLetGo DEF CacheFails
<1>2. CASE PointerSaved(j) \/ PointerSet(j)
  <2>1. /\ job'[j].owner = job[j].owner /\ job'[j].stage = job[j].stage
        /\ \A k \in Slots : k # j => job'[k] = job[k]
    BY <1>0, <1>2 DEF PointerSaved, PointerSet, TypeInv, TypeOK, Job
  <2>2. next' # Undefined \/ next' = next
    BY <1>0, <1>2, HeightFacts, IndexerAssumption
       DEF PointerSaved, PointerSet, HeightAfter, Job, Heights, Undefined
  <2>. QED BY <1>0, <1>2, <2>1, <2>2, LoopsKept DEF PointerSaved, PointerSet
<1>3. CASE PointerFails(j)
  <2>1. /\ job'[j].owner = "nobody" /\ job'[j].stage = job[j].stage
        /\ \A k \in Slots : k # j => job'[k] = job[k]
    BY <1>0, <1>3 DEF PointerFails, TypeInv, TypeOK, Job
  <2>2. CASE job[j].owner \in Loops
    BY <1>3, <2>1, <2>2, RunLetGo DEF PointerFails
  <2>3. CASE job[j].owner \notin Loops
    <3>1. mode' = mode /\ loop' = loop /\ next' = next
      BY <1>3, <2>3 DEF PointerFails
    <3>. QED BY <1>0, <2>1, <2>3, <3>1, LoopsKept, OwnerFacts
  <2>. QED BY <2>2, <2>3
<1>4. CASE Settles(j)
  <2>1. /\ job'[j].owner = "free" /\ job'[j].stage # Fetching
        /\ \A k \in Slots : k # j => job'[k] = job[k]
    BY <1>4 DEF Settles, FreeJob, TypeInv, TypeOK, Fetching, Finished
  <2>. QED BY <1>0, <1>4, <2>1, LoopsKept, OwnerFacts DEF Settles
<1>. QED BY <1>1, <1>2, <1>3, <1>4 DEF Await

\* A crash ends every loop.
LEMMA CrashLoopInv == ASSUME Crash PROVE LoopInv'
<1>1. \A l \in Loops : loop'[l].pc = "idle"
  BY DEF Crash, IdleLoop
<1>2. \A k \in Slots : job'[k].owner = "free" /\ job'[k].stage # Fetching
  BY DEF Crash, FreeJob, Fetching, Finished
<1>. QED BY <1>1, <1>2, LoopsOver, OwnerFacts DEF Crash

\* Every step preserves the invariant.
LEMMA NextLoopInv ==
    ASSUME QuietBoot PROVE TypeInv /\ LedgerInv /\ LoopInv /\ [Next]_vars => LoopInv'
<1> SUFFICES ASSUME TypeInv, LedgerInv, LoopInv, [Next]_vars PROVE LoopInv'
  OBVIOUS
<1>1. CASE ChainGrows \/ UNCHANGED vars
  <2>1. UNCHANGED <<mode, next, loop, job>>
    BY <1>1 DEF ChainGrows, vars, memVars
  <2>. QED BY <2>1, LoopsKept DEF LoopInv
<1>. QED BY <1>1, BootLoopInv, NewBlockLoopInv, SyncLoopInv, HandlerLoopInv,
            IndexLoopInv, AwaitLoopInv, CrashLoopInv DEF Next, LedgerInv

\* With a quiet boot the state SYNCING, which locks the endpoints and makes new
\* blocks ignored, holds exactly while one run of syncWithNode is alive; no failure
\* of a request, a statement or a run leaves it without a loop or with two.
THEOREM SyncingHasOneLoopHolds == ASSUME QuietBoot PROVE Spec => []SyncingHasOneLoop
<1>1. TypeInv /\ LedgerInv /\ LoopInv /\ [Next]_vars => LoopInv'
  BY NextLoopInv
<1>2. LoopInv => SyncingHasOneLoop
  BY DEF LoopInv
<1>. QED BY <1>1, <1>2, InitLoopInv, LedgerInvariant, PTL DEF Spec
=============================================================================
