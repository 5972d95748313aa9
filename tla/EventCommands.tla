---------------------------- MODULE EventCommands ----------------------------
(***************************************************************************)
(* The gateways' commands (event/gateways, event/commands): what a         *)
(* dispatched event refreshes, account balances, validators and stakes, by *)
(* asking the node and writing its answer. Nobody awaits the gateways, so  *)
(* the commands of one batch and of the next run at the same time. Two     *)
(* mutexes, one for validators and one for stakes, order some of them;     *)
(* balances have none, and UpdateBlockGeneratorCommand, which creates      *)
(* validators too, takes neither.                                          *)
(*                                                                         *)
(* Amounts are versions: the node counts the changes of a balance, of a    *)
(* validator and of the stakes of a staker, and a row holds the version of *)
(* the answer it was written from. Of a validator's row these are the      *)
(* columns that the update and the creation both write (stakes, weight,    *)
(* ban, commission, missed blocks, punishments); those that only one of    *)
(* the two writes are either written or not.                               *)
(***************************************************************************)
EXTENDS Integers, Sequences, FiniteSets

CONSTANTS
    Holders,      \* accounts whose balances change
    Stakers,      \* accounts that stake
    Validators,
    Tasks,        \* bound: processChainEvent calls alive at once
    MaxChanges,   \* bound: changes on the node
    MaxFaults     \* bound: failed requests and statements

None == "none"

\* An account is followed in one role: the changes that the model lets happen to a
\* holder's balance, a staker's stakes and a validator touch rows of their own.
ASSUME EventCommandsAssumption ==
    /\ MaxChanges \in Nat /\ MaxFaults \in Nat
    /\ IsFiniteSet(Tasks)
    /\ Holders \cap Stakers = {} /\ Holders \cap Validators = {}
    /\ Stakers \cap Validators = {}
    /\ None \notin Holders \cup Stakers \cup Validators

VARIABLES
    \* the node
    balance,   \* version of an account's balance
    info,      \* version of a validator; 0 before it registers
    stakes,    \* version of a staker's stakes, and the validators they are on
    \* the database
    balanceOf, \* version in the row of the account
    account,   \* row of a validator in Account: None, "bare", or "named"
    validator, \* version in the row of the validator; NoRow, or Bare when only
               \* UpdateBlockGeneratorCommand has written it
    columns,   \* what else its row holds: the "keys" and the sharing coefficients,
               \* which only createValidator writes, the block "reward", which only
               \* an update writes
    stake,     \* rows of Stake: staker, validator, version
    \* memory of the process
    task,
    validatorMutex,  \* tasks that hold (the head) or await the mutex
    stakesMutex,
    \* history
    early,     \* validators that forged while they had no row, until createValidator
               \* makes one
    inserted,  \* version of the stakes that were inserted last
    doubt,     \* what an error, a race or a crash left to the next event
    changes, faults

node == <<balance, info, stakes, changes>>
past == <<early, inserted>>
db   == <<balanceOf, account, validator, columns, stake, past>>
mem  == <<task, validatorMutex, stakesMutex>>
vars == <<node, db, mem, doubt, faults>>

-----------------------------------------------------------------------------
NoRow == -1
Bare  == 0

\* A call of processChainEvent, or the generator's part of a block run.
Task == [event : {None, "balance", "validator", "staked", "generator"},
         who   : Holders \cup Stakers \cup Validators \cup {None},  \* the event's account
         step  : {None, "new", "next", "reading", "account", "create", "answered",
                  "stakes", "delete", "insert"},
         rest  : SUBSET Validators,      \* validators still to process, or staked on
         cur   : Validators \cup {None}, \* validator being processed
         got   : -1 .. MaxChanges,       \* version the node answered; -1 not yet
         found : {"?", "yes", "no"}]     \* what findUnique returned

Idle == [event |-> None, who |-> None, step |-> None, rest |-> {}, cur |-> None,
         got |-> -1, found |-> "?"]
New(event, who) == [Idle EXCEPT !.event = event, !.who = who, !.step = "new"]

Init ==
    /\ balance = [a \in Holders |-> 0]
    /\ info = [v \in Validators |-> 0]
    /\ stakes = [s \in Stakers |-> [version |-> 0, on |-> {}]]
    /\ balanceOf = [a \in Holders |-> 0]
    /\ account = [v \in Validators |-> None]
    /\ validator = [v \in Validators |-> NoRow]
    /\ columns = [v \in Validators |-> {}]
    /\ stake = {}
    /\ task = [t \in Tasks |-> Idle]
    /\ validatorMutex = <<>>
    /\ stakesMutex = <<>>
    /\ early = {}
    /\ inserted = [s \in Stakers |-> 0]
    /\ doubt = {}
    /\ changes = 0
    /\ faults = 0

Put(t, r) == task' = [task EXCEPT ![t] = r]
Free(t)   == task[t].event = None
Change    == changes < MaxChanges /\ changes' = changes + 1
Fault     == faults < MaxFaults /\ faults' = faults + 1

-----------------------------------------------------------------------------
(* The chain: a change and the event that tells of it *)

BalanceChanges(a, t) ==
    /\ Change /\ Free(t)
    /\ balance' = [balance EXCEPT ![a] = @ + 1]
    /\ Put(t, New("balance", a))
    /\ UNCHANGED <<info, stakes, db, validatorMutex, stakesMutex, doubt, faults>>

\* Registered, banned, punished, or another commission: a validator's event.
ValidatorChanges(v, t) ==
    /\ Change /\ Free(t)
    /\ info' = [info EXCEPT ![v] = @ + 1]
    /\ Put(t, [New("validator", v) EXCEPT !.step = "next", !.rest = {v}])
    /\ UNCHANGED <<balance, stakes, db, validatorMutex, stakesMutex, doubt, faults>>

\* A staker now stakes on the registered validators S. All the validators whose
\* stake changes change; those that lost all of it are in no answer any more.
StakesChange(s, S, t) ==
    /\ Change /\ Free(t)
    /\ S # stakes[s].on
    /\ \A v \in S : info[v] > 0
    /\ stakes' = [stakes EXCEPT ![s] = [version |-> @.version + 1, on |-> S]]
    /\ info' = [v \in Validators |-> IF v \in S \cup stakes[s].on THEN info[v] + 1 ELSE info[v]]
    /\ Put(t, New("staked", s))
    /\ doubt' = doubt \cup (stakes[s].on \ S)
    /\ UNCHANGED <<balance, db, validatorMutex, stakesMutex, faults>>

\* A registered validator forged a block, and so has an account, if without a name.
BlockForged(v, t) ==
    /\ Change /\ Free(t)
    /\ info[v] > 0
    /\ account' = [account EXCEPT ![v] = IF @ = None THEN "bare" ELSE @]
    /\ early' = IF validator[v] = NoRow THEN early \cup {v} ELSE early
    /\ Put(t, New("generator", v))
    /\ UNCHANGED <<balance, info, stakes, balanceOf, validator, columns, stake, inserted,
                   validatorMutex, stakesMutex, doubt, faults>>

-----------------------------------------------------------------------------
(* UpdateAccountCommand *)

Others(t, event, step) ==
    \E u \in Tasks \ {t} : task[u].event = event /\ task[u].who = task[t].who /\ task[u].step = step

\* The node answers. Another answer for the account that is not written yet may
\* be written after this one.
BalanceAnswered(t) ==
    /\ task[t].event = "balance" /\ task[t].step = "new"
    /\ Put(t, [task[t] EXCEPT !.step = "answered", !.got = balance[task[t].who]])
    /\ doubt' = IF Others(t, "balance", "answered") THEN doubt \cup {task[t].who}
                                                    ELSE doubt \ {task[t].who}
    /\ UNCHANGED <<node, db, validatorMutex, stakesMutex, faults>>

\* An answer without balances is logged and dropped.
BalanceRefused(t) ==
    /\ Fault
    /\ task[t].event = "balance" /\ task[t].step = "new"
    /\ Put(t, Idle)
    /\ doubt' = doubt \cup {task[t].who}
    /\ UNCHANGED <<node, db, validatorMutex, stakesMutex>>

\* Mutant: only a row that has no balance yet is written.
MutantBalanceWritten(t) ==
    balanceOf' = [balanceOf EXCEPT ![task[t].who] = IF @ = 0 THEN task[t].got ELSE @]

BalanceWritten(t) == balanceOf' = [balanceOf EXCEPT ![task[t].who] = task[t].got]

UpdateAccount(t) ==
    /\ task[t].event = "balance" /\ task[t].step = "answered"
    /\ BalanceWritten(t)
    /\ Put(t, Idle)
    /\ UNCHANGED <<node, account, validator, columns, stake, past, validatorMutex,
                   stakesMutex, doubt, faults>>

-----------------------------------------------------------------------------
(* ProcessValidatorCommand, for each validator that the event names in turn *)

\* Mutant: no mutex.
MutantHolds(t, mutex) == TRUE

Holds(t, mutex) == Head(mutex) = t

\* Mutant: released only at the end of the try block.
MutantReleased(mutex, ok) == IF ok THEN Tail(mutex) ELSE mutex

\* release() stands in a finally block.
Released(mutex, ok) == Tail(mutex)

ProcessValidator(t, v) ==
    /\ task[t].step = "next"
    /\ v \in task[t].rest
    /\ validatorMutex' = Append(validatorMutex, t)
    /\ Put(t, [task[t] EXCEPT !.step = "reading", !.rest = @ \ {v}, !.cur = v,
                              !.got = -1, !.found = "?"])
    /\ UNCHANGED <<node, db, stakesMutex, doubt, faults>>

\* Three requests at once; the two that matter here.
InfoAnswered(t) ==
    /\ task[t].step = "reading" /\ Holds(t, validatorMutex)
    /\ task[t].got = -1
    /\ Put(t, [task[t] EXCEPT !.got = info[task[t].cur]])
    /\ doubt' = doubt \ {task[t].cur}
    /\ UNCHANGED <<node, db, validatorMutex, stakesMutex, faults>>

RowLookedUp(t) ==
    /\ task[t].step = "reading" /\ Holds(t, validatorMutex)
    /\ task[t].found = "?"
    /\ Put(t, [task[t] EXCEPT !.found = IF validator[task[t].cur] = NoRow THEN "no" ELSE "yes"])
    /\ UNCHANGED <<node, db, validatorMutex, stakesMutex, doubt, faults>>

Read(t) == task[t].step = "reading" /\ task[t].got # -1 /\ task[t].found # "?"

\* The row is written: the columns of both branches, and this branch's own.
RowWritten(t, own) ==
    /\ validator' = [validator EXCEPT ![task[t].cur] = task[t].got]
    /\ columns' = [columns EXCEPT ![task[t].cur] = @ \cup {own}]

\* The command is over.
Processed(t, ok) ==
    /\ Put(t, [task[t] EXCEPT !.step = "next", !.cur = None])
    /\ validatorMutex' = Released(validatorMutex, ok)

\* With an error, which is logged.
ProcessedNot(t) ==
    /\ Processed(t, FALSE)
    /\ doubt' = doubt \cup {task[t].cur}
    /\ UNCHANGED <<validator, columns>>

ValidatorUpdated(t) ==
    /\ Read(t) /\ task[t].found = "yes"
    /\ RowWritten(t, "reward")
    /\ Processed(t, TRUE)
    /\ UNCHANGED <<node, balanceOf, account, stake, past, stakesMutex, doubt, faults>>

\* createValidator: upsertAccount looks the account up ...
AccountLookedUp(t) ==
    /\ Read(t) /\ task[t].found = "no"
    /\ Put(t, [task[t] EXCEPT !.step = "account",
                              !.found = IF account[task[t].cur] = None THEN "no" ELSE "yes"])
    /\ UNCHANGED <<node, db, validatorMutex, stakesMutex, doubt, faults>>

\* ... and creates it, unless somebody has done so meanwhile, or names it.
AccountWritten(t) ==
    /\ task[t].step = "account"
    /\ task[t].found = "no" => account[task[t].cur] = None
    /\ account' = [account EXCEPT ![task[t].cur] = "named"]
    /\ Put(t, [task[t] EXCEPT !.step = "create"])
    /\ UNCHANGED <<node, balanceOf, validator, columns, stake, past, validatorMutex,
                   stakesMutex, doubt, faults>>

AccountClash(t) ==
    /\ task[t].step = "account"
    /\ task[t].found = "no" /\ account[task[t].cur] # None
    /\ ProcessedNot(t)
    /\ UNCHANGED <<node, balanceOf, account, stake, past, stakesMutex, faults>>

\* The keys have been asked for; the row is created, unless it exists by now.
ValidatorCreated(t) ==
    /\ task[t].step = "create"
    /\ validator[task[t].cur] = NoRow
    /\ RowWritten(t, "keys")
    /\ Processed(t, TRUE)
    /\ early' = early \ {task[t].cur}
    /\ UNCHANGED <<node, balanceOf, account, stake, inserted, stakesMutex, doubt, faults>>

ValidatorClash(t) ==
    /\ task[t].step = "create"
    /\ validator[task[t].cur] # NoRow
    /\ ProcessedNot(t)
    /\ UNCHANGED <<node, balanceOf, account, stake, past, stakesMutex, faults>>

\* A request of the command fails.
ProcessFails(t) ==
    /\ Fault
    /\ task[t].step \in {"reading", "account", "create"} /\ Holds(t, validatorMutex)
    /\ ProcessedNot(t)
    /\ UNCHANGED <<node, balanceOf, account, stake, past, stakesMutex>>

\* The event of a validator is over.
ValidatorDone(t) ==
    /\ task[t].event = "validator" /\ task[t].step = "next" /\ task[t].rest = {}
    /\ Put(t, Idle)
    /\ UNCHANGED <<node, db, validatorMutex, stakesMutex, doubt, faults>>

-----------------------------------------------------------------------------
(* ValidatorStaked, then AddStakesCommand *)

RowsOf(s) == {r \in stake : r.staker = s}

\* Mutant: only the validators on which the staker has no row yet.
MutantStakedOn(s) == stakes[s].on \ {r.validator : r \in RowsOf(s)}

StakedOn(s) == stakes[s].on

StakerAnswered(t) ==
    /\ task[t].event = "staked" /\ task[t].step = "new"
    /\ Put(t, [task[t] EXCEPT !.step = "next", !.rest = StakedOn(task[t].who)])
    /\ UNCHANGED <<node, db, validatorMutex, stakesMutex, doubt, faults>>

AddStakes(t) ==
    /\ task[t].event = "staked" /\ task[t].step = "next" /\ task[t].rest = {}
    /\ stakesMutex' = Append(stakesMutex, t)
    /\ Put(t, [task[t] EXCEPT !.step = "stakes"])
    /\ UNCHANGED <<node, db, validatorMutex, doubt, faults>>

StakesAnswered(t) ==
    /\ task[t].event = "staked" /\ task[t].step = "stakes" /\ Holds(t, stakesMutex)
    /\ Put(t, [task[t] EXCEPT !.step = "delete", !.got = stakes[task[t].who].version,
                              !.rest = stakes[task[t].who].on])
    /\ UNCHANGED <<node, db, validatorMutex, stakesMutex, doubt, faults>>

\* Mutant: only the rows that are written again.
MutantOldRows(t) == {r \in RowsOf(task[t].who) : r.validator \in task[t].rest}

OldRows(t) == RowsOf(task[t].who)

StakesDeleted(t) ==
    /\ task[t].step = "delete" /\ Holds(t, stakesMutex)
    /\ stake' = stake \ OldRows(t)
    /\ Put(t, [task[t] EXCEPT !.step = "insert"])
    /\ UNCHANGED <<node, balanceOf, account, validator, columns, past, validatorMutex,
                   stakesMutex, doubt, faults>>

\* createMany: the key is the staker and the validator, and each validator must
\* have its row.
CanInsert(t) ==
    /\ \A v \in task[t].rest : validator[v] # NoRow
    /\ \A r \in RowsOf(task[t].who) : r.validator \notin task[t].rest

StakesInserted(t) ==
    /\ task[t].step = "insert" /\ Holds(t, stakesMutex)
    /\ CanInsert(t)
    /\ stake' = stake \cup {[staker |-> task[t].who, validator |-> v, version |-> task[t].got] :
                               v \in task[t].rest}
    /\ stakesMutex' = Released(stakesMutex, TRUE)
    /\ Put(t, Idle)
    /\ doubt' = doubt \ {task[t].who}
    /\ inserted' = [inserted EXCEPT ![task[t].who] = task[t].got]
    /\ UNCHANGED <<node, balanceOf, account, validator, columns, early, validatorMutex, faults>>

-----------------------------------------------------------------------------
(* UpdateBlockGeneratorCommand, as far as it writes the validator's row *)

GeneratorLookedUp(t) ==
    /\ task[t].event = "generator" /\ task[t].step = "new"
    /\ Put(t, [task[t] EXCEPT !.step = "answered",
                              !.found = IF validator[task[t].who] = NoRow THEN "no" ELSE "yes"])
    /\ UNCHANGED <<node, db, validatorMutex, stakesMutex, doubt, faults>>

\* Created without the node's answers, unless it exists by now; an update leaves
\* what the node answered alone.
GeneratorWritten(t) ==
    /\ task[t].event = "generator" /\ task[t].step = "answered"
    /\ validator' = [validator EXCEPT ![task[t].who] =
                         IF task[t].found = "no" /\ @ = NoRow THEN Bare ELSE @]
    /\ Put(t, Idle)
    /\ UNCHANGED <<node, balanceOf, account, columns, stake, past, validatorMutex,
                   stakesMutex, doubt, faults>>

-----------------------------------------------------------------------------
(* A rejection that nobody handles ends the process, which is started again *)

Subjects(t) ==
    IF Free(t) THEN {}
    ELSE {task[t].who, task[t].cur} \cup task[t].rest
         \cup IF task[t].event = "staked" THEN stakes[task[t].who].on ELSE {}

Dies ==
    /\ doubt' = (doubt \cup UNION {Subjects(t) : t \in Tasks}) \ {None}
    /\ task' = [t \in Tasks |-> Idle]
    /\ validatorMutex' = <<>>
    /\ stakesMutex' = <<>>
    /\ UNCHANGED <<node, db>>

\* A request of a gateway, of UpdateAccountCommand or of AddStakesCommand fails,
\* or the process is stopped.
Crash == Fault /\ Dies

InsertFails(t) ==
    /\ task[t].step = "insert" /\ Holds(t, stakesMutex)
    /\ ~CanInsert(t)
    /\ Dies
    /\ UNCHANGED faults

-----------------------------------------------------------------------------
Step(t) ==
    \/ BalanceAnswered(t) \/ BalanceRefused(t) \/ UpdateAccount(t)
    \/ \E v \in Validators : ProcessValidator(t, v)
    \/ InfoAnswered(t) \/ RowLookedUp(t) \/ ValidatorUpdated(t)
    \/ AccountLookedUp(t) \/ AccountWritten(t) \/ AccountClash(t)
    \/ ValidatorCreated(t) \/ ValidatorClash(t) \/ ProcessFails(t) \/ ValidatorDone(t)
    \/ StakerAnswered(t) \/ AddStakes(t) \/ StakesAnswered(t)
    \/ StakesDeleted(t) \/ StakesInserted(t) \/ InsertFails(t)
    \/ GeneratorLookedUp(t) \/ GeneratorWritten(t)

Chain(t) ==
    \/ \E a \in Holders : BalanceChanges(a, t)
    \/ \E v \in Validators : ValidatorChanges(v, t) \/ BlockForged(v, t)
    \/ \E s \in Stakers, S \in SUBSET Validators : StakesChange(s, S, t)

Next == (\E t \in Tasks : Chain(t) \/ Step(t)) \/ Crash

Spec == Init /\ [][Next]_vars

\* Requests are answered or time out, statements return or throw.
FairSpec == Spec /\ \A t \in Tasks : WF_vars(Step(t))

-----------------------------------------------------------------------------
(* Properties *)

Alive(events) == \E t \in Tasks : task[t].event \in events

\* When no update of an account is under way, its row holds the node's balance,
\* unless an update failed, or the last two ran at the same time: that is all
\* the missing mutex costs.
BalanceSettles ==
    \A a \in Holders :
        a \notin doubt /\ ~(\E t \in Tasks : task[t].who = a) => balanceOf[a] = balance[a]

\* When no validator is being processed, the columns of a registered validator's
\* row that both branches write are what the node says, and the row has its keys
\* and its account a name, unless the validator forged a block before it had a row:
\* UpdateBlockGeneratorCommand may then have created it, nothing adds the keys or
\* the name later, but the row has been updated with a block reward. Left out are an
\* error of the last command and a validator that lost all of a stake, which no
\* gateway asks about.
Complete(v)   == "keys" \in columns[v] /\ account[v] = "named"
Incomplete(v) == v \in early /\ "reward" \in columns[v]

ValidatorSettles ==
    ~Alive({"validator", "staked"}) =>
        \A v \in Validators \ doubt :
            info[v] > 0 => validator[v] = info[v] /\ (Complete(v) \/ Incomplete(v))

\* When no stakes are being added, the rows of a staker are the node's stakes:
\* none of an earlier answer is left, none is missing.
StakesSettle ==
    ~Alive({"staked"}) =>
        \A s \in Stakers \ doubt :
            RowsOf(s) = {[staker |-> s, validator |-> v, version |-> stakes[s].version] :
                         v \in stakes[s].on}

\* The mutexes: an older answer of the node never replaces a newer one. A staker's
\* rows are those of the answer that was inserted last, and no answer is inserted
\* after a newer one, however many steps lie between the two.
NeverOlder ==
    [][/\ \A v \in Validators : validator'[v] >= validator[v]
       /\ \A s \in Stakers : inserted'[s] >= inserted[s]
       /\ \A r \in stake' : r.version = inserted'[r.staker]]_vars

\* Every event's commands come to an end: whatever fails, no mutex stays locked.
EventsEnd == \A t \in Tasks : ~Free(t) ~> Free(t)
=============================================================================
