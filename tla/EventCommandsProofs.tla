------------------------ MODULE EventCommandsProofs ------------------------
(***************************************************************************)
(* Theorems about EventCommands, for any accounts, any number of commands  *)
(* alive at once, and any number of changes and of faults.                 *)
(***************************************************************************)
EXTENDS EventCommands, TLAPS

-----------------------------------------------------------------------------
(* The inductive invariant *)

Processing == {"reading", "account", "create"}   \* in ProcessValidatorCommand
Replacing  == {"delete", "insert"}               \* the node's stakes are known

TypeInv ==
    /\ changes \in 0 .. MaxChanges
    /\ balance \in [Holders -> 0 .. changes]
    /\ info \in [Validators -> 0 .. changes]
    /\ stakes \in [Stakers -> [version : 0 .. changes, on : SUBSET Validators]]
    /\ balanceOf \in [Holders -> Int]
    /\ account \in [Validators -> {None, "bare", "named"}]
    /\ validator \in [Validators -> Int]
    /\ columns \in [Validators -> SUBSET {"keys", "reward"}]
    /\ stake \subseteq [staker : Stakers, validator : Validators, version : Int]
    /\ task \in [Tasks -> Task]
    /\ early \subseteq Validators
    /\ inserted \in [Stakers -> Int]
    /\ faults \in 0 .. MaxFaults

\* Which steps the commands of an event go through, and with which account.
Steps(k) ==
    /\ k.event = None => k = Idle
    /\ k.event = "balance" => k.who \in Holders /\ k.step \in {"new", "answered"}
    /\ k.event = "validator" => k.who \in Validators /\ k.step \in {"next"} \cup Processing
    /\ k.event = "staked" =>
           /\ k.who \in Stakers
           /\ k.step \in {"new", "next", "stakes"} \cup Processing \cup Replacing
    /\ k.event = "generator" => k.who \in Validators /\ k.step \in {"new", "answered"}
    /\ k.step \in Processing <=> k.cur \in Validators
    /\ k.step \in {"account", "create"} => k.got # -1

StepsInv == \A t \in Tasks : Steps(task[t])

\* The tasks S hold (the head) or await the mutex, each once.
Queue(mutex, S) ==
    /\ mutex \in Seq(Tasks)
    /\ \A t \in Tasks : t \in S <=> \E i \in 1 .. Len(mutex) : mutex[i] = t
    /\ \A i, j \in 1 .. Len(mutex) : mutex[i] = mutex[j] => i = j

ForValidator == {t \in Tasks : task[t].step \in Processing}
ForStakes    == {t \in Tasks : task[t].step \in {"stakes"} \cup Replacing}

\* A command that got past the mutex: it has read something.
Inside(k) ==
    \/ k.step \in {"account", "create"}
    \/ k.step = "reading" /\ (k.got # -1 \/ k.found # "?")

\* Only the head of a mutex got past it.
ValidatorMutexInv ==
    /\ Queue(validatorMutex, ForValidator)
    /\ \A t \in Tasks : Inside(task[t]) => Head(validatorMutex) = t
StakesMutexInv ==
    /\ Queue(stakesMutex, ForStakes)
    /\ \A t \in Tasks : task[t].step \in Replacing => Head(stakesMutex) = t

\* An answer that will be written is no older than the row and no newer than
\* the validator.
AnswerInv ==
    /\ \A v \in Validators : validator[v] <= info[v]
    /\ \A t \in Tasks :
          task[t].step \in Processing /\ task[t].got # -1 =>
              validator[task[t].cur] <= task[t].got /\ task[t].got <= info[task[t].cur]

\* The rows of a staker are of the answer inserted last; none is left when the next
\* is inserted.
RowsInv ==
    /\ \A r \in stake : r.version = inserted[r.staker]
    /\ \A t \in Tasks : task[t].step = "insert" => \A r \in stake : r.staker # task[t].who

\* Stakes that will be inserted are no older than those inserted last, and no newer
\* than the node's.
InsertedInv ==
    /\ \A s \in Stakers : inserted[s] <= stakes[s].version
    /\ \A t \in Tasks :
          task[t].step \in Replacing =>
              /\ inserted[task[t].who] <= task[t].got
              /\ task[t].got <= stakes[task[t].who].version

\* A row without keys was made by UpdateBlockGeneratorCommand, for a validator that
\* forged before it had one; a row that holds an answer was created with the keys,
\* for a named account, or updated with a reward.
ColumnsInv ==
    /\ \A v \in Validators :
          /\ "keys" \in columns[v] => account[v] = "named"
          /\ validator[v] # NoRow /\ "keys" \notin columns[v] => v \in early
          /\ validator[v] > 0 => columns[v] # {}
    /\ \A t \in Tasks :
          /\ task[t].event = "generator" /\ validator[task[t].who] = NoRow =>
                 task[t].who \in early
          /\ task[t].step = "reading" /\ task[t].found = "yes" => validator[task[t].cur] # NoRow
          /\ task[t].step = "create" => account[task[t].cur] = "named"

AsksBalance(t, a) == task[t].event = "balance" /\ task[t].who = a /\ task[t].step = "new"
HasBalance(t, a)  == task[t].event = "balance" /\ task[t].who = a /\ task[t].step = "answered"

\* Without doubt and when nobody is about to ask, one command holds the balance,
\* or the row does.
BalanceInv ==
    \A a \in Holders :
        a \notin doubt /\ (\A t \in Tasks : ~AsksBalance(t, a)) =>
            /\ (\A t \in Tasks : ~HasBalance(t, a)) => balanceOf[a] = balance[a]
            /\ \A t \in Tasks : HasBalance(t, a) => task[t].got = balance[a]
            /\ \A t, u \in Tasks : HasBalance(t, a) /\ HasBalance(u, a) => t = u

AsksStakes(t, s) ==
    /\ task[t].event = "staked" /\ task[t].who = s
    /\ task[t].step \in {"new", "next", "stakes"} \cup Processing
HasStakes(t, s)  == task[t].event = "staked" /\ task[t].who = s /\ task[t].step \in Replacing

StakesOf(s) == {[staker |-> s, validator |-> v, version |-> stakes[s].version] :
                v \in stakes[s].on}

\* The same of the stakes: the last of the commands replaces the rows.
StakesInv ==
    \A s \in Stakers :
        (\A t \in Tasks : ~AsksStakes(t, s)) =>
            /\ \A t \in Tasks : HasStakes(t, s) => /\ task[t].got = stakes[s].version
                                                   /\ task[t].rest = stakes[s].on
            /\ s \notin doubt /\ (\A t \in Tasks : ~HasStakes(t, s)) =>
                   RowsOf(s) = StakesOf(s)

\* A command will process the validator, or is processing it and will not write
\* an older answer.
WillProcess(t, v) ==
    \/ /\ task[t].event \in {"validator", "staked"}
       /\ task[t].step \in {"next"} \cup Processing
       /\ v \in task[t].rest
    \/ task[t].event = "staked" /\ task[t].step = "new" /\ v \in stakes[task[t].who].on
    \/ task[t].step \in Processing /\ task[t].cur = v /\ task[t].got \in {-1, info[v]}

\* Without doubt, the row of a registered validator that no command will process
\* is what the node says.
ValidatorInv ==
    \A v \in Validators :
        v \notin doubt /\ info[v] > 0 /\ (\A t \in Tasks : ~WillProcess(t, v)) =>
            validator[v] = info[v]

-----------------------------------------------------------------------------
(* Lemmas about the mutexes *)

\* A mutex that somebody is in has a head, who is in it.
LEMMA QueueHead ==
    ASSUME NEW m, NEW S, NEW t \in Tasks, Queue(m, S), t \in S
    PROVE  m # <<>> /\ Len(m) \in Nat \ {0} /\ Head(m) = m[1] /\ Head(m) \in S
<1>1. PICK i \in 1 .. Len(m) : m[i] = t
  BY DEF Queue
<1>2. m \in Seq(Tasks) /\ Len(m) \in Nat \ {0}
  BY <1>1 DEF Queue
<1>3. Head(m) = m[1] /\ m[1] \in Tasks /\ 1 \in 1 .. Len(m)
  BY <1>2
<1>. QED BY <1>2, <1>3 DEF Queue

\* Who asks for a mutex comes last, and displaces nobody.
LEMMA QueueJoin ==
    ASSUME NEW m, NEW S, NEW t \in Tasks, Queue(m, S), t \notin S
    PROVE  /\ Queue(Append(m, t), S \cup {t})
           /\ \A u \in S \cap Tasks : Head(m) = u => Head(Append(m, t)) = u
<1>1. m \in Seq(Tasks) /\ Len(m) \in Nat
  BY DEF Queue
<1>2. /\ Append(m, t) \in Seq(Tasks) /\ Len(Append(m, t)) = Len(m) + 1
      /\ \A i \in 1 .. Len(m) : Append(m, t)[i] = m[i]
      /\ Append(m, t)[Len(m) + 1] = t
  BY <1>1
<1>3. \A i \in 1 .. Len(m) : m[i] # t
  BY DEF Queue
<1>4. \A u \in Tasks : u \in S \cup {t} <=> \E i \in 1 .. Len(m) + 1 : Append(m, t)[i] = u
  <2>1. ASSUME NEW u \in Tasks, u \in S \cup {t}
        PROVE  \E i \in 1 .. Len(m) + 1 : Append(m, t)[i] = u
    <3>1. CASE u = t
      BY <3>1, <1>1, <1>2
    <3>2. CASE u \in S
      <4>1. PICK i \in 1 .. Len(m) : m[i] = u
        BY <3>2 DEF Queue
      <4>. QED BY <4>1, <1>1, <1>2
    <3>. QED BY <2>1, <3>1, <3>2
  <2>2. ASSUME NEW u \in Tasks, NEW i \in 1 .. Len(m) + 1, Append(m, t)[i] = u
        PROVE  u \in S \cup {t}
    <3>1. CASE i \in 1 .. Len(m)
      BY <3>1, <2>2, <1>2 DEF Queue
    <3>2. CASE i = Len(m) + 1
      BY <3>2, <2>2, <1>2
    <3>. QED BY <1>1, <3>1, <3>2
  <2>. QED BY <2>1, <2>2
<1>5. \A i, j \in 1 .. Len(m) + 1 : Append(m, t)[i] = Append(m, t)[j] => i = j
  BY <1>1, <1>2, <1>3 DEF Queue
<1>6. ASSUME NEW u \in S \cap Tasks, Head(m) = u PROVE Head(Append(m, t)) = u
  BY <1>6, <1>1, <1>2, QueueHead
<1>. QED BY <1>2, <1>4, <1>5, <1>6 DEF Queue

\* The head leaves the others their places.
LEMMA QueueLeave ==
    ASSUME NEW m, NEW S, NEW t \in Tasks, Queue(m, S), t \in S, Head(m) = t
    PROVE  Queue(Tail(m), S \ {t})
<1>1. m \in Seq(Tasks) /\ Len(m) \in Nat \ {0} /\ m[1] = t
  BY QueueHead DEF Queue
<1>2. /\ Tail(m) \in Seq(Tasks) /\ Len(Tail(m)) = Len(m) - 1
      /\ \A i \in 1 .. Len(m) - 1 : Tail(m)[i] = m[i + 1]
  BY <1>1
<1>3. \A u \in Tasks : u \in S \ {t} <=> \E i \in 1 .. Len(m) - 1 : Tail(m)[i] = u
  <2>1. ASSUME NEW u \in Tasks, u \in S \ {t}
        PROVE  \E i \in 1 .. Len(m) - 1 : Tail(m)[i] = u
    <3>1. PICK i \in 1 .. Len(m) : m[i] = u
      BY <2>1 DEF Queue
    <3>2. i # 1 /\ i - 1 \in 1 .. Len(m) - 1 /\ (i - 1) + 1 = i
      BY <3>1, <2>1, <1>1
    <3>. QED BY <3>1, <3>2, <1>2
  <2>2. ASSUME NEW u \in Tasks, NEW i \in 1 .. Len(m) - 1, Tail(m)[i] = u
        PROVE  u \in S \ {t}
    <3>1. i + 1 \in 1 .. Len(m) /\ i + 1 # 1 /\ 1 \in 1 .. Len(m) /\ m[i + 1] = u
      BY <2>2, <1>1, <1>2
    <3>2. u # t
      BY <3>1, <1>1 DEF Queue
    <3>. QED BY <3>1, <3>2 DEF Queue
  <2>. QED BY <2>1, <2>2
<1>4. \A i, j \in 1 .. Len(m) - 1 : Tail(m)[i] = Tail(m)[j] => i = j
  <2> SUFFICES ASSUME NEW i \in 1 .. Len(m) - 1, NEW j \in 1 .. Len(m) - 1,
                      Tail(m)[i] = Tail(m)[j]
               PROVE  i = j
    OBVIOUS
  <2>1. /\ i + 1 \in 1 .. Len(m) /\ j + 1 \in 1 .. Len(m) /\ m[i + 1] = m[j + 1]
        /\ i \in Nat /\ j \in Nat
    BY <1>1, <1>2
  <2>. QED BY <2>1 DEF Queue
<1>. QED BY <1>2, <1>3, <1>4 DEF Queue

\* Nobody is in an empty mutex.
LEMMA QueueEmpty == ASSUME NEW S, S \cap Tasks = {} PROVE Queue(<<>>, S)
BY DEF Queue

-----------------------------------------------------------------------------
(* Types and steps *)

\* None stands for no account.
LEMMA NoneFacts ==
    /\ None \notin Holders /\ None \notin Stakers /\ None \notin Validators
    /\ Idle \in Task
BY EventCommandsAssumption DEF Idle, Task

\* A field of a task takes any of its values.
LEMMA TaskFields ==
    ASSUME NEW k \in Task
    PROVE  /\ \A e \in {None, "balance", "validator", "staked", "generator"} :
                  [k EXCEPT !.event = e] \in Task
           /\ \A w \in Holders \cup Stakers \cup Validators : [k EXCEPT !.who = w] \in Task
           /\ \A p \in {"new", "next", "reading", "account", "create", "answered", "stakes",
                        "delete", "insert"} : [k EXCEPT !.step = p] \in Task
           /\ \A R \in SUBSET Validators : [k EXCEPT !.rest = R] \in Task
           /\ \A v \in Validators \cup {None} : [k EXCEPT !.cur = v] \in Task
           /\ \A n \in -1 .. MaxChanges : [k EXCEPT !.got = n] \in Task
           /\ \A f \in {"?", "yes", "no"} : [k EXCEPT !.found = f] \in Task
BY DEF Task

\* The event of a change is a task.
LEMMA NewTypes ==
    /\ \A a \in Holders : New("balance", a) \in Task
    /\ \A s \in Stakers : New("staked", s) \in Task
    /\ \A v \in Validators : /\ New("generator", v) \in Task
                             /\ [New("validator", v) EXCEPT !.step = "next", !.rest = {v}] \in Task
<1>1. ASSUME NEW event \in {"balance", "validator", "staked", "generator"},
             NEW who \in Holders \cup Stakers \cup Validators
      PROVE  New(event, who) \in Task
  <2>1. [Idle EXCEPT !.event = event] \in Task
    BY NoneFacts, TaskFields
  <2>2. [Idle EXCEPT !.event = event, !.who = who] \in Task
    BY <2>1, TaskFields
  <2>. QED BY <2>2, TaskFields DEF New
<1>2. ASSUME NEW v \in Validators
      PROVE  [New("validator", v) EXCEPT !.step = "next", !.rest = {v}] \in Task
  <2>1. [New("validator", v) EXCEPT !.step = "next"] \in Task
    BY <1>1, TaskFields
  <2>. QED BY <2>1, TaskFields
<1>. QED BY <1>1, <1>2

\* A step changes one task.
LEMMA PutTypes ==
    ASSUME TypeInv, StepsInv, NEW t \in Tasks, NEW k \in Task, Put(t, k), Steps(k)
    PROVE  task' \in [Tasks -> Task] /\ StepsInv'
<1>1. task' \in [Tasks -> Task] /\ \A u \in Tasks : task'[u] = IF u = t THEN k ELSE task[u]
  BY DEF TypeInv, Put
<1>2. \A u \in Tasks : Steps(task[u])
  BY DEF StepsInv
<1>3. ASSUME NEW u \in Tasks PROVE Steps(task[u])'
  BY <1>1, <1>2 DEF Steps, Idle
<1>. QED BY <1>1, <1>3 DEF StepsInv

\* What the step of a command tells of the command.
LEMMA StepFacts ==
    ASSUME TypeInv, StepsInv, NEW t \in Tasks
    PROVE  /\ task[t] \in Task
           /\ task[t].event \in {None, "balance", "validator", "staked", "generator"}
           /\ task[t].step \in {None, "new", "next"} \cup Processing
                                   \cup {"answered", "stakes"} \cup Replacing
           /\ task[t].step = "next" => task[t].event \in {"validator", "staked"}
           /\ task[t].step \in Processing => /\ task[t].event \in {"validator", "staked"}
                                             /\ task[t].cur \in Validators
           /\ task[t].step \in {"stakes"} \cup Replacing => task[t].event = "staked"
           /\ task[t].event = "staked" => task[t].who \in Stakers
           /\ task[t].cur \in Validators \cup {None}
           /\ task[t].rest \subseteq Validators /\ task[t].got \in -1 .. MaxChanges
<1>1. task[t] \in Task /\ Steps(task[t])
  BY DEF TypeInv, StepsInv
<1>2. /\ task[t].event \in {None, "balance", "validator", "staked", "generator"}
      /\ task[t].step \in {None, "new", "next"} \cup Processing
                             \cup {"answered", "stakes"} \cup Replacing
      /\ task[t].cur \in Validators \cup {None}
      /\ task[t].rest \subseteq Validators /\ task[t].got \in -1 .. MaxChanges
  BY <1>1 DEF Task, Processing, Replacing
<1>3. /\ task[t].step = "next" => task[t].event \in {"validator", "staked"}
      /\ task[t].step \in Processing => task[t].event \in {"validator", "staked"}
      /\ task[t].step \in {"stakes"} \cup Replacing => task[t].event = "staked"
  BY <1>1, <1>2 DEF Steps, Idle, Processing, Replacing, None
<1>. QED BY <1>1, <1>2, <1>3 DEF Steps

LEMMA InitTypeInv == Init => TypeInv /\ StepsInv
<1> SUFFICES ASSUME Init PROVE TypeInv /\ StepsInv
  OBVIOUS
<1>1. TypeInv
  BY EventCommandsAssumption, NoneFacts DEF Init, TypeInv, NoRow
<1>2. StepsInv
  BY NoneFacts DEF Init, StepsInv, Steps, Idle, Processing, None
<1>. QED BY <1>1, <1>2

\* A change on the chain, and the event that tells of it.
LEMMA ChainTypeInv ==
    ASSUME TypeInv, StepsInv, NEW t \in Tasks, Chain(t)
    PROVE  TypeInv' /\ StepsInv'
<1> USE EventCommandsAssumption DEF TypeInv, Put, db, past
<1>a. Change /\ Free(t)
  BY DEF Chain, BalanceChanges, ValidatorChanges, BlockForged, StakesChange
<1>0. /\ changes' = changes + 1 /\ changes' \in 0 .. MaxChanges
      /\ 0 .. changes \subseteq 0 .. changes' /\ \A n \in 0 .. changes : n + 1 \in 0 .. changes'
  BY <1>a DEF Change
<1>1. ASSUME NEW a \in Holders, BalanceChanges(a, t) PROVE TypeInv' /\ StepsInv'
  <2>1. TypeInv'
    BY <1>0, <1>1, NewTypes DEF BalanceChanges
  <2>2. StepsInv'
    BY <1>0, <1>1, NoneFacts, StepFacts DEF BalanceChanges, New, StepsInv, Steps, Idle, Processing, Replacing, None
  <2>. QED BY <2>1, <2>2
<1>2. ASSUME NEW v \in Validators, ValidatorChanges(v, t) PROVE TypeInv' /\ StepsInv'
  <2>1. TypeInv'
    BY <1>0, <1>2, NewTypes DEF ValidatorChanges
  <2>2. StepsInv'
    BY <1>0, <1>2, NoneFacts, StepFacts DEF ValidatorChanges, New, StepsInv, Steps, Idle, Processing, Replacing, None
  <2>. QED BY <2>1, <2>2
<1>3. ASSUME NEW v \in Validators, BlockForged(v, t) PROVE TypeInv' /\ StepsInv'
  <2>1. TypeInv'
    BY <1>0, <1>3, NewTypes DEF BlockForged
  <2>2. StepsInv'
    BY <1>0, <1>3, NoneFacts, StepFacts DEF BlockForged, New, StepsInv, Steps, Idle, Processing, Replacing, None
  <2>. QED BY <2>1, <2>2
<1>4. ASSUME NEW s \in Stakers, NEW S \in SUBSET Validators, StakesChange(s, S, t)
      PROVE  TypeInv' /\ StepsInv'
  <2>1. TypeInv'
    <3>1. info' \in [Validators -> 0 .. changes']
      BY <1>0, <1>4 DEF StakesChange
    <3>2. stakes' \in [Stakers -> [version : 0 .. changes', on : SUBSET Validators]]
      BY <1>0, <1>4 DEF StakesChange
    <3>3. task' \in [Tasks -> Task]
      BY <1>4, NewTypes DEF StakesChange
    <3>. QED BY <1>0, <1>4, <3>1, <3>2, <3>3 DEF StakesChange
  <2>2. StepsInv'
    BY <1>0, <1>4, NoneFacts, StepFacts DEF StakesChange, New, StepsInv, Steps, Idle, Processing, Replacing, None
  <2>. QED BY <2>1, <2>2
<1>. QED BY <1>1, <1>2, <1>3, <1>4 DEF Chain

\* A command of a balance or of a block's generator.
LEMMA AccountTypeInv ==
    ASSUME TypeInv, StepsInv, NEW t \in Tasks,
           \/ BalanceAnswered(t) \/ BalanceRefused(t) \/ UpdateAccount(t)
           \/ GeneratorLookedUp(t) \/ GeneratorWritten(t)
    PROVE  TypeInv' /\ StepsInv'
<1>0. task[t] \in Task /\ Steps(task[t]) /\ Steps(Idle)
  BY NoneFacts DEF TypeInv, StepsInv, Steps, Idle, Processing, None
<1> USE EventCommandsAssumption DEF TypeInv, node, db, past
<1>1. CASE BalanceAnswered(t)
  <2> DEFINE k == [task[t] EXCEPT !.step = "answered", !.got = balance[task[t].who]]
  <2>1. k \in Task
    <3>1. task[t].who \in Holders
      BY <1>1, <1>0 DEF BalanceAnswered, Steps
    <3>2. balance[task[t].who] \in -1 .. MaxChanges
      BY <3>1
    <3>3. [task[t] EXCEPT !.step = "answered"] \in Task
      BY <1>0, TaskFields
    <3>. QED BY <3>2, <3>3, TaskFields
  <2>2. Steps(k)
    BY <1>1, <1>0, NoneFacts DEF Task, BalanceAnswered, Steps, None, Processing
  <2>. QED BY <1>1, <2>1, <2>2, PutTypes DEF BalanceAnswered
<1>2. CASE BalanceRefused(t)
  BY <1>2, <1>0, NoneFacts, PutTypes DEF BalanceRefused, Fault
<1>3. CASE UpdateAccount(t)
  <2>1. task[t].who \in Holders /\ task[t].got \in Int
    BY <1>3, <1>0 DEF UpdateAccount, Steps, Task
  <2>. QED BY <1>3, <1>0, <2>1, NoneFacts, PutTypes DEF UpdateAccount, BalanceWritten
<1>4. CASE GeneratorLookedUp(t)
  <2> DEFINE k == [task[t] EXCEPT !.step = "answered",
                                    !.found = IF validator[task[t].who] = NoRow THEN "no" ELSE "yes"]
  <2>1. k \in Task
    BY <1>4, <1>0, TaskFields DEF GeneratorLookedUp
  <2>2. Steps(k)
    BY <1>4, <1>0, NoneFacts DEF Task, GeneratorLookedUp, Steps, Idle, Processing, Replacing, None
  <2>. QED BY <1>4, <1>0, <2>1, <2>2, PutTypes DEF GeneratorLookedUp
<1>5. CASE GeneratorWritten(t)
  <2>1. validator' \in [Validators -> Int]
    BY <1>5, <1>0 DEF GeneratorWritten, Bare, Steps
  <2>. QED BY <1>5, <1>0, <2>1, NoneFacts, PutTypes DEF GeneratorWritten
<1>. QED BY <1>1, <1>2, <1>3, <1>4, <1>5

\* A command of a validator: the requests, the row, the account.
LEMMA ProcessTypeInv ==
    ASSUME TypeInv, StepsInv, NEW t \in Tasks,
           \/ \E v \in Validators : ProcessValidator(t, v)
           \/ InfoAnswered(t) \/ RowLookedUp(t) \/ AccountLookedUp(t) \/ AccountWritten(t)
           \/ ValidatorDone(t)
    PROVE  TypeInv' /\ StepsInv'
<1>0. task[t] \in Task /\ Steps(task[t]) /\ Steps(Idle)
  BY NoneFacts DEF TypeInv, StepsInv, Steps, Idle, Processing, None
<1> USE EventCommandsAssumption DEF TypeInv, node, db, past
<1>1. ASSUME NEW v \in Validators, ProcessValidator(t, v) PROVE TypeInv' /\ StepsInv'
  <2> DEFINE k1 == [task[t] EXCEPT !.step = "reading"]
             k2 == [k1 EXCEPT !.rest = task[t].rest \ {v}]
             k3 == [k2 EXCEPT !.cur = v]
             k4 == [k3 EXCEPT !.got = -1]
             k  == [task[t] EXCEPT !.step = "reading", !.rest = @ \ {v}, !.cur = v,
                                   !.got = -1, !.found = "?"]
  <2>1. k \in Task
    <3>0. -1 \in -1 .. MaxChanges
      OBVIOUS
    <3>1. k1 \in Task /\ task[t].rest \ {v} \subseteq Validators
      BY <1>0, TaskFields, StepFacts
    <3>2. k2 \in Task
      BY <3>1, TaskFields
    <3>3. k3 \in Task
      BY <3>2, TaskFields
    <3>4. k4 \in Task
      BY <3>0, <3>3, TaskFields
    <3>5. k = [k4 EXCEPT !.found = "?"]
      BY <1>0 DEF Task
    <3>. QED BY <3>4, <3>5, TaskFields
  <2>2. Steps(k)
    <3>1. /\ k.event = task[t].event /\ k.who = task[t].who /\ k.step = "reading" /\ k.cur = v
      BY <1>0 DEF Task
    <3>2. task[t].event \in {"validator", "staked"}
      BY <1>1, StepFacts DEF ProcessValidator
    <3> HIDE DEF k
    <3>. QED BY <1>0, <3>1, <3>2 DEF Steps, Processing, None
  <2>. QED BY <1>1, <2>1, <2>2, PutTypes DEF ProcessValidator
<1>2. CASE InfoAnswered(t)
  <2> DEFINE k == [task[t] EXCEPT !.got = info[task[t].cur]]
  <2>1. info[task[t].cur] \in 0 .. MaxChanges
    BY <1>2, StepFacts DEF InfoAnswered, Processing
  <2>2. k \in Task
    <3>1. info[task[t].cur] \in -1 .. MaxChanges
      BY <2>1
    <3>. QED BY <3>1, <1>0, TaskFields
  <2>3. Steps(k)
    BY <1>2, <1>0, StepFacts DEF Task, InfoAnswered, Steps, None, Processing, Replacing
  <2>. QED BY <1>2, <2>2, <2>3, PutTypes DEF InfoAnswered
<1>3. CASE RowLookedUp(t)
  <2> DEFINE k == [task[t] EXCEPT !.found = IF validator[task[t].cur] = NoRow THEN "no" ELSE "yes"]
  <2>1. k \in Task
    BY <1>0, TaskFields
  <2>2. Steps(k)
    BY <1>3, <1>0, StepFacts DEF Task, RowLookedUp, Steps, None, Processing, Replacing
  <2>. QED BY <1>3, <2>1, <2>2, PutTypes DEF RowLookedUp
<1>4. CASE AccountLookedUp(t)
  <2> DEFINE k == [task[t] EXCEPT !.step = "account",
                                  !.found = IF account[task[t].cur] = None THEN "no" ELSE "yes"]
  <2>1. k \in Task
    <3>1. [task[t] EXCEPT !.step = "account"] \in Task
      BY <1>0, TaskFields
    <3>. QED BY <3>1, TaskFields
  <2>2. Steps(k)
    BY <1>4, <1>0, StepFacts DEF Task, AccountLookedUp, Read, Steps, None, Processing, Replacing
  <2>. QED BY <1>4, <2>1, <2>2, PutTypes DEF AccountLookedUp
<1>5. CASE AccountWritten(t)
  <2> DEFINE k == [task[t] EXCEPT !.step = "create"]
  <2>1. k \in Task /\ task[t].cur \in Validators
    BY <1>5, <1>0, TaskFields, StepFacts DEF AccountWritten, Processing
  <2>2. Steps(k)
    BY <1>5, <1>0, StepFacts DEF Task, AccountWritten, Steps, None, Processing, Replacing
  <2>. QED BY <1>5, <2>1, <2>2, PutTypes DEF AccountWritten
<1>6. CASE ValidatorDone(t)
  BY <1>6, <1>0, NoneFacts, PutTypes DEF ValidatorDone
<1>. QED BY <1>1, <1>2, <1>3, <1>4, <1>5, <1>6

\* The end of such a command, good or bad.
Ended(t, ok) ==
    /\ Processed(t, ok)
    /\ IF ok THEN /\ validator' = [validator EXCEPT ![task[t].cur] = task[t].got]
                  /\ \E own \in {"keys", "reward"} :
                         columns' = [columns EXCEPT ![task[t].cur] = @ \cup {own}]
                  /\ UNCHANGED doubt
             ELSE /\ UNCHANGED <<validator, columns>>
                  /\ doubt' = doubt \cup {task[t].cur}

LEMMA ProcessedTypeInv ==
    ASSUME TypeInv, StepsInv, NEW t \in Tasks, NEW ok \in BOOLEAN, Ended(t, ok),
           task[t].step \in Processing, early' \subseteq early,
           UNCHANGED <<node, balanceOf, account, stake, inserted>>, faults' \in 0 .. MaxFaults
    PROVE  TypeInv' /\ StepsInv'
<1> DEFINE k == [task[t] EXCEPT !.step = "next", !.cur = None]
<1>1. task[t] \in Task /\ Steps(task[t]) /\ task[t].cur \in Validators /\ task[t].got \in Int
  BY StepFacts DEF StepsInv
<1>2. k \in Task
  <2>1. [task[t] EXCEPT !.step = "next"] \in Task
    BY <1>1, TaskFields
  <2>. QED BY <2>1, TaskFields
<1>3. Steps(k)
  BY <1>1, StepFacts, NoneFacts DEF Task, Steps, None, Processing, Replacing
<1>4. task' \in [Tasks -> Task] /\ StepsInv'
  BY <1>2, <1>3, PutTypes DEF Ended, Processed
<1>5. validator' \in [Validators -> Int]
  BY <1>1 DEF Ended, TypeInv
<1>6. columns' \in [Validators -> SUBSET {"keys", "reward"}]
  BY <1>1 DEF Ended, TypeInv
<1>. QED BY <1>4, <1>5, <1>6 DEF TypeInv, node

\* Which steps end it.
Ends(t) ==
    \/ ValidatorUpdated(t) \/ AccountClash(t) \/ ValidatorCreated(t) \/ ValidatorClash(t)
    \/ ProcessFails(t)

LEMMA EndsFacts ==
    ASSUME TypeInv, StepsInv, NEW t \in Tasks, Ends(t)
    PROVE  /\ task[t].step \in Processing
           /\ \E ok \in BOOLEAN :
                 /\ Ended(t, ok)
                 /\ ok => task[t].got # -1 /\ task[t].step \in {"reading", "create"}
           /\ early' \subseteq early
           /\ UNCHANGED <<node, balanceOf, account, stake, inserted, stakesMutex>>
           /\ faults' \in 0 .. MaxFaults
           /\ Inside(task[t]) \/ Holds(t, validatorMutex)
<1>0. task[t].step \in {"account", "create"} => task[t].got # -1
  BY DEF StepsInv, Steps
<1>1. CASE ValidatorUpdated(t)
  <2>1. Ended(t, TRUE)
    BY <1>1 DEF ValidatorUpdated, RowWritten, Ended
  <2>. QED BY <1>1, <2>1 DEF ValidatorUpdated, Read, past, TypeInv, Processing, Inside
<1>2. CASE AccountClash(t)
  <2>1. Ended(t, FALSE)
    BY <1>2 DEF AccountClash, ProcessedNot, Ended
  <2>. QED BY <1>2, <2>1 DEF AccountClash, past, TypeInv, Processing, Inside
<1>3. CASE ValidatorCreated(t)
  <2>1. Ended(t, TRUE)
    BY <1>3 DEF ValidatorCreated, RowWritten, Ended
  <2>. QED BY <1>0, <1>3, <2>1 DEF ValidatorCreated, TypeInv, Processing, Inside
<1>4. CASE ValidatorClash(t)
  <2>1. Ended(t, FALSE)
    BY <1>4 DEF ValidatorClash, ProcessedNot, Ended
  <2>. QED BY <1>4, <2>1 DEF ValidatorClash, past, TypeInv, Processing, Inside
<1>5. CASE ProcessFails(t)
  <2>1. faults' \in 0 .. MaxFaults
    BY <1>5, EventCommandsAssumption DEF ProcessFails, Fault, TypeInv
  <2>2. Ended(t, FALSE)
    BY <1>5 DEF ProcessFails, ProcessedNot, Ended
  <2>. QED BY <1>5, <2>1, <2>2 DEF ProcessFails, past, Processing
<1>. QED BY <1>1, <1>2, <1>3, <1>4, <1>5 DEF Ends

\* A command of a staker's stakes.
LEMMA StakerTypeInv ==
    ASSUME TypeInv, StepsInv, NEW t \in Tasks,
           \/ StakerAnswered(t) \/ AddStakes(t) \/ StakesAnswered(t)
           \/ StakesDeleted(t) \/ StakesInserted(t)
    PROVE  TypeInv' /\ StepsInv'
<1>0. task[t] \in Task /\ Steps(task[t]) /\ Steps(Idle)
  BY NoneFacts DEF TypeInv, StepsInv, Steps, Idle, Processing, None
<1> USE EventCommandsAssumption DEF TypeInv, node, db, past
<1>1. CASE StakerAnswered(t)
  <2> DEFINE k == [task[t] EXCEPT !.step = "next", !.rest = StakedOn(task[t].who)]
  <2>1. k \in Task
    <3>1. [task[t] EXCEPT !.step = "next"] \in Task
      BY <1>0, TaskFields
    <3>2. StakedOn(task[t].who) \subseteq Validators
      BY <1>1, StepFacts DEF StakerAnswered, StakedOn
    <3>. QED BY <3>1, <3>2, TaskFields
  <2>2. Steps(k)
    BY <1>1, <1>0, StepFacts DEF Task, StakerAnswered, Steps, None, Processing, Replacing
  <2>. QED BY <1>1, <2>1, <2>2, PutTypes DEF StakerAnswered
<1>2. CASE AddStakes(t)
  <2> DEFINE k == [task[t] EXCEPT !.step = "stakes"]
  <2>1. k \in Task
    BY <1>0, TaskFields
  <2>2. Steps(k)
    BY <1>2, <1>0, StepFacts DEF Task, AddStakes, Steps, None, Processing, Replacing
  <2>. QED BY <1>2, <2>1, <2>2, PutTypes DEF AddStakes
<1>3. CASE StakesAnswered(t)
  <2> DEFINE s == stakes[task[t].who]
             k1 == [task[t] EXCEPT !.step = "delete"]
             k2 == [task[t] EXCEPT !.step = "delete", !.got = s.version]
             k  == [task[t] EXCEPT !.step = "delete", !.got = s.version, !.rest = s.on]
  <2>1. k \in Task
    <3>1. s.version \in 0 .. MaxChanges /\ s.on \in SUBSET Validators
      BY <1>3, StepFacts DEF StakesAnswered
    <3>2. k1 \in Task
      BY <1>0, TaskFields
    <3>3. s.version \in -1 .. MaxChanges
      BY <3>1
    <3>4. k2 \in Task
      BY <3>2, <3>3, TaskFields
    <3>. QED BY <3>1, <3>4, TaskFields
  <2>2. Steps(k)
    BY <1>3, <1>0, StepFacts DEF Task, StakesAnswered, Steps, None, Processing, Replacing
  <2>. QED BY <1>3, <2>1, <2>2, PutTypes DEF StakesAnswered
<1>4. CASE StakesDeleted(t)
  <2> DEFINE k == [task[t] EXCEPT !.step = "insert"]
  <2>1. k \in Task
    BY <1>0, TaskFields
  <2>2. Steps(k)
    BY <1>4, <1>0, StepFacts DEF Task, StakesDeleted, Steps, None, Processing, Replacing
  <2>. QED BY <1>4, <2>1, <2>2, PutTypes DEF StakesDeleted
<1>5. CASE StakesInserted(t)
  <2>1. /\ task[t].who \in Stakers /\ task[t].got \in Int
        /\ task[t].rest \subseteq Validators
    BY <1>5, StepFacts DEF StakesInserted, Replacing
  <2>2. stake' \subseteq [staker : Stakers, validator : Validators, version : Int]
    BY <1>5, <2>1 DEF StakesInserted
  <2>3. inserted' \in [Stakers -> Int]
    BY <1>5, <2>1 DEF StakesInserted
  <2>. QED BY <1>5, <1>0, <2>2, <2>3, NoneFacts, PutTypes DEF StakesInserted
<1>. QED BY <1>1, <1>2, <1>3, <1>4, <1>5

\* A crash leaves the node and the database as they are.
LEMMA DiesTypeInv ==
    ASSUME TypeInv, StepsInv, Dies, faults' \in 0 .. MaxFaults
    PROVE  TypeInv' /\ StepsInv'
<1>1. task' \in [Tasks -> Task]
  BY NoneFacts DEF Dies
<1>2. StepsInv'
  BY NoneFacts DEF Dies, StepsInv, Steps, Idle, Processing, Replacing, None
<1>. QED BY <1>1, <1>2 DEF Dies, TypeInv, node, db, past

\* Types and steps are kept.
LEMMA NextTypeInv == TypeInv /\ StepsInv /\ [Next]_vars => TypeInv' /\ StepsInv'
<1> SUFFICES ASSUME TypeInv, StepsInv, [Next]_vars PROVE TypeInv' /\ StepsInv'
  OBVIOUS
<1>1. ASSUME NEW t \in Tasks, Chain(t) PROVE TypeInv' /\ StepsInv'
  BY <1>1, ChainTypeInv
<1>2. ASSUME NEW t \in Tasks, Step(t) PROVE TypeInv' /\ StepsInv'
  <2>1. CASE Ends(t)
    BY <2>1, EndsFacts, ProcessedTypeInv
  <2>2. CASE InsertFails(t)
    BY <2>2, DiesTypeInv DEF InsertFails, TypeInv
  <2>. QED BY <1>2, <2>1, <2>2, AccountTypeInv, ProcessTypeInv, StakerTypeInv DEF Step, Ends
<1>3. CASE Crash
  BY <1>3, DiesTypeInv, EventCommandsAssumption DEF Crash, Fault, TypeInv
<1>4. CASE UNCHANGED vars
  BY <1>4, StepFacts DEF vars, node, db, past, mem, TypeInv, StepsInv, Steps, Idle, Processing, Replacing, None
<1>. QED BY <1>1, <1>2, <1>3, <1>4 DEF Next

-----------------------------------------------------------------------------
(* The mutexes *)

\* A step that leaves the mutex alone, and its task where it was or at its head.
LEMMA ValidatorMutexFrame ==
    ASSUME TypeInv, ValidatorMutexInv, NEW t \in Tasks, NEW k, Put(t, k),
           UNCHANGED validatorMutex,
           k.step \in Processing <=> task[t].step \in Processing,
           Inside(k) => Inside(task[t]) \/ Head(validatorMutex) = t
    PROVE  ValidatorMutexInv'
<1>1. \A u \in Tasks : task'[u] = IF u = t THEN k ELSE task[u]
  BY DEF TypeInv, Put
<1>2. ForValidator' = ForValidator
  BY <1>1 DEF ForValidator
<1>3. \A u \in Tasks : Inside(task'[u]) => Head(validatorMutex) = u
  BY <1>1 DEF ValidatorMutexInv
<1>. QED BY <1>2, <1>3 DEF ValidatorMutexInv, Queue, Inside

LEMMA StakesMutexFrame ==
    ASSUME TypeInv, StakesMutexInv, NEW t \in Tasks, NEW k, Put(t, k),
           UNCHANGED stakesMutex,
           k.step \in {"stakes"} \cup Replacing <=> task[t].step \in {"stakes"} \cup Replacing,
           k.step \in Replacing => task[t].step \in Replacing \/ Head(stakesMutex) = t
    PROVE  StakesMutexInv'
<1>1. \A u \in Tasks : task'[u] = IF u = t THEN k ELSE task[u]
  BY DEF TypeInv, Put
<1>2. ForStakes' = ForStakes
  BY <1>1 DEF ForStakes
<1>3. \A u \in Tasks : task'[u].step \in Replacing => Head(stakesMutex) = u
  BY <1>1 DEF StakesMutexInv
<1>. QED BY <1>2, <1>3 DEF StakesMutexInv, Queue

\* A command asks for the mutex, or hands it on.
LEMMA ValidatorMutexJoin ==
    ASSUME TypeInv, ValidatorMutexInv, NEW t \in Tasks, NEW v \in Validators,
           ProcessValidator(t, v)
    PROVE  ValidatorMutexInv'
<1>1. /\ task[t] \in Task /\ task[t].step = "next" /\ validatorMutex' = Append(validatorMutex, t)
      /\ \A u \in Tasks \ {t} : task'[u] = task[u]
  BY DEF TypeInv, ProcessValidator, Put
<1>2. task'[t].step = "reading" /\ task'[t].got = -1 /\ task'[t].found = "?"
  BY <1>1 DEF TypeInv, ProcessValidator, Put, Task
<1>3. ForValidator' = ForValidator \cup {t} /\ t \notin ForValidator /\ ForValidator \subseteq Tasks
  BY <1>1, <1>2 DEF ForValidator, Processing
<1>4. /\ Queue(validatorMutex', ForValidator')
      /\ \A u \in ForValidator : Head(validatorMutex) = u => Head(validatorMutex') = u
  BY <1>1, <1>3, QueueJoin DEF ValidatorMutexInv
<1>5. ASSUME NEW u \in Tasks, Inside(task'[u]) PROVE Head(validatorMutex') = u
  BY <1>1, <1>2, <1>4, <1>5 DEF ValidatorMutexInv, Inside, ForValidator, Processing
<1>. QED BY <1>4, <1>5 DEF ValidatorMutexInv, Queue, Inside

LEMMA ValidatorMutexLeave ==
    ASSUME TypeInv, ValidatorMutexInv, NEW t \in Tasks, NEW ok \in BOOLEAN, Ended(t, ok),
           task[t].step \in Processing, Inside(task[t]) \/ Holds(t, validatorMutex)
    PROVE  ValidatorMutexInv'
<1>1. /\ task[t] \in Task /\ validatorMutex' = Tail(validatorMutex)
      /\ \A u \in Tasks \ {t} : task'[u] = task[u]
  BY DEF TypeInv, Ended, Processed, Put, Released
<1>2. task'[t].step = "next"
  BY <1>1 DEF TypeInv, Ended, Processed, Put, Task
<1>3. ForValidator' = ForValidator \ {t} /\ t \in ForValidator
  BY <1>1, <1>2 DEF ForValidator, Processing
<1>4. Head(validatorMutex) = t
  BY DEF ValidatorMutexInv, Holds
<1>5. Queue(validatorMutex', ForValidator')
  BY <1>1, <1>3, <1>4, QueueLeave DEF ValidatorMutexInv
<1>6. \A u \in Tasks : ~Inside(task'[u])
  BY <1>1, <1>2, <1>4 DEF ValidatorMutexInv, Inside
<1>. QED BY <1>5, <1>6 DEF ValidatorMutexInv, Queue, Inside

LEMMA StakesMutexJoin ==
    ASSUME TypeInv, StakesMutexInv, NEW t \in Tasks, AddStakes(t)
    PROVE  StakesMutexInv'
<1>1. /\ task[t] \in Task /\ task[t].step = "next" /\ stakesMutex' = Append(stakesMutex, t)
      /\ \A u \in Tasks \ {t} : task'[u] = task[u]
  BY DEF TypeInv, AddStakes, Put
<1>2. task'[t].step = "stakes"
  BY <1>1 DEF TypeInv, AddStakes, Put, Task
<1>3. ForStakes' = ForStakes \cup {t} /\ t \notin ForStakes /\ ForStakes \subseteq Tasks
  BY <1>1, <1>2 DEF ForStakes, Replacing
<1>4. /\ Queue(stakesMutex', ForStakes')
      /\ \A u \in ForStakes : Head(stakesMutex) = u => Head(stakesMutex') = u
  BY <1>1, <1>3, QueueJoin DEF StakesMutexInv
<1>5. ASSUME NEW u \in Tasks, task'[u].step \in Replacing PROVE Head(stakesMutex') = u
  BY <1>1, <1>2, <1>4, <1>5 DEF StakesMutexInv, ForStakes, Replacing
<1>. QED BY <1>4, <1>5 DEF StakesMutexInv, Queue

LEMMA StakesMutexLeave ==
    ASSUME TypeInv, StepsInv, StakesMutexInv, NEW t \in Tasks, StakesInserted(t)
    PROVE  StakesMutexInv'
<1>1. /\ task[t].step = "insert" /\ stakesMutex' = Tail(stakesMutex)
      /\ \A u \in Tasks \ {t} : task'[u] = task[u]
      /\ task'[t].step = None /\ Head(stakesMutex) = t
  BY DEF TypeInv, StakesInserted, Put, Released, Holds, Idle
<1>2. ForStakes' = ForStakes \ {t} /\ t \in ForStakes
  BY <1>1 DEF ForStakes, Replacing, None
<1>3. Queue(stakesMutex', ForStakes')
  BY <1>1, <1>2, QueueLeave DEF StakesMutexInv
<1>4. \A u \in Tasks : task'[u].step \notin Replacing
  BY <1>1 DEF StakesMutexInv, Replacing, None
<1>. QED BY <1>3, <1>4 DEF StakesMutexInv, Queue

\* A new event is in neither mutex.
LEMMA ChainFacts ==
    ASSUME TypeInv, StepsInv, NEW t \in Tasks, Chain(t)
    PROVE  /\ task[t] = Idle
           /\ \A u \in Tasks \ {t} : task'[u] = task[u]
           /\ task'[t].step \in {"new", "next"} /\ task'[t].got = -1 /\ task'[t].cur = None
           /\ Put(t, task'[t])
           /\ UNCHANGED <<validatorMutex, stakesMutex>>
<1>1. task[t] = Idle
  BY DEF Chain, BalanceChanges, ValidatorChanges, BlockForged, StakesChange, Free, StepsInv, Steps
<1> DEFINE Fresh(k) == k.step \in {"new", "next"} /\ k.got = -1 /\ k.cur = None
<1>2. \A event, who : Fresh(New(event, who))
  BY DEF New, Idle
<1>3. ASSUME NEW v PROVE Fresh([New("validator", v) EXCEPT !.step = "next", !.rest = {v}])
  BY DEF New, Idle
<1> HIDE DEF Fresh
<1>4. ASSUME NEW a \in Holders, BalanceChanges(a, t) PROVE \E k : Put(t, k) /\ Fresh(k)
  BY <1>4, <1>2 DEF BalanceChanges
<1>5. ASSUME NEW v \in Validators, ValidatorChanges(v, t) \/ BlockForged(v, t)
      PROVE  \E k : Put(t, k) /\ Fresh(k)
  BY <1>5, <1>2, <1>3 DEF ValidatorChanges, BlockForged
<1>5a. ASSUME NEW s \in Stakers, NEW S \in SUBSET Validators, StakesChange(s, S, t)
      PROVE  \E k : Put(t, k) /\ Fresh(k)
  BY <1>5a, <1>2 DEF StakesChange
<1>6. PICK k : Put(t, k) /\ Fresh(k)
  BY <1>4, <1>5, <1>5a DEF Chain
<1>7. task'[t] = k /\ \A u \in Tasks \ {t} : task'[u] = task[u]
  BY <1>6 DEF TypeInv, Put
<1>8. UNCHANGED <<validatorMutex, stakesMutex>>
  BY DEF Chain, BalanceChanges, ValidatorChanges, BlockForged, StakesChange
<1>. QED BY <1>1, <1>6, <1>7, <1>8 DEF Fresh

\* Nobody is in a mutex of a process that has just started.
LEMMA InitMutexes == Init => ValidatorMutexInv /\ StakesMutexInv
<1> SUFFICES ASSUME Init PROVE ValidatorMutexInv /\ StakesMutexInv
  OBVIOUS
<1>1. ForValidator \cap Tasks = {} /\ ForStakes \cap Tasks = {}
  BY DEF Init, ForValidator, ForStakes, Idle, Processing, Replacing, None
<1>. QED BY <1>1, QueueEmpty
         DEF Init, ValidatorMutexInv, StakesMutexInv, Inside, Idle, Replacing, None

LEMMA DiesMutexes == Dies => ValidatorMutexInv' /\ StakesMutexInv'
<1> SUFFICES ASSUME Dies PROVE ValidatorMutexInv' /\ StakesMutexInv'
  OBVIOUS
<1>1. (ForValidator \cap Tasks = {} /\ ForStakes \cap Tasks = {})'
  BY DEF Dies, ForValidator, ForStakes, Idle, Processing, Replacing, None
<1>2. Queue(validatorMutex', ForValidator') /\ Queue(stakesMutex', ForStakes')
  BY <1>1, QueueEmpty DEF Dies
<1>3. \A t \in Tasks : ~Inside(task'[t]) /\ task'[t].step \notin Replacing
  BY DEF Dies, Inside, Idle, Replacing, None
<1>. QED BY <1>2, <1>3 DEF ValidatorMutexInv, StakesMutexInv, Queue, Inside

\* Every step keeps the validators' mutex.
LEMMA NextValidatorMutexInv ==
    TypeInv /\ StepsInv /\ ValidatorMutexInv /\ [Next]_vars => ValidatorMutexInv'
<1> SUFFICES ASSUME TypeInv, StepsInv, ValidatorMutexInv, [Next]_vars PROVE ValidatorMutexInv'
  OBVIOUS
<1>1. ASSUME NEW t \in Tasks, Chain(t) PROVE ValidatorMutexInv'
  BY <1>1, ChainFacts, ValidatorMutexFrame DEF Inside, Idle, Processing, None
<1>2. ASSUME NEW t \in Tasks, Step(t) PROVE ValidatorMutexInv'
  <2>0. task[t] \in Task
    BY DEF TypeInv
  <2>1. CASE Ends(t)
    BY <2>1, EndsFacts, ValidatorMutexLeave
  <2>2. CASE InsertFails(t)
    BY <2>2, DiesMutexes DEF InsertFails
  <2>3. CASE \E v \in Validators : ProcessValidator(t, v)
    BY <2>3, ValidatorMutexJoin
  <2>4. CASE \/ BalanceRefused(t) \/ UpdateAccount(t) \/ ValidatorDone(t)
             \/ GeneratorWritten(t) \/ StakesInserted(t)
    BY <2>4, ValidatorMutexFrame
       DEF BalanceRefused, UpdateAccount, ValidatorDone, GeneratorWritten, StakesInserted,
           Inside, Idle, Processing, None
  <2>5. CASE BalanceAnswered(t)
    BY <2>5, <2>0, ValidatorMutexFrame DEF BalanceAnswered, Inside, Processing, Task
  <2>6. CASE GeneratorLookedUp(t)
    BY <2>6, <2>0, ValidatorMutexFrame DEF GeneratorLookedUp, Inside, Processing, Task
  <2>7. CASE StakerAnswered(t)
    BY <2>7, <2>0, ValidatorMutexFrame DEF StakerAnswered, Inside, Processing, Task
  <2>8. CASE AddStakes(t)
    BY <2>8, <2>0, ValidatorMutexFrame DEF AddStakes, Inside, Processing, Task
  <2>9. CASE StakesAnswered(t)
    BY <2>9, <2>0, ValidatorMutexFrame DEF StakesAnswered, Inside, Processing, Task
  <2>10. CASE StakesDeleted(t)
    BY <2>10, <2>0, ValidatorMutexFrame DEF StakesDeleted, Inside, Processing, Task
  <2>11. CASE InfoAnswered(t)
    BY <2>11, <2>0, ValidatorMutexFrame DEF InfoAnswered, Holds, Inside, Processing, Task
  <2>12. CASE RowLookedUp(t)
    BY <2>12, <2>0, ValidatorMutexFrame DEF RowLookedUp, Holds, Inside, Processing, Task
  <2>13. CASE AccountLookedUp(t)
    BY <2>13, <2>0, ValidatorMutexFrame DEF AccountLookedUp, Read, Inside, Processing, Task
  <2>14. CASE AccountWritten(t)
    BY <2>14, <2>0, ValidatorMutexFrame DEF AccountWritten, Inside, Processing, Task
  <2>. QED BY <1>2, <2>1, <2>2, <2>3, <2>4, <2>5, <2>6, <2>7, <2>8, <2>9, <2>10, <2>11, <2>12, <2>13, <2>14
       DEF Step, Ends
<1>3. CASE Crash
  BY <1>3, DiesMutexes DEF Crash
<1>4. CASE UNCHANGED vars
  BY <1>4 DEF vars, mem, ValidatorMutexInv, ForValidator, Queue, Inside
<1>. QED BY <1>1, <1>2, <1>3, <1>4 DEF Next

\* Every step keeps the stakes' mutex.
LEMMA NextStakesMutexInv ==
    TypeInv /\ StepsInv /\ StakesMutexInv /\ [Next]_vars => StakesMutexInv'
<1> SUFFICES ASSUME TypeInv, StepsInv, StakesMutexInv, [Next]_vars PROVE StakesMutexInv'
  OBVIOUS
<1>1. ASSUME NEW t \in Tasks, Chain(t) PROVE StakesMutexInv'
  BY <1>1, ChainFacts, StakesMutexFrame DEF Idle, Replacing, None
<1>2. ASSUME NEW t \in Tasks, Step(t) PROVE StakesMutexInv'
  <2>0. task[t] \in Task /\ Steps(task[t])
    BY DEF TypeInv, StepsInv
  <2>1. CASE Ends(t)
    <3>1. PICK ok \in BOOLEAN : Ended(t, ok) /\ UNCHANGED stakesMutex
      BY <2>1, EndsFacts
    <3>2. task[t].step \in Processing
      BY <2>1, EndsFacts
    <3>. QED BY <3>1, <3>2, <2>0, StakesMutexFrame DEF Ended, Processed, Processing, Replacing, Task
  <2>2. CASE InsertFails(t)
    BY <2>2, DiesMutexes DEF InsertFails
  <2>3. CASE AddStakes(t)
    BY <2>3, StakesMutexJoin
  <2>4. CASE \/ BalanceRefused(t) \/ UpdateAccount(t) \/ ValidatorDone(t) \/ GeneratorWritten(t)
    BY <2>4, <2>0, StakesMutexFrame
       DEF BalanceRefused, UpdateAccount, ValidatorDone, GeneratorWritten,
           Idle, Replacing, None
  <2>5. CASE StakesInserted(t)
    BY <2>5, StakesMutexLeave
  <2>6. CASE BalanceAnswered(t)
    BY <2>6, <2>0, StakesMutexFrame DEF BalanceAnswered, Replacing, Task
  <2>7. CASE GeneratorLookedUp(t)
    BY <2>7, <2>0, StakesMutexFrame DEF GeneratorLookedUp, Replacing, Task
  <2>8. CASE StakerAnswered(t)
    BY <2>8, <2>0, StakesMutexFrame DEF StakerAnswered, Replacing, Task
  <2>9. CASE StakesAnswered(t)
    BY <2>9, <2>0, StakesMutexFrame DEF StakesAnswered, Holds, Replacing, Task
  <2>10. CASE StakesDeleted(t)
    BY <2>10, <2>0, StakesMutexFrame DEF StakesDeleted, Replacing, Task
  <2>11. CASE InfoAnswered(t)
    BY <2>11, <2>0, StakesMutexFrame DEF InfoAnswered, Replacing, Task
  <2>12. CASE RowLookedUp(t)
    BY <2>12, <2>0, StakesMutexFrame DEF RowLookedUp, Replacing, Task
  <2>13. CASE AccountLookedUp(t)
    BY <2>13, <2>0, StakesMutexFrame DEF AccountLookedUp, Read, Replacing, Task
  <2>14. CASE AccountWritten(t)
    BY <2>14, <2>0, StakesMutexFrame DEF AccountWritten, Replacing, Task
  <2>15. ASSUME NEW v \in Validators, ProcessValidator(t, v) PROVE StakesMutexInv'
    BY <2>15, <2>0, StakesMutexFrame DEF ProcessValidator, Replacing, Task
  <2>. QED BY <1>2, <2>1, <2>2, <2>3, <2>4, <2>5, <2>6, <2>7, <2>8,
              <2>9, <2>10, <2>11, <2>12, <2>13, <2>14, <2>15
       DEF Step, Ends
<1>3. CASE Crash
  BY <1>3, DiesMutexes DEF Crash
<1>4. CASE UNCHANGED vars
  BY <1>4 DEF vars, mem, StakesMutexInv, ForStakes, Queue
<1>. QED BY <1>1, <1>2, <1>3, <1>4 DEF Next

-----------------------------------------------------------------------------
(* Answers and rows *)

\* A change of the chain reaches the node and one task, and puts a validator, or
\* those a staker no longer stakes on, into doubt at most.
LEMMA ChainNode ==
    ASSUME TypeInv, StepsInv, NEW t \in Tasks, Chain(t)
    PROVE  /\ \A v \in Validators : info'[v] >= info[v]
           /\ UNCHANGED <<balanceOf, validator, columns, stake, inserted>>
<1>1. CASE \E a \in Holders : BalanceChanges(a, t)
  BY <1>1 DEF BalanceChanges, TypeInv, db, past
<1>2. CASE \E v \in Validators : ValidatorChanges(v, t)
  BY <1>2 DEF ValidatorChanges, TypeInv, db, past
<1>3. CASE \E v \in Validators : BlockForged(v, t)
  BY <1>3 DEF BlockForged, TypeInv
<1>4. CASE \E s \in Stakers, S \in SUBSET Validators : StakesChange(s, S, t)
  BY <1>4 DEF StakesChange, TypeInv, db, past
<1>. QED BY <1>1, <1>2, <1>3, <1>4 DEF Chain

\* The commands of one validator follow each other: only the head of the mutex
\* has an answer.
LEMMA OneAnswer ==
    ASSUME StepsInv, ValidatorMutexInv, NEW t \in Tasks, NEW u \in Tasks,
           task[t].step \in Processing, task[t].got # -1,
           task[u].step \in Processing, task[u].got # -1 \/ Holds(u, validatorMutex)
    PROVE  t = u
BY DEF ValidatorMutexInv, Inside, Processing, Holds

\* The end of a command writes its answer, or nothing.
LEMMA EndsAnswer ==
    ASSUME TypeInv, StepsInv, ValidatorMutexInv, AnswerInv, NEW t \in Tasks, Ends(t)
    PROVE  AnswerInv'
<1>1. PICK ok \in BOOLEAN : Ended(t, ok) /\ (ok => task[t].got # -1)
  BY EndsFacts
<1>2. /\ task[t].step \in Processing /\ UNCHANGED info
      /\ Inside(task[t]) \/ Holds(t, validatorMutex)
  BY EndsFacts DEF node
<1>3. /\ task[t] \in Task /\ \A u \in Tasks \ {t} : task'[u] = task[u]
      /\ task'[t].step = "next"
      /\ validator' = IF ok THEN [validator EXCEPT ![task[t].cur] = task[t].got] ELSE validator
  BY <1>1 DEF Ended, Processed, Put, TypeInv, Task
<1>4. task[t].cur \in Validators /\ task[t].got \in Int
  BY <1>2, StepFacts
<1>5. \A v \in Validators : validator'[v] <= info'[v]
  BY <1>1, <1>2, <1>3, <1>4 DEF AnswerInv, TypeInv
<1>6. ASSUME NEW u \in Tasks, task'[u].step \in Processing, task'[u].got # -1
      PROVE  FALSE
  <2>1. u # t /\ task[u].step \in Processing /\ task[u].got # -1
    BY <1>3, <1>6 DEF Processing
  <2>2. Head(validatorMutex) = u /\ Head(validatorMutex) = t
    BY <2>1, <1>2 DEF ValidatorMutexInv, Inside, Processing, Holds
  <2>. QED BY <2>1, <2>2
<1>. QED BY <1>5, <1>6 DEF AnswerInv

\* A step that writes no row of a validator, and whose task has no other answer.
LEMMA AnswerFrame ==
    ASSUME TypeInv, StepsInv, AnswerInv, NEW t \in Tasks,
           \A u \in Tasks \ {t} : task'[u] = task[u],
           UNCHANGED validator, \A v \in Validators : info'[v] >= info[v],
           info' \in [Validators -> Int],
           task'[t].step \in Processing /\ task'[t].got # -1 =>
               /\ task'[t].cur = task[t].cur /\ task'[t].got = task[t].got
               /\ task[t].step \in Processing
    PROVE  AnswerInv'
<1>2. validator \in [Validators -> Int] /\ info \in [Validators -> Int]
  BY DEF TypeInv
<1>3. ASSUME NEW v \in Validators PROVE validator'[v] <= info'[v]
  BY <1>2, <1>3 DEF AnswerInv
<1>4. ASSUME NEW u \in Tasks, task'[u].step \in Processing, task'[u].got # -1
      PROVE  validator'[task'[u].cur] <= task'[u].got /\ task'[u].got <= info'[task'[u].cur]
  <2>1. /\ task[u].step \in Processing /\ task[u].got # -1
        /\ task'[u].cur = task[u].cur /\ task'[u].got = task[u].got
    BY <1>4
  <2>2. task[u].cur \in Validators /\ task[u].got \in Int
    BY <2>1, StepFacts
  <2>. QED BY <1>2, <2>1, <2>2 DEF AnswerInv
<1>. QED BY <1>3, <1>4 DEF AnswerInv

\* Every step keeps that no answer is written that is older than the row.
LEMMA NextAnswerInv ==
    TypeInv /\ StepsInv /\ ValidatorMutexInv /\ AnswerInv /\ [Next]_vars => AnswerInv'
<1> SUFFICES ASSUME TypeInv, StepsInv, ValidatorMutexInv, AnswerInv, [Next]_vars
             PROVE  AnswerInv'
  OBVIOUS
<1>0. info \in [Validators -> Nat] /\ validator \in [Validators -> Int]
  BY DEF TypeInv
<1>a. info' \in [Validators -> Int]
  BY NextTypeInv DEF TypeInv
<1>1. ASSUME NEW t \in Tasks, Chain(t) PROVE AnswerInv'
  BY <1>1, <1>a, ChainFacts, ChainNode, AnswerFrame
<1>2. ASSUME NEW t \in Tasks, Step(t) PROVE AnswerInv'
  <2>0. task[t] \in Task /\ Steps(task[t])
    BY DEF TypeInv, StepsInv
  <2>1. CASE Ends(t)
    BY <2>1, EndsAnswer
  <2>2. CASE InsertFails(t)
    BY <2>2 DEF InsertFails, Dies, node, db, past, AnswerInv, Idle, Processing, None
  <2>3. CASE GeneratorWritten(t)
    <3>1. task[t].who \in Validators
      BY <2>0, <2>3 DEF GeneratorWritten, Steps
    <3>2. \A v \in Validators : \/ validator'[v] = validator[v]
                                \/ validator[v] = -1 /\ validator'[v] = 0
      BY <2>3, <3>1, <1>0 DEF GeneratorWritten, Bare, NoRow
    <3>3. UNCHANGED info /\ \A u \in Tasks : task'[u] = task[u] \/ task'[u] = Idle
      BY <2>3 DEF GeneratorWritten, Put, node, TypeInv
    <3>4. \A v \in Validators : validator'[v] <= info'[v]
      BY <1>0, <3>2, <3>3 DEF AnswerInv
    <3>5. ASSUME NEW u \in Tasks, task'[u].step \in Processing, task'[u].got # -1
          PROVE  validator'[task'[u].cur] <= task'[u].got /\ task'[u].got <= info'[task'[u].cur]
      <4>1. task'[u] = task[u]
        BY <3>3, <3>5 DEF Idle
      <4>2. task[u].cur \in Validators /\ task[u].got \in Nat
        BY <4>1, <3>5, StepFacts
      <4>. QED BY <3>2, <3>3, <3>5, <4>1, <4>2, <1>0 DEF AnswerInv
    <3>. QED BY <3>4, <3>5 DEF AnswerInv
  <2>4. CASE InfoAnswered(t)
    <3>1. task[t].cur \in Validators /\ task[t].step = "reading"
      BY <2>4, StepFacts DEF InfoAnswered, Processing
    <3>2. /\ \A u \in Tasks \ {t} : task'[u] = task[u]
          /\ task'[t].cur = task[t].cur /\ task'[t].got = info[task[t].cur]
          /\ UNCHANGED <<info, validator>>
      BY <2>4, <2>0 DEF InfoAnswered, Put, TypeInv, Task, node, db, past
    <3>. QED BY <1>0, <3>1, <3>2 DEF AnswerInv
  <2>5. CASE \/ BalanceRefused(t) \/ UpdateAccount(t) \/ ValidatorDone(t) \/ StakesInserted(t)
    <3>1. Put(t, Idle) /\ UNCHANGED <<info, validator>>
      BY <2>5 DEF BalanceRefused, UpdateAccount, ValidatorDone, StakesInserted, node, db, past
    <3>. QED BY <3>1, <1>0, AnswerFrame DEF Put, TypeInv, Idle
  <2>6. ASSUME NEW v \in Validators, ProcessValidator(t, v) PROVE AnswerInv'
    <3>1. UNCHANGED <<info, validator>> /\ \A u \in Tasks \ {t} : task'[u] = task[u]
      BY <2>6 DEF ProcessValidator, Put, TypeInv, node, db, past
    <3>2. task'[t].got = -1
      BY <2>6, <2>0 DEF ProcessValidator, Put, TypeInv, Task
    <3>. QED BY <3>1, <3>2, <1>0, AnswerFrame
  <2>7. CASE BalanceAnswered(t)
    <3>1. UNCHANGED <<info, validator>> /\ \A u \in Tasks \ {t} : task'[u] = task[u]
      BY <2>7 DEF BalanceAnswered, Put, TypeInv, node, db, past
    <3>2. task'[t].step \notin Processing
      BY <2>7, <2>0 DEF BalanceAnswered, Put, TypeInv, Processing, Task
    <3>. QED BY <3>1, <3>2, <1>0, AnswerFrame
  <2>8. CASE GeneratorLookedUp(t)
    <3>1. UNCHANGED <<info, validator>> /\ \A u \in Tasks \ {t} : task'[u] = task[u]
      BY <2>8 DEF GeneratorLookedUp, Put, TypeInv, node, db, past
    <3>2. task'[t].step \notin Processing
      BY <2>8, <2>0 DEF GeneratorLookedUp, Put, TypeInv, Processing, Task
    <3>. QED BY <3>1, <3>2, <1>0, AnswerFrame
  <2>9. CASE StakerAnswered(t)
    <3>1. UNCHANGED <<info, validator>> /\ \A u \in Tasks \ {t} : task'[u] = task[u]
      BY <2>9 DEF StakerAnswered, Put, TypeInv, node, db, past
    <3>2. task'[t].step \notin Processing
      BY <2>9, <2>0 DEF StakerAnswered, Put, TypeInv, Processing, Task
    <3>. QED BY <3>1, <3>2, <1>0, AnswerFrame
  <2>10. CASE AddStakes(t)
    <3>1. UNCHANGED <<info, validator>> /\ \A u \in Tasks \ {t} : task'[u] = task[u]
      BY <2>10 DEF AddStakes, Put, TypeInv, node, db, past
    <3>2. task'[t].step \notin Processing
      BY <2>10, <2>0 DEF AddStakes, Put, TypeInv, Processing, Task
    <3>. QED BY <3>1, <3>2, <1>0, AnswerFrame
  <2>11. CASE StakesAnswered(t)
    <3>1. UNCHANGED <<info, validator>> /\ \A u \in Tasks \ {t} : task'[u] = task[u]
      BY <2>11 DEF StakesAnswered, Put, TypeInv, node, db, past
    <3>2. task'[t].step \notin Processing
      BY <2>11, <2>0 DEF StakesAnswered, Put, TypeInv, Processing, Task
    <3>. QED BY <3>1, <3>2, <1>0, AnswerFrame
  <2>12. CASE StakesDeleted(t)
    <3>1. UNCHANGED <<info, validator>> /\ \A u \in Tasks \ {t} : task'[u] = task[u]
      BY <2>12 DEF StakesDeleted, Put, TypeInv, node, db, past
    <3>2. task'[t].step \notin Processing
      BY <2>12, <2>0 DEF StakesDeleted, Put, TypeInv, Processing, Task
    <3>. QED BY <3>1, <3>2, <1>0, AnswerFrame
  <2>13. CASE RowLookedUp(t)
    <3>1. UNCHANGED <<info, validator>> /\ \A u \in Tasks \ {t} : task'[u] = task[u]
      BY <2>13 DEF RowLookedUp, Put, TypeInv, node, db, past
    <3>2. task'[t].cur = task[t].cur /\ task'[t].got = task[t].got /\ task[t].step \in Processing
      BY <2>13, <2>0 DEF RowLookedUp, Put, TypeInv, Processing, Task
    <3>. QED BY <3>1, <3>2, <1>0, AnswerFrame
  <2>14. CASE AccountLookedUp(t)
    <3>1. UNCHANGED <<info, validator>> /\ \A u \in Tasks \ {t} : task'[u] = task[u]
      BY <2>14 DEF AccountLookedUp, Put, TypeInv, node, db, past
    <3>2. task'[t].cur = task[t].cur /\ task'[t].got = task[t].got /\ task[t].step \in Processing
      BY <2>14, <2>0 DEF AccountLookedUp, Read, Put, TypeInv, Processing, Task
    <3>. QED BY <3>1, <3>2, <1>0, AnswerFrame
  <2>15. CASE AccountWritten(t)
    <3>1. UNCHANGED <<info, validator>> /\ \A u \in Tasks \ {t} : task'[u] = task[u]
      BY <2>15 DEF AccountWritten, Put, TypeInv, node, db, past
    <3>2. task'[t].cur = task[t].cur /\ task'[t].got = task[t].got /\ task[t].step \in Processing
      BY <2>15, <2>0 DEF AccountWritten, Put, TypeInv, Processing, Task
    <3>. QED BY <3>1, <3>2, <1>0, AnswerFrame
  <2>. QED BY <1>2, <2>1, <2>2, <2>3, <2>4, <2>5, <2>6, <2>7, <2>8,
              <2>9, <2>10, <2>11, <2>12, <2>13, <2>14, <2>15
       DEF Step, Ends
<1>3. CASE Crash
  BY <1>3 DEF Crash, Dies, node, db, past, AnswerInv, Idle, Processing, None
<1>4. CASE UNCHANGED vars
  BY <1>4 DEF vars, node, db, past, mem, AnswerInv
<1>. QED BY <1>1, <1>2, <1>3, <1>4 DEF Next

-----------------------------------------------------------------------------
(* What each step does to its task *)

Own(t)  == \A u \in Tasks \ {t} : task'[u] = task[u]
Same(t) == Own(t) /\ task'[t].event = task[t].event /\ task'[t].who = task[t].who

\* The commands of balances and of generators.
LEMMA AccountMoves ==
    ASSUME TypeInv, NEW t \in Tasks
    PROVE  /\ BalanceAnswered(t) => /\ Same(t) /\ task'[t].step = "answered"
                                    /\ task'[t].got = balance[task[t].who]
           /\ BalanceRefused(t) \/ UpdateAccount(t) \/ GeneratorWritten(t) =>
                  Own(t) /\ task'[t] = Idle
           /\ GeneratorLookedUp(t) => Same(t) /\ task'[t].step = "answered"
<1>0. task \in [Tasks -> Task] /\ task[t] \in Task
  BY DEF TypeInv
<1>1. BalanceAnswered(t) => /\ Same(t) /\ task'[t].step = "answered"
                            /\ task'[t].got = balance[task[t].who]
  BY <1>0 DEF BalanceAnswered, Put, Same, Own, Task
<1>2. BalanceRefused(t) \/ UpdateAccount(t) \/ GeneratorWritten(t) => Own(t) /\ task'[t] = Idle
  BY <1>0 DEF BalanceRefused, UpdateAccount, GeneratorWritten, Put, Own
<1>3. GeneratorLookedUp(t) => Same(t) /\ task'[t].step = "answered"
  BY <1>0 DEF GeneratorLookedUp, Put, Same, Own, Task
<1>. QED BY <1>1, <1>2, <1>3

\* The commands of validators.
LEMMA ProcessMoves ==
    ASSUME TypeInv, StepsInv, NEW t \in Tasks
    PROVE  /\ \A v \in Validators :
                 ProcessValidator(t, v) =>
                     /\ Same(t) /\ task'[t].step = "reading" /\ task'[t].cur = v
                     /\ task'[t].rest = task[t].rest \ {v} /\ task'[t].got = -1
           /\ InfoAnswered(t) =>
                  /\ Same(t) /\ task'[t].step = "reading" /\ task'[t].cur = task[t].cur
                  /\ task'[t].rest = task[t].rest /\ task'[t].got = info[task[t].cur]
           /\ RowLookedUp(t) \/ AccountLookedUp(t) \/ AccountWritten(t) =>
                  /\ Same(t) /\ task[t].step \in Processing /\ task'[t].step \in Processing
                  /\ task'[t].cur = task[t].cur /\ task'[t].rest = task[t].rest
                  /\ task'[t].got = task[t].got
           /\ Ends(t) => /\ Same(t) /\ task'[t].step = "next" /\ task'[t].cur = None
                         /\ task'[t].rest = task[t].rest
           /\ ValidatorDone(t) => Own(t) /\ task'[t] = Idle
<1>0. task \in [Tasks -> Task] /\ task[t] \in Task
  BY DEF TypeInv
<1>1. ASSUME NEW v \in Validators, ProcessValidator(t, v)
      PROVE  /\ Same(t) /\ task'[t].step = "reading" /\ task'[t].cur = v
             /\ task'[t].rest = task[t].rest \ {v} /\ task'[t].got = -1
  BY <1>0, <1>1 DEF ProcessValidator, Put, Same, Own, Task
<1>2. InfoAnswered(t) =>
          /\ Same(t) /\ task'[t].step = "reading" /\ task'[t].cur = task[t].cur
          /\ task'[t].rest = task[t].rest /\ task'[t].got = info[task[t].cur]
  BY <1>0 DEF InfoAnswered, Put, Same, Own, Task
<1> DEFINE Goes == /\ Same(t) /\ task[t].step \in Processing /\ task'[t].step \in Processing
                   /\ task'[t].cur = task[t].cur /\ task'[t].rest = task[t].rest
                   /\ task'[t].got = task[t].got
<1>3. RowLookedUp(t) => Goes
  BY <1>0 DEF RowLookedUp, Put, Same, Own, Task, Processing
<1>4. AccountLookedUp(t) => Goes
  BY <1>0 DEF AccountLookedUp, Read, Put, Same, Own, Task, Processing
<1>5. AccountWritten(t) => Goes
  BY <1>0 DEF AccountWritten, Put, Same, Own, Task, Processing
<1>6. ASSUME Ends(t)
      PROVE  /\ Same(t) /\ task'[t].step = "next" /\ task'[t].cur = None
             /\ task'[t].rest = task[t].rest
  <2>1. \E ok \in BOOLEAN : Ended(t, ok)
    BY <1>6, EndsFacts
  <2>. QED BY <1>0, <2>1 DEF Ended, Processed, Put, Same, Own, Task
<1>7. ValidatorDone(t) => Own(t) /\ task'[t] = Idle
  BY <1>0 DEF ValidatorDone, Put, Own
<1>. QED BY <1>1, <1>2, <1>3, <1>4, <1>5, <1>6, <1>7

\* The commands of stakes.
LEMMA StakerMoves ==
    ASSUME TypeInv, NEW t \in Tasks
    PROVE  /\ StakerAnswered(t) => /\ Same(t) /\ task'[t].step = "next"
                                   /\ task'[t].rest = stakes[task[t].who].on
           /\ AddStakes(t) => Same(t) /\ task'[t].step = "stakes"
           /\ StakesAnswered(t) => /\ Same(t) /\ task'[t].step = "delete"
                                   /\ task'[t].got = stakes[task[t].who].version
                                   /\ task'[t].rest = stakes[task[t].who].on
           /\ StakesDeleted(t) => /\ Same(t) /\ task'[t].step = "insert"
                                  /\ task'[t].got = task[t].got /\ task'[t].rest = task[t].rest
           /\ StakesInserted(t) => Own(t) /\ task'[t] = Idle
<1>0. task \in [Tasks -> Task] /\ task[t] \in Task
  BY DEF TypeInv
<1>1. StakerAnswered(t) => /\ Same(t) /\ task'[t].step = "next"
                           /\ task'[t].rest = stakes[task[t].who].on
  BY <1>0 DEF StakerAnswered, StakedOn, Put, Same, Own, Task
<1>2. AddStakes(t) => Same(t) /\ task'[t].step = "stakes"
  BY <1>0 DEF AddStakes, Put, Same, Own, Task
<1>3. StakesAnswered(t) => /\ Same(t) /\ task'[t].step = "delete"
                           /\ task'[t].got = stakes[task[t].who].version
                           /\ task'[t].rest = stakes[task[t].who].on
  BY <1>0 DEF StakesAnswered, Put, Same, Own, Task
<1>4. StakesDeleted(t) => /\ Same(t) /\ task'[t].step = "insert"
                          /\ task'[t].got = task[t].got /\ task'[t].rest = task[t].rest
  BY <1>0 DEF StakesDeleted, Put, Same, Own, Task
<1>5. StakesInserted(t) => Own(t) /\ task'[t] = Idle
  BY <1>0 DEF StakesInserted, Put, Own
<1>. QED BY <1>1, <1>2, <1>3, <1>4, <1>5

-----------------------------------------------------------------------------
(* The rows of stakes *)

\* Every step keeps the rows of a staker of one answer.
LEMMA NextRowsInv ==
    TypeInv /\ StepsInv /\ StakesMutexInv /\ RowsInv /\ [Next]_vars => RowsInv'
<1> SUFFICES ASSUME TypeInv, StepsInv, StakesMutexInv, RowsInv, [Next]_vars PROVE RowsInv'
  OBVIOUS
<1>1. ASSUME NEW t \in Tasks, Own(t), task'[t].step # "insert", UNCHANGED <<stake, inserted>>
      PROVE  RowsInv'
  BY <1>1 DEF RowsInv, Own
<1>2. ASSUME NEW t \in Tasks, Chain(t) PROVE RowsInv'
  BY <1>1, <1>2, ChainFacts, ChainNode DEF Own
<1>3. ASSUME NEW t \in Tasks, Step(t) PROVE RowsInv'
  <2>1. CASE \/ BalanceAnswered(t) \/ BalanceRefused(t) \/ UpdateAccount(t)
             \/ GeneratorLookedUp(t) \/ GeneratorWritten(t)
    <3>1. UNCHANGED <<stake, inserted>>
      BY <2>1 DEF BalanceAnswered, BalanceRefused, UpdateAccount, GeneratorLookedUp,
                  GeneratorWritten, db, past
    <3>. QED BY <1>1, <2>1, <3>1, AccountMoves DEF Same, Idle, None
  <2>2. CASE \/ \E v \in Validators : ProcessValidator(t, v)
             \/ InfoAnswered(t) \/ RowLookedUp(t) \/ AccountLookedUp(t) \/ AccountWritten(t)
             \/ Ends(t) \/ ValidatorDone(t)
    <3>1. UNCHANGED <<stake, inserted>>
      BY <2>2, EndsFacts DEF ProcessValidator, InfoAnswered, RowLookedUp, AccountLookedUp,
                             AccountWritten, ValidatorDone, db, past
    <3>. QED BY <1>1, <2>2, <3>1, ProcessMoves DEF Same, Idle, None, Processing
  <2>3. CASE StakerAnswered(t) \/ AddStakes(t) \/ StakesAnswered(t)
    <3>1. UNCHANGED <<stake, inserted>>
      BY <2>3 DEF StakerAnswered, AddStakes, StakesAnswered, db, past
    <3>. QED BY <1>1, <2>3, <3>1, StakerMoves DEF Same
  <2>4. CASE StakesDeleted(t)
    <3>1. stake' = stake \ RowsOf(task[t].who) /\ Same(t) /\ UNCHANGED inserted
      BY <2>4, StakerMoves DEF StakesDeleted, OldRows, past
    <3>. QED BY <3>1 DEF RowsInv, RowsOf, Same, Own
  <2>5. CASE StakesInserted(t)
    <3>1. /\ stake' = stake \cup {[staker |-> task[t].who, validator |-> v,
                                   version |-> task[t].got] : v \in task[t].rest}
          /\ inserted' = [inserted EXCEPT ![task[t].who] = task[t].got]
          /\ task[t].step = "insert" /\ Head(stakesMutex) = t
          /\ Own(t) /\ task'[t] = Idle
      BY <2>5, StakerMoves DEF StakesInserted, Holds
    <3>2. \A r \in stake' : /\ r.staker \in Stakers
                            /\ \/ r \in stake /\ r.staker # task[t].who
                               \/ r.staker = task[t].who /\ r.version = task[t].got
      <4>1. task[t].who \in Stakers
        BY <3>1, StepFacts DEF Replacing
      <4>. QED BY <3>1, <4>1 DEF RowsInv, TypeInv
    <3>3. \A u \in Tasks : task'[u].step # "insert"
      BY <3>1 DEF Own, StakesMutexInv, Replacing, Idle, None
    <3>. QED BY <3>1, <3>2, <3>3 DEF RowsInv, TypeInv
  <2>6. CASE InsertFails(t)
    BY <2>6 DEF InsertFails, Dies, RowsInv, Idle, db, past, None
  <2>. QED BY <1>3, <2>1, <2>2, <2>3, <2>4, <2>5, <2>6 DEF Step, Ends
<1>4. CASE Crash
  BY <1>4 DEF Crash, Dies, RowsInv, Idle, db, past, None
<1>5. CASE UNCHANGED vars
  BY <1>5 DEF vars, db, past, mem, RowsInv
<1>. QED BY <1>2, <1>3, <1>4, <1>5 DEF Next

-----------------------------------------------------------------------------
(* The order of the answers that are inserted *)

\* A step that changes neither the node's stakes nor what was inserted last, and
\* leaves a task that replaces rows its answer.
LEMMA InsertedFrame ==
    ASSUME InsertedInv, NEW t \in Tasks, Own(t), UNCHANGED <<stakes, inserted>>,
           task'[t].step \in Replacing => /\ task[t].step \in Replacing
                                          /\ task'[t].who = task[t].who
                                          /\ task'[t].got = task[t].got
    PROVE  InsertedInv'
BY DEF InsertedInv, Own

\* Stakes only get newer, and with them what is inserted: who holds the mutex has
\* asked the node after the last insertion.
LEMMA NextInsertedInv ==
    TypeInv /\ StepsInv /\ StakesMutexInv /\ InsertedInv /\ [Next]_vars => InsertedInv'
<1> SUFFICES ASSUME TypeInv, StepsInv, StakesMutexInv, InsertedInv, [Next]_vars
             PROVE  InsertedInv'
  OBVIOUS
<1>0. stakes \in [Stakers -> [version : Int, on : SUBSET Validators]] /\ inserted \in [Stakers -> Int]
  BY DEF TypeInv
<1>1. ASSUME NEW t \in Tasks, Chain(t) PROVE InsertedInv'
  <2>1. Own(t) /\ task'[t].step \notin Replacing /\ UNCHANGED inserted
    BY <1>1, ChainFacts, ChainNode DEF Own, Replacing
  <2>2. \A s \in Stakers : stakes'[s].version >= stakes[s].version
    <3>1. CASE UNCHANGED stakes
      BY <1>0, <3>1
    <3>2. ASSUME NEW s \in Stakers, NEW S \in SUBSET Validators, StakesChange(s, S, t)
          PROVE  \A r \in Stakers : stakes'[r].version >= stakes[r].version
      BY <1>0, <3>2 DEF StakesChange
    <3>. QED BY <1>1, <3>1, <3>2 DEF Chain, BalanceChanges, ValidatorChanges, BlockForged
  <2>3. \A s \in Stakers : stakes'[s].version \in Int /\ stakes[s].version \in Int
    BY <1>0, NextTypeInv DEF TypeInv
  <2>4. \A u \in Tasks : task[u].step \in Replacing => /\ task[u].who \in Stakers
                                                       /\ task[u].got \in Int
    BY StepFacts
  <2>. QED BY <1>0, <2>1, <2>2, <2>3, <2>4 DEF InsertedInv, Own
<1>2. ASSUME NEW t \in Tasks, Step(t) PROVE InsertedInv'
  <2>1. CASE \/ BalanceAnswered(t) \/ BalanceRefused(t) \/ UpdateAccount(t)
             \/ GeneratorLookedUp(t) \/ GeneratorWritten(t)
    <3>1. UNCHANGED <<stakes, inserted>>
      BY <2>1 DEF BalanceAnswered, BalanceRefused, UpdateAccount, GeneratorLookedUp,
                  GeneratorWritten, node, db, past
    <3>. QED BY <2>1, <3>1, AccountMoves, InsertedFrame DEF Same, Idle, None, Replacing
  <2>2. CASE \/ \E v \in Validators : ProcessValidator(t, v)
             \/ InfoAnswered(t) \/ RowLookedUp(t) \/ AccountLookedUp(t) \/ AccountWritten(t)
             \/ Ends(t) \/ ValidatorDone(t)
    <3>1. UNCHANGED <<stakes, inserted>>
      BY <2>2, EndsFacts DEF ProcessValidator, InfoAnswered, RowLookedUp, AccountLookedUp,
                             AccountWritten, ValidatorDone, node, db, past
    <3>. QED BY <2>2, <3>1, ProcessMoves, InsertedFrame
             DEF Same, Idle, None, Processing, Replacing
  <2>3. CASE StakerAnswered(t) \/ AddStakes(t) \/ StakesDeleted(t)
    <3>1. UNCHANGED <<stakes, inserted>>
      BY <2>3 DEF StakerAnswered, AddStakes, StakesDeleted, node, db, past
    <3>2. StakesDeleted(t) => task[t].step \in Replacing
      BY DEF StakesDeleted, Replacing
    <3>. QED BY <2>3, <3>1, <3>2, StakerMoves, InsertedFrame DEF Same, Replacing
  <2>4. CASE StakesAnswered(t)
    <3>1. /\ UNCHANGED <<stakes, inserted>> /\ Same(t) /\ task[t].who \in Stakers
          /\ task'[t].got = stakes[task[t].who].version
      BY <2>4, StakerMoves, StepFacts DEF StakesAnswered, node, db, past
    <3>. QED BY <1>0, <3>1 DEF InsertedInv, Same, Own
  <2>5. CASE StakesInserted(t)
    <3>1. /\ inserted' = [inserted EXCEPT ![task[t].who] = task[t].got] /\ UNCHANGED stakes
          /\ task[t].step = "insert" /\ Head(stakesMutex) = t
          /\ Own(t) /\ task'[t] = Idle
      BY <2>5, StakerMoves DEF StakesInserted, Holds, node
    <3>2. \A u \in Tasks : task'[u].step \notin Replacing
      BY <3>1 DEF Own, StakesMutexInv, Replacing, Idle, None
    <3>3. task[t].got <= stakes[task[t].who].version
      BY <3>1 DEF InsertedInv, Replacing
    <3>. QED BY <1>0, <3>1, <3>2, <3>3 DEF InsertedInv
  <2>6. CASE InsertFails(t)
    BY <2>6 DEF InsertFails, Dies, InsertedInv, Idle, node, db, past, None, Replacing
  <2>. QED BY <1>2, <2>1, <2>2, <2>3, <2>4, <2>5, <2>6 DEF Step, Ends
<1>3. CASE Crash
  BY <1>3 DEF Crash, Dies, InsertedInv, Idle, node, db, past, None, Replacing
<1>4. CASE UNCHANGED vars
  BY <1>4 DEF vars, node, db, past, mem, InsertedInv
<1>. QED BY <1>1, <1>2, <1>3, <1>4 DEF Next

-----------------------------------------------------------------------------
(* The columns that one branch writes *)

\* A step that writes no row, and leads its task into no step that a row or an
\* account must have been read or written for.
LEMMA ColumnsFrame ==
    ASSUME ColumnsInv, NEW t \in Tasks, Own(t),
           UNCHANGED <<account, validator, columns, early>>,
           task'[t].event = "generator" =>
               task[t].event = "generator" /\ task'[t].who = task[t].who,
           task'[t].step = "reading" /\ task'[t].found = "yes" =>
               /\ task[t].step = "reading" /\ task[t].found = "yes"
               /\ task'[t].cur = task[t].cur,
           task'[t].step # "create"
    PROVE  ColumnsInv'
BY DEF ColumnsInv, Own

\* A command that ends well writes its own columns beside those of the answer.
LEMMA EndsColumnsInv ==
    ASSUME TypeInv, StepsInv, ColumnsInv, NEW t \in Tasks, Ends(t)
    PROVE  ColumnsInv'
<1>0. /\ Own(t) /\ task'[t].step = "next" /\ UNCHANGED account
      /\ task'[t].event \in {"validator", "staked"}
  BY EndsFacts, ProcessMoves, StepFacts DEF Same
<1>1. PICK c \in Validators : c = task[t].cur
  BY EndsFacts, StepFacts
<1>2. CASE ValidatorUpdated(t)
  <2>1. /\ validator' = [validator EXCEPT ![c] = task[t].got] /\ task[t].got # -1
        /\ columns' = [columns EXCEPT ![c] = @ \cup {"reward"}] /\ UNCHANGED early
        /\ validator[c] # NoRow
    BY <1>1, <1>2 DEF ValidatorUpdated, RowWritten, Read, past, ColumnsInv
  <2>2. \A v \in Validators : validator[v] # NoRow => validator'[v] # NoRow
    BY <2>1 DEF NoRow, TypeInv
  <2>3. \A v \in Validators : /\ "keys" \in columns'[v] => "keys" \in columns[v]
                              /\ v # c => columns'[v] = columns[v] /\ validator'[v] = validator[v]
                              /\ columns'[c] # {} /\ ("keys" \notin columns'[v] => "keys" \notin columns[v])
    BY <2>1 DEF TypeInv
  <2>4. \A u \in Tasks : task[u].event = "generator" => task[u].who \in Validators
    BY DEF StepsInv, Steps
  <2>5. ASSUME NEW v \in Validators
        PROVE  /\ "keys" \in columns'[v] => account'[v] = "named"
               /\ validator'[v] # NoRow /\ "keys" \notin columns'[v] => v \in early'
               /\ validator'[v] > 0 => columns'[v] # {}
    BY <1>0, <2>1, <2>3 DEF ColumnsInv
  <2>6. ASSUME NEW u \in Tasks, u # t
        PROVE  /\ task'[u].event = "generator" /\ validator'[task'[u].who] = NoRow =>
                      task'[u].who \in early'
               /\ task'[u].step = "reading" /\ task'[u].found = "yes" =>
                      validator'[task'[u].cur] # NoRow
               /\ task'[u].step = "create" => account'[task'[u].cur] = "named"
    <3>1. task'[u] = task[u] /\ task[u].cur \in Validators \cup {None}
      BY <1>0, <2>6, StepFacts DEF Own
    <3>2. task[u].step = "reading" => task[u].cur \in Validators
      BY StepFacts DEF Processing
    <3>. QED BY <1>0, <2>1, <2>2, <2>4, <2>6, <3>1, <3>2 DEF ColumnsInv
  <2>. QED BY <1>0, <2>5, <2>6 DEF ColumnsInv
<1>3. CASE ValidatorCreated(t)
  <2>1. /\ validator' = [validator EXCEPT ![c] = task[t].got] /\ task[t].got # -1
        /\ columns' = [columns EXCEPT ![c] = @ \cup {"keys"}] /\ early' = early \ {c}
        /\ account[c] = "named"
    BY <1>1, <1>3 DEF ValidatorCreated, RowWritten, ColumnsInv, StepsInv, Steps
  <2>2. \A v \in Validators : /\ validator[v] # NoRow => validator'[v] # NoRow
                              /\ validator'[v] = NoRow => v # c /\ validator[v] = NoRow
    BY <2>1 DEF NoRow, TypeInv
  <2>3. /\ "keys" \in columns'[c]
        /\ \A v \in Validators : v # c => columns'[v] = columns[v] /\ validator'[v] = validator[v]
    BY <2>1 DEF TypeInv
  <2>4. \A u \in Tasks : task[u].event = "generator" => task[u].who \in Validators
    BY DEF StepsInv, Steps
  <2>5. ASSUME NEW v \in Validators
        PROVE  /\ "keys" \in columns'[v] => account'[v] = "named"
               /\ validator'[v] # NoRow /\ "keys" \notin columns'[v] => v \in early'
               /\ validator'[v] > 0 => columns'[v] # {}
    BY <1>0, <2>1, <2>3 DEF ColumnsInv
  <2>6. ASSUME NEW u \in Tasks, u # t
        PROVE  /\ task'[u].event = "generator" /\ validator'[task'[u].who] = NoRow =>
                      task'[u].who \in early'
               /\ task'[u].step = "reading" /\ task'[u].found = "yes" =>
                      validator'[task'[u].cur] # NoRow
               /\ task'[u].step = "create" => account'[task'[u].cur] = "named"
    <3>1. task'[u] = task[u]
      BY <1>0, <2>6 DEF Own
    <3>2. task[u].step = "reading" => task[u].cur \in Validators
      BY StepFacts DEF Processing
    <3>. QED BY <1>0, <2>1, <2>2, <2>4, <3>1, <3>2 DEF ColumnsInv
  <2>. QED BY <1>0, <2>5, <2>6 DEF ColumnsInv
<1>4. CASE AccountClash(t) \/ ValidatorClash(t) \/ ProcessFails(t)
  <2>1. UNCHANGED <<account, validator, columns, early>>
    BY <1>4 DEF AccountClash, ValidatorClash, ProcessFails, ProcessedNot, past
  <2>. QED BY <1>0, <2>1, ColumnsFrame
<1>. QED BY <1>2, <1>3, <1>4 DEF Ends

\* Every step keeps the invariant of the columns.
LEMMA NextColumnsInv ==
    TypeInv /\ StepsInv /\ ColumnsInv /\ [Next]_vars => ColumnsInv'
<1> SUFFICES ASSUME TypeInv, StepsInv, ColumnsInv, [Next]_vars PROVE ColumnsInv'
  OBVIOUS
<1>1. ASSUME NEW t \in Tasks, Chain(t) PROVE ColumnsInv'
  <2>0. Own(t) /\ task'[t].step \in {"new", "next"} /\ UNCHANGED <<validator, columns>>
    BY <1>1, ChainFacts, ChainNode DEF Own
  <2>1. ASSUME NEW v \in Validators, BlockForged(v, t) PROVE ColumnsInv'
    <3>1. task'[t].event = "generator" /\ task'[t].who = v
      BY <2>1 DEF BlockForged, Put, New, Idle, TypeInv
    <3>2. /\ early \subseteq early' /\ (validator[v] = NoRow => v \in early')
          /\ \A w \in Validators : account[w] = "named" => account'[w] = "named"
      BY <2>1 DEF BlockForged, TypeInv, None
    <3>3. \A u \in Tasks : task[u].step = "create" => task[u].cur \in Validators
      BY StepFacts DEF Processing
    <3>. QED BY <2>0, <3>1, <3>2, <3>3 DEF ColumnsInv, Own
  <2>2. CASE ~\E v \in Validators : BlockForged(v, t)
    <3>1. \/ \E a \in Holders : BalanceChanges(a, t)
          \/ \E v \in Validators : ValidatorChanges(v, t)
          \/ \E s \in Stakers, S \in SUBSET Validators : StakesChange(s, S, t)
      BY <1>1, <2>2 DEF Chain
    <3>2. UNCHANGED <<account, early>>
      BY <3>1 DEF BalanceChanges, ValidatorChanges, StakesChange, db, past
    <3>3. task'[t].event # "generator"
      <4>1. \A event, who : New(event, who).event = event
        BY DEF New, Idle
      <4>2. \A v : [New("validator", v) EXCEPT !.step = "next", !.rest = {v}].event = "validator"
        BY DEF New, Idle
      <4>3. \E k : Put(t, k) /\ k.event # "generator"
        BY <3>1, <4>1, <4>2 DEF BalanceChanges, ValidatorChanges, StakesChange
      <4>. QED BY <4>3 DEF Put, TypeInv
    <3>. QED BY <2>0, <3>2, <3>3, ColumnsFrame
  <2>. QED BY <2>1, <2>2
<1>2. ASSUME NEW t \in Tasks, Step(t) PROVE ColumnsInv'
  <2>0. task[t] \in Task /\ Steps(task[t])
    BY DEF TypeInv, StepsInv
  <2>1. CASE BalanceAnswered(t) \/ BalanceRefused(t) \/ UpdateAccount(t) \/ GeneratorLookedUp(t)
    <3>1. UNCHANGED <<account, validator, columns, early>>
      BY <2>1 DEF BalanceAnswered, BalanceRefused, UpdateAccount, GeneratorLookedUp, db, past
    <3>. QED BY <2>1, <3>1, AccountMoves, ColumnsFrame DEF Same, Idle, None
  <2>2. CASE GeneratorWritten(t)
    <3>1. /\ task[t].event = "generator" /\ task[t].who \in Validators
          /\ Own(t) /\ task'[t] = Idle /\ UNCHANGED <<account, columns, early>>
          /\ validator' = [validator EXCEPT ![task[t].who] =
                               IF task[t].found = "no" /\ @ = NoRow THEN Bare ELSE @]
      BY <2>2, <2>0, AccountMoves DEF GeneratorWritten, past, Steps
    <3>2. \A v \in Validators : /\ validator[v] # NoRow => validator'[v] = validator[v]
                                /\ v # task[t].who => validator'[v] = validator[v]
                                /\ validator'[v] # validator[v] => validator'[v] = 0
      BY <3>1 DEF TypeInv, Bare
    <3>3. ASSUME NEW v \in Validators, validator[v] = NoRow, validator'[v] # NoRow PROVE v \in early
      BY <3>1, <3>2, <3>3 DEF ColumnsInv
    <3>4. ASSUME NEW v \in Validators
          PROVE  /\ "keys" \in columns'[v] => account'[v] = "named"
                 /\ validator'[v] # NoRow /\ "keys" \notin columns'[v] => v \in early'
                 /\ validator'[v] > 0 => columns'[v] # {}
      BY <3>1, <3>2, <3>3 DEF ColumnsInv
    <3>5. ASSUME NEW u \in Tasks, u # t
          PROVE  /\ task'[u].event = "generator" /\ validator'[task'[u].who] = NoRow =>
                        task'[u].who \in early'
                 /\ task'[u].step = "reading" /\ task'[u].found = "yes" =>
                        validator'[task'[u].cur] # NoRow
                 /\ task'[u].step = "create" => account'[task'[u].cur] = "named"
      <4>1. task'[u] = task[u]
        BY <3>1, <3>5 DEF Own
      <4>2. /\ task[u].step = "reading" => task[u].cur \in Validators
            /\ task[u].event = "generator" => task[u].who \in Validators
        BY StepFacts DEF Processing, StepsInv, Steps
      <4>. QED BY <3>1, <3>2, <4>1, <4>2 DEF ColumnsInv
    <3>. QED BY <3>1, <3>4, <3>5 DEF ColumnsInv, Idle, None
  <2>3. CASE Ends(t)
    BY <2>3, EndsColumnsInv
  <2>4. CASE \/ \E v \in Validators : ProcessValidator(t, v)
             \/ InfoAnswered(t) \/ AccountLookedUp(t) \/ ValidatorDone(t)
    <3>1. UNCHANGED <<account, validator, columns, early>> /\ task[t].event # "generator"
      BY <2>4, StepFacts DEF ProcessValidator, InfoAnswered, AccountLookedUp, Read, ValidatorDone,
                             db, past, Processing
    <3>2. (\E v \in Validators : ProcessValidator(t, v)) => task'[t].found = "?"
      BY <2>0 DEF ProcessValidator, Put, TypeInv, Task
    <3>3. AccountLookedUp(t) => task'[t].step = "account"
      BY <2>0 DEF AccountLookedUp, Put, TypeInv, Task
    <3>4. InfoAnswered(t) => task'[t].found = task[t].found /\ task[t].step = "reading"
      BY <2>0 DEF InfoAnswered, Put, TypeInv, Task
    <3>. QED BY <2>4, <3>1, <3>2, <3>3, <3>4, ProcessMoves, ColumnsFrame DEF Same, Idle, None
  <2>5. CASE RowLookedUp(t)
    <3>1. /\ UNCHANGED <<account, validator, columns, early>> /\ task[t].event # "generator"
          /\ Same(t) /\ task'[t].step = "reading" /\ task'[t].cur = task[t].cur
          /\ task'[t].found = "yes" => validator[task[t].cur] # NoRow
      BY <2>5, <2>0, ProcessMoves, StepFacts
         DEF RowLookedUp, Put, db, past, Processing, TypeInv, Task
    <3>. QED BY <3>1 DEF ColumnsInv, Same, Own
  <2>6. CASE AccountWritten(t)
    <3>1. /\ UNCHANGED <<validator, columns, early>> /\ task[t].event # "generator"
          /\ Same(t) /\ task'[t].cur = task[t].cur /\ task[t].cur \in Validators
          /\ account' = [account EXCEPT ![task[t].cur] = "named"]
      BY <2>6, ProcessMoves, StepFacts DEF AccountWritten, past, Processing
    <3>2. task'[t].step = "create"
      BY <2>6, <2>0 DEF AccountWritten, Put, TypeInv, Task
    <3>3. \A v \in Validators : account[v] = "named" \/ v = task[t].cur => account'[v] = "named"
      BY <3>1 DEF TypeInv
    <3>4. \A u \in Tasks : task[u].step = "create" => task[u].cur \in Validators
      BY StepFacts DEF Processing
    <3>. QED BY <3>1, <3>2, <3>3, <3>4 DEF ColumnsInv, Same, Own
  <2>7. CASE \/ StakerAnswered(t) \/ AddStakes(t) \/ StakesAnswered(t) \/ StakesDeleted(t)
             \/ StakesInserted(t)
    <3>1. UNCHANGED <<account, validator, columns, early>>
      BY <2>7 DEF StakerAnswered, AddStakes, StakesAnswered, StakesDeleted, StakesInserted, db, past
    <3>2. task[t].event = "staked"
      BY <2>7, StepFacts DEF StakerAnswered, AddStakes, StakesAnswered, StakesDeleted,
                             StakesInserted, Replacing
    <3>. QED BY <2>7, <3>1, <3>2, StakerMoves, ColumnsFrame DEF Same, Idle, None
  <2>8. CASE InsertFails(t)
    BY <2>8 DEF InsertFails, Dies, ColumnsInv, Idle, db, past, None
  <2>. QED BY <1>2, <2>1, <2>2, <2>3, <2>4, <2>5, <2>6, <2>7, <2>8 DEF Step, Ends
<1>3. CASE Crash
  BY <1>3 DEF Crash, Dies, ColumnsInv, Idle, db, past, None
<1>4. CASE UNCHANGED vars
  BY <1>4 DEF vars, db, past, mem, ColumnsInv
<1>. QED BY <1>1, <1>2, <1>3, <1>4 DEF Next

-----------------------------------------------------------------------------
(* Balances *)

\* A step that has nothing to do with balances.
LEMMA BalanceFrame ==
    ASSUME BalanceInv, NEW t \in Tasks, Own(t),
           task[t].event # "balance", task'[t].event # "balance",
           UNCHANGED <<balance, balanceOf>>, doubt \cap Holders \subseteq doubt'
    PROVE  BalanceInv'
<1>1. \A u \in Tasks, a \in Holders : /\ AsksBalance(u, a)' <=> AsksBalance(u, a)
                                      /\ HasBalance(u, a)' <=> HasBalance(u, a)
                                      /\ HasBalance(u, a) => task'[u].got = task[u].got
  BY DEF AsksBalance, HasBalance, Own
<1>. QED BY <1>1 DEF BalanceInv

\* The node answers: the answer of the last command is the balance, and if it is
\* not the only one there is doubt.
LEMMA BalanceAnsweredInv ==
    ASSUME TypeInv, StepsInv, BalanceInv, NEW t \in Tasks, BalanceAnswered(t)
    PROVE  BalanceInv'
<1>1. /\ task[t].event = "balance" /\ task[t].step = "new"
      /\ Same(t) /\ task'[t].step = "answered" /\ task'[t].got = balance[task[t].who]
      /\ UNCHANGED <<balance, balanceOf>>
      /\ doubt' = IF Others(t, "balance", "answered") THEN doubt \cup {task[t].who}
                                                      ELSE doubt \ {task[t].who}
  BY AccountMoves DEF BalanceAnswered, node, db, past
<1>2. \A u \in Tasks \ {t}, a \in Holders : /\ AsksBalance(u, a)' <=> AsksBalance(u, a)
                                            /\ HasBalance(u, a)' <=> HasBalance(u, a)
                                            /\ task'[u].got = task[u].got
  BY <1>1 DEF AsksBalance, HasBalance, Same, Own
<1>3. ASSUME NEW a \in Holders, a # task[t].who,
             a \notin doubt', \A u \in Tasks : ~AsksBalance(u, a)'
      PROVE  /\ (\A u \in Tasks : ~HasBalance(u, a)') => balanceOf'[a] = balance'[a]
             /\ \A u \in Tasks : HasBalance(u, a)' => task'[u].got = balance'[a]
             /\ \A u, w \in Tasks : HasBalance(u, a)' /\ HasBalance(w, a)' => u = w
  <2>1. ~AsksBalance(t, a) /\ ~HasBalance(t, a) /\ ~HasBalance(t, a)'
    BY <1>1, <1>3 DEF AsksBalance, HasBalance, Same
  <2>2. a \notin doubt
    BY <1>1, <1>3
  <2>. QED BY <1>1, <1>2, <1>3, <2>1, <2>2 DEF BalanceInv
<1>4. ASSUME NEW a \in Holders, a = task[t].who,
             a \notin doubt', \A u \in Tasks : ~AsksBalance(u, a)'
      PROVE  /\ (\A u \in Tasks : ~HasBalance(u, a)') => balanceOf'[a] = balance'[a]
             /\ \A u \in Tasks : HasBalance(u, a)' => task'[u].got = balance'[a]
             /\ \A u, w \in Tasks : HasBalance(u, a)' /\ HasBalance(w, a)' => u = w
  <2>1. ~Others(t, "balance", "answered")
    BY <1>1, <1>4
  <2>2. \A u \in Tasks \ {t} : ~HasBalance(u, a)'
    BY <1>2, <1>4, <2>1 DEF Others, HasBalance
  <2>3. HasBalance(t, a)'
    BY <1>1, <1>4 DEF HasBalance, Same
  <2>. QED BY <1>1, <1>4, <2>2, <2>3
<1>. QED BY <1>3, <1>4 DEF BalanceInv

\* A crash puts every account whose update is under way into doubt.
LEMMA DiesBalanceInv == TypeInv /\ StepsInv /\ BalanceInv /\ Dies => BalanceInv'
<1> SUFFICES ASSUME TypeInv, StepsInv, BalanceInv, Dies PROVE BalanceInv'
  OBVIOUS
<1>1. \A u \in Tasks, a \in Holders : ~AsksBalance(u, a)' /\ ~HasBalance(u, a)'
  BY DEF Dies, AsksBalance, HasBalance, Idle, None
<1>2. ASSUME NEW a \in Holders, a \notin doubt'
      PROVE  a \notin doubt /\ \A u \in Tasks : ~AsksBalance(u, a) /\ ~HasBalance(u, a)
  <2>1. a # None
    BY NoneFacts
  <2>2. a \notin doubt /\ \A u \in Tasks : a \notin Subjects(u)
    BY <1>2, <2>1 DEF Dies
  <2>3. \A u \in Tasks : task[u].who = a => Free(u)
    BY <2>2 DEF Subjects
  <2>. QED BY <2>2, <2>3 DEF AsksBalance, HasBalance, Free, None
<1>3. UNCHANGED <<balance, balanceOf>>
  BY DEF Dies, node, db, past
<1>. QED BY <1>1, <1>2, <1>3 DEF BalanceInv

\* Every step keeps the invariant of the balances.
LEMMA NextBalanceInv == TypeInv /\ StepsInv /\ BalanceInv /\ [Next]_vars => BalanceInv'
<1> SUFFICES ASSUME TypeInv, StepsInv, BalanceInv, [Next]_vars PROVE BalanceInv'
  OBVIOUS
<1>0. Holders \cap Stakers = {} /\ Holders \cap Validators = {}
  BY EventCommandsAssumption
<1>1. ASSUME NEW t \in Tasks, Chain(t) PROVE BalanceInv'
  <2>0. task[t] = Idle /\ Own(t) /\ task \in [Tasks -> Task]
    BY <1>1, ChainFacts DEF Own, TypeInv
  <2>1. ASSUME NEW b \in Holders, BalanceChanges(b, t) PROVE BalanceInv'
    <3>1. /\ balance' = [balance EXCEPT ![b] = @ + 1] /\ UNCHANGED <<balanceOf, doubt>>
          /\ task'[t].event = "balance" /\ task'[t].who = b /\ task'[t].step = "new"
      BY <2>0, <2>1 DEF BalanceChanges, Put, New, Idle, db, past
    <3>2. \A u \in Tasks, a \in Holders : /\ AsksBalance(u, a) => AsksBalance(u, a)'
                                          /\ HasBalance(u, a)' <=> HasBalance(u, a)
                                          /\ HasBalance(u, a) => task'[u].got = task[u].got
      BY <2>0, <3>1 DEF AsksBalance, HasBalance, Own, Idle, None
    <3>3. AsksBalance(t, b)' /\ \A a \in Holders \ {b} : balance'[a] = balance[a]
      BY <3>1 DEF AsksBalance, TypeInv
    <3>. QED BY <3>1, <3>2, <3>3 DEF BalanceInv
  <2>2. ASSUME NEW v \in Validators, ValidatorChanges(v, t) \/ BlockForged(v, t)
        PROVE  BalanceInv'
    <3>1. task'[t].event # "balance" /\ UNCHANGED <<balance, balanceOf, doubt>>
      BY <2>0, <2>2 DEF ValidatorChanges, BlockForged, Put, New, Idle, db, past
    <3>. QED BY <2>0, <3>1, BalanceFrame DEF Idle, None
  <2>3. ASSUME NEW s \in Stakers, NEW S \in SUBSET Validators, StakesChange(s, S, t)
        PROVE  BalanceInv'
    <3>1. /\ task'[t].event # "balance" /\ UNCHANGED <<balance, balanceOf>>
          /\ doubt \subseteq doubt'
      BY <2>0, <2>3 DEF StakesChange, Put, New, Idle, db, past
    <3>. QED BY <2>0, <3>1, BalanceFrame DEF Idle, None
  <2>. QED BY <1>1, <2>1, <2>2, <2>3 DEF Chain
<1>2. ASSUME NEW t \in Tasks, Step(t) PROVE BalanceInv'
  <2>1. CASE BalanceAnswered(t)
    BY <2>1, BalanceAnsweredInv
  <2>2. CASE BalanceRefused(t)
    <3>1. /\ task[t].event = "balance" /\ Own(t) /\ task'[t] = Idle
          /\ doubt' = doubt \cup {task[t].who} /\ UNCHANGED <<balance, balanceOf>>
      BY <2>2, AccountMoves DEF BalanceRefused, node, db, past
    <3>2. \A u \in Tasks, a \in Holders : a # task[t].who =>
              /\ AsksBalance(u, a)' <=> AsksBalance(u, a)
              /\ HasBalance(u, a)' <=> HasBalance(u, a)
              /\ HasBalance(u, a) => task'[u].got = task[u].got
      BY <3>1 DEF AsksBalance, HasBalance, Own, Idle, None
    <3>. QED BY <3>1, <3>2 DEF BalanceInv
  <2>3. CASE UpdateAccount(t)
    <3>1. /\ task[t].event = "balance" /\ task[t].step = "answered"
          /\ Own(t) /\ task'[t] = Idle /\ UNCHANGED <<balance, doubt>>
          /\ balanceOf' = [balanceOf EXCEPT ![task[t].who] = task[t].got]
      BY <2>3, AccountMoves DEF UpdateAccount, BalanceWritten, node
    <3>2. \A u \in Tasks, a \in Holders :
              /\ AsksBalance(u, a)' <=> AsksBalance(u, a)
              /\ HasBalance(u, a)' <=> HasBalance(u, a) /\ u # t
              /\ HasBalance(u, a)' => task'[u].got = task[u].got
      BY <3>1 DEF AsksBalance, HasBalance, Own, Idle, None
    <3>3. task[t].who \in Holders /\ HasBalance(t, task[t].who)
      BY <3>1 DEF StepsInv, Steps, HasBalance
    <3>4. \A a \in Holders : a # task[t].who => /\ balanceOf'[a] = balanceOf[a]
                                                /\ ~HasBalance(t, a)
      BY <3>1 DEF TypeInv, HasBalance
    <3>5. balanceOf'[task[t].who] = task[t].got
      BY <3>1, <3>3 DEF TypeInv
    <3>. QED BY <3>1, <3>2, <3>3, <3>4, <3>5 DEF BalanceInv
  <2>4. CASE GeneratorLookedUp(t) \/ GeneratorWritten(t)
    <3>1. /\ task[t].event = "generator" /\ UNCHANGED <<balance, balanceOf, doubt>>
      BY <2>4 DEF GeneratorLookedUp, GeneratorWritten, node, db, past
    <3>. QED BY <2>4, <3>1, AccountMoves, BalanceFrame DEF Same, Idle, None
  <2>5. CASE \/ \E v \in Validators : ProcessValidator(t, v)
             \/ InfoAnswered(t) \/ RowLookedUp(t) \/ AccountLookedUp(t) \/ AccountWritten(t)
             \/ Ends(t) \/ ValidatorDone(t)
    <3>1. /\ task[t].event \in {"validator", "staked"} /\ UNCHANGED <<balance, balanceOf>>
      BY <2>5, EndsFacts, StepFacts
         DEF ProcessValidator, InfoAnswered, RowLookedUp, AccountLookedUp, Read,
             AccountWritten, ValidatorDone, node, db, past, Processing
    <3>2. doubt \cap Holders \subseteq doubt'
      <4>1. CASE Ends(t)
        BY <4>1, EndsFacts DEF Ended, Processed
      <4>2. CASE InfoAnswered(t)
        <5>1. task[t].cur \in Validators
          BY <4>2, StepFacts DEF InfoAnswered, Processing
        <5>. QED BY <4>2, <5>1, <1>0 DEF InfoAnswered
      <4>. QED BY <2>5, <4>1, <4>2 DEF ProcessValidator, RowLookedUp, AccountLookedUp,
                                       AccountWritten, ValidatorDone
    <3>3. Own(t) /\ task'[t].event # "balance"
      BY <2>5, <3>1, ProcessMoves DEF Same, Idle, None
    <3>. QED BY <3>1, <3>2, <3>3, BalanceFrame
  <2>6. CASE \/ StakerAnswered(t) \/ AddStakes(t) \/ StakesAnswered(t) \/ StakesDeleted(t)
             \/ StakesInserted(t)
    <3>1. task[t].event = "staked" /\ UNCHANGED <<balance, balanceOf>>
      BY <2>6, StepFacts DEF StakerAnswered, AddStakes, StakesAnswered, StakesDeleted,
                             StakesInserted, node, db, past, Replacing
    <3>2. doubt \cap Holders \subseteq doubt'
      BY <2>6, <3>1, <1>0, StepFacts
         DEF StakerAnswered, AddStakes, StakesAnswered, StakesDeleted, StakesInserted
    <3>3. Own(t) /\ task'[t].event # "balance"
      BY <2>6, <3>1, StakerMoves DEF Same, Idle, None
    <3>. QED BY <3>1, <3>2, <3>3, BalanceFrame
  <2>7. CASE InsertFails(t)
    BY <2>7, DiesBalanceInv DEF InsertFails
  <2>. QED BY <1>2, <2>1, <2>2, <2>3, <2>4, <2>5, <2>6, <2>7 DEF Step, Ends
<1>3. CASE Crash
  BY <1>3, DiesBalanceInv DEF Crash
<1>4. CASE UNCHANGED vars
  BY <1>4 DEF vars, node, db, past, mem, BalanceInv, AsksBalance, HasBalance
<1>. QED BY <1>1, <1>2, <1>3, <1>4 DEF Next

-----------------------------------------------------------------------------
(* Stakes *)

\* A step after which the same commands ask for, or have, the stakes.
LEMMA StakesFrame ==
    ASSUME StakesInv, NEW t \in Tasks, Own(t),
           \A s \in Stakers : /\ AsksStakes(t, s)' <=> AsksStakes(t, s)
                              /\ HasStakes(t, s)' <=> HasStakes(t, s)
                              /\ HasStakes(t, s) => /\ task'[t].got = task[t].got
                                                    /\ task'[t].rest = task[t].rest,
           UNCHANGED <<stakes, stake>>, doubt \cap Stakers \subseteq doubt'
    PROVE  StakesInv'
<1>1. \A u \in Tasks, s \in Stakers :
         /\ AsksStakes(u, s)' <=> AsksStakes(u, s)
         /\ HasStakes(u, s)' <=> HasStakes(u, s)
         /\ HasStakes(u, s) => task'[u].got = task[u].got /\ task'[u].rest = task[u].rest
  BY DEF AsksStakes, HasStakes, Own
<1>2. \A s \in Stakers : RowsOf(s)' = RowsOf(s) /\ StakesOf(s)' = StakesOf(s)
  BY DEF RowsOf, StakesOf
<1>. QED BY <1>1, <1>2 DEF StakesInv

\* A command that has nothing to do with stakes.
LEMMA StakesOtherEvent ==
    ASSUME StakesInv, NEW t \in Tasks, Own(t),
           task[t].event # "staked", task'[t].event # "staked",
           UNCHANGED <<stakes, stake>>, doubt \cap Stakers \subseteq doubt'
    PROVE  StakesInv'
<1>1. \A s \in Stakers : /\ ~AsksStakes(t, s) /\ ~AsksStakes(t, s)'
                         /\ ~HasStakes(t, s) /\ ~HasStakes(t, s)'
  BY DEF AsksStakes, HasStakes
<1>. QED BY <1>1, StakesFrame

\* A crash puts every staker whose event is under way into doubt.
LEMMA DiesStakesInv == TypeInv /\ StepsInv /\ StakesInv /\ Dies => StakesInv'
<1> SUFFICES ASSUME TypeInv, StepsInv, StakesInv, Dies PROVE StakesInv'
  OBVIOUS
<1>1. \A u \in Tasks, s \in Stakers : ~HasStakes(u, s)'
  BY DEF Dies, HasStakes, Idle, None
<1>2. ASSUME NEW s \in Stakers, s \notin doubt'
      PROVE  s \notin doubt /\ \A u \in Tasks : ~AsksStakes(u, s) /\ ~HasStakes(u, s)
  <2>1. s # None
    BY NoneFacts
  <2>2. s \notin doubt /\ \A u \in Tasks : s \notin Subjects(u)
    BY <1>2, <2>1 DEF Dies
  <2>3. \A u \in Tasks : task[u].who = s => Free(u)
    BY <2>2 DEF Subjects
  <2>. QED BY <2>2, <2>3 DEF AsksStakes, HasStakes, Free, None
<1>3. \A s \in Stakers : RowsOf(s)' = RowsOf(s) /\ StakesOf(s)' = StakesOf(s)
  BY DEF Dies, node, db, past, RowsOf, StakesOf
<1>. QED BY <1>1, <1>2, <1>3 DEF StakesInv

\* The node answers with the stakes of now, and no other command has any.
LEMMA StakesAnsweredInv ==
    ASSUME TypeInv, StepsInv, StakesMutexInv, StakesInv, NEW t \in Tasks, StakesAnswered(t)
    PROVE  StakesInv'
<1>1. /\ task[t].event = "staked" /\ task[t].step = "stakes" /\ Head(stakesMutex) = t
      /\ Same(t) /\ task'[t].step = "delete"
      /\ task'[t].got = stakes[task[t].who].version /\ task'[t].rest = stakes[task[t].who].on
      /\ UNCHANGED <<stakes, stake, doubt>>
  BY StakerMoves DEF StakesAnswered, Holds, node, db, past
<1>2. \A u \in Tasks, s \in Stakers : ~HasStakes(u, s)
  BY <1>1 DEF HasStakes, StakesMutexInv, Replacing
<1>3. \A u \in Tasks, s \in Stakers :
         /\ u # t \/ s # task[t].who => /\ AsksStakes(u, s)' <=> AsksStakes(u, s)
                                        /\ ~HasStakes(u, s)'
  BY <1>1, <1>2 DEF AsksStakes, HasStakes, Same, Own
<1>4. HasStakes(t, task[t].who)' /\ task'[t].who = task[t].who
  BY <1>1 DEF HasStakes, Same, Replacing
<1>5. \A s \in Stakers : RowsOf(s)' = RowsOf(s) /\ StakesOf(s)' = StakesOf(s)
  BY <1>1 DEF RowsOf, StakesOf
<1>6. ASSUME NEW s \in Stakers, s # task[t].who, \A u \in Tasks : ~AsksStakes(u, s)'
      PROVE  /\ \A u \in Tasks : ~AsksStakes(u, s) /\ ~HasStakes(u, s) /\ ~HasStakes(u, s)'
             /\ s \notin doubt' => RowsOf(s)' = StakesOf(s)'
  BY <1>1, <1>2, <1>3, <1>5, <1>6 DEF StakesInv
<1>7. ASSUME NEW s \in Stakers, s = task[t].who
      PROVE  /\ \E u \in Tasks : HasStakes(u, s)'
             /\ \A u \in Tasks : HasStakes(u, s)' => /\ task'[u].got = stakes'[s].version
                                                     /\ task'[u].rest = stakes'[s].on
  BY <1>1, <1>2, <1>3, <1>4, <1>7
<1>. QED BY <1>6, <1>7 DEF StakesInv

\* The rows of a staker are deleted, and those of the others are not.
LEMMA StakesDeletedInv ==
    ASSUME TypeInv, StepsInv, StakesInv, NEW t \in Tasks, StakesDeleted(t)
    PROVE  StakesInv'
<1>1. /\ task[t].event = "staked" /\ task[t].step = "delete"
      /\ Same(t) /\ task'[t].step = "insert"
      /\ task'[t].got = task[t].got /\ task'[t].rest = task[t].rest
      /\ stake' = stake \ RowsOf(task[t].who) /\ UNCHANGED <<stakes, doubt>>
  BY StakerMoves, StepFacts DEF StakesDeleted, OldRows, node, Replacing
<1>2. \A u \in Tasks, s \in Stakers :
         /\ AsksStakes(u, s)' <=> AsksStakes(u, s)
         /\ HasStakes(u, s)' <=> HasStakes(u, s)
         /\ HasStakes(u, s) => task'[u].got = task[u].got /\ task'[u].rest = task[u].rest
  BY <1>1 DEF AsksStakes, HasStakes, Same, Own, Processing, Replacing
<1>3. task[t].who \in Stakers => HasStakes(t, task[t].who)
  BY <1>1 DEF HasStakes, Replacing
<1>4. \A s \in Stakers : s # task[t].who => RowsOf(s)' = RowsOf(s)
  BY <1>1 DEF RowsOf
<1>5. \A s \in Stakers : StakesOf(s)' = StakesOf(s)
  BY <1>1 DEF StakesOf
<1>. QED BY <1>1, <1>2, <1>3, <1>4, <1>5 DEF StakesInv

\* The rows inserted are the stakes, unless another command will ask again.
LEMMA StakesInsertedInv ==
    ASSUME TypeInv, StepsInv, StakesMutexInv, RowsInv, StakesInv, NEW t \in Tasks,
           StakesInserted(t)
    PROVE  StakesInv'
<1>0. PICK s \in Stakers : s = task[t].who
  BY StepFacts DEF StakesInserted, Replacing
<1>1. /\ task[t].who = s /\ task[t].event = "staked" /\ task[t].step = "insert"
      /\ Own(t) /\ task'[t] = Idle /\ Head(stakesMutex) = t
      /\ doubt' = doubt \ {s} /\ UNCHANGED stakes
      /\ stake' = stake \cup {[staker |-> s, validator |-> v, version |-> task[t].got] :
                                v \in task[t].rest}
  BY <1>0, StakerMoves, StepFacts DEF StakesInserted, Holds, node, Replacing
<1>2. HasStakes(t, s)
  BY <1>1 DEF HasStakes, Replacing
<1>3. \A u \in Tasks, r \in Stakers : /\ AsksStakes(u, r)' <=> AsksStakes(u, r)
                                      /\ ~HasStakes(u, r)'
  BY <1>1 DEF AsksStakes, HasStakes, Own, Idle, None, StakesMutexInv, Replacing, Processing
<1>4. \A u \in Tasks, r \in Stakers : r # s => ~HasStakes(u, r)
  BY <1>1 DEF HasStakes, StakesMutexInv, Replacing
<1>5. \A r \in Stakers : StakesOf(r)' = StakesOf(r)
  BY <1>1 DEF StakesOf
<1>6. \A r \in Stakers : r # s => RowsOf(r)' = RowsOf(r)
  BY <1>1 DEF RowsOf
<1>7. ASSUME \A u \in Tasks : ~AsksStakes(u, s) PROVE RowsOf(s)' = StakesOf(s)
  <2>1. task[t].got = stakes[s].version /\ task[t].rest = stakes[s].on
    BY <1>1, <1>2, <1>7 DEF StakesInv
  <2>2. RowsOf(s) = {}
    BY <1>1 DEF RowsInv, RowsOf
  <2>3. RowsOf(s)' = {[staker |-> s, validator |-> v, version |-> task[t].got] :
                        v \in task[t].rest}
    BY <1>1, <2>2 DEF RowsOf
  <2>. QED BY <2>1, <2>3 DEF StakesOf
<1>8. ASSUME NEW r \in Stakers, \A u \in Tasks : ~AsksStakes(u, r)', r \notin doubt'
      PROVE  RowsOf(r)' = StakesOf(r)'
  <2>1. CASE r = s
    BY <1>3, <1>5, <1>7, <1>8, <2>1
  <2>2. CASE r # s
    BY <1>1, <1>3, <1>4, <1>5, <1>6, <1>8, <2>2 DEF StakesInv
  <2>. QED BY <2>1, <2>2
<1>. QED BY <1>3, <1>8 DEF StakesInv

\* Every step keeps the invariant of the stakes.
LEMMA NextStakesInv ==
    TypeInv /\ StepsInv /\ StakesMutexInv /\ RowsInv /\ StakesInv /\ [Next]_vars => StakesInv'
<1> SUFFICES ASSUME TypeInv, StepsInv, StakesMutexInv, RowsInv, StakesInv, [Next]_vars
             PROVE  StakesInv'
  OBVIOUS
<1>0. Holders \cap Stakers = {} /\ Stakers \cap Validators = {}
  BY EventCommandsAssumption
<1>1. ASSUME NEW t \in Tasks, Chain(t) PROVE StakesInv'
  <2>0. task[t] = Idle /\ Own(t) /\ task \in [Tasks -> Task]
    BY <1>1, ChainFacts DEF Own, TypeInv
  <2>1. ASSUME NEW a \in Holders, BalanceChanges(a, t) PROVE StakesInv'
    <3>1. task'[t].event # "staked" /\ UNCHANGED <<stakes, stake, doubt>>
      BY <2>0, <2>1 DEF BalanceChanges, Put, New, Idle, db, past
    <3>. QED BY <2>0, <3>1, StakesOtherEvent DEF Idle, None
  <2>2. ASSUME NEW v \in Validators, ValidatorChanges(v, t) \/ BlockForged(v, t)
        PROVE  StakesInv'
    <3>1. task'[t].event # "staked" /\ UNCHANGED <<stakes, stake, doubt>>
      BY <2>0, <2>2 DEF ValidatorChanges, BlockForged, Put, New, Idle, db, past
    <3>. QED BY <2>0, <3>1, StakesOtherEvent DEF Idle, None
  <2>3. ASSUME NEW s \in Stakers, NEW S \in SUBSET Validators, StakesChange(s, S, t)
        PROVE  StakesInv'
    <3>1. /\ \A r \in Stakers : r # s => stakes'[r] = stakes[r]
          /\ UNCHANGED stake /\ doubt \subseteq doubt'
          /\ task'[t].event = "staked" /\ task'[t].who = s /\ task'[t].step = "new"
      BY <2>0, <2>3 DEF StakesChange, Put, New, Idle, db, past, TypeInv
    <3>2. \A u \in Tasks, r \in Stakers :
             /\ AsksStakes(u, r) => AsksStakes(u, r)'
             /\ HasStakes(u, r)' <=> HasStakes(u, r)
             /\ HasStakes(u, r) => task'[u].got = task[u].got /\ task'[u].rest = task[u].rest
      BY <2>0, <3>1 DEF AsksStakes, HasStakes, Own, Idle, None, Replacing
    <3>3. AsksStakes(t, s)'
      BY <3>1 DEF AsksStakes
    <3>4. \A r \in Stakers : r # s => RowsOf(r)' = RowsOf(r) /\ StakesOf(r)' = StakesOf(r)
      BY <3>1 DEF RowsOf, StakesOf
    <3>. QED BY <3>1, <3>2, <3>3, <3>4 DEF StakesInv
  <2>. QED BY <1>1, <2>1, <2>2, <2>3 DEF Chain
<1>2. ASSUME NEW t \in Tasks, Step(t) PROVE StakesInv'
  <2>1. CASE \/ BalanceAnswered(t) \/ BalanceRefused(t) \/ UpdateAccount(t)
             \/ GeneratorLookedUp(t) \/ GeneratorWritten(t)
    <3>1. /\ task[t].event \in {"balance", "generator"} /\ UNCHANGED <<stakes, stake>>
          /\ task[t].event = "balance" => task[t].who \in Holders
      BY <2>1 DEF BalanceAnswered, BalanceRefused, UpdateAccount, GeneratorLookedUp,
                  GeneratorWritten, node, db, past, StepsInv, Steps
    <3>2. doubt \cap Stakers \subseteq doubt'
      BY <2>1, <3>1, <1>0
         DEF BalanceAnswered, BalanceRefused, UpdateAccount, GeneratorLookedUp, GeneratorWritten
    <3>3. Own(t) /\ task'[t].event # "staked"
      BY <2>1, <3>1, AccountMoves DEF Same, Idle, None
    <3>. QED BY <3>1, <3>2, <3>3, StakesOtherEvent
  <2>2. CASE \/ \E v \in Validators : ProcessValidator(t, v)
             \/ InfoAnswered(t) \/ RowLookedUp(t) \/ AccountLookedUp(t) \/ AccountWritten(t)
             \/ Ends(t)
    <3>1. /\ task[t].step \in {"next"} \cup Processing /\ UNCHANGED <<stakes, stake>>
      BY <2>2, EndsFacts DEF ProcessValidator, InfoAnswered, RowLookedUp, AccountLookedUp, Read,
                             AccountWritten, node, db, past, Processing
    <3>2. doubt \cap Stakers \subseteq doubt'
      <4>1. CASE Ends(t)
        BY <4>1, EndsFacts DEF Ended, Processed
      <4>2. CASE InfoAnswered(t)
        <5>1. task[t].cur \in Validators
          BY <4>2, StepFacts DEF InfoAnswered, Processing
        <5>. QED BY <4>2, <5>1, <1>0 DEF InfoAnswered
      <4>. QED BY <2>2, <4>1, <4>2 DEF ProcessValidator, RowLookedUp, AccountLookedUp,
                                       AccountWritten
    <3>3. Same(t) /\ task'[t].step \in {"next"} \cup Processing
      BY <2>2, ProcessMoves DEF Processing
    <3>4. \A s \in Stakers : /\ AsksStakes(t, s)' <=> AsksStakes(t, s)
                             /\ ~HasStakes(t, s)' /\ ~HasStakes(t, s)
      BY <3>1, <3>3 DEF AsksStakes, HasStakes, Same, Processing, Replacing
    <3>. QED BY <3>1, <3>2, <3>3, <3>4, StakesFrame DEF Same
  <2>3. CASE ValidatorDone(t)
    <3>1. task[t].event = "validator" /\ UNCHANGED <<stakes, stake, doubt>>
      BY <2>3 DEF ValidatorDone, node, db, past
    <3>. QED BY <2>3, <3>1, ProcessMoves, StakesOtherEvent DEF Idle, None
  <2>4. CASE StakerAnswered(t) \/ AddStakes(t)
    <3>1. /\ task[t].step \in {"new", "next"} /\ UNCHANGED <<stakes, stake, doubt>>
          /\ Same(t) /\ task'[t].step \in {"next", "stakes"}
      BY <2>4, StakerMoves DEF StakerAnswered, AddStakes, node, db, past
    <3>2. \A s \in Stakers : /\ AsksStakes(t, s)' <=> AsksStakes(t, s)
                             /\ ~HasStakes(t, s)' /\ ~HasStakes(t, s)
      BY <3>1 DEF AsksStakes, HasStakes, Same, Replacing
    <3>. QED BY <3>1, <3>2, StakesFrame DEF Same
  <2>5. CASE InsertFails(t)
    BY <2>5, DiesStakesInv DEF InsertFails
  <2>. QED BY <1>2, <2>1, <2>2, <2>3, <2>4, <2>5, StakesAnsweredInv, StakesDeletedInv,
              StakesInsertedInv DEF Step, Ends
<1>3. CASE Crash
  BY <1>3, DiesStakesInv DEF Crash
<1>4. CASE UNCHANGED vars
  BY <1>4 DEF vars, node, db, past, mem, StakesInv, AsksStakes, HasStakes, RowsOf, StakesOf
<1>. QED BY <1>1, <1>2, <1>3, <1>4 DEF Next

-----------------------------------------------------------------------------
(* Validators *)

\* A step that leaves the validators to the commands that would process them.
LEMMA ValidatorFrame ==
    ASSUME ValidatorInv,
           \A v \in Validators :
               v \notin doubt' /\ info'[v] > 0 /\ (\A u \in Tasks : ~WillProcess(u, v)') =>
                   /\ v \notin doubt /\ info'[v] = info[v] /\ validator'[v] = validator[v]
                   /\ \A u \in Tasks : ~WillProcess(u, v)
    PROVE  ValidatorInv'
BY DEF ValidatorInv

\* A command that goes on with what it has to process.
LEMMA GoesOnProcessing ==
    ASSUME ValidatorInv, NEW t \in Tasks, Own(t), UNCHANGED <<info, stakes, validator>>,
           doubt \cap Validators \subseteq doubt',
           \A v \in Validators : WillProcess(t, v) => WillProcess(t, v)'
    PROVE  ValidatorInv'
<1>1. \A u \in Tasks, v \in Validators : WillProcess(u, v) => WillProcess(u, v)'
  BY DEF WillProcess, Own
<1>. QED BY <1>1, ValidatorFrame

\* A crash puts into doubt every validator that a command would have processed.
LEMMA DiesValidatorInv == TypeInv /\ StepsInv /\ ValidatorInv /\ Dies => ValidatorInv'
<1> SUFFICES ASSUME TypeInv, StepsInv, ValidatorInv, Dies PROVE ValidatorInv'
  OBVIOUS
<1>1. UNCHANGED <<info, validator>>
  BY DEF Dies, node, db, past
<1>2. ASSUME NEW v \in Validators, v \notin doubt'
      PROVE  v \notin doubt /\ \A u \in Tasks : ~WillProcess(u, v)
  <2>1. v # None
    BY NoneFacts
  <2>2. v \notin doubt /\ \A u \in Tasks : v \notin Subjects(u)
    BY <1>2, <2>1 DEF Dies
  <2>3. ASSUME NEW u \in Tasks, WillProcess(u, v) PROVE FALSE
    <3>1. ~Free(u)
      BY <2>3, StepFacts DEF WillProcess, Free, None, Processing
    <3>. QED BY <2>2, <2>3, <3>1 DEF WillProcess, Subjects
  <2>. QED BY <2>2, <2>3
<1>. QED BY <1>1, <1>2, ValidatorFrame

\* A change of the chain has a command of its own for each validator it changes,
\* or puts it into doubt.
LEMMA ChainValidatorInv ==
    ASSUME TypeInv, StepsInv, ValidatorInv, NEW t \in Tasks, Chain(t)
    PROVE  ValidatorInv'
<1>0. task[t] = Idle /\ Own(t) /\ task \in [Tasks -> Task]
  BY ChainFacts DEF Own, TypeInv
<1>a. \A v \in Validators : ~WillProcess(t, v)
  BY <1>0 DEF WillProcess, Idle, None, Processing
<1>1. ASSUME NEW a \in Holders, BalanceChanges(a, t) PROVE ValidatorInv'
  <2>1. UNCHANGED <<info, stakes, validator, doubt>>
    BY <1>1 DEF BalanceChanges, db, past
  <2>. QED BY <1>0, <1>a, <2>1, GoesOnProcessing
<1>2. ASSUME NEW v \in Validators, BlockForged(v, t) PROVE ValidatorInv'
  <2>1. UNCHANGED <<info, stakes, validator, doubt>>
    BY <1>2 DEF BlockForged
  <2>. QED BY <1>0, <1>a, <2>1, GoesOnProcessing
<1>3. ASSUME NEW v \in Validators, ValidatorChanges(v, t) PROVE ValidatorInv'
  <2>1. /\ \A w \in Validators : w # v => info'[w] = info[w]
        /\ UNCHANGED <<stakes, validator, doubt>>
        /\ task'[t].event = "validator" /\ task'[t].step = "next" /\ task'[t].rest = {v}
    BY <1>0, <1>3 DEF ValidatorChanges, Put, New, Idle, db, past, TypeInv
  <2>2. WillProcess(t, v)'
    BY <2>1 DEF WillProcess
  <2>3. ASSUME NEW u \in Tasks, NEW w \in Validators, w # v, WillProcess(u, w)
        PROVE  WillProcess(u, w)'
    <3>1. u # t
      BY <1>a, <2>3
    <3>. QED BY <1>0, <2>1, <2>3, <3>1 DEF WillProcess, Own
  <2>. QED BY <2>1, <2>2, <2>3, ValidatorFrame
<1>4. ASSUME NEW s \in Stakers, NEW S \in SUBSET Validators, StakesChange(s, S, t)
      PROVE  ValidatorInv'
  <2>1. /\ \A v \in Validators : v \notin S \cup stakes[s].on => info'[v] = info[v]
        /\ \A r \in Stakers : r # s => stakes'[r] = stakes[r]
        /\ stakes'[s].on = S
        /\ UNCHANGED validator /\ doubt' = doubt \cup (stakes[s].on \ S)
        /\ task'[t].event = "staked" /\ task'[t].who = s /\ task'[t].step = "new"
    BY <1>0, <1>4 DEF StakesChange, Put, New, Idle, db, past, TypeInv
  <2>2. \A v \in S : WillProcess(t, v)'
    BY <2>1 DEF WillProcess
  <2>3. ASSUME NEW u \in Tasks, NEW v \in Validators, v \notin S \cup stakes[s].on,
               WillProcess(u, v)
        PROVE  WillProcess(u, v)'
    <3>1. u # t /\ task'[u] = task[u]
      BY <1>0, <1>a, <2>3 DEF Own
    <3>2. task[u].event = "staked" => task[u].who \in Stakers
      BY StepFacts
    <3>. QED BY <2>1, <2>3, <3>1, <3>2 DEF WillProcess
  <2>. QED BY <2>1, <2>2, <2>3, ValidatorFrame
<1>. QED BY <1>1, <1>2, <1>3, <1>4 DEF Chain

\* A command that ends has written what the node says, unless the validator has
\* changed since and another command will process it.
LEMMA EndsValidatorInv ==
    ASSUME TypeInv, StepsInv, AnswerInv, ValidatorInv, NEW t \in Tasks, Ends(t)
    PROVE  ValidatorInv'
<1>1. PICK ok \in BOOLEAN : Ended(t, ok) /\ (ok => task[t].got # -1)
  BY EndsFacts
<1>2. PICK c \in Validators : c = task[t].cur
  BY EndsFacts, StepFacts
<1>3. /\ task[t].step \in Processing /\ UNCHANGED <<info, stakes>>
      /\ Same(t) /\ task'[t].step = "next" /\ task'[t].rest = task[t].rest
  BY EndsFacts, ProcessMoves DEF node
<1>4. task[t].event \in {"validator", "staked"} /\ task[t].got \in Int
  BY <1>3, StepFacts
<1>5. \A u \in Tasks, v \in Validators : v # c /\ WillProcess(u, v) => WillProcess(u, v)'
  <2>1. ASSUME NEW u \in Tasks, u # t, NEW v \in Validators, WillProcess(u, v)
        PROVE  WillProcess(u, v)'
    BY <1>3, <2>1 DEF WillProcess, Same, Own
  <2>2. ASSUME NEW v \in Validators, v # c, WillProcess(t, v) PROVE WillProcess(t, v)'
    BY <1>2, <1>3, <1>4, <2>2 DEF WillProcess, Same, Processing
  <2>. QED BY <2>1, <2>2
<1>6. CASE ok
  <2>1. /\ validator' = [validator EXCEPT ![c] = task[t].got] /\ UNCHANGED doubt
        /\ task[t].got # -1
    BY <1>1, <1>2, <1>6 DEF Ended, Processed
  <2>2. /\ validator'[c] = task[t].got
        /\ \A v \in Validators : v # c => validator'[v] = validator[v]
    BY <2>1 DEF TypeInv
  <2>3. ASSUME c \notin doubt, info[c] > 0, \A u \in Tasks : ~WillProcess(u, c)'
        PROVE  validator'[c] = info'[c]
    <3>1. CASE task[t].got = info[c]
      BY <1>3, <2>2, <3>1
    <3>2. CASE task[t].got # info[c]
      <4>1. ~WillProcess(t, c)
        BY <1>2, <1>3, <1>4, <2>1, <2>3, <3>2 DEF WillProcess, Same, Processing
      <4>2. \A u \in Tasks : ~WillProcess(u, c)
        BY <1>3, <2>3, <4>1 DEF WillProcess, Same, Own
      <4>3. validator[c] = info[c]
        BY <2>3, <4>2 DEF ValidatorInv
      <4>4. validator[c] <= task[t].got /\ task[t].got <= info[c]
        BY <1>2, <1>3, <2>1 DEF AnswerInv
      <4>5. info[c] \in Int /\ validator[c] \in Int
        BY DEF TypeInv
      <4>. QED BY <1>4, <3>2, <4>3, <4>4, <4>5
    <3>. QED BY <3>1, <3>2
  <2>4. ASSUME NEW v \in Validators, v # c, v \notin doubt', info'[v] > 0,
               \A u \in Tasks : ~WillProcess(u, v)'
        PROVE  validator'[v] = info'[v]
    BY <1>3, <1>5, <2>1, <2>2, <2>4 DEF ValidatorInv
  <2>. QED BY <1>3, <2>1, <2>3, <2>4 DEF ValidatorInv
<1>7. CASE ~ok
  <2>1. UNCHANGED validator /\ doubt' = doubt \cup {c}
    BY <1>1, <1>2, <1>7 DEF Ended, Processed
  <2>. QED BY <1>3, <1>5, <2>1, ValidatorFrame
<1>. QED BY <1>6, <1>7

\* Every step keeps the invariant of the validators.
LEMMA NextValidatorInv ==
    TypeInv /\ StepsInv /\ AnswerInv /\ ValidatorInv /\ [Next]_vars => ValidatorInv'
<1> SUFFICES ASSUME TypeInv, StepsInv, AnswerInv, ValidatorInv, [Next]_vars
             PROVE  ValidatorInv'
  OBVIOUS
<1>0. Holders \cap Validators = {} /\ Stakers \cap Validators = {}
  BY EventCommandsAssumption
<1>1. ASSUME NEW t \in Tasks, Step(t) PROVE ValidatorInv'
  <2>1. CASE Ends(t)
    BY <2>1, EndsValidatorInv
  <2>2. CASE InsertFails(t)
    BY <2>2, DiesValidatorInv DEF InsertFails
  <2>3. CASE BalanceAnswered(t) \/ BalanceRefused(t) \/ UpdateAccount(t) \/ GeneratorLookedUp(t)
    <3>1. /\ task[t].event \in {"balance", "generator"} /\ task[t].step \in {"new", "answered"}
          /\ task[t].event = "balance" => task[t].who \in Holders
          /\ UNCHANGED <<info, stakes, validator>>
      BY <2>3 DEF BalanceAnswered, BalanceRefused, UpdateAccount, GeneratorLookedUp,
                  node, db, past, StepsInv, Steps
    <3>2. doubt \cap Validators \subseteq doubt'
      BY <2>3, <3>1, <1>0
         DEF BalanceAnswered, BalanceRefused, UpdateAccount, GeneratorLookedUp
    <3>3. Own(t) /\ \A v \in Validators : ~WillProcess(t, v)
      BY <2>3, <3>1, AccountMoves DEF Same, WillProcess, Processing
    <3>. QED BY <3>1, <3>2, <3>3, GoesOnProcessing
  <2>4. CASE GeneratorWritten(t)
    <3>1. /\ task[t].event = "generator" /\ task[t].step = "answered"
          /\ task[t].who \in Validators /\ Own(t) /\ UNCHANGED <<info, stakes, doubt>>
      BY <2>4, AccountMoves DEF GeneratorWritten, node, StepsInv, Steps
    <3>2. \A v \in Validators : validator'[v] = validator[v] \/ validator[v] = -1
      BY <2>4, <3>1 DEF GeneratorWritten, NoRow, TypeInv
    <3>3. \A u \in Tasks, v \in Validators : WillProcess(u, v) => WillProcess(u, v)'
      BY <3>1 DEF WillProcess, Own, Processing
    <3>4. info \in [Validators -> Int]
      BY DEF TypeInv
    <3>. QED BY <3>1, <3>2, <3>3, <3>4 DEF ValidatorInv
  <2>5. ASSUME NEW v \in Validators, ProcessValidator(t, v) PROVE ValidatorInv'
    <3>1. UNCHANGED <<info, stakes, validator, doubt>> /\ task[t].step = "next"
      BY <2>5 DEF ProcessValidator, node, db, past
    <3>2. /\ Same(t) /\ task'[t].step = "reading" /\ task'[t].cur = v
          /\ task'[t].rest = task[t].rest \ {v} /\ task'[t].got = -1
      BY <2>5, ProcessMoves
    <3>3. \A w \in Validators : WillProcess(t, w) => WillProcess(t, w)'
      BY <3>1, <3>2 DEF WillProcess, Same, Processing
    <3>. QED BY <3>1, <3>2, <3>3, GoesOnProcessing DEF Same
  <2>6. CASE InfoAnswered(t)
    <3>1. PICK c \in Validators : c = task[t].cur
      BY <2>6, StepFacts DEF InfoAnswered, Processing
    <3>2. /\ UNCHANGED <<info, stakes, validator>> /\ doubt' = doubt \ {c}
          /\ task[t].step = "reading"
          /\ Same(t) /\ task'[t].step = "reading" /\ task'[t].cur = c
          /\ task'[t].rest = task[t].rest /\ task'[t].got = info[c]
      BY <2>6, <3>1, ProcessMoves DEF InfoAnswered, node, db, past
    <3>3. WillProcess(t, c)'
      BY <3>2 DEF WillProcess, Processing
    <3>4. \A v \in Validators : v # c /\ WillProcess(t, v) => WillProcess(t, v)'
      BY <3>1, <3>2 DEF WillProcess, Same, Processing
    <3>5. \A u \in Tasks \ {t}, v \in Validators : WillProcess(u, v) => WillProcess(u, v)'
      BY <3>2 DEF WillProcess, Same, Own
    <3>. QED BY <3>2, <3>3, <3>4, <3>5, ValidatorFrame
  <2>7. CASE RowLookedUp(t) \/ AccountLookedUp(t) \/ AccountWritten(t)
    <3>1. UNCHANGED <<info, stakes, validator, doubt>>
      BY <2>7 DEF RowLookedUp, AccountLookedUp, AccountWritten, node, db, past
    <3>2. \A v \in Validators : WillProcess(t, v) => WillProcess(t, v)'
      BY <2>7, <3>1, ProcessMoves DEF WillProcess, Same, Processing
    <3>. QED BY <2>7, <3>1, <3>2, ProcessMoves, GoesOnProcessing DEF Same
  <2>8. CASE ValidatorDone(t)
    <3>1. /\ UNCHANGED <<info, stakes, validator, doubt>>
          /\ task[t].event = "validator" /\ task[t].step = "next" /\ task[t].rest = {}
      BY <2>8 DEF ValidatorDone, node, db, past
    <3>2. \A v \in Validators : ~WillProcess(t, v)
      BY <3>1 DEF WillProcess, Processing
    <3>. QED BY <2>8, <3>1, <3>2, ProcessMoves, GoesOnProcessing
  <2>9. CASE StakerAnswered(t)
    <3>1. /\ UNCHANGED <<info, stakes, validator, doubt>>
          /\ task[t].event = "staked" /\ task[t].step = "new"
          /\ Same(t) /\ task'[t].step = "next" /\ task'[t].rest = stakes[task[t].who].on
      BY <2>9, StakerMoves DEF StakerAnswered, node, db, past
    <3>2. \A v \in Validators : WillProcess(t, v) => WillProcess(t, v)'
      BY <3>1 DEF WillProcess, Same, Processing
    <3>. QED BY <3>1, <3>2, GoesOnProcessing DEF Same
  <2>10. CASE AddStakes(t) \/ StakesAnswered(t) \/ StakesDeleted(t) \/ StakesInserted(t)
    <3>1. /\ UNCHANGED <<info, stakes, validator>>
          /\ \/ task[t].step = "next" /\ task[t].rest = {}
             \/ task[t].step \in {"stakes"} \cup Replacing
      BY <2>10 DEF AddStakes, StakesAnswered, StakesDeleted, StakesInserted, node, db, past, Replacing
    <3>2. \A v \in Validators : ~WillProcess(t, v)
      BY <3>1 DEF WillProcess, Processing, Replacing
    <3>3. doubt \cap Validators \subseteq doubt'
      BY <2>10, <1>0, StepFacts
         DEF AddStakes, StakesAnswered, StakesDeleted, StakesInserted, Replacing
    <3>. QED BY <2>10, <3>1, <3>2, <3>3, StakerMoves, GoesOnProcessing DEF Same
  <2>. QED BY <1>1, <2>1, <2>2, <2>3, <2>4, <2>5, <2>6, <2>7, <2>8, <2>9, <2>10
       DEF Step, Ends
<1>2. CASE Crash
  BY <1>2, DiesValidatorInv DEF Crash
<1>3. CASE UNCHANGED vars
  BY <1>3 DEF vars, node, db, past, mem, ValidatorInv, WillProcess
<1>. QED BY <1>1, <1>2, <1>3, ChainValidatorInv DEF Next

-----------------------------------------------------------------------------
(* The theorems *)

IInv ==
    /\ TypeInv /\ StepsInv
    /\ ValidatorMutexInv /\ StakesMutexInv
    /\ AnswerInv /\ RowsInv /\ InsertedInv /\ ColumnsInv
    /\ BalanceInv /\ StakesInv /\ ValidatorInv

LEMMA InitInv == Init => IInv
<1> SUFFICES ASSUME Init PROVE IInv
  OBVIOUS
<1>1. \A t \in Tasks : task[t].event = None /\ task[t].step = None
  BY DEF Init, Idle
<1>2. AnswerInv /\ RowsInv /\ ValidatorInv
  BY <1>1 DEF Init, AnswerInv, RowsInv, ValidatorInv, NoRow, Processing, None
<1>3. BalanceInv
  BY <1>1 DEF Init, BalanceInv, AsksBalance, HasBalance, None
<1>4. StakesInv
  BY <1>1 DEF Init, StakesInv, AsksStakes, HasStakes, RowsOf, StakesOf, None
<1>5. InsertedInv /\ ColumnsInv
  BY <1>1 DEF Init, InsertedInv, ColumnsInv, NoRow, Replacing, None
<1>. QED BY <1>2, <1>3, <1>4, <1>5, InitTypeInv, InitMutexes DEF IInv

LEMMA NextInv == IInv /\ [Next]_vars => IInv'
BY NextTypeInv, NextValidatorMutexInv, NextStakesMutexInv, NextAnswerInv, NextRowsInv, NextInsertedInv, NextColumnsInv,
   NextBalanceInv, NextStakesInv, NextValidatorInv DEF IInv

LEMMA Invariance == Spec => []IInv
BY InitInv, NextInv, PTL DEF Spec

\* When no update of an account is under way, its row holds the node's balance,
\* unless an update failed or the last two ran at the same time.
THEOREM BalancesSettle == Spec => []BalanceSettles
<1>1. IInv => BalanceSettles
  BY DEF IInv, BalanceInv, BalanceSettles, AsksBalance, HasBalance
<1>. QED BY <1>1, Invariance, PTL

\* When no validator is being processed, the columns of a registered validator's row
\* that the update and the creation both write are what the node says, and the row
\* has its keys and its account a name, unless it forged a block before it had a row.
THEOREM ValidatorsSettle == Spec => []ValidatorSettles
<1>1. IInv => ValidatorSettles
  <2> SUFFICES ASSUME IInv, ~Alive({"validator", "staked"}), NEW v \in Validators \ doubt,
                      info[v] > 0
               PROVE  validator[v] = info[v] /\ (Complete(v) \/ Incomplete(v))
    BY DEF ValidatorSettles
  <2>1. \A t \in Tasks : ~WillProcess(t, v)
    BY StepFacts DEF IInv, Alive, WillProcess
  <2>2. validator[v] = info[v]
    BY <2>1 DEF IInv, ValidatorInv
  <2>3. validator[v] > 0 /\ validator[v] # NoRow /\ columns[v] \subseteq {"keys", "reward"}
    BY <2>2 DEF IInv, TypeInv, NoRow
  <2>4. CASE "keys" \in columns[v]
    BY <2>2, <2>4 DEF IInv, ColumnsInv, Complete
  <2>5. CASE "keys" \notin columns[v]
    BY <2>2, <2>3, <2>5 DEF IInv, ColumnsInv, Incomplete
  <2>. QED BY <2>4, <2>5
<1>. QED BY <1>1, Invariance, PTL

\* When no stakes are being added, the rows of a staker without doubt are the
\* node's stakes.
THEOREM StakesSettled == Spec => []StakesSettle
<1>1. IInv => StakesSettle
  BY DEF IInv, StakesInv, StakesSettle, Alive, AsksStakes, HasStakes, StakesOf
<1>. QED BY <1>1, Invariance, PTL

\* What NeverOlder says of a step.
NoOlderAnswer ==
    /\ \A v \in Validators : validator'[v] >= validator[v]
    /\ \A s \in Stakers : inserted'[s] >= inserted[s]
    /\ \A r \in stake' : r.version = inserted'[r.staker]

\* Only the end of a validator's command, the generator's and the insertion write
\* versions.
LEMMA OthersWriteNothing ==
    ASSUME TypeInv, StepsInv, NEW t \in Tasks, Step(t),
           ~Ends(t), ~GeneratorWritten(t), ~StakesInserted(t)
    PROVE  UNCHANGED <<validator, inserted>>
<1>1. \/ BalanceAnswered(t) \/ BalanceRefused(t) \/ UpdateAccount(t)
      \/ \E v \in Validators : ProcessValidator(t, v)
      \/ InfoAnswered(t) \/ RowLookedUp(t) \/ AccountLookedUp(t) \/ AccountWritten(t)
      \/ ValidatorDone(t) \/ StakerAnswered(t) \/ AddStakes(t) \/ StakesAnswered(t)
      \/ StakesDeleted(t) \/ InsertFails(t) \/ GeneratorLookedUp(t)
  BY DEF Step, Ends
<1>. QED BY <1>1 DEF BalanceAnswered, BalanceRefused, UpdateAccount, ProcessValidator,
                     InfoAnswered, RowLookedUp, AccountLookedUp, AccountWritten, ValidatorDone,
                     StakerAnswered, AddStakes, StakesAnswered, StakesDeleted, InsertFails, Dies,
                     GeneratorLookedUp, db, past

\* An older answer of the node never replaces a newer one: a validator's row never
\* goes back to an earlier answer, and no stakes are inserted after newer ones of the
\* same staker, however many steps lie between. The two mutexes order the commands
\* that ask and then write.
THEOREM AnswersNeverOlder == Spec => NeverOlder
<1>1. ASSUME IInv, IInv', [Next]_vars PROVE NoOlderAnswer
  <2>0. \A r \in stake' : r.version = inserted'[r.staker]
    BY <1>1 DEF IInv, RowsInv
  <2>1. ASSUME UNCHANGED <<validator, inserted>> PROVE NoOlderAnswer
    BY <1>1, <2>0, <2>1 DEF IInv, TypeInv, NoOlderAnswer
  <2>2. ASSUME NEW t \in Tasks, Chain(t) PROVE NoOlderAnswer
    BY <1>1, <2>1, <2>2, ChainNode DEF IInv
  <2>3. ASSUME NEW t \in Tasks, Step(t) PROVE NoOlderAnswer
    <3>1. CASE Ends(t)
      <4>1. PICK ok \in BOOLEAN : Ended(t, ok) /\ (ok => task[t].got # -1)
        BY <1>1, <3>1, EndsFacts DEF IInv
      <4>2. task[t].step \in Processing /\ UNCHANGED inserted
        BY <1>1, <3>1, EndsFacts DEF IInv
      <4>3. task[t].cur \in Validators /\ task[t].got \in Int
        BY <1>1, <4>2, StepFacts DEF IInv
      <4>4. ok => validator[task[t].cur] <= task[t].got
        BY <1>1, <4>1, <4>2 DEF IInv, AnswerInv
      <4>5. \A v \in Validators : validator'[v] >= validator[v]
        BY <1>1, <4>1, <4>3, <4>4 DEF IInv, TypeInv, Ended
      <4>. QED BY <1>1, <2>0, <4>2, <4>5 DEF IInv, TypeInv, NoOlderAnswer
    <3>2. CASE GeneratorWritten(t)
      <4>1. \A v \in Validators : validator'[v] >= validator[v]
        BY <1>1, <3>2 DEF IInv, TypeInv, StepsInv, Steps, GeneratorWritten, NoRow, Bare
      <4>. QED BY <1>1, <2>0, <3>2, <4>1 DEF GeneratorWritten, past, IInv, TypeInv, NoOlderAnswer
    <3>3. CASE StakesInserted(t)
      <4>1. /\ inserted' = [inserted EXCEPT ![task[t].who] = task[t].got]
            /\ task[t].step = "insert" /\ UNCHANGED validator
        BY <3>3 DEF StakesInserted
      <4>2. inserted[task[t].who] <= task[t].got
        BY <1>1, <4>1 DEF IInv, InsertedInv, Replacing
      <4>. QED BY <1>1, <2>0, <4>1, <4>2 DEF IInv, TypeInv, NoOlderAnswer
    <3>. QED BY <1>1, <2>1, <2>3, <3>1, <3>2, <3>3, OthersWriteNothing DEF IInv
  <2>4. CASE Crash
    BY <2>1, <2>4 DEF Crash, Dies, db, past
  <2>5. CASE UNCHANGED vars
    BY <2>1, <2>5 DEF vars, db, past
  <2>. QED BY <1>1, <2>2, <2>3, <2>4, <2>5 DEF Next
<1>2. IInv /\ IInv' /\ [Next]_vars => [NoOlderAnswer]_vars
  BY <1>1
<1>. QED BY <1>2, Invariance, PTL DEF Spec, NeverOlder, NoOlderAnswer
=============================================================================
