------------------------------- MODULE Requests -------------------------------
(***************************************************************************)
(* A request from its arrival to its answer, at the endpoints that ask the *)
(* node or look up an account: the lock of LockEndpointsMiddleware, the    *)
(* health check, and then, one await after the other, the account, the     *)
(* node, the stakes or the counts by status. Meanwhile the indexer changes *)
(* its mode, AddStakesCommand replaces the stakes it reads, ranks change   *)
(* the status it counts, and the node may refuse, or never answer.         *)
(***************************************************************************)
EXTENDS Integers, Sequences, FiniteSets

CONSTANTS
    Accounts,    \* bound: accounts, who may all stake and be staked on
    Clients,     \* what is asked: an endpoint, and a set of parameters, by which an account may be named
    Tasks,       \* bound: AddStakesCommands alive at once
    MaxChanges   \* bound: changes of the stakes on the node, and of statuses while they are counted

VARIABLES
    lock,     \* LOCK_ENDPOINTS_DURING_SYNC
    mode,     \* StateService: the indexer's state
    row,      \* per stored account, the parameters that find it
    status,   \* per account, the status of its validator; the column may be Null, and the row missing
    history,  \* the node: per staker, whom it staked on, change after change
    stake,    \* rows of Stake
    task,     \* AddStakesCommands
    request

vars == <<lock, mode, row, status, history, stake, task, request>>

None     == "none"
Null     == "null"
Statuses == {"active", "ineligible", "standby", "punished", "banned"}

\* What an endpoint awaits. claimable stands for unlocks and auth too, balances for
\* the other endpoints that only ask the node, invoke for those that pass its answer on.
Steps(e) == CASE e \in {"claimable", "exists"} -> <<"account", "node">>
              [] e = "locked"                 -> <<"account", "node", "node">>
              [] e \in {"balances", "invoke"} -> <<"node">>
              [] e \in {"stakes", "stakers"}  -> <<"account", "rows">>
              [] e = "info"                   -> <<"validator", "account">>
              [] e = "counts"                 -> <<"count">>
              [] e = "health"                 -> <<"state">>

\* The parameters an endpoint knows; info requires its address.
Accepts(e, params) == CASE e \in {"claimable", "locked", "stakes", "stakers"} -> TRUE
                        [] e = "exists"                                      -> params # {}
                        [] e = "info"                                        -> params = {"address"}
                        [] OTHER                                             -> params = {}

NewRequest(e, g) == [endpoint |-> e, given |-> g, came |-> FALSE, left |-> <<>>, waits |-> FALSE,
                     account |-> None, rows |-> {}, uncounted |-> Statuses, sum |-> 0, moved |-> 0,
                     answer |-> None]
Idle == [pc |-> "idle", staker |-> None, got |-> 0]

\* A state that the request does not read any more is not followed.
Open        == request.answer = None
ReadsMode   == Open /\ ((lock /\ ~request.came) \/ request.endpoint = "health")
ReadsRows   == Open /\ request.endpoint \notin {"balances", "invoke", "counts", "health"}
ReadsStatus == Open /\ request.endpoint \in {"counts", "info"}
ReadsStakes == Open /\ request.endpoint \in {"stakes", "stakers"}

Init ==
    /\ lock \in BOOLEAN
    /\ \E c \in Clients : \E x \in [c.given -> Accounts] :
           Accepts(c.endpoint, c.given) /\ request = NewRequest(c.endpoint, x)
    /\ mode \in IF request.endpoint = "health" THEN {"START_UP", "RESTART", "SYNCING", "INDEXING"}
                ELSE IF lock THEN {"SYNCING", "INDEXING"} ELSE {"INDEXING"}
    /\ status \in [Accounts -> IF ReadsStatus THEN {None, Null, "active", "banned"} ELSE {None}]
    /\ row = [a \in {b \in Accounts : status[b] # None} |-> {"address"}]
    /\ history = [a \in Accounts |-> <<{}>>]
    /\ stake = {}
    /\ task = [t \in Tasks |-> Idle]

-----------------------------------------------------------------------------
(* What the indexer changes *)

\* subscribeToNewBlock, syncWithNode
ModeChanges(m) ==
    /\ ReadsMode
    /\ m = "SYNCING" <=> mode # "SYNCING"
    /\ m # "START_UP" /\ (m = "RESTART" => request.endpoint = "health")
    /\ mode' = m
    /\ UNCHANGED <<lock, row, status, history, stake, task, request>>

\* The account's row, its public key, or its name is there (of those that clients give).
AccountStored(a, p) ==
    /\ ReadsRows /\ p \in {"address"} \cup DOMAIN request.given
    /\ p = "address" <=> a \notin DOMAIN row
    /\ a \in DOMAIN row => p \notin row[a]
    /\ row' = [b \in DOMAIN row \cup {a} |-> IF b = a THEN {p} \cup (IF a \in DOMAIN row THEN row[a] ELSE {}) ELSE row[b]]
    /\ UNCHANGED <<lock, mode, status, history, stake, task, request>>

\* The genesis block, UpdateBlockGeneratorCommand and ProcessValidatorCommand create the
\* row of an account without a status.
ValidatorCreated(a) ==
    /\ ReadsStatus
    /\ status[a] = None
    /\ ReadsRows => a \in DOMAIN row
    /\ status' = [status EXCEPT ![a] = Null]
    /\ UNCHANGED <<lock, mode, row, history, stake, task, request>>

\* UpdateValidatorRanks: of the rows there are, each gets a status and keeps one.
StatusChanged(a, s) ==
    /\ ReadsStatus
    /\ status[a] \notin {None, s} /\ request.moved < MaxChanges
    /\ status' = [status EXCEPT ![a] = s]
    /\ request' = [request EXCEPT !.moved = @ + 1]
    /\ UNCHANGED <<lock, mode, row, history, stake, task>>

-----------------------------------------------------------------------------
(* AddStakesCommand *)

Versions == Cardinality(UNION {{a} \X DOMAIN history[a] : a \in Accounts})

\* The node: the account stakes on others; an event tells the gateway.
StakesChanged(a, S) ==
    /\ ReadsStakes
    /\ Versions - Cardinality(Accounts) < MaxChanges
    /\ S # history[a][Len(history[a])]
    /\ history' = [history EXCEPT ![a] = Append(@, S)]
    /\ UNCHANGED <<lock, mode, row, status, stake, task, request>>

\* One mutex for all.
Acquired(t, a) ==
    /\ \A u \in Tasks : task[u] = Idle
    /\ a \in DOMAIN row
    /\ task' = [task EXCEPT ![t] = [Idle EXCEPT !.pc = "asked", !.staker = a]]
    /\ UNCHANGED <<lock, mode, row, status, history, stake, request>>

StakesAnswered(t) ==
    /\ task[t].pc = "asked"
    /\ task' = [task EXCEPT ![t] = [@ EXCEPT !.pc = "delete", !.got = Len(history[task[t].staker])]]
    /\ UNCHANGED <<lock, mode, row, status, history, stake, request>>

\* Mutant: the rows of those who staked on the account are deleted.
MutantStakesDeleted(t) ==
    /\ task[t].pc = "delete"
    /\ stake' = {s \in stake : s.validator # task[t].staker}
    /\ task' = [task EXCEPT ![t].pc = "create"]
    /\ UNCHANGED <<lock, mode, row, status, history, request>>

\* deleteMany
StakesDeleted(t) ==
    /\ task[t].pc = "delete"
    /\ stake' = {s \in stake : s.staker # task[t].staker}
    /\ task' = [task EXCEPT ![t].pc = "create"]
    /\ UNCHANGED <<lock, mode, row, status, history, request>>

RowsOf(a, k) == {[staker |-> a, validator |-> v, version |-> k] : v \in history[a][k]}

\* createMany, one statement; nothing of it is written when a row has the key of
\* one that is there.
StakesCreated(t) ==
    /\ task[t].pc = "create"
    /\ LET new == RowsOf(task[t].staker, task[t].got)
       IN /\ \A x \in new, y \in stake : ~(x.staker = y.staker /\ x.validator = y.validator)
          /\ stake' = stake \cup new
    /\ task' = [task EXCEPT ![t] = Idle]
    /\ UNCHANGED <<lock, mode, row, status, history, request>>

\* The request or a statement fails (a validator has no row yet): the mutex is released.
StakesFail(t) ==
    /\ task[t].pc # "idle"
    /\ task' = [task EXCEPT ![t] = Idle]
    /\ UNCHANGED <<lock, mode, row, status, history, stake, request>>

-----------------------------------------------------------------------------
(* The request *)

Ends(answer) == request' = [request EXCEPT !.answer = answer, !.left = <<>>, !.waits = FALSE]

At(step) == request.left # <<>> /\ Head(request.left) = step

\* The step is through; after the last one the endpoint answers.
Passed(q) == [q EXCEPT !.left = Tail(@), !.waits = FALSE, !.answer = IF Len(q.left) = 1 THEN "200" ELSE @]

\* The middleware, then what the endpoint checks of its parameters: of those that look
\* up an account only the two for stakes insist on one.
Arrives ==
    /\ ~request.came
    /\ LET q == [request EXCEPT !.came = TRUE]
       IN request' = IF lock /\ mode = "SYNCING" THEN [q EXCEPT !.answer = "503"]
                     ELSE IF ReadsStakes /\ q.given = <<>> THEN [q EXCEPT !.answer = "400"]
                     ELSE [q EXCEPT !.left = Steps(q.endpoint)]
    /\ UNCHANGED <<lock, mode, row, status, history, stake, task>>

\* IsSyncedIndicator
HealthChecked ==
    /\ At("state")
    /\ Ends(IF mode = "INDEXING" THEN "200" ELSE "503")
    /\ UNCHANGED <<lock, mode, row, status, history, stake, task>>

Has(a, p, x) == a = x /\ p \in row[a]

\* findAccount; exists takes any of them, the others all. Without parameters everyone matches.
Matches(q) ==
    {a \in DOMAIN row : IF q.endpoint = "exists" THEN \E p \in DOMAIN q.given : Has(a, p, q.given[p])
                        ELSE \A p \in DOMAIN q.given : Has(a, p, q.given[p])}

AccountFound ==
    /\ At("account")
    /\ \E a \in Matches(request) : request' = Passed([request EXCEPT !.account = a])
    /\ UNCHANGED <<lock, mode, row, status, history, stake, task>>

\* exists answers that there is none.
AccountMissing ==
    /\ At("account") /\ Matches(request) = {}
    /\ Ends(IF request.endpoint \in {"exists", "info"} THEN "200" ELSE "400")
    /\ UNCHANGED <<lock, mode, row, status, history, stake, task>>

\* /validator: the row of the validator first.
ValidatorLookedUp ==
    /\ At("validator")
    /\ IF \E a \in Matches(request) : status[a] # None
       THEN request' = Passed(request)
       ELSE Ends("404")
    /\ UNCHANGED <<lock, mode, row, status, history, stake, task>>

\* invoke: refused at once while the socket is not open, by throwing.
NodeAsked ==
    /\ At("node") /\ ~request.waits
    /\ \/ request' = [request EXCEPT !.waits = TRUE]
       \/ Ends("400")
    /\ UNCHANGED <<lock, mode, row, status, history, stake, task>>

\* A result with an error in it is not found, but passed on by invoke.
NodeAnswered ==
    /\ At("node") /\ request.waits
    /\ \/ request' = Passed(request)
       \/ request.endpoint # "invoke" /\ Ends("404")
    /\ UNCHANGED <<lock, mode, row, status, history, stake, task>>

\* RESPONSE_TIMEOUT, or a JSON-RPC error: invokeApi makes it a bad request.
TimedOut ==
    /\ At("node") /\ request.waits
    /\ Ends("400")
    /\ UNCHANGED <<lock, mode, row, status, history, stake, task>>

\* The rows of the account, as staker or as validator.
StakesRead ==
    /\ At("rows")
    /\ request' = Passed([request EXCEPT !.rows =
           {s \in stake : (IF request.endpoint = "stakes" THEN s.staker ELSE s.validator) = request.account}])
    /\ UNCHANGED <<lock, mode, row, status, history, stake, task>>

\* Mutant: banned validators are not counted.
MutantCount(s) == IF s = "banned" THEN 0 ELSE Cardinality({a \in Accounts : status[a] = s})

Count(s) == Cardinality({a \in Accounts : status[a] = s})

\* A count for each status, in parallel.
Counted(s) ==
    /\ At("count") /\ s \in request.uncounted
    /\ LET q == [request EXCEPT !.uncounted = @ \ {s}, !.sum = @ + Count(s)]
       IN request' = IF q.uncounted = {} THEN Passed(q) ELSE q
    /\ UNCHANGED <<lock, mode, row, status, history, stake, task>>

Next == \/ \E m \in {"START_UP", "RESTART", "SYNCING", "INDEXING"} : ModeChanges(m)
        \/ \E a \in Accounts : \/ \E p \in {"address", "publicKey", "name"} : AccountStored(a, p)
                               \/ ValidatorCreated(a) \/ \E s \in Statuses : StatusChanged(a, s)
                               \/ \E S \in SUBSET Accounts : StakesChanged(a, S)
                               \/ \E t \in Tasks : Acquired(t, a)
        \/ \E t \in Tasks : StakesAnswered(t) \/ StakesDeleted(t) \/ StakesCreated(t) \/ StakesFail(t)
        \/ Arrives \/ HealthChecked \/ AccountFound \/ AccountMissing \/ ValidatorLookedUp
        \/ NodeAsked \/ NodeAnswered \/ TimedOut \/ StakesRead \/ \E s \in Statuses : Counted(s)

Spec == Init /\ [][Next]_vars

-----------------------------------------------------------------------------
(* Properties *)

\* An account in an answer has every parameter the client gave, and stored so.
AboutTheAsked ==
    request.account # None /\ request.endpoint # "exists" =>
        \A p \in DOMAIN request.given : request.given[p] = request.account /\ p \in row[request.account]

\* While AddStakesCommand replaces the stakes of an account in two statements, a reader
\* sees all that the node gave at one time, or none: never some of each.
WholeStakes ==
    request.endpoint = "stakes" /\ request.rows # {} =>
        \E k \in DOMAIN history[request.account] : request.rows = RowsOf(request.account, k)

\* The counts by status are read one by one while statuses change, yet their sum is the
\* number of validators with a status, but for one for each change meanwhile. Those
\* without one yet are in no count.
CountsOffByChanges ==
    request.endpoint = "counts" /\ request.answer = "200" =>
        request.sum - Cardinality({a \in Accounts : status[a] \in Statuses}) \in -request.moved .. request.moved
=============================================================================
