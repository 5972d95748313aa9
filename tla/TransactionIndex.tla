--------------------------- MODULE TransactionIndex ---------------------------
(***************************************************************************)
(* The transactions of one batch of blocks, whose headers are in, from     *)
(* IndexTransactionCommand to their executionStatus. One turn meets every  *)
(* transaction: it fills the map of accounts and adds up the fees. Those   *)
(* that stake go on when the accounts of their validators were looked up.  *)
(* Then the accounts are upserted in parallel, the transactions, as        *)
(* pending, the assets and the events are written, and, in promises nobody *)
(* awaits, ExecutionResultCommand updates every transaction whose event is *)
(* dispatched. A batch that stops on the way is never indexed again: its   *)
(* headers are there (HeaderClash of Indexer).                             *)
(***************************************************************************)
EXTENDS Integers, FiniteSets

CONSTANTS
    Accounts,   \* addresses
    Blocks,     \* number of blocks in the batch
    MaxTxs,     \* bound: transactions in the batch
    MaxSent,    \* bound: transactions of an account before the batch
    Kinds,      \* kinds of transaction that occur
    Fee,        \* the fee of each transaction, by its place in the batch
    MinFee,     \* what calcMinFee returns for any transaction
    Successful  \* the chain's result: the transactions that do not fail

\* "transfer" (token) names a recipient, "stake" (pos) validators, "other" (auth)
\* nobody; "unknown" is of a module or command that the node's metadata lacks.
ASSUME TransactionIndexAssumption ==
    /\ IsFiniteSet(Accounts)
    /\ Blocks \in Nat \ {0} /\ MaxTxs \in Nat /\ MaxSent \in Nat
    /\ Kinds \subseteq {"transfer", "stake", "other", "unknown"}
    /\ Fee \in [1 .. MaxTxs -> Nat] /\ MinFee \in Nat
    /\ Successful \subseteq 1 .. MaxTxs

\* How many accounts a transaction names.
Lengths(kind) == IF kind = "transfer" THEN {1} ELSE IF kind = "stake" THEN 1 .. 2 ELSE {0}

Names(kind) == {s \in UNION {[1 .. n -> Accounts] : n \in Lengths(kind)} :
                   \A k, l \in DOMAIN s : s[k] = s[l] => k = l}

Tx == UNION {[height : 1 .. Blocks, sender : Accounts, kind : {k}, to : Names(k)] : k \in Kinds}

VARIABLES
    batch,   \* the transactions, in the order of the chain
    sent,    \* transactions of each account before the batch
    table,   \* rows of Account: publicKey present, and nonce
    pc,      \* how far the batch is
    met,     \* the map of accounts: publicKey present, and nonce; {} as FALSE and 0
    asked,   \* lookups of handlePosStake without an answer
    fees,    \* totalBurntPerBlock
    status,  \* rows of Transaction: the executionStatus
    assets,  \* heights whose assets have rows
    updates  \* ExecutionResultCommands under way

vars == <<batch, sent, table, pc, met, asked, fees, status, assets, updates>>

Empty == [key |-> FALSE, nonce |-> 0]

\* Its transactions among the first n, and the nonce of a transaction: an account counts them.
Sends(a, n) == {j \in 1 .. n : batch[j].sender = a}
Nonce(i)    == sent[batch[i].sender] + Cardinality(Sends(batch[i].sender, i - 1))

Recipients(i) == {batch[i].to[k] : k \in DOMAIN batch[i].to \cap {1}}

Of(h) == {i \in DOMAIN batch : batch[i].height = h}

Init ==
    /\ batch \in {s \in UNION {[1 .. n -> Tx] : n \in 0 .. MaxTxs} :
                     \A i, j \in DOMAIN s : i < j => s[i].height <= s[j].height}
    /\ sent \in [Accounts -> 0 .. MaxSent]
    /\ table \in {t \in [{a \in Accounts : sent[a] > 0} -> [key : BOOLEAN, nonce : 0 .. MaxSent]] :
                     \A a \in DOMAIN t : t[a].nonce = sent[a] - 1 /\ (t[a].key \/ sent[a] = 1)}
    /\ pc = "process"
    /\ met = [a \in {} |-> Empty]
    /\ asked = {}
    /\ fees = [h \in {} |-> Empty]
    /\ status = [i \in {} |-> "pending"]
    /\ assets = {}
    /\ updates = {}

-----------------------------------------------------------------------------
(* processTransactions *)

\* The map when a transaction was met, and has set its sender or not.
After(map, i, sets) ==
    [a \in DOMAIN map \cup {batch[i].sender} \cup Recipients(i) |->
        IF a = batch[i].sender /\ sets THEN [key |-> TRUE, nonce |-> Nonce(i)]
        ELSE IF a \in DOMAIN map THEN map[a] ELSE Empty]

\* Mutant: the nonce of an account already met is not compared.
MutantMeet(map, i) == After(map, i, batch[i].sender \notin DOMAIN map)

\* createTransaction: a sender is set when it is new or has a greater nonce; a
\* recipient only when it is new.
Meet(map, i) ==
    After(map, i, batch[i].sender \notin DOMAIN map \/ Nonce(i) > map[batch[i].sender].nonce)

\* The map when the first n transactions were met.
MetUpTo(last) ==
    LET Map[n \in 0 .. last] == IF n = 0 THEN [a \in {} |-> Empty] ELSE Meet(Map[n - 1], n)
    IN Map

Last == Cardinality(DOMAIN batch)

\* Mutant: recipients get no row.
MutantMet == [a \in {batch[i].sender : i \in DOMAIN batch} |-> MetUpTo(Last)[Last][a]]

Met == MetUpTo(Last)[Last]

\* Mutant: the fees that were added while the lookup went on are lost.
MutantFeeAdded(map, i) ==
    [h \in DOMAIN map \cup {batch[i].height} |->
        IF h = batch[i].height THEN [burnt |-> MinFee, fee |-> Fee[i]] ELSE map[h]]

\* calcFeePerBlock
FeeAdded(map, i) ==
    LET old(h) == IF h \in DOMAIN map THEN map[h] ELSE [burnt |-> 0, fee |-> 0]
    IN [h \in DOMAIN map \cup {batch[i].height} |->
           IF h = batch[i].height THEN [burnt |-> old(h).burnt + MinFee, fee |-> old(h).fee + Fee[i]]
           ELSE map[h]]

Stakes == {i \in DOMAIN batch : batch[i].kind = "stake"}

\* The map when all of the first n transactions went on but those that stake.
AddedUpTo(last) ==
    LET Map[n \in 0 .. last] == IF n = 0 THEN [h \in {} |-> Empty]
                                ELSE IF n \in Stakes THEN Map[n - 1] ELSE FeeAdded(Map[n - 1], n)
    IN Map

Processed ==
    /\ pc = "process"
    /\ met' = Met
    /\ asked' = {p \in Stakes \X Accounts : \E k \in DOMAIN batch[p[1]].to : batch[p[1]].to[k] = p[2]}
    /\ fees' = AddedUpTo(Last)[Last]
    /\ pc' = IF \E i \in DOMAIN batch : batch[i].kind = "unknown" THEN "failed"
             ELSE IF DOMAIN batch = {} THEN "assets"
             ELSE IF Stakes = {} THEN "upsert" ELSE "lookup"
    /\ UNCHANGED <<batch, sent, table, status, assets, updates>>

\* handlePosStake found the account; with the last one its transaction goes on.
Found(i, v) ==
    /\ pc = "lookup" /\ <<i, v>> \in asked
    /\ v \in DOMAIN table
    /\ asked' = asked \ {<<i, v>>}
    /\ fees' = IF \E p \in asked' : p[1] = i THEN fees ELSE FeeAdded(fees, i)
    /\ pc' = IF asked' = {} THEN "upsert" ELSE pc
    /\ UNCHANGED <<batch, sent, table, met, status, assets, updates>>

\* account is null: account.name throws, and the whole batch with it.
NotFound(i, v) ==
    /\ pc = "lookup" /\ <<i, v>> \in asked
    /\ v \notin DOMAIN table
    /\ pc' = "failed"
    /\ UNCHANGED <<batch, sent, table, met, asked, fees, status, assets, updates>>

\* The events of this batch, or a gateway still at an earlier one, gave an account
\* that never sent anything its row.
Created(a) ==
    /\ pc \in {"process", "lookup"} /\ a \notin DOMAIN table
    /\ table' = [b \in DOMAIN table \cup {a} |-> IF b = a THEN Empty ELSE table[b]]
    /\ UNCHANGED <<batch, sent, pc, met, asked, fees, status, assets, updates>>

-----------------------------------------------------------------------------
(* execute, and IndexAssetCommand *)

\* upsertAccounts: undefined leaves a column alone; the rows come in any order.
Upserted(a) ==
    /\ pc = "upsert" /\ a \in DOMAIN met
    /\ table' = [b \in DOMAIN table \cup {a} |->
                    IF b = a /\ (met[a].key \/ a \notin DOMAIN table) THEN met[a] ELSE table[b]]
    /\ met' = [b \in DOMAIN met \ {a} |-> met[b]]
    /\ pc' = IF DOMAIN met' = {} THEN "create" ELSE pc
    /\ UNCHANGED <<batch, sent, asked, fees, status, assets, updates>>

\* One statement; a sender or a recipient without a row violates its foreign key.
Written ==
    /\ pc = "create"
    /\ IF \A i \in DOMAIN batch : ({batch[i].sender} \cup Recipients(i)) \subseteq DOMAIN table
       THEN status' = [i \in DOMAIN batch |-> "pending"] /\ pc' = "assets"
       ELSE UNCHANGED status /\ pc' = "failed"
    /\ UNCHANGED <<batch, sent, table, met, asked, fees, assets, updates>>

AssetsWritten ==
    /\ pc = "assets"
    /\ assets' = 1 .. Blocks
    /\ pc' = "events"
    /\ UNCHANGED <<batch, sent, table, met, asked, fees, status, updates>>

-----------------------------------------------------------------------------
(* writeAndProcessChainEvents, and ExecutionResultCommand *)

\* Mutant: results of one sender are filtered like the updates of its balance.
MutantFiltered ==
    {i \in DOMAIN batch : batch[i].kind \in {"transfer", "stake"}
                          /\ \A j \in 1 .. i - 1 : batch[j].sender # batch[i].sender}

\* commandExecutionResult passes its filter always, but auth has no gateway.
Filtered == {i \in DOMAIN batch : batch[i].kind \in {"transfer", "stake"}}

\* The rows of the events want those of their transactions.
EventsWritten ==
    /\ pc = "events"
    /\ DOMAIN batch = DOMAIN status
    /\ updates' = Filtered
    /\ pc' = "done"
    /\ UNCHANGED <<batch, sent, table, met, asked, fees, status, assets>>

Result(i) == IF i \in Successful THEN "successful" ELSE "failed"

Updated(i) ==
    /\ i \in updates
    /\ status' = [status EXCEPT ![i] = Result(i)]
    /\ updates' = updates \ {i}
    /\ UNCHANGED <<batch, sent, table, pc, met, asked, fees, assets>>

\* A statement or a request fails and handleNewBlockEvent catches it; or, at any
\* time, the process ends.
Stopped ==
    /\ pc \notin {"failed", "stopped"}
    /\ pc' = "stopped"
    /\ updates' = {}
    /\ UNCHANGED <<batch, sent, table, met, asked, fees, status, assets>>

Next == \/ Processed \/ Written \/ AssetsWritten \/ EventsWritten \/ Stopped
        \/ \E i \in DOMAIN batch : Updated(i) \/ \E v \in Accounts : Found(i, v) \/ NotFound(i, v)
        \/ \E a \in Accounts : Created(a) \/ Upserted(a)

Spec == Init /\ [][Next]_vars

-----------------------------------------------------------------------------
(* Properties *)

\* The sum of the fees of some transactions.
FeesUpTo(is) ==
    LET Part[i \in 0 .. MaxTxs] == IF i = 0 THEN 0 ELSE Part[i - 1] + IF i \in is THEN Fee[i] ELSE 0
    IN Part
FeesOf(is) == FeesUpTo(is)[MaxTxs]

\* Whatever the order of the lookups, a batch that was written has for each block
\* with transactions the sum of their fees and of their minimum fees, which is
\* what UpdateBlocksFeeCommand is given.
FeesAreSums ==
    pc \in {"assets", "events", "done"} =>
        fees = [h \in {batch[i].height : i \in DOMAIN batch} |->
                   [burnt |-> MinFee * Cardinality(Of(h)), fee |-> FeesOf(Of(h))]]

\* A batch fails because of a transaction that cannot be decoded, or because one
\* stakes on a validator without an account at that time (the code's own TODO),
\* and for no other reason: the foreign keys of the transactions are met.
FailsOnlyFor ==
    [][pc' = "failed" /\ pc # "failed" =>
           \/ \E i \in DOMAIN batch : batch[i].kind = "unknown"
           \/ \E i \in Stakes : \E k \in DOMAIN batch[i].to : batch[i].to[k] \notin DOMAIN table]_vars

\* After a batch every sender's row has the nonce of its last transaction, and its
\* public key, except where the batch first met it as somebody's recipient and all
\* it sent is its transaction 0: then the key is lost until it sends again.
SendersKnown ==
    pc = "done" => \A i \in DOMAIN batch :
        LET a    == batch[i].sender
            Mine == Sends(a, Last)
        IN /\ table[a].nonce = sent[a] + Cardinality(Mine) - 1
           /\ table[a].key <=> ~ (Nonce(i) = 0 /\ Cardinality(Mine) = 1
                                  /\ \E j \in 1 .. i - 1 : a \in Recipients(j))

\* A status other than pending is the chain's result. When a batch and its updates
\* are through, a transaction is still pending if and only if it is of a module
\* without a gateway, for which the result is thrown away, whatever else was in
\* the batch.
PendingExplained ==
    /\ \A i \in DOMAIN status : status[i] # "pending" => status[i] = Result(i)
    /\ pc = "done" /\ updates = {} =>
           \A i \in DOMAIN status : status[i] = "pending" <=> batch[i].kind \notin {"transfer", "stake"}
=============================================================================
