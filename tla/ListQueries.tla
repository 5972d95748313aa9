------------------------------ MODULE ListQueries ------------------------------
(***************************************************************************)
(* The list endpoints /blocks, /transactions, /events and /account: how a  *)
(* where-clause is put together from the parameters, and a client that     *)
(* pages through the answer while blocks are being stored. A parameter's   *)
(* meaning is a set of rows; a where-clause is a function from its keys to *)
(* such sets, built like the object literal of the code, in which a later  *)
(* entry replaces an earlier one of the same key.                          *)
(***************************************************************************)
EXTENDS Integers, Sequences, FiniteSets, SequencesExt

CONSTANTS
    MaxHeight,  \* bound: blocks, from the genesis block 0 on
    Clients,    \* what is asked: an endpoint, a set of parameters, and the column to sort by
    Forms,      \* the forms of a range that clients give
    Take,       \* limit, at most MAX_..._TO_FETCH
    MaxPages    \* bound: requests of the client

VARIABLES
    endpoint,  \* "blocks", "transactions", "events" or "account"
    query,     \* the parameters given, with their values
    sort,      \* column and direction
    stored,    \* number of rows stored
    offset,    \* of the client's next request
    pages,     \* requests sent
    pc,        \* of the request: "idle", "asked", "done"
    status,    \* of the last answer
    page,      \* rows of findMany, in a tuple once it answered
    total,     \* of count, in a tuple once it answered
    received,  \* rows the client has, in order of receipt
    atStart    \* history: rows stored when the client began

vars == <<endpoint, query, sort, stored, offset, pages, pc, status, page, total, received, atStart>>

\* Rows that belong to one block.
PerBlock == IF endpoint \in {"transactions", "events"} THEN 2 ELSE 1

(* The rows, numbered in the order in which they are stored. *)
Rows      == 1 .. (MaxHeight + 1) * PerBlock
Height(r) == (r - 1) \div PerBlock
Sender(r) == r % 2
Recipient(r) == (r \div 2) % 2

Ranges == {"height", "timestamp"}

\* Names and values of the columns; the timestamps rise with the heights.
Column(p, r) == CASE p \in Ranges -> Height(r)
                  [] p = "blockID" /\ endpoint # "blocks" -> Height(r)
                  [] p \in {"senderAddress", "generatorAddress", "name"} -> Sender(r)
                  [] p = "recipientAddress" -> Recipient(r)
                  [] OTHER -> r

\* Values of a parameter: `lo`, or a range in one of the forms of the DTOs, of which
\* half-open ones have one bound.
Values(p) ==
    {v \in [form : IF p \in Ranges THEN Forms ELSE {"exact"},
            lo : {Column(p, r) : r \in Rows}, hi : IF p \in Ranges THEN 1 .. MaxHeight ELSE {0}] :
        /\ v.form = "a:" => v.hi = MaxHeight
        /\ v.form = ":b" => v.lo = 0}

\* buildCondition, and equality for the other parameters.
BuildCondition(v, x) ==
    CASE v.form = "exact" -> x = v.lo
      [] v.form = "a:b"   -> v.lo <= x /\ x <= v.hi
      [] v.form = "a:"    -> v.lo <= x
      [] v.form = ":b"    -> x <= v.hi

\* What a client means by a parameter.
Meaning(p, v) ==
    IF p = "address" /\ endpoint = "transactions"
    THEN {r \in Rows : Sender(r) = v.lo % 2 \/ Recipient(r) = v.lo % 2}
    ELSE {r \in Rows : BuildCondition(v, Column(p, r))}

\* The entries of the object literal in their order: the parameter, and the key
\* under which its condition is put.
Entries ==
    CASE endpoint = "blocks" ->
             <<<<"blockID", "id">>, <<"height", "height">>, <<"timestamp", "timestamp">>,
               <<"generatorAddress", "generatorAddress">>>>
      [] endpoint = "transactions" ->
             <<<<"transactionID", "id">>, <<"blockID", "block">>, <<"senderAddress", "senderAddress">>,
               <<"recipientAddress", "recipientAddress">>, <<"nonce", "nonce">>, <<"height", "height">>,
               <<"timestamp", "block">>, <<"address", "OR">>>>
      [] endpoint = "events" ->
             <<<<"transactionID", "transactionID">>, <<"height", "height">>, <<"timestamp", "block">>,
               <<"blockID", "block">>, <<"senderAddress", "transaction">>>>
      [] endpoint = "account" ->
             <<<<"address", "address">>, <<"name", "name">>, <<"publicKey", "publicKey">>>>

\* The object literal of some entries: a later one replaces an earlier one of its key.
Literal(entries) ==
    LET given     == {i \in DOMAIN entries : entries[i][1] \in DOMAIN query}
        last(key) == CHOOSE i \in given : /\ entries[i][2] = key
                                          /\ \A j \in given : entries[j][2] = key => j <= i
        param(key) == entries[last(key)][1]
    IN [key \in {entries[i][2] : i \in given} |-> Meaning(param(key), query[param(key)])]

\* Mutant: the last parameter is forgotten.
MutantWhere == Literal(Front(Entries))

\* The genesis block is excluded by the last entry of /blocks.
Where ==
    LET literal == Literal(Entries)
    IN IF endpoint # "blocks" THEN literal
       ELSE [key \in DOMAIN literal \cup {"height"} |->
                IF key = "height" THEN {r \in Rows : Height(r) # 0} ELSE literal[key]]

Matching == LET where == Where IN {r \in 1 .. stored : \A key \in DOMAIN where : r \in where[key]}

\* Ascending or descending; rows of one block, and accounts, come in any order.
Before(q, r) ==
    /\ sort.field # "totalBalance"
    /\ IF sort.direction = "asc" THEN Height(q) < Height(r) ELSE Height(q) > Height(r)

\* The pages from place skip + 1 on of the orders that the sort allows: a row can take any
\* of the places between the rows before it and those after it.
Pages(skip) ==
    LET matching == Matching
        rest     == Cardinality(matching) - skip
        size     == IF rest < 0 THEN 0 ELSE IF rest < Take THEN rest ELSE Take
    IN {s \in [1 .. size -> matching] :
           /\ IsInjective(s)
           /\ \A i \in 1 .. size :
                 /\ Cardinality({r \in matching : Before(r, s[i])}) < skip + i
                 /\ skip + i <= Cardinality({r \in matching : ~ Before(s[i], r)})}

Init ==
    /\ \E c \in Clients :
           /\ endpoint = c.endpoint
           /\ query \in {q \in [c.given -> UNION {Values(p) : p \in c.given}] : \A p \in c.given : q[p] \in Values(p)}
           /\ sort \in [field : {c.field}, direction : {"asc", "desc"}]
    /\ stored \in {PerBlock, 2 * PerBlock, 3 * PerBlock}
    /\ offset = 0 /\ pages = 0
    /\ pc = "idle" /\ status = "none"
    /\ page = <<>> /\ total = <<>>
    /\ received = <<>>
    /\ atStart = stored

-----------------------------------------------------------------------------

BlockStored ==
    /\ stored < (MaxHeight + 1) * PerBlock
    /\ stored' = stored + PerBlock
    /\ UNCHANGED <<endpoint, query, sort, offset, pages, pc, status, page, total, received, atStart>>

\* A range must match the pattern of its DTO, which wants a colon; a nonce needs a sender.
Rejected == \/ \E p \in DOMAIN query : p \in Ranges /\ query[p].form = "exact"
            \/ "nonce" \in DOMAIN query /\ "senderAddress" \notin DOMAIN query

\* Columns findMany can sort by: ChainEvents has no timestamp.
Columns == CASE endpoint = "account" -> {"totalBalance"}
             [] endpoint = "events"  -> {"height"}
             [] OTHER                -> {"height", "timestamp"}

Asked ==
    /\ pc = "idle" /\ pages < MaxPages
    /\ pages' = pages + 1
    /\ IF Rejected THEN pc' = "done" /\ status' = "400"
       ELSE IF sort.field \notin Columns THEN pc' = "done" /\ status' = "500"
       ELSE pc' = "asked" /\ UNCHANGED status
    /\ UNCHANGED <<endpoint, query, sort, stored, offset, page, total, received, atStart>>

\* Mutant: skip counts from 1.
MutantFindMany ==
    /\ pc = "asked" /\ page = <<>>
    /\ \E s \in Pages(offset + 1) : page' = <<s>>
    /\ UNCHANGED <<endpoint, query, sort, stored, offset, pages, pc, status, total, received, atStart>>

FindMany ==
    /\ pc = "asked" /\ page = <<>>
    /\ \E s \in Pages(offset) : page' = <<s>>
    /\ UNCHANGED <<endpoint, query, sort, stored, offset, pages, pc, status, total, received, atStart>>

\* Promise.all sends both; /account counts when it has the rows.
Count ==
    /\ pc = "asked" /\ total = <<>>
    /\ endpoint = "account" => page # <<>>
    /\ total' = <<Cardinality(Matching)>>
    /\ UNCHANGED <<endpoint, query, sort, stored, offset, pages, pc, status, page, received, atStart>>

\* The client goes on where the page ended, until a page is not full.
Replied ==
    /\ pc = "asked" /\ page # <<>> /\ total # <<>>
    /\ status' = "200"
    /\ received' = received \o page[1]
    /\ offset' = offset + Len(page[1])
    /\ pc' = IF Len(page[1]) < Take THEN "done" ELSE "idle"
    /\ page' = <<>> /\ total' = <<>>
    /\ UNCHANGED <<endpoint, query, sort, stored, pages, atStart>>

Next == BlockStored \/ Asked \/ FindMany \/ Count \/ Replied

Spec == Init /\ [][Next]_vars

-----------------------------------------------------------------------------
(* Properties *)

\* Every row a client receives satisfies every parameter it gave.
FiltersApplied ==
    \A i \in DOMAIN received, p \in DOMAIN query : received[i] \in Meaning(p, query[p])

\* Parameters without effect: /blocks puts its own condition on the height after the
\* client's, and a block has one key, though two parameters may be given for it.
Lost == CASE endpoint = "blocks" -> {"height"}
          [] endpoint = "transactions" /\ {"blockID", "timestamp"} \subseteq DOMAIN query -> {"blockID"}
          [] endpoint = "events" /\ {"blockID", "timestamp"} \subseteq DOMAIN query -> {"timestamp"}
          [] OTHER -> {}

\* The rows that satisfy every other parameter; /blocks never shows the genesis block.
Wanted == {r \in 1 .. stored : /\ endpoint = "blocks" => Height(r) # 0
                              /\ \A p \in DOMAIN query \ Lost : r \in Meaning(p, query[p])}

\* Every row a client receives satisfies every parameter it gave but the lost ones.
FiltersKept == Range(received) \subseteq Wanted

\* A client that pages by the rows it got so far, until a page is short, has every row
\* it wants that was stored when it began, although blocks are stored meanwhile; and in
\* ascending order it has none twice. (Of /blocks: rows of one block come in any order.)
NothingMissed ==
    endpoint = "blocks" /\ pc = "done" /\ status = "200" =>
        /\ Wanted \cap 1 .. atStart \subseteq Range(received)
        /\ sort.direction = "asc" => IsInjective(received)
=============================================================================
