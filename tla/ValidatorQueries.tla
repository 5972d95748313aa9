--------------------------- MODULE ValidatorQueries ---------------------------
(***************************************************************************)
(* /pos/validators and /generators: both capture the cached generator list *)
(* when a request comes in, await the database, and then give every row    *)
(* its nextAllocatedTime from the list they hold, whatever the cache holds *)
(* by then.                                                                *)
(***************************************************************************)
EXTENDS Integers, Sequences, FiniteSets, SequencesExt

CONSTANTS
    Validators,  \* bound: 1, 2, ..., each with a public key and a name of its own
    Lists,       \* the generator lists of the node, in the order of their times
    Clients,     \* what is asked: an endpoint, a set of parameters, and the column to sort by
    Take,        \* limit
    MaxPages     \* bound: requests of the client

VARIABLES
    endpoint,  \* "validators" or "generators"
    list,      \* generatorList; <<>> while undefined
    table,     \* rows of Validator
    query,     \* the parameters given, with their values
    sort,      \* column
    offset,    \* of the client's next request
    pages,     \* requests sent
    pc,        \* of the request: "idle", "asked", "found", "done"
    held,      \* the list the request captured
    found,     \* rows of findMany, in its order
    answer,    \* the last answer: addresses and times
    received,  \* addresses the client has
    status     \* of the last answer

vars == <<endpoint, list, table, query, sort, offset, pages, pc, held, found, answer, received, status>>

Status(v) == v % 2

\* A search is for one name, address or key; a status for those who have it.
Meaning(p, x) == IF p = "status" THEN {v \in Validators : Status(v) = Status(x)} ELSE {x}

\* The entries of the where-clause in their order, and their keys.
Entries == <<<<"address", "address">>, <<"publicKey", "account">>, <<"name", "account">>, <<"status", "status">>>>

\* A later entry of the same key replaces an earlier one.
Where ==
    LET given     == {i \in DOMAIN Entries : Entries[i][1] \in DOMAIN query}
        last(key) == CHOOSE i \in given : /\ Entries[i][2] = key
                                          /\ \A j \in given : Entries[j][2] = key => j <= i
        param(key) == Entries[last(key)][1]
    IN [key \in {Entries[i][2] : i \in given} |-> Meaning(param(key), query[param(key)])]

ByTime == endpoint = "validators" /\ sort = "nextAllocatedTime"

\* checkForNextAllocatedTimeSort replaces the where-clause, and drops the order and
\* the page; /generators has no other where-clause, and its search is and-ed.
Matching ==
    CASE endpoint = "generators" -> {v \in table \cap Range(held) :
                                        "search" \in DOMAIN query => v \in Meaning("search", query["search"])}
      [] ByTime                  -> table \cap Range(held)
      [] OTHER                   -> {v \in table : \A key \in DOMAIN Where : v \in Where[key]}

\* The length of a page that skips some of n rows.
Size(n, skip) == IF n < skip THEN 0 ELSE IF n - skip < Take THEN n - skip ELSE Take

\* Columns of Validator among the sorts (the name is in Account), and the time, whose
\* orderBy is dropped.
Columns == {"commission", "validatorWeight", "rank", "generatedBlocks", "selfStake", "nextAllocatedTime"}

\* nextAllocatedTime rises along the list; 0 stands for undefined.
Time(l, v) == IF v \in Range(l) THEN CHOOSE i \in DOMAIN l : l[i] = v ELSE 0

Init ==
    /\ list \in {<<>>} \cup Lists
    /\ table \in SUBSET Validators
    /\ \E c \in Clients : endpoint = c.endpoint /\ query \in [c.given -> Validators] /\ sort = c.field
    /\ offset = 0 /\ pages = 0
    /\ pc = "idle" /\ held = <<>> /\ found = <<>>
    /\ answer = <<>> /\ received = <<>> /\ status = "none"

-----------------------------------------------------------------------------

\* cacheNodeApiOnNewBlock
ListSet(l) ==
    /\ list' = l
    /\ UNCHANGED <<endpoint, table, query, sort, offset, pages, pc, held, found, answer, received, status>>

ValidatorStored(v) ==
    /\ table' = table \cup {v}
    /\ UNCHANGED <<endpoint, list, query, sort, offset, pages, pc, held, found, answer, received, status>>

\* Destructuring an undefined list throws, and so does a sort by no column.
Asked ==
    /\ pc = "idle" /\ pages < MaxPages
    /\ pages' = pages + 1
    /\ held' = list
    /\ IF list = <<>> \/ (endpoint = "validators" /\ sort \notin Columns)
       THEN pc' = "done" /\ status' = "500"
       ELSE pc' = "asked" /\ UNCHANGED status
    /\ UNCHANGED <<endpoint, list, table, query, sort, offset, found, answer, received>>

\* The order of a sort, or none, is any order. /generators takes without skipping.
FindMany ==
    /\ pc = "asked"
    /\ LET n    == Cardinality(Matching)
           size == IF ByTime THEN n ELSE Size(n, IF endpoint = "generators" THEN 0 ELSE offset)
       IN \E s \in [1 .. size -> Matching] : IsInjective(s) /\ found' = s
    /\ pc' = "found"
    /\ UNCHANGED <<endpoint, list, table, query, sort, offset, pages, held, answer, received, status>>

\* Mutant: the cached list, not the one the rows were found with.
MutantTimed == [i \in DOMAIN found |-> [address |-> found[i], time |-> Time(list, found[i])]]

Timed == [i \in DOMAIN found |-> [address |-> found[i], time |-> Time(held, found[i])]]

\* sortResponse, applyNextAllocatedTimeSort
Sorted(s) ==
    {t \in [DOMAIN s -> Range(s)] : IsInjective(t) /\ \A i, j \in DOMAIN t : i < j => t[i].time <= t[j].time}

\* Only /generators uses the slice of the sorted rows; /pos/validators drops it.
Replied ==
    /\ pc = "found"
    /\ \E t \in IF endpoint = "generators" \/ ByTime THEN Sorted(Timed) ELSE {Timed} :
           answer' = IF endpoint # "generators" THEN t
                     ELSE [i \in 1 .. Size(Len(t), offset) |-> t[offset + i]]
    /\ received' = received \o [i \in DOMAIN answer' |-> answer'[i].address]
    /\ offset' = offset + Len(answer')
    /\ status' = "200"
    /\ pc' = IF Len(answer') < Take THEN "done" ELSE "idle"
    /\ found' = <<>>
    /\ UNCHANGED <<endpoint, list, table, query, sort, pages, held>>

Next == \/ \E l \in Lists : ListSet(l)
        \/ \E v \in Validators : ValidatorStored(v)
        \/ Asked \/ FindMany \/ Replied

Spec == Init /\ [][Next]_vars

-----------------------------------------------------------------------------
(* Properties *)

\* The times of an answer are those of one generator list, though the cache may
\* change while the database is awaited; every generator shown has one, and where
\* the order is by time it is ascending, nobody twice.
TimesOfOneList ==
    answer # <<>> =>
        /\ \E l \in Lists : \A i \in DOMAIN answer :
               /\ answer[i].time = Time(l, answer[i].address)
               /\ endpoint = "generators" => answer[i].time # 0
        /\ endpoint = "generators" \/ ByTime =>
               \A i, j \in DOMAIN answer : i < j => answer[i].time < answer[j].time

\* Parameters without effect: the sort by time has a where-clause of its own, and an
\* account has one key, though two parameters may be given for it.
Lost == IF ByTime THEN DOMAIN query
        ELSE IF endpoint = "validators" /\ {"publicKey", "name"} \subseteq DOMAIN query THEN {"publicKey"}
        ELSE {}

\* Every validator a client receives satisfies every parameter it gave but the lost
\* ones, and where it is shown by time it is a generator.
FiltersKept ==
    \A i \in DOMAIN answer :
        /\ \A p \in DOMAIN query \ Lost : answer[i].address \in Meaning(p, query[p])
        /\ ByTime => answer[i].time # 0
=============================================================================
