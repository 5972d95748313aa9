------------------------------ MODULE NodeCaches ------------------------------
(***************************************************************************)
(* What NodeApiService keeps of the node: the node info, the generator     *)
(* list and the token summary, refreshed with every new block, and the     *)
(* schemas, fetched at the bootstrap; and the endpoints that answer from   *)
(* them. A value of the node is named by the height at which it was true.  *)
(***************************************************************************)
EXTENDS Integers

CONSTANTS
    MaxHeight,  \* bound: heights of the node
    Every,      \* BLOCKS_TO_CACHE_TOKEN_SUMMARY
    Refreshes   \* calls of cacheNodeApiOnNewBlock that may go on at a time

None == -1

VARIABLES
    overlap,   \* FALSE: the sync loop, which awaits each refresh; TRUE: new-block events, which do not
    kind,      \* the endpoint that is asked: validators, summary, status or schemas
    height,    \* the node's height
    info,      \* nodeInfo
    list,      \* generatorList
    summary,   \* tokenSummaryInfo: its three parts
    schemas,   \* schemaMap
    row,       \* row of CachedSchemas: schema and metadata, kept from the process before
    boot,      \* how far onApplicationBootstrap is, with what it was answered
    refresh,   \* the calls
    reader,    \* an endpoint that captured its cache and awaits the database
    answered,  \* history: the value of the last answer that was no error
    failed     \* history: the last answer was an error

vars == <<overlap, kind, height, info, list, summary, schemas, row, boot, refresh, reader, answered, failed>>

NoSummary == [escrowed |-> None, supply |-> None, tokens |-> None]
NoRow     == [schema |-> None, meta |-> None]
NoCall    == [pc |-> "idle", block |-> None, escrowed |-> None, supply |-> None, answer |-> None]
NoReader  == [asks |-> FALSE, value |-> None]

\* A cache that the endpoint asked does not read is not followed.
Reads(kinds) == kind \in kinds

Init ==
    /\ overlap \in BOOLEAN
    /\ kind \in {"validators", "summary", "status", "schemas"}
    /\ height = 1
    /\ info = None /\ list = None /\ summary = NoSummary /\ schemas = None
    /\ row \in IF kind = "schemas" THEN {NoRow, [schema |-> 0, meta |-> 0]} ELSE {NoRow}
    /\ boot = [pc |-> "schemas", schema |-> None, meta |-> None]
    /\ refresh = [r \in Refreshes |-> NoCall]
    /\ reader = NoReader
    /\ answered = None
    /\ failed = FALSE

caches  == <<info, list, summary, schemas, row>>
readers == <<reader, answered, failed>>

\* The node goes on; a request is answered with what is true when it gets there.
BlockForged ==
    /\ height < MaxHeight
    /\ height' = height + 1
    /\ UNCHANGED <<overlap, kind, caches, boot, refresh, readers>>

-----------------------------------------------------------------------------
(* onApplicationBootstrap, getAndSetNodeInfo *)

\* getAndSetSchemas, then the schema and the metadata again, one after the other.
BootStep ==
    /\ \/ boot.pc = "schemas"  /\ boot' = [boot EXCEPT !.pc = "schema"]
       \/ boot.pc = "schema"   /\ boot' = [boot EXCEPT !.pc = "metadata", !.schema = height]
       \/ boot.pc = "metadata" /\ boot' = [boot EXCEPT !.pc = "upsert", !.meta = height]
       \/ boot.pc = "upsert"   /\ boot' = [boot EXCEPT !.pc = "done"]
    /\ schemas' = IF boot.pc = "schemas" THEN height ELSE schemas
    /\ row' = IF boot.pc = "upsert" THEN [schema |-> boot.schema, meta |-> boot.meta] ELSE row
    /\ UNCHANGED <<overlap, kind, height, info, list, summary, refresh, readers>>

\* A run asks for it; the answer is not older than the last one when runs take turns.
NodeInfoSet ==
    /\ boot.pc = "done" /\ Reads({"status"})
    /\ info' = height
    /\ UNCHANGED <<overlap, kind, height, list, summary, schemas, row, boot, refresh, readers>>

-----------------------------------------------------------------------------
(* cacheNodeApiOnNewBlock *)

\* Mutant: the old summary is dropped when a new one is fetched.
MutantRefreshed(r) ==
    /\ refresh[r] = NoCall /\ boot.pc = "done" /\ Reads({"validators", "summary"})
    /\ overlap \/ \A other \in Refreshes : refresh[other] = NoCall
    /\ refresh' = [refresh EXCEPT ![r] = [NoCall EXCEPT !.pc = "list", !.block = height]]
    /\ summary' = IF height % Every = 0 THEN NoSummary ELSE summary
    /\ UNCHANGED <<overlap, kind, height, info, list, schemas, row, boot, readers>>

\* Mutant: the sync loop does not await it.
MutantUnawaited(r) ==
    /\ refresh[r] = NoCall /\ boot.pc = "done" /\ Reads({"validators", "summary"})
    /\ refresh' = [refresh EXCEPT ![r] = [NoCall EXCEPT !.pc = "list", !.block = height]]
    /\ UNCHANGED <<overlap, kind, height, caches, boot, readers>>

\* A new block, or the last one of a batch, is at hand: the generators are asked for.
Refreshed(r) ==
    /\ refresh[r] = NoCall /\ boot.pc = "done" /\ Reads({"validators", "summary"})
    /\ overlap \/ \A other \in Refreshes : refresh[other] = NoCall
    /\ refresh' = [refresh EXCEPT ![r] = [NoCall EXCEPT !.pc = "list", !.block = height]]
    /\ UNCHANGED <<overlap, kind, height, caches, boot, readers>>

\* The node answers the request at hand; the answer is on its way.
Answered(r) ==
    /\ refresh[r].pc \in {"list", "escrowed", "supply", "tokens"} /\ refresh[r].answer = None
    /\ refresh' = [refresh EXCEPT ![r].answer = height]
    /\ UNCHANGED <<overlap, kind, height, caches, boot, readers>>

Arrived(r, pc) == refresh[r].pc = pc /\ refresh[r].answer # None

\* Only a block whose height divides by BLOCKS_TO_CACHE_TOKEN_SUMMARY goes on.
ListSet(r) ==
    /\ Arrived(r, "list")
    /\ list' = refresh[r].answer
    /\ refresh' = [refresh EXCEPT ![r] = IF @.block % Every = 0 THEN [@ EXCEPT !.pc = "escrowed", !.answer = None]
                                         ELSE NoCall]
    /\ UNCHANGED <<overlap, kind, height, info, summary, schemas, row, boot, readers>>

PartAnswered(r) ==
    /\ \/ /\ Arrived(r, "escrowed")
          /\ refresh' = [refresh EXCEPT ![r] =
                            [@ EXCEPT !.pc = "supply", !.escrowed = refresh[r].answer, !.answer = None]]
       \/ /\ Arrived(r, "supply")
          /\ refresh' = [refresh EXCEPT ![r] =
                            [@ EXCEPT !.pc = "tokens", !.supply = refresh[r].answer, !.answer = None]]
    /\ UNCHANGED <<overlap, kind, height, caches, boot, readers>>

\* One assignment for the three answers.
SummarySet(r) ==
    /\ Arrived(r, "tokens")
    /\ summary' = [escrowed |-> refresh[r].escrowed, supply |-> refresh[r].supply, tokens |-> refresh[r].answer]
    /\ refresh' = [refresh EXCEPT ![r] = NoCall]
    /\ UNCHANGED <<overlap, kind, height, info, list, schemas, row, boot, readers>>

\* A request is refused or times out: invokeApi throws and the rest is left as it is.
RefreshFails(r) ==
    /\ refresh[r] # NoCall
    /\ refresh' = [refresh EXCEPT ![r] = NoCall]
    /\ UNCHANGED <<overlap, kind, height, caches, boot, readers>>

-----------------------------------------------------------------------------
(* The endpoints *)

Cache == CASE kind = "validators" -> list
           [] kind = "summary"    -> summary.escrowed
           [] OTHER               -> info

\* The endpoint captures its cache, then awaits the database. The schemas are read
\* from there themselves.
Captured ==
    /\ ~reader.asks
    /\ reader' = [asks |-> TRUE, value |-> Cache]
    /\ UNCHANGED <<overlap, kind, height, caches, boot, refresh, answered, failed>>

\* Without a value the destructuring throws; only the node info may be spread as
\* undefined, and the answer then lacks it. Without the row both fail.
Fails == IF kind \in {"validators", "summary"} THEN reader.value = None ELSE row = NoRow

Replied ==
    /\ reader.asks
    /\ failed' = Fails
    /\ answered' = IF Fails THEN answered ELSE IF kind = "schemas" THEN row.schema ELSE reader.value
    /\ reader' = NoReader
    /\ UNCHANGED <<overlap, kind, height, caches, boot, refresh>>

Next == \/ BlockForged \/ BootStep \/ NodeInfoSet \/ Captured \/ Replied
        \/ \E r \in Refreshes : \/ Refreshed(r) \/ Answered(r) \/ ListSet(r)
                                \/ PartAnswered(r) \/ SummarySet(r) \/ RefreshFails(r)

Spec == Init /\ [][Next]_vars

-----------------------------------------------------------------------------
(* Properties *)

\* The parts of the token summary were true in the order they were asked for, none
\* before the block that caused it, and there is a generator list by then.
SummaryOfOneRefresh ==
    summary # NoSummary =>
        /\ summary.escrowed <= summary.supply /\ summary.supply <= summary.tokens
        /\ \E h \in 1 .. summary.escrowed : h % Every = 0
        /\ list # None

\* An endpoint that has answered once never fails afterwards: no refresh, however
\* it ends, takes a cache away.
KeepsReady == kind # "status" /\ answered # None => ~failed'

\* As long as no two refreshes overlap, a client never sees an older value after a
\* newer one. (With two of them the older answer may be assigned last.)
GoesOn == ~overlap => answered' >= answered
=============================================================================
