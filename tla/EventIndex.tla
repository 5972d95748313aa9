------------------------------ MODULE EventIndex ------------------------------
(***************************************************************************)
(* EventIndexService for one batch of blocks: the events are fetched and   *)
(* decoded, the accounts they initialise get a row, the events are written *)
(* and counted, and those that pass the filters (event.filters.ts) are     *)
(* dispatched to the gateways. The filters exist so that a batch with many *)
(* events on one account asks the node for its balance once.               *)
(***************************************************************************)
EXTENDS Integers, Sequences, FiniteSets

CONSTANTS
    Accounts,   \* addresses
    Blocks,     \* number of blocks in the batch
    MaxEvents,  \* bound: events in the batch
    Types       \* types of event that occur

\* Event types by the filter that eventFilterMap gives them.
Balance   == {"lock"}               \* token: lock, unlock, burn, mint
Pairs     == {"transfer"}           \* token: transfer
Staking   == {"staked"}             \* pos: validatorStaked
Unfiltered == {"validator", "result"} \* pos: registered, banned, ...; commandExecutionResult
Dropped   == {"initialize"}         \* no filter is registered

ASSUME EventIndexAssumption ==
    /\ IsFiniteSet(Accounts)
    /\ Blocks \in Nat \ {0}
    /\ MaxEvents \in Nat
    /\ Types \subseteq Balance \cup Pairs \cup Staking \cup Unfiltered \cup Dropped

\* An event of block `height` on the accounts `parties`: sender and recipient of
\* a transfer, otherwise one account.
Event == [type : Types \ Pairs, height : 1 .. Blocks, parties : {<<a>> : a \in Accounts}]
         \cup [type : Types \cap Pairs, height : 1 .. Blocks, parties : Accounts \X Accounts]

VARIABLES
    chain,       \* the events of the batch, in the order of the chain
    answers,     \* blocks whose events the node has sent, in the order of arrival
    pc,          \* how far the batch is
    events,      \* decodedChainEvents
    accounts,    \* rows of Account
    rows,        \* rows of ChainEvents
    counts,      \* eventCountMap, later the column numberOfEvents
    seen,        \* seenAddresses: the pairs of an event class and an address
    next,        \* the event to be filtered
    filtered     \* filteredEvents, then dispatched

vars == <<chain, answers, pc, events, accounts, rows, counts, seen, next, filtered>>

\* The chain's own rules: events come in the order of the blocks, and an account
\* is initialised before anything else happens to it, and once; `known` were before.
Valid(s, known) ==
    /\ \A i, j \in DOMAIN s : i < j => s[i].height <= s[j].height
    /\ \A i \in DOMAIN s, k \in {1, 2} : k \in DOMAIN s[i].parties =>
           LET Initialised(j) == s[j].type = "initialize" /\ s[j].parties[1] = s[i].parties[k]
           IN IF s[i].type = "initialize"
              THEN s[i].parties[k] \notin known /\ ~ \E j \in 1 .. i - 1 : Initialised(j)
              ELSE s[i].parties[k] \in known \/ \E j \in 1 .. i - 1 : Initialised(j)

Init ==
    /\ accounts \in SUBSET Accounts
    /\ chain \in {s \in UNION {[1 .. n -> Event] : n \in 0 .. MaxEvents} : Valid(s, accounts)}
    /\ answers = <<>>
    /\ pc = "decode"
    /\ events = <<>>
    /\ rows = <<>>
    /\ counts = [h \in 1 .. Blocks |-> 0]
    /\ seen = {}
    /\ next = 1
    /\ filtered = <<>>

-----------------------------------------------------------------------------
(* indexChainEvents *)

\* chain_getEvents is asked for all the blocks at once and answered in any order.
Answered(h) ==
    /\ pc = "decode"
    /\ ~ \E i \in DOMAIN answers : answers[i] = h
    /\ answers' = Append(answers, h)
    /\ UNCHANGED <<chain, pc, events, accounts, rows, counts, seen, next, filtered>>

\* What chain_getEvents answers of a block: its stretch of the chain.
UpTo(h) == Cardinality({i \in DOMAIN chain : chain[i].height <= h})
Of(h)   == SubSeq(chain, UpTo(h - 1) + 1, UpTo(h))

\* The answers about the first n of these blocks, one behind the other (flat).
Flat(order) ==
    LET First[n \in 0 .. Blocks] == IF n = 0 THEN <<>> ELSE First[n - 1] \o Of(order[n])
    IN First

\* Mutant: the events are collected as the answers come in.
MutantDecoded == Flat(answers)[Blocks]

\* Promise.all keeps the order of the blocks.
Decoded == Flat([h \in 1 .. Blocks |-> h])[Blocks]

AllDecoded ==
    /\ pc = "decode"
    /\ Len(answers) = Blocks
    /\ events' = Decoded
    /\ pc' = "accounts"
    /\ UNCHANGED <<chain, answers, accounts, rows, counts, seen, next, filtered>>

\* getAccountsFromChainEvents
Initialised(s) ==
    {e.parties[1] : e \in {s[i] : i \in {j \in DOMAIN s : s[j].type = "initialize"}}}

\* writeAccountsToDb: one upsert after the other, then createEventCountMap.
WriteAccount(a) ==
    /\ pc = "accounts"
    /\ a \in Initialised(events) \ accounts
    /\ accounts' = accounts \cup {a}
    /\ UNCHANGED <<chain, answers, pc, events, rows, counts, seen, next, filtered>>

\* Mutant: the accounts are not awaited.
MutantAccountsWritten == TRUE

AccountsWritten == Initialised(events) \subseteq accounts

\* createEventCountMap; a block without events has no entry.
CountOf(h) == Cardinality({i \in DOMAIN events : events[i].height = h})

IndexChainEventsEnds ==
    /\ pc = "accounts"
    /\ AccountsWritten
    /\ counts' = [h \in 1 .. Blocks |-> CountOf(h)]
    /\ pc' = "write"
    /\ UNCHANGED <<chain, answers, events, accounts, rows, seen, next, filtered>>

-----------------------------------------------------------------------------
(* writeAndProcessChainEvents *)

\* writeChainEventsToDb, after the headers, the transactions and the assets.
WriteChainEvents ==
    /\ pc = "write"
    /\ rows' = events
    /\ pc' = "filter"
    /\ UNCHANGED <<chain, answers, events, accounts, counts, seen, next, filtered>>

\* The pairs an event is filtered by: the class and the address.
PairsOf(e) ==
    CASE e.type \in Balance \cup Pairs -> {<<"updateAccount", e.parties[k]>> : k \in DOMAIN e.parties}
      [] e.type \in Staking -> {<<e.type, e.parties[1]>>}
      [] OTHER -> {}

\* Mutant: one fresh address is enough.
MutantFresh(e) == \/ e.type \in Unfiltered
                  \/ \E k \in DOMAIN e.parties : <<"updateAccount", e.parties[k]>> \notin seen
                  \/ \E p \in PairsOf(e) : p \notin seen

\* filterHelper goes through the pairs one after the other: of a transfer from
\* an account to itself the second pair has just been added.
Fresh(e) ==
    /\ e.type \notin Dropped
    /\ PairsOf(e) \cap seen = {}
    /\ e.type \in Pairs => e.parties[1] # e.parties[2]

\* Mutant: an address is marked only when its event passes.
MutantMarked(e) == IF Fresh(e) THEN seen \cup PairsOf(e) ELSE seen

\* Marked whether the event passes or not.
Marked(e) == seen \cup PairsOf(e)

\* One call of the callback given to chainEvents.filter.
FilterNext ==
    /\ pc = "filter"
    /\ next \in DOMAIN events
    /\ LET e == events[next]
       IN /\ filtered' = IF Fresh(e) THEN Append(filtered, e) ELSE filtered
          /\ seen' = Marked(e)
    /\ next' = next + 1
    /\ UNCHANGED <<chain, answers, pc, events, accounts, rows, counts>>

\* The gateways get the filtered events; nobody awaits them.
Dispatch ==
    /\ pc = "filter"
    /\ next \notin DOMAIN events
    /\ pc' = "dispatched"
    /\ UNCHANGED <<chain, answers, events, accounts, rows, counts, seen, next, filtered>>

Next == \/ \E h \in 1 .. Blocks : Answered(h)
        \/ AllDecoded
        \/ \E a \in Accounts : WriteAccount(a)
        \/ IndexChainEventsEnds
        \/ WriteChainEvents
        \/ FilterNext
        \/ Dispatch

Spec == Init /\ [][Next]_vars

-----------------------------------------------------------------------------
(* Properties *)

Refreshing == Balance \cup Pairs
Mentions(e, a) == e.type \in Refreshing /\ \E k \in DOMAIN e.parties : e.parties[k] = a

\* Whatever order the node answers in, the rows written are the chain's events
\* in the chain's order, and the count stored with a block's header, long before
\* its events, is the number of its rows.
RowsAreTheChain ==
    pc \in {"filter", "dispatched"} =>
        /\ rows = chain
        /\ \A h \in 1 .. Blocks : counts[h] = Cardinality({i \in DOMAIN rows : rows[i].height = h})

\* An update of an account that has no row throws in a promise nobody awaits:
\* every account of a dispatched event has its row by then.
DispatchedHaveRows ==
    \A i \in DOMAIN filtered : \A k \in DOMAIN filtered[i].parties :
        filtered[i].parties[k] \in accounts

\* The purpose of the filter: no account is refreshed twice in a batch, and each
\* staker of the batch is refreshed exactly once.
RefreshedOnce ==
    /\ \A a \in Accounts, i, j \in DOMAIN filtered :
           Mentions(filtered[i], a) /\ Mentions(filtered[j], a) => i = j
    /\ \A i \in 1 .. next - 1 : events[i].type \in Staking =>
           \E k \in DOMAIN filtered :
               /\ filtered[k].type = events[i].type
               /\ filtered[k].parties = events[i].parties
               /\ \A m \in DOMAIN filtered :
                      filtered[m].type = events[i].type /\ filtered[m].parties = events[i].parties => m = k

\* Its price, exactly: an account with events in the batch is left out if and
\* only if the first of them is a transfer whose other party had an event before
\* or is the account itself. No later event of the batch makes up for it.
LeftOutBehindSeenParty ==
    \A a \in Accounts :
        LET mine == {i \in 1 .. next - 1 : Mentions(events[i], a)}
            first == CHOOSE i \in mine : \A j \in mine : i <= j
            refreshed == \E k \in DOMAIN filtered : Mentions(filtered[k], a)
            other == IF events[first].parties[1] = a THEN events[first].parties[2]
                                                     ELSE events[first].parties[1]
        IN mine # {} =>
           (~refreshed <=> /\ events[first].type \in Pairs
                           /\ other = a \/ \E j \in 1 .. first - 1 : Mentions(events[j], other))
=============================================================================
