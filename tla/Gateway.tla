-------------------------------- MODULE Gateway --------------------------------
(***************************************************************************)
(* Five parts of the gateway, side by side: the boot of a database         *)
(* (Startup), the list endpoints (ListQueries), the endpoints that answer  *)
(* from the generator list (ValidatorQueries), those that ask the node or  *)
(* look up an account (Requests), and what is cached of the node           *)
(* (NodeCaches). They share no state that the others write: a behaviour    *)
(* picks one part, and a variable that two parts name alike is that        *)
(* part's; the rest keep the value Unused.                                 *)
(***************************************************************************)
EXTENDS Integers, Sequences, FiniteSets

CONSTANTS
    Users, Pos, Generator, KnownNames, Touched, MaxOthers, MaxBoots,
    ListClients, MaxHeight, Forms, Take, MaxPages,
    ValidatorClients, GeneratorLists, Validators,
    RequestClients, MaxChanges, Tasks, Askers,
    MaxNodeHeight, Every, Refreshes

\* The parameters that the DTO of an endpoint knows, as far as they filter; a request with
\* another is refused. Left out are those for module, command, name of an event, receiving
\* chain and status of a transaction: plain columns, each under a key of its own.
ListParameters ==
    [blocks       |-> {"blockID", "height", "timestamp", "generatorAddress"},
     transactions |-> {"transactionID", "blockID", "senderAddress", "recipientAddress", "nonce", "height",
                       "timestamp", "address"},
     events       |-> {"transactionID", "height", "timestamp", "blockID", "senderAddress"},
     account      |-> {"address", "name", "publicKey"}]

ValidatorParameters ==
    [validators |-> {"address", "publicKey", "name", "status"}, generators |-> {"search"}]

\* Clients give any of the parameters; the DTO of /blocks knows two columns to sort by.
ASSUME ListClientsAssumption ==
    \A c \in ListClients : /\ c.endpoint \in DOMAIN ListParameters
                           /\ c.given \subseteq ListParameters[c.endpoint]
                           /\ c.endpoint = "blocks" => c.field \in {"height", "timestamp"}

ASSUME ValidatorClientsAssumption ==
    \A c \in ValidatorClients : /\ c.endpoint \in DOMAIN ValidatorParameters
                                /\ c.given \subseteq ValidatorParameters[c.endpoint]

\* The node's list is an array of addresses.
ASSUME ListsAssumption == GeneratorLists \subseteq Seq(Validators)

\* There are blocks enough for those that are stored at first.
ASSUME HeightAssumption == MaxHeight \in Nat /\ MaxHeight >= 2

\* The counts of the validators are finite (CountsOffByChanges).
ASSUME AskersAssumption == IsFiniteSet(Askers)

\* The DTOs want a limit that is a number.
ASSUME TakeAssumption == Take \in Nat

VARIABLES
    part,
    env, assets, todo, left, pointer, account, validator, boots, first, lost,
    state, busy, command, early, others,
    stored, page, total, atStart,
    endpoint, query, sort, offset, pages, received,
    table, held, found, answer,
    lock, mode, history, stake, task, request,
    overlap, kind, height, info, summary, schemas, boot, refresh, reader, answered, failed,
    pc, status, list, row

Unused == "unused"

startupVars == <<env, assets, todo, left, pointer, account, validator, boots, first, lost,
                 state, busy, command, early, others>>
listVars    == <<stored, page, total, atStart>>
clientVars  == <<endpoint, query, sort, offset, pages, received>>
heldVars    == <<table, held, found, answer>>
requestVars == <<lock, mode, history, stake, task, request>>
cacheVars   == <<overlap, kind, height, info, summary, schemas, boot, refresh, reader, answered, failed>>

vars == <<part, startupVars, listVars, clientVars, heldVars, requestVars, cacheVars, pc, status, list, row>>

-----------------------------------------------------------------------------

S == INSTANCE Startup
L == INSTANCE ListQueries WITH Clients <- ListClients
V == INSTANCE ValidatorQueries WITH Clients <- ValidatorClients, Lists <- GeneratorLists
R == INSTANCE Requests WITH Clients <- RequestClients, Accounts <- Askers
C == INSTANCE NodeCaches WITH MaxHeight <- MaxNodeHeight

NoStartup ==
    /\ env = Unused /\ assets = Unused /\ todo = Unused /\ left = Unused /\ pointer = Unused /\ account = Unused
    /\ validator = Unused /\ boots = Unused /\ first = Unused /\ lost = Unused
    /\ state = Unused /\ busy = Unused /\ command = Unused /\ early = Unused /\ others = Unused

NoList ==
    /\ stored = Unused /\ page = Unused /\ total = Unused /\ atStart = Unused

NoClient ==
    /\ endpoint = Unused /\ query = Unused /\ sort = Unused /\ offset = Unused /\ pages = Unused /\ received = Unused

NoHeld ==
    /\ table = Unused /\ held = Unused /\ found = Unused /\ answer = Unused

NoRequest ==
    /\ lock = Unused /\ mode = Unused /\ history = Unused /\ stake = Unused /\ task = Unused /\ request = Unused

NoCache ==
    /\ overlap = Unused /\ kind = Unused /\ height = Unused /\ info = Unused /\ summary = Unused /\ schemas = Unused
    /\ boot = Unused /\ refresh = Unused /\ reader = Unused /\ answered = Unused /\ failed = Unused

Init ==
    \/ /\ part = "startup" /\ S!Init
       /\ NoList /\ NoClient /\ NoHeld /\ NoRequest /\ NoCache
       /\ status = Unused /\ list = Unused /\ row = Unused
    \/ /\ part = "lists" /\ L!Init
       /\ NoStartup /\ NoHeld /\ NoRequest /\ NoCache
       /\ list = Unused /\ row = Unused
    \/ /\ part = "validators" /\ V!Init
       /\ NoStartup /\ NoList /\ NoRequest /\ NoCache
       /\ row = Unused
    \/ /\ part = "requests" /\ R!Init
       /\ NoStartup /\ NoList /\ NoClient /\ NoHeld /\ NoCache
       /\ pc = Unused /\ list = Unused
    \/ /\ part = "caches" /\ C!Init
       /\ NoStartup /\ NoList /\ NoClient /\ NoHeld /\ NoRequest
       /\ pc = Unused /\ status = Unused

StartupSteps ==
    /\ part = "startup" /\ S!Next
    /\ UNCHANGED <<part, listVars, clientVars, heldVars, requestVars, cacheVars, status, list, row>>

ListsSteps ==
    /\ part = "lists" /\ L!Next
    /\ UNCHANGED <<part, startupVars, heldVars, requestVars, cacheVars, list, row>>

ValidatorsSteps ==
    /\ part = "validators" /\ V!Next
    /\ UNCHANGED <<part, startupVars, listVars, requestVars, cacheVars, row>>

RequestsSteps ==
    /\ part = "requests" /\ R!Next
    /\ UNCHANGED <<part, startupVars, listVars, clientVars, heldVars, cacheVars, pc, list>>

CachesSteps ==
    /\ part = "caches" /\ C!Next
    /\ UNCHANGED <<part, startupVars, listVars, clientVars, heldVars, requestVars, pc, status>>

Next == StartupSteps \/ ListsSteps \/ ValidatorsSteps \/ RequestsSteps \/ CachesSteps

Spec == Init /\ [][Next]_vars

-----------------------------------------------------------------------------
(* Properties *)

\* A gateway that came up after the whole of a first boot has the genesis accounts,
\* validators and names, whatever blocks announced meanwhile write and whichever boots
\* failed or ended since (IndexGenesisBlockCommand, IndexKnownAccountsCommand).
GenesisIn == part = "startup" => S!GenesisIn

\* The statements of a boot never stand in each other's way, whatever the order of the
\* genesis assets: a boot fails on a row only where an announced block wrote it first.
ClashNeedsOther == part = "startup" => S!ClashNeedsOther

\* What a client receives satisfies every parameter it gave but those that a where-clause
\* replaces, and an account that was looked up an await earlier is the one asked for.
FiltersKept ==
    CASE part = "lists"      -> L!FiltersKept
      [] part = "validators" -> V!FiltersKept
      [] part = "requests"   -> R!AboutTheAsked
      [] OTHER               -> TRUE

\* A client that pages through /blocks misses no block it wants that was stored when it
\* began, though blocks are stored between its requests.
NothingMissed == part = "lists" => L!NothingMissed

\* What is shown together was true together: the times of one answer come from one
\* generator list, the parts of the token summary from one refresh, although the
\* caches are replaced while an endpoint awaits the database.
AnswersOfOneTime ==
    /\ part = "validators" => V!TimesOfOneList
    /\ part = "caches" => C!SummaryOfOneRefresh

\* A reader of /pos/stakes sees all the stakes the node gave at one time or none, while
\* AddStakesCommand deletes and creates them in two statements.
WholeStakes == part = "requests" => R!WholeStakes

\* The counts by validator status, read one by one while statuses change, sum up to the
\* number of validators with a status but for one for each change
\* (countValidatorsByStatus).
CountsOffByChanges == part = "requests" => R!CountsOffByChanges

\* Of two answers the later one is not the older, as long as refreshes take turns.
NeverOlder == [][part = "caches" => C!GoesOn]_vars

\* An endpoint that answered once from a cache does not fail afterwards, however a
\* refresh ends.
OnceReadyAlwaysReady == [][part = "caches" => C!KeepsReady]_vars
=============================================================================
