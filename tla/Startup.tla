-------------------------------- MODULE Startup --------------------------------
(***************************************************************************)
(* What a boot writes: the row of nextBlockToSync, and on the first boot   *)
(* the genesis accounts and validators (IndexGenesisBlockCommand) and the  *)
(* names of known accounts (IndexKnownAccountsCommand). Any await may      *)
(* reject, which ends the process. A block announced during the boot may   *)
(* set the state, and what indexes it may write accounts, names and        *)
(* validators of its own.                                                  *)
(***************************************************************************)
EXTENDS Integers, Sequences, FiniteSets, Functions

CONSTANTS
    Users,        \* accounts of the genesis token asset
    Pos,          \* those of the genesis PoS asset, each with its name
    Generator,    \* generator of the genesis block
    KnownNames,   \* accounts the list of known accounts names
    Touched,      \* bound: addresses in the blocks announced during a boot
    MaxOthers,    \* bound: what those blocks write
    MaxBoots      \* bound: starts of the process

VARIABLES
    env,        \* NODE_ENV is dev; INDEX_KNOWN_ACCOUNTS is off, on, or on for an unknown network
    assets,     \* the genesis block's assets in the order the node sends them
    state,      \* of the indexer: START_UP, RESTART or SYNCING
    busy,       \* announced blocks are being indexed
    command,    \* their ProcessValidatorCommand that creates a validator: whose, and whether it named it
    pc,         \* how far the boot is; "down" without a process
    todo,       \* assets left to handle
    left,       \* accounts left in the step at hand
    pointer,    \* the row of NextBlockToSync
    account,    \* rows of Account: name, and whether the balance is known
    validator,  \* rows of Validator
    boots,      \* bound
    first,      \* history: this boot found no row of the pointer
    lost,       \* history: such a boot created the row and ended before it was through
    early,      \* history: a block was announced while it created the row
    others      \* history: what announced blocks wrote during boots, <<what, address>>

events == <<state, busy, command, early, others>>
vars   == <<env, assets, pc, todo, left, pointer, account, validator, boots, first, lost, events>>

NoCommand == [address |-> "none", named |-> FALSE]

NoName == [name |-> "none", balance |-> FALSE]

\* Account after the rows of S, as far as they are missing, were created.
Created(S, row) == [a \in DOMAIN account \cup S |-> IF a \in DOMAIN account THEN account[a] ELSE row]

Orders == {s \in [1 .. 3 -> {"token", "pos", "random"}] : IsInjective(s)}

Init ==
    /\ env \in [dev : BOOLEAN, known : {"off", "on", "unknown"}]
    /\ assets \in Orders
    /\ pc = "down"
    /\ todo = <<>> /\ left = {}
    /\ pointer = FALSE
    /\ account = <<>>
    /\ validator = {}
    /\ boots = 0
    /\ first = FALSE /\ lost = FALSE /\ early = FALSE
    /\ state = "START_UP" /\ busy = FALSE /\ command = NoCommand
    /\ others = {}

-----------------------------------------------------------------------------
(* Starting and ending *)

\* PrismaService clears the database in dev. Without a row of the pointer the boot is
\* a first one, whatever earlier ones missed.
Started ==
    /\ pc = "down" /\ boots < MaxBoots
    /\ boots' = boots + 1
    /\ pc' = "nodeInfo" /\ state' = "START_UP"
    /\ IF env.dev THEN pointer' = FALSE /\ account' = <<>> /\ validator' = {} /\ others' = {}
       ELSE UNCHANGED <<pointer, account, validator, others>>
    /\ first' = ~pointer'
    /\ lost' = (lost /\ pointer') /\ early' = (early /\ pointer')
    /\ UNCHANGED <<env, assets, todo, left, busy, command>>

\* The process dies, or an await rejects before the program listens.
Dies ==
    /\ pc # "down"
    /\ pc' = "down"
    /\ busy' = FALSE /\ command' = NoCommand
    /\ lost' = (lost \/ (first /\ pointer /\ pc # "up"))
    /\ UNCHANGED <<env, assets, todo, left, pointer, account, validator, boots, first, state, early, others>>

\* A statement fails on a row that is there already.
Clash ==
    /\ pc' = "clash"
    /\ UNCHANGED <<todo, left, account, validator>>

-----------------------------------------------------------------------------
(* Blocks announced during the boot *)

Booting == pc \notin {"down", "clash", "up"}

\* subscribeToNewBlock: nothing is above the pointer while that is undefined, every
\* block is while it is the genesis height, and later that depends on what moved it.
Announced ==
    /\ Booting /\ state # "SYNCING"
    /\ state' \in CASE pc \in {"nodeInfo", "pointer"} -> {state}
                     [] pc = "create"               -> {"SYNCING"}
                     [] OTHER                       -> {state, "SYNCING"}
    /\ busy' = TRUE
    /\ early' = (early \/ pc = "create")
    /\ UNCHANGED <<env, assets, pc, todo, left, pointer, account, validator, boots, first, lost, command, others>>

\* What indexes the blocks writes rows of address a.
Writes(what, a) ==
    /\ Booting /\ busy
    /\ Cardinality(others) < MaxOthers
    /\ others' = others \cup {<<w, a>> : w \in what}
    /\ UNCHANGED <<env, assets, pc, todo, left, pointer, boots, first, lost, state, busy, early>>

\* Mutant: a row that exists keeps its name.
MutantNamed(a, name) == Created({a}, [NoName EXCEPT !.name = name])

Named(a, name) == IF a \in DOMAIN account THEN [account EXCEPT ![a].name = name]
                  ELSE Created({a}, [NoName EXCEPT !.name = name])

\* An account of a transaction or an event.
AccountInitialised(a) ==
    /\ Writes({"account"}, a)
    /\ a \notin DOMAIN account
    /\ account' = Created({a}, NoName)
    /\ UNCHANGED <<validator, command>>

\* UpdateBlockGeneratorCommand; a validator has an account.
GeneratorWritten(a) ==
    /\ Writes({"validator"}, a)
    /\ a \in DOMAIN account \ validator
    /\ validator' = validator \cup {a}
    /\ UNCHANGED <<account, command>>

\* ProcessValidatorCommand, one at a time, finds no row ...
CommandReads(a) ==
    /\ Booting /\ busy
    /\ command = NoCommand /\ a \notin validator
    /\ command' = [address |-> a, named |-> FALSE]
    /\ UNCHANGED <<env, assets, pc, todo, left, pointer, account, validator, boots, first, lost, state, busy, early, others>>

\* ... names the account ...
CommandNames(a) ==
    /\ command = [address |-> a, named |-> FALSE]
    /\ Writes({"name"} \cup IF a \in DOMAIN account THEN {} ELSE {"account"}, a)
    /\ account' = Named(a, "validator")
    /\ command' = [command EXCEPT !.named = TRUE]
    /\ UNCHANGED validator

\* ... and creates the row.
CommandCreates(a) ==
    /\ command = [address |-> a, named |-> TRUE] /\ a \notin validator
    /\ Writes({"validator"}, a)
    /\ validator' = validator \cup {a}
    /\ command' = NoCommand
    /\ UNCHANGED account

\* A row that is there by now and an answer that does not come are logged.
CommandFails ==
    /\ command # NoCommand
    /\ command' = NoCommand
    /\ UNCHANGED <<env, assets, pc, todo, left, pointer, account, validator, boots, first, lost, state, busy, early, others>>

Others == \/ Announced \/ CommandFails
          \/ \E a \in Touched : \/ AccountInitialised(a) \/ GeneratorWritten(a)
                               \/ CommandReads(a) \/ CommandNames(a) \/ CommandCreates(a)

-----------------------------------------------------------------------------
(* IndexerService.onApplicationBootstrap *)

NodeInfoSet ==
    /\ pc = "nodeInfo"
    /\ pc' = "pointer"
    /\ UNCHANGED <<env, assets, todo, left, pointer, account, validator, boots, first, lost, events>>

\* setNextBlockandState: with a row the state is RESTART, whatever it was ...
PointerFound ==
    /\ pc = "pointer"
    /\ IF pointer THEN state' = "RESTART" /\ pc' = "up" ELSE pc' = "create" /\ UNCHANGED state
    /\ UNCHANGED <<env, assets, todo, left, pointer, account, validator, boots, first, lost, busy, command, early, others>>

\* ... without one it is created, and the start-up commands run if the state is
\* START_UP by then.
PointerCreated ==
    /\ pc = "create"
    /\ pointer' = TRUE
    /\ pc' = IF state = "START_UP" THEN "genesis" ELSE "up"
    /\ UNCHANGED <<env, assets, todo, left, account, validator, boots, first, lost, events>>

\* Mutant: the assets as the node sends them.
MutantSorted == assets

\* The token asset first, the others as they are.
Sorted ==
    LET at == CHOOSE i \in 1 .. 3 : assets[i] = "token"
    IN  [i \in 1 .. 3 |-> IF i = 1 THEN "token" ELSE IF i <= at THEN assets[i - 1] ELSE assets[i]]

GenesisFetched ==
    /\ pc = "genesis"
    /\ pc' = "asset"
    /\ todo' = Sorted
    /\ UNCHANGED <<env, assets, left, pointer, account, validator, boots, first, lost, events>>

\* handleDecodedAssets; with none left the generator's account is upserted.
AssetTaken ==
    /\ pc = "asset"
    /\ IF todo = <<>>
       THEN /\ account' = Created({Generator}, NoName)
            /\ pc' = "known" /\ UNCHANGED <<todo, left>>
       ELSE /\ todo' = Tail(todo)
            /\ pc' = CASE Head(todo) = "token" -> "users" [] Head(todo) = "pos" -> "names" [] OTHER -> "asset"
            /\ left' = IF Head(todo) = "pos" THEN Pos ELSE left
            /\ UNCHANGED account
    /\ UNCHANGED <<env, assets, pointer, validator, boots, first, lost, events>>

\* One statement for all users; only outside dev their balances are asked for.
UsersCreated ==
    /\ pc = "users"
    /\ IF Users \cap DOMAIN account # {} THEN Clash
       ELSE /\ account' = Created(Users, NoName)
            /\ left' = IF env.dev THEN {} ELSE Users
            /\ pc' = "balances"
            /\ UNCHANGED <<todo, validator>>
    /\ UNCHANGED <<env, assets, pointer, boots, first, lost, events>>

\* UpdateAccountCommand, one user after the other; without a balance in the answer
\* it only logs.
BalanceUpdated(answered) ==
    /\ pc = "balances"
    /\ IF left = {} THEN pc' = "asset" /\ UNCHANGED <<left, account>>
       ELSE \E a \in left :
                /\ left' = left \ {a}
                /\ account' = IF answered THEN [account EXCEPT ![a].balance = TRUE] ELSE account
                /\ UNCHANGED pc
    /\ UNCHANGED <<env, assets, todo, pointer, validator, boots, first, lost, events>>

\* processPosAsset: the accounts one by one, then the validators in one statement.
ValidatorNamed ==
    /\ pc = "names"
    /\ \E a \in left : account' = Named(a, "validator") /\ left' = left \ {a}
    /\ UNCHANGED <<env, assets, pc, todo, pointer, validator, boots, first, lost, events>>

ValidatorsCreated ==
    /\ pc = "names" /\ left = {}
    /\ IF Pos \cap validator # {} THEN Clash
       ELSE validator' = validator \cup Pos /\ pc' = "asset" /\ UNCHANGED <<todo, left, account>>
    /\ UNCHANGED <<env, assets, pointer, boots, first, lost, events>>

\* getKnownAccounts; for an unknown network it returns undefined, over which
\* Object.entries throws.
KnownFetched ==
    /\ pc = "known"
    /\ pc' = CASE env.known = "off" -> "up" [] env.known = "unknown" -> "clash" [] OTHER -> "knownNames"
    /\ left' = KnownNames
    /\ UNCHANGED <<env, assets, todo, pointer, account, validator, boots, first, lost, events>>

KnownNamed ==
    /\ pc = "knownNames"
    /\ IF left = {} THEN pc' = "up" /\ UNCHANGED <<left, account>>
       ELSE /\ \E a \in left : account' = Named(a, "known") /\ left' = left \ {a}
            /\ UNCHANGED pc
    /\ UNCHANGED <<env, assets, todo, pointer, validator, boots, first, lost, events>>

Next == \/ Started \/ Dies \/ NodeInfoSet \/ PointerFound \/ PointerCreated \/ GenesisFetched
        \/ AssetTaken \/ UsersCreated \/ ValidatorNamed \/ ValidatorsCreated \/ KnownFetched
        \/ KnownNamed \/ \E answered \in BOOLEAN : BalanceUpdated(answered)
        \/ Others

Spec == Init /\ [][Next]_vars

-----------------------------------------------------------------------------
(* Properties *)

\* What announced blocks wrote of one kind.
Wrote(what) == {a \in Touched : <<what, a>> \in others}

\* A gateway that came up has the whole genesis block and every name, a known name
\* before a validator's, and beyond that only what announced blocks wrote. But if the
\* boot that created the row of the pointer ended half-way, or a block was announced
\* while it did, no later boot brings in what that one missed.
GenesisIn ==
    pc = "up" /\ ~lost /\ ~early =>
        /\ Users \cup Pos \cup {Generator} \subseteq DOMAIN account
        /\ Pos \subseteq validator /\ validator \ Pos \subseteq Wrote("validator")
        /\ env.known = "on" => KnownNames \subseteq DOMAIN account
        /\ \A a \in DOMAIN account \ Wrote("name") :
               account[a].name = IF env.known = "on" /\ a \in KnownNames THEN "known"
                                 ELSE IF a \in Pos THEN "validator" ELSE "none"

\* Whatever the order of the assets, the boot's own statements never stand in each
\* other's way, nor in those of an earlier boot: it fails on a row only where an
\* announced block wrote a genesis account or validator first.
ClashNeedsOther ==
    pc = "clash" => \/ env.known = "unknown"
                    \/ Wrote("account") \cap Users # {}
                    \/ Wrote("validator") \cap Pos # {}
=============================================================================
