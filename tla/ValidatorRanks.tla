---------------------------- MODULE ValidatorRanks ----------------------------
(***************************************************************************)
(* UpdateValidatorRanks: all validators are read, given a status from the  *)
(* rank they had, sorted, and then written one by one. The indexer runs it *)
(* after a batch while SYNCING; ProcessValidatorCommand runs it under its  *)
(* mutex while INDEXING. Nothing keeps a run of the one from overlapping   *)
(* a run of the other when the mode changes.                               *)
(***************************************************************************)
EXTENDS Integers, Sequences, FiniteSets, Functions

CONSTANTS
    MaxValidators,  \* bound: validators, named by their addresses 1, 2, ...
    MaxWeight,      \* bound: weights
    MinimumWeight,  \* MINIMUM_VALIDATOR_WEIGHT
    Seats,          \* ACTIVE_VALIDATORS
    MaxChanges      \* bound: changes of validators and of the mode

ASSUME ValidatorRanksAssumption ==
    /\ MaxValidators \in Nat /\ MaxWeight \in Nat /\ MinimumWeight \in Nat \ {0}
    /\ Seats \in Nat /\ MaxChanges \in Nat

Addresses == 1 .. MaxValidators
Callers   == {"indexer", "command"}
Statuses  == {"none", "BANNED", "INELIGIBLE", "PUNISHED", "ACTIVE", "STANDBY"}
Periods   == {"none", "first", "later"}

VARIABLES
    row,     \* rows of Validator: weight, banned, which of its punishment periods the
             \* height of the node is in, rank, status
    mode,    \* StateService: SYNCING or INDEXING
    plan,    \* per caller: the updates its run has yet to write
    alone,   \* history, per caller: nothing changed and nobody else ran so far
    calm,    \* history: runs in a row that were alone, with no change since, up to 2
    changes

vars == <<row, mode, plan, alone, calm, changes>>

\* null, which JavaScript compares as 0
NoRank == 0

NewRow(w) == [weight |-> w, banned |-> FALSE, period |-> "none", rank |-> NoRank,
              status |-> "none"]

Running(c) == plan[c] # <<>>

Init ==
    /\ \E w \in 0 .. MaxWeight : row = [v \in 1 .. 1 |-> NewRow(w)]
    /\ mode = "SYNCING"
    /\ plan = [c \in Callers |-> <<>>]
    /\ alone = [c \in Callers |-> FALSE]
    /\ calm = 0
    /\ changes = 0

-----------------------------------------------------------------------------
(* The validators, as ProcessValidatorCommand writes them *)

Changed ==
    /\ changes < MaxChanges
    /\ changes' = changes + 1
    /\ calm' = 0
    /\ alone' = [c \in Callers |-> FALSE]
    /\ UNCHANGED <<mode, plan>>

Registered(w) ==
    /\ Cardinality(DOMAIN row) < MaxValidators
    /\ row' = [v \in 1 .. Cardinality(DOMAIN row) + 1 |-> IF v \in DOMAIN row THEN row[v] ELSE NewRow(w)]
    /\ Changed

WeightChanges(v, w) ==
    /\ row' = [row EXCEPT ![v].weight = w]
    /\ Changed

Banned(v) ==
    /\ row' = [row EXCEPT ![v].banned = TRUE]
    /\ Changed

\* The height of the node enters or leaves a punishment period, or the node answers
\* with other periods, by which the height is in another one.
PunishmentChanges(v, period) ==
    /\ period # row[v].period
    /\ row' = [row EXCEPT ![v].period = period]
    /\ Changed

ModeChanges ==
    /\ changes < MaxChanges
    /\ changes' = changes + 1
    /\ mode' = IF mode = "SYNCING" THEN "INDEXING" ELSE "SYNCING"
    /\ UNCHANGED <<row, plan, alone, calm>>

-----------------------------------------------------------------------------
(* A run of UpdateValidatorRanks *)

\* findMany in descending order of weight; equal weights come in any order.
Orders ==
    {s \in [1 .. Cardinality(DOMAIN row) -> DOMAIN row] :
        /\ IsInjective(s)
        /\ \A i, j \in DOMAIN s : i < j => row[s[i]].weight >= row[s[j]].weight}

\* Only punishmentPeriods[0] is looked at: in a later period a validator is not
\* punished.
Punished(v) == row[v].period = "first"

\* Mutant: a seat is added for every banned or punished validator.
MutantFreesSeat(v, seats) == row[v].banned \/ (row[v].weight >= MinimumWeight /\ Punished(v))

\* Mutant: the rank is looked at first.
MutantStatus(v, seats) ==
    IF row[v].rank <= seats               THEN "ACTIVE"
    ELSE IF row[v].banned                 THEN "BANNED"
    ELSE IF row[v].weight < MinimumWeight THEN "INELIGIBLE"
    ELSE IF Punished(v)                   THEN "PUNISHED"
    ELSE "STANDBY"

\* calcStatus
Status(v, seats) ==
    IF row[v].banned                      THEN "BANNED"
    ELSE IF row[v].weight < MinimumWeight THEN "INELIGIBLE"
    ELSE IF Punished(v)                   THEN "PUNISHED"
    ELSE IF row[v].rank <= seats          THEN "ACTIVE"
    ELSE "STANDBY"

Excluded(status) == status \in {"BANNED", "PUNISHED"}

\* One that had a seat and is banned or punished gives it to those after it.
FreesSeat(v, seats) == Excluded(Status(v, seats)) /\ row[v].rank <= seats

\* numberOfActiveValidators once the first i of the order have been given a status.
SeatsAfter(order) ==
    LET after[i \in 0 .. Len(order)] ==
            IF i = 0 THEN Seats
            ELSE after[i - 1] + IF FreesSeat(order[i], after[i - 1]) THEN 1 ELSE 0
    IN after

\* Mutant: the weight in the row.
MutantEffective(v) == row[v].weight

\* What sortValidators compares: weight 0 for the banned and the punished. Their
\* status does not depend on the seats.
Effective(v) == IF Excluded(Status(v, 0)) THEN 0 ELSE row[v].weight

\* Equal weights are sorted by descending address.
Before(u, v) == \/ Effective(u) > Effective(v)
                \/ Effective(u) = Effective(v) /\ u > v

Rank(v) == 1 + Cardinality({u \in DOMAIN row : Before(u, v)})

\* The updates a run will write, in the order of the new ranks.
Plan(order) ==
    [k \in DOMAIN order |->
        LET i == CHOOSE i \in DOMAIN order : Rank(order[i]) = k
        IN [address |-> order[i], rank |-> k, status |-> Status(order[i], SeatsAfter(order)[i - 1])]]

\* Each caller asks for the mode when it starts a run, not while the run goes on.
MayRun(c) ==
    /\ ~Running(c)
    /\ mode = IF c = "indexer" THEN "SYNCING" ELSE "INDEXING"

\* The validators are read; everything up to the first update is one turn.
RanksComputed(c) ==
    /\ MayRun(c)
    /\ \E order \in Orders : plan' = [plan EXCEPT ![c] = Plan(order)]
    /\ alone' = [d \in Callers |-> d = c /\ \A e \in Callers : ~Running(e)]
    /\ UNCHANGED <<row, mode, calm, changes>>

RankWritten(c) ==
    /\ Running(c)
    /\ LET u == Head(plan[c])
       IN row' = [row EXCEPT ![u.address] = [@ EXCEPT !.rank = u.rank, !.status = u.status]]
    /\ plan' = [plan EXCEPT ![c] = Tail(@)]
    /\ calm' = IF Tail(plan[c]) # <<>> \/ (alone[c] /\ calm = 2) THEN calm
               ELSE IF alone[c] THEN calm + 1 ELSE 0
    /\ UNCHANGED <<mode, alone, changes>>

Next == \/ \E w \in 0 .. MaxWeight : Registered(w)
        \/ \E v \in DOMAIN row : \/ \E w \in 0 .. MaxWeight : WeightChanges(v, w)
                                 \/ Banned(v) \/ \E p \in Periods : PunishmentChanges(v, p)
        \/ ModeChanges
        \/ \E c \in Callers : RanksComputed(c) \/ RankWritten(c)

Spec == Init /\ [][Next]_vars

-----------------------------------------------------------------------------
(* Properties *)

\* Once a run had the table to itself the ranks are 1 to n without a gap or a
\* repetition, in descending order of weight, the banned and those in their first
\* punishment period as if theirs was 0 and equal weights by descending address,
\* whatever the ranks were before; and a later run, while it writes, keeps them so.
RanksOrdered ==
    LET Counts(v) == IF row[v].weight < MinimumWeight /\ ~row[v].banned THEN row[v].weight
                     ELSE IF row[v].banned \/ Punished(v) THEN 0 ELSE row[v].weight
    IN calm >= 1 =>
        /\ {row[v].rank : v \in DOMAIN row} = 1 .. Cardinality(DOMAIN row)
        /\ \A u, v \in DOMAIN row : row[u].rank < row[v].rank =>
               \/ Counts(u) > Counts(v)
               \/ Counts(u) = Counts(v) /\ u > v

\* One such run is enough to take the seat of whoever is banned, in the first of its
\* punishment periods, or below the minimum weight, and of nobody else: a validator
\* in a later punishment period is told from nobody who is not punished.
ExcludedAtOnce ==
    calm >= 1 => \A v \in DOMAIN row :
        (row[v].banned \/ row[v].period = "first" \/ row[v].weight < MinimumWeight) <=>
            row[v].status \in {"BANNED", "PUNISHED", "INELIGIBLE"}

\* The status follows the ranks of the run before, so it takes two runs without
\* a change until those on a seat are exactly the eligible of the first ranks. A
\* validator in its second or a later punishment period is one of these: it keeps
\* its seat.
ActiveAfterTwoRuns ==
    calm = 2 => \A v \in DOMAIN row :
        row[v].status = "ACTIVE" <=>
            /\ ~row[v].banned /\ row[v].period # "first" /\ row[v].weight >= MinimumWeight
            /\ row[v].rank <= Seats
=============================================================================
