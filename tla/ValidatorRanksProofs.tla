------------------------- MODULE ValidatorRanksProofs -------------------------
(***************************************************************************)
(* Proofs about ValidatorRanks: the ranks are a bijection, whatever they   *)
(* were before; a run that had the table to itself leaves every validator  *)
(* with the rank and a status that fits, and a second such run leaves the  *)
(* seats with the eligible of the first ranks.                             *)
(***************************************************************************)
EXTENDS ValidatorRanks, FiniteSetTheorems, WellFoundedInduction, TLAPS

Row == [weight : 0 .. MaxWeight, banned : BOOLEAN, period : Periods, rank : Nat,
        status : Statuses]
Update == [address : Nat, rank : Nat, status : Statuses]

\* What may be known of a validator and a status that a run gave it.
Eligible(v) == ~row[v].banned /\ ~Punished(v) /\ row[v].weight >= MinimumWeight
Fit(v, s)   == IF Eligible(v) THEN s \in {"ACTIVE", "STANDBY"}
                              ELSE s \in {"BANNED", "PUNISHED", "INELIGIBLE"}
Right(v, s) == s = "ACTIVE" <=> Eligible(v) /\ Rank(v) <= Seats

\* The validator has its rank, and a status that fits.
Placed(v)  == row[v].rank = Rank(v) /\ Fit(v, row[v].status)
Current(u) == u.rank = Rank(u.address) /\ Fit(u.address, u.status)
Left(c)    == {plan[c][i].address : i \in DOMAIN plan[c]}

TypeInv ==
    /\ \E n \in Nat \ {0} : row \in [1 .. n -> Row]
    /\ mode \in {"SYNCING", "INDEXING"}
    /\ plan \in [Callers -> Seq(Update)]
    /\ \A c \in Callers : Left(c) \subseteq DOMAIN row
    /\ alone \in [Callers -> BOOLEAN]
    /\ calm \in 0 .. 2

\* A run that is alone is the only one.
AloneInv == \A c, d \in Callers : alone[c] /\ Running(c) /\ Running(d) => c = d

\* What is planned is of the validators as they are, unless they changed since.
PlanInv == \A c \in Callers : alone[c] \/ calm >= 1 => \A i \in DOMAIN plan[c] : Current(plan[c][i])

\* Those a run on its own has passed have their ranks.
PassedInv == \A c \in Callers : alone[c] /\ Running(c) => \A v \in DOMAIN row : Placed(v) \/ v \in Left(c)

\* After such a run all have, and later runs do not change them.
CalmInv == calm >= 1 => \A v \in DOMAIN row : Placed(v)

\* The same of the seats, one run later.
SeatsPlanInv ==
    calm >= 1 => \A c \in Callers : \A i \in DOMAIN plan[c] : Right(plan[c][i].address, plan[c][i].status)
SeatsPassedInv ==
    \A c \in Callers : calm >= 1 /\ alone[c] /\ Running(c) =>
        \A v \in DOMAIN row : Right(v, row[v].status) \/ v \in Left(c)
SeatsInv == calm = 2 => \A v \in DOMAIN row : Right(v, row[v].status)

IInv ==
    /\ TypeInv /\ AloneInv /\ PlanInv /\ PassedInv /\ CalmInv
    /\ SeatsPlanInv /\ SeatsPassedInv /\ SeatsInv

-----------------------------------------------------------------------------
(* Ranks *)

Below(v) == {u \in DOMAIN row : Before(u, v)}

LEMMA Shape ==
    ASSUME TypeInv
    PROVE  \E n \in Nat \ {0} : /\ row \in [1 .. n -> Row] /\ DOMAIN row = 1 .. n
                                /\ IsFiniteSet(DOMAIN row) /\ Cardinality(DOMAIN row) = n
<1>1. PICK n \in Nat \ {0} : row \in [1 .. n -> Row]
  BY DEF TypeInv
<1>2. DOMAIN row = 1 .. n
  BY <1>1
<1>3. IsFiniteSet(1 .. n) /\ Cardinality(1 .. n) = n
  BY FS_Interval
<1>. QED BY <1>1, <1>2, <1>3

LEMMA StatusCases ==
    ASSUME NEW v, NEW seats, row[v].weight \in Int
    PROVE  /\ row[v].banned => Status(v, seats) = "BANNED"
           /\ ~row[v].banned /\ row[v].weight < MinimumWeight => Status(v, seats) = "INELIGIBLE"
           /\ ~row[v].banned /\ row[v].weight >= MinimumWeight =>
                  /\ Punished(v) => Status(v, seats) = "PUNISHED"
                  /\ ~Punished(v) /\ row[v].rank <= seats => Status(v, seats) = "ACTIVE"
                  /\ ~Punished(v) /\ ~(row[v].rank <= seats) => Status(v, seats) = "STANDBY"
BY ValidatorRanksAssumption DEF Status

LEMMA RowType ==
    ASSUME TypeInv, NEW v \in DOMAIN row
    PROVE  /\ v \in Nat \ {0} /\ row[v] \in Row /\ Effective(v) \in Nat
           /\ row[v].weight \in Nat /\ row[v].rank \in Nat
           /\ \A seats : Excluded(Status(v, seats)) <=>
                  row[v].banned \/ (row[v].weight >= MinimumWeight /\ Punished(v))
           /\ Effective(v) = IF row[v].banned \/ (row[v].weight >= MinimumWeight /\ Punished(v))
                             THEN 0 ELSE row[v].weight
<1>1. v \in Nat \ {0} /\ row[v] \in Row
  BY Shape
<1>2. row[v].weight \in Nat /\ row[v].rank \in Nat
  BY <1>1, ValidatorRanksAssumption DEF Row
<1>3. \A seats : Excluded(Status(v, seats)) <=>
          row[v].banned \/ (row[v].weight >= MinimumWeight /\ Punished(v))
  BY <1>2, StatusCases, ValidatorRanksAssumption DEF Excluded
<1>. QED BY <1>1, <1>2, <1>3 DEF Effective

\* Before is a strict order of all validators.
LEMMA BeforeOrders ==
    ASSUME TypeInv
    PROVE  \A u, v \in DOMAIN row : /\ ~Before(u, u)
                                    /\ u # v => Before(u, v) \/ Before(v, u)
                                    /\ \A w \in DOMAIN row : Before(u, v) /\ Before(v, w) => Before(u, w)
<1> SUFFICES ASSUME NEW u \in DOMAIN row, NEW v \in DOMAIN row, NEW w \in DOMAIN row
             PROVE  /\ ~Before(u, u)
                    /\ u # v => Before(u, v) \/ Before(v, u)
                    /\ Before(u, v) /\ Before(v, w) => Before(u, w)
  OBVIOUS
<1>1. /\ u \in Nat /\ v \in Nat /\ w \in Nat
      /\ Effective(u) \in Nat /\ Effective(v) \in Nat /\ Effective(w) \in Nat
  BY RowType
<1>. QED BY <1>1 DEF Before

LEMMA BelowFinite ==
    ASSUME TypeInv, NEW v \in DOMAIN row
    PROVE  IsFiniteSet(Below(v)) /\ Cardinality(Below(v)) \in Nat /\ Rank(v) = 1 + Cardinality(Below(v))
<1>1. IsFiniteSet(DOMAIN row) /\ Below(v) \in SUBSET DOMAIN row
  BY Shape DEF Below
<1>2. IsFiniteSet(Below(v))
  BY <1>1, FS_Subset
<1>3. Cardinality(Below(v)) \in Nat
  BY <1>2, FS_CardinalityType
<1>4. Rank(v) = 1 + Cardinality(Below(v))
  BY DEF Rank, Below
<1>. QED BY <1>2, <1>3, <1>4

LEMMA RankType ==
    ASSUME TypeInv, NEW v \in DOMAIN row
    PROVE  Rank(v) \in 1 .. Cardinality(DOMAIN row)
<1>1. PICK n \in Nat \ {0} : IsFiniteSet(DOMAIN row) /\ Cardinality(DOMAIN row) = n
  BY Shape
<1>2. Below(v) \in SUBSET (DOMAIN row \ {v})
  BY BeforeOrders DEF Below
<1>3. IsFiniteSet(DOMAIN row \ {v}) /\ Cardinality(DOMAIN row \ {v}) = n - 1
  BY <1>1, FS_RemoveElement
<1>4. Cardinality(Below(v)) <= n - 1
  BY <1>2, <1>3, FS_Subset
<1>. QED BY <1>1, <1>4, BelowFinite

LEMMA RankRises ==
    ASSUME TypeInv, NEW u \in DOMAIN row, NEW v \in DOMAIN row, Before(u, v)
    PROVE  Rank(u) < Rank(v)
<1>1. Below(u) \in SUBSET Below(v) /\ u \in Below(v) /\ u \notin Below(u)
  BY BeforeOrders DEF Below
<1>2. /\ IsFiniteSet(Below(v))
      /\ Rank(u) = 1 + Cardinality(Below(u)) /\ Rank(v) = 1 + Cardinality(Below(v))
      /\ Cardinality(Below(u)) \in Nat /\ Cardinality(Below(v)) \in Nat
  BY BelowFinite
<1>3. Cardinality(Below(u)) <= Cardinality(Below(v)) /\ Cardinality(Below(u)) # Cardinality(Below(v))
  BY <1>1, <1>2, FS_Subset
<1>. QED BY <1>2, <1>3

\* Two validators have different ranks, and the one with the smaller is before the other.
LEMMA RankTells ==
    ASSUME TypeInv, NEW u \in DOMAIN row, NEW v \in DOMAIN row
    PROVE  /\ Rank(u) = Rank(v) => u = v
           /\ Rank(u) < Rank(v) => Before(u, v)
<1>1. Rank(u) \in Nat /\ Rank(v) \in Nat
  BY BelowFinite
<1>. QED BY <1>1, BeforeOrders, RankRises

\* Every number up to that of the validators is a rank.
LEMMA RankOnto ==
    ASSUME TypeInv, NEW k \in 1 .. Cardinality(DOMAIN row)
    PROVE  \E v \in DOMAIN row : Rank(v) = k
<1>1. PICK n \in Nat \ {0} : DOMAIN row = 1 .. n /\ IsFiniteSet(DOMAIN row) /\ Cardinality(DOMAIN row) = n
  BY Shape
<1> DEFINE f == [v \in DOMAIN row |-> Rank(v)]
<1>2. f \in [DOMAIN row -> DOMAIN row]
  BY <1>1, RankType
<1>3. \A u, v \in DOMAIN row : f[u] = f[v] => u = v
  BY RankTells
<1>4. f \in Injection(DOMAIN row, DOMAIN row)
  BY <1>2, <1>3 DEF Injection, IsInjective
<1>5. f \in Surjection(DOMAIN row, DOMAIN row)
  BY <1>1, <1>4, FS_Injection
<1>. QED BY <1>1, <1>5 DEF Surjection

-----------------------------------------------------------------------------
(* Seats *)

\* A set of numbers that is not empty has a least element: induction, for data.
LEMMA Least == ASSUME NEW T \in SUBSET Nat, T # {} PROVE \E x \in T : \A y \in T : x <= y
<1>1. PICK x \in T : \A y \in T : ~(<<y, x>> \in OpToRel(<, Nat))
  BY NatLessThanWellFounded, WFMin
<1>2. \A y \in T : ~(y < x)
  BY <1>1 DEF OpToRel
<1>. QED BY <1>2

\* One turn of the loop that counts the seats.
Counted(f, i, order) == f[i - 1] + IF FreesSeat(order[i], f[i - 1]) THEN 1 ELSE 0
Counts(f, m, order) ==
    f \in [0 .. m -> Nat] /\ f[0] = Seats /\ \A i \in 1 .. m : f[i] = Counted(f, i, order)

LEMMA SeatsCounted == ASSUME NEW order, NEW m \in Nat PROVE \E f : Counts(f, m, order)
<1> DEFINE T == {k \in Nat : ~ \E f : Counts(f, k, order)}
<1>. SUFFICES ASSUME T # {} PROVE FALSE
  OBVIOUS
<1>1. PICK k \in T : \A j \in T : k <= j
  BY Least
<1>2. k # 0
  <2>1. Counts([i \in 0 .. 0 |-> Seats], 0, order)
    BY ValidatorRanksAssumption DEF Counts
  <2>. QED BY <1>1, <2>1
<1>3. PICK f : Counts(f, k - 1, order)
  BY <1>1, <1>2
<1> DEFINE g == [i \in 0 .. k |-> IF i = k THEN Counted(f, k, order) ELSE f[i]]
<1>4. f[k - 1] \in Nat /\ Counted(f, k, order) \in Nat
  BY <1>1, <1>2, <1>3 DEF Counts, Counted
<1>5. g \in [0 .. k -> Nat] /\ g[0] = Seats
  BY <1>1, <1>2, <1>3, <1>4 DEF Counts
<1>6. ASSUME NEW i \in 1 .. k PROVE g[i] = Counted(g, i, order)
  <2>1. g[i - 1] = f[i - 1]
    BY <1>1
  <2>2. Counted(g, i, order) = Counted(f, i, order)
    BY <2>1 DEF Counted
  <2>3. g[i] = Counted(f, i, order)
    BY <1>1, <1>3 DEF Counts
  <2>. QED BY <2>2, <2>3
<1>7. Counts(g, k, order)
  BY <1>5, <1>6 DEF Counts
<1>. QED BY <1>1, <1>7

LEMMA SeatsAfterCounts ==
    ASSUME NEW order, Len(order) \in Nat
    PROVE  Counts(SeatsAfter(order), Len(order), order)
<1> DEFINE m == Len(order)
           Turn(g, i) == IF i = 0 THEN Seats ELSE g[i - 1] + IF FreesSeat(order[i], g[i - 1]) THEN 1 ELSE 0
           a == SeatsAfter(order)
<1>1. PICK f : Counts(f, m, order)
  BY SeatsCounted
<1>2. f = [i \in 0 .. m |-> Turn(f, i)]
  BY <1>1 DEF Counts, Counted
<1>3. a = [i \in 0 .. m |-> Turn(a, i)]
  BY <1>2, Zenon DEF SeatsAfter
<1>. HIDE DEF a
<1>4. \A i \in 0 .. m : a[i] \in Nat
  <2> DEFINE T == {i \in 0 .. m : a[i] \notin Nat}
  <2>. SUFFICES ASSUME T # {} PROVE FALSE
    OBVIOUS
  <2>0. T \in SUBSET Nat
    OBVIOUS
  <2>1. PICK i \in T : \A j \in T : i <= j
    BY <2>0, Least
  <2>2. i # 0 /\ a[i - 1] \in Nat
    BY <1>3, <2>1, ValidatorRanksAssumption
  <2>. QED BY <1>3, <2>1, <2>2
<1>. HIDE DEF Turn
<1>5. a \in [0 .. m -> Nat]
  BY <1>3, <1>4
<1>6. ASSUME NEW i \in 1 .. m PROVE a[i] = Counted(a, i, order)
  <2>1. i \in 0 .. m /\ i # 0
    OBVIOUS
  <2>2. a[i] = Turn(a, i)
    BY <1>3, <2>1
  <2>. QED BY <2>1, <2>2, Zenon DEF Turn, Counted
<1>7. a[0] = Seats
  <2>1. a[0] = Turn(a, 0)
    BY <1>3
  <2>. QED BY <2>1 DEF Turn
<1>8. Counts(a, m, order)
  BY <1>5, <1>6, <1>7 DEF Counts
<1>. QED BY <1>8 DEF a

\* The loop frees a seat only where somebody of the first ranks loses it.
LEMMA SeatsFreed ==
    ASSUME TypeInv, NEW order, NEW m \in Nat, NEW a, Counts(a, m, order),
           \A i \in 1 .. m : order[i] \in DOMAIN row
    PROVE  \A i \in 0 .. m :
               /\ a[i] >= Seats
               /\ a[i] > Seats => \E e \in DOMAIN row : Excluded(Status(e, 0)) /\ row[e].rank <= Seats
<1> DEFINE Holds(i) == /\ a[i] >= Seats
                       /\ a[i] > Seats =>
                              \E e \in DOMAIN row : Excluded(Status(e, 0)) /\ row[e].rank <= Seats
           T == {i \in 0 .. m : ~Holds(i)}
<1>. SUFFICES ASSUME T # {} PROVE FALSE
  OBVIOUS
<1>1. T \in SUBSET Nat
  OBVIOUS
<1>2. PICK i \in T : \A j \in T : i <= j
  BY <1>1, Least
<1>3. a[0] = Seats /\ Seats \in Nat
  BY ValidatorRanksAssumption DEF Counts
<1>4. i \in 1 .. m
  BY <1>2, <1>3
<1>5. Holds(i - 1)
  BY <1>2, <1>4
<1>6. a[i - 1] \in Nat /\ a[i] = Counted(a, i, order)
  BY <1>4 DEF Counts
<1>. DEFINE v == order[i]
<1>7. v \in DOMAIN row /\ row[v].rank \in Nat
  BY <1>4, RowType
<1>8. CASE FreesSeat(v, a[i - 1])
  <2>1. Excluded(Status(v, 0)) /\ row[v].rank <= a[i - 1]
    BY <1>7, <1>8, RowType DEF FreesSeat
  <2>2. a[i] = a[i - 1] + 1
    BY <1>6, <1>8 DEF Counted
  <2>3. \E e \in DOMAIN row : Excluded(Status(e, 0)) /\ row[e].rank <= Seats
    BY <1>3, <1>5, <1>6, <1>7, <2>1
  <2>4. Holds(i)
    BY <1>3, <1>5, <1>6, <2>2, <2>3
  <2>. QED BY <1>2, <2>4
<1>9. CASE ~FreesSeat(v, a[i - 1])
  <2>1. a[i] = a[i - 1]
    BY <1>6, <1>9 DEF Counted
  <2>2. Holds(i)
    BY <1>5, <2>1
  <2>. QED BY <1>2, <2>2
<1>. QED BY <1>8, <1>9

\* An order of findMany has every validator once.
LEMMA OrderShape ==
    ASSUME TypeInv, NEW order \in Orders
    PROVE  /\ Len(order) = Cardinality(DOMAIN row) /\ Len(order) \in Nat
           /\ DOMAIN order = 1 .. Len(order)
           /\ \A i \in DOMAIN order : order[i] \in DOMAIN row
           /\ \A v \in DOMAIN row : \E i \in DOMAIN order : order[i] = v
<1>1. PICK n \in Nat \ {0} : DOMAIN row = 1 .. n /\ IsFiniteSet(DOMAIN row) /\ Cardinality(DOMAIN row) = n
  BY Shape
<1>2. order \in [1 .. n -> DOMAIN row] /\ IsInjective(order)
  BY <1>1 DEF Orders
<1>3. order \in Injection(1 .. n, 1 .. n)
  BY <1>1, <1>2 DEF Injection
<1>4. order \in Surjection(1 .. n, 1 .. n)
  BY <1>1, <1>3, FS_Injection
<1>5. Len(order) = n
  BY <1>2
<1>. QED BY <1>1, <1>2, <1>4, <1>5 DEF Surjection

LEMMA PlanShape ==
    ASSUME TypeInv, NEW order \in Orders
    PROVE  /\ DOMAIN Plan(order) = 1 .. Cardinality(DOMAIN row)
           /\ \A k \in DOMAIN Plan(order) : \E i \in DOMAIN order :
                  /\ order[i] \in DOMAIN row /\ Rank(order[i]) = k
                  /\ Plan(order)[k] = [address |-> order[i], rank |-> k,
                                       status |-> Status(order[i], SeatsAfter(order)[i - 1])]
<1>1. DOMAIN Plan(order) = DOMAIN order
  BY DEF Plan
<1> SUFFICES ASSUME NEW k \in DOMAIN order
             PROVE  \E i \in DOMAIN order :
                  /\ order[i] \in DOMAIN row /\ Rank(order[i]) = k
                  /\ Plan(order)[k] = [address |-> order[i], rank |-> k,
                                       status |-> Status(order[i], SeatsAfter(order)[i - 1])]
  BY <1>1, OrderShape
<1>2. \E i \in DOMAIN order : Rank(order[i]) = k
  BY OrderShape, RankOnto
<1>3. PICK i \in DOMAIN order : i = CHOOSE j \in DOMAIN order : Rank(order[j]) = k
  BY <1>2
<1>4. Rank(order[i]) = k
  BY <1>2, <1>3
<1>5. Plan(order)[k] = [address |-> order[i], rank |-> k,
                        status |-> Status(order[i], SeatsAfter(order)[i - 1])]
  BY <1>3, Zenon DEF Plan
<1>. QED BY <1>4, <1>5, OrderShape

\* What a run computes: for every validator its rank, and a status that fits.
LEMMA PlanIsCurrent ==
    ASSUME TypeInv, NEW order \in Orders
    PROVE  /\ Plan(order) \in Seq(Update) /\ Plan(order) # <<>>
           /\ \A k \in DOMAIN Plan(order) : /\ Plan(order)[k].address \in DOMAIN row
                                            /\ Current(Plan(order)[k])
           /\ \A v \in DOMAIN row : \E k \in DOMAIN Plan(order) : Plan(order)[k].address = v
<1> DEFINE p == Plan(order)
           n == Cardinality(DOMAIN row)
<1>1. n \in Nat \ {0} /\ DOMAIN p = 1 .. n
  BY Shape, PlanShape
<1>2. ASSUME NEW k \in 1 .. n
      PROVE  p[k] \in Update /\ p[k].address \in DOMAIN row /\ Current(p[k])
  <2>1. PICK i \in DOMAIN order :
               /\ order[i] \in DOMAIN row /\ Rank(order[i]) = k
               /\ p[k] = [address |-> order[i], rank |-> k,
                          status |-> Status(order[i], SeatsAfter(order)[i - 1])]
    BY <1>1, PlanShape
  <2> DEFINE v == order[i]
             s == Status(v, SeatsAfter(order)[i - 1])
  <2>2. s \in Statuses
    BY DEF Status, Statuses
  <2>3. v \in Nat
    BY <2>1, RowType
  <2>4. Fit(v, s)
    <3>1. row[v].weight \in Int /\ MinimumWeight \in Int
      BY <2>1, RowType, ValidatorRanksAssumption
    <3>. QED BY <3>1, StatusCases DEF Fit, Eligible
  <2>. HIDE DEF s
  <2>5. p[k].address = v /\ p[k].rank = k /\ p[k].status = s /\ p[k] \in Update
    BY <1>1, <2>1, <2>2, <2>3 DEF Update, s
  <2>. QED BY <2>1, <2>4, <2>5 DEF Current
<1>3. ASSUME NEW v \in DOMAIN row PROVE \E k \in DOMAIN p : p[k].address = v
  <2>1. Rank(v) \in 1 .. n
    BY RankType
  <2>2. PICK i \in DOMAIN order : /\ order[i] \in DOMAIN row /\ Rank(order[i]) = Rank(v)
                                  /\ p[Rank(v)].address = order[i]
    BY <1>1, <2>1, PlanShape
  <2>. QED BY <1>1, <2>1, <2>2, RankTells
<1>4. p \in [1 .. n -> Update]
  BY <1>1, <1>2 DEF Plan
<1>5. p \in Seq(Update) /\ p # <<>>
  BY <1>1, <1>4
<1>. QED BY <1>1, <1>2, <1>3, <1>5

\* Where everybody has its rank, a run seats exactly the eligible of the first ranks.
LEMMA PlanIsRight ==
    ASSUME TypeInv, NEW order \in Orders, \A v \in DOMAIN row : row[v].rank = Rank(v)
    PROVE  \A k \in DOMAIN Plan(order) : Right(Plan(order)[k].address, Plan(order)[k].status)
<1> SUFFICES ASSUME NEW k \in DOMAIN Plan(order)
             PROVE  Right(Plan(order)[k].address, Plan(order)[k].status)
  OBVIOUS
<1> DEFINE a == SeatsAfter(order)
           m == Len(order)
<1>1. PICK i \in DOMAIN order :
           /\ order[i] \in DOMAIN row
           /\ Plan(order)[k] = [address |-> order[i], rank |-> k, status |-> Status(order[i], a[i - 1])]
  BY PlanShape
<1> DEFINE v == order[i]
<1>2. i \in 1 .. m /\ m \in Nat /\ Counts(a, m, order)
  BY OrderShape, SeatsAfterCounts
<1>3. a[i - 1] \in Nat /\ Seats \in Nat /\ MinimumWeight \in Nat \ {0} /\ Rank(v) \in Nat
  BY <1>1, <1>2, BelowFinite, ValidatorRanksAssumption DEF Counts
<1>4. /\ a[i - 1] >= Seats
      /\ a[i - 1] > Seats => \E e \in DOMAIN row : Excluded(Status(e, 0)) /\ row[e].rank <= Seats
  BY <1>2, OrderShape, SeatsFreed
<1>5. ASSUME Eligible(v), Rank(v) <= a[i - 1] PROVE Rank(v) <= Seats
  <2> SUFFICES ASSUME Rank(v) > Seats PROVE FALSE
    BY <1>3
  <2>1. PICK e \in DOMAIN row : Excluded(Status(e, 0)) /\ Rank(e) <= Seats
    BY <1>3, <1>4, <1>5
  <2>2. Before(e, v)
    BY <1>1, <1>3, <2>1, BelowFinite, RankTells
  <2>3. Effective(e) = 0 /\ Effective(v) \in Nat /\ Effective(v) > 0
    BY <1>1, <1>3, <1>5, <2>1, RowType DEF Eligible
  <2>. QED BY <2>2, <2>3 DEF Before
<1>6. Status(v, a[i - 1]) = "ACTIVE" <=> Eligible(v) /\ row[v].rank <= a[i - 1]
  <2>1. row[v].weight \in Int
    BY <1>1, RowType
  <2>. QED BY <1>3, <2>1, StatusCases DEF Eligible
<1>7. row[v].rank = Rank(v)
  BY <1>1
<1>8. Status(v, a[i - 1]) = "ACTIVE" <=> Eligible(v) /\ Rank(v) <= Seats
  BY <1>3, <1>4, <1>5, <1>6, <1>7
<1>. QED BY <1>1, <1>8 DEF Right

-----------------------------------------------------------------------------
(* The invariant *)

\* Ranks and seats depend on what the chain says of the validators, not on the
\* ranks and statuses that a run writes.
LEMMA SameInputs ==
    ASSUME DOMAIN row' = DOMAIN row,
           \A v \in DOMAIN row : /\ row'[v].weight = row[v].weight
                                 /\ row'[v].banned = row[v].banned /\ row'[v].period = row[v].period
    PROVE  \A v \in DOMAIN row : /\ Rank(v)' = Rank(v)
                                 /\ \A s : Fit(v, s)' <=> Fit(v, s)
                                 /\ \A s : Right(v, s)' <=> Right(v, s)
<1>1. \A v \in DOMAIN row : Effective(v)' = Effective(v)
  BY DEF Effective, Excluded, Status, Punished
<1>2. \A u, v \in DOMAIN row : Before(u, v)' <=> Before(u, v)
  BY <1>1 DEF Before
<1>3. ASSUME NEW v \in DOMAIN row PROVE Rank(v)' = Rank(v)
  <2>1. {u \in DOMAIN row' : Before(u, v)'} = {u \in DOMAIN row : Before(u, v)}
    BY <1>2
  <2>. QED BY <2>1 DEF Rank
<1>4. \A v \in DOMAIN row : Eligible(v)' <=> Eligible(v)
  BY DEF Eligible, Punished
<1>. QED BY <1>3, <1>4 DEF Fit, Right

LEMMA InitInv == Init => IInv
<1> SUFFICES ASSUME Init PROVE IInv
  OBVIOUS
<1>1. PICK w \in 0 .. MaxWeight : row = [v \in 1 .. 1 |-> NewRow(w)]
  BY DEF Init
<1>2. NewRow(w) \in Row
  BY DEF NewRow, Row, NoRank, Statuses, Periods
<1>3. \A c \in Callers : plan[c] = <<>> /\ Left(c) = {} /\ ~Running(c)
  BY DEF Init, Left, Running
<1>4. TypeInv
  <2>1. row \in [1 .. 1 -> Row] /\ 1 \in Nat \ {0}
    BY <1>1, <1>2
  <2>2. plan \in [Callers -> Seq(Update)]
    BY DEF Init
  <2>. QED BY <1>3, <2>1, <2>2 DEF Init, TypeInv
<1>. QED
  BY <1>3, <1>4 DEF Init, IInv, AloneInv, PlanInv, PassedInv, CalmInv, SeatsPlanInv, SeatsPassedInv, SeatsInv

\* After a change no run is alone and nothing is calm.
LEMMA ChangedInv ==
    ASSUME IInv, Changed, NEW n \in Nat \ {0}, row' \in [1 .. n -> Row], DOMAIN row \subseteq DOMAIN row'
    PROVE  IInv'
<1>1. plan' = plan /\ mode' = mode /\ calm' = 0 /\ alone' = [c \in Callers |-> FALSE]
  BY DEF Changed
<1>2. \A c \in Callers : Left(c)' = Left(c)
  BY <1>1 DEF Left
<1>3. TypeInv'
  <2>1. \E k \in Nat \ {0} : row' \in [1 .. k -> Row]
    OBVIOUS
  <2>2. /\ mode \in {"SYNCING", "INDEXING"} /\ plan \in [Callers -> Seq(Update)]
        /\ \A c \in Callers : Left(c) \subseteq DOMAIN row
    BY DEF IInv, TypeInv
  <2>3. alone' \in [Callers -> BOOLEAN] /\ calm' \in 0 .. 2
    BY <1>1
  <2>4. \A c \in Callers : Left(c)' \subseteq DOMAIN row'
    BY <1>2, <2>2
  <2>. QED BY <1>1, <2>1, <2>2, <2>3, <2>4 DEF TypeInv
<1>. QED
  BY <1>1, <1>3 DEF IInv, AloneInv, PlanInv, PassedInv, CalmInv, SeatsPlanInv, SeatsPassedInv, SeatsInv

LEMMA ValidatorsChange ==
    ASSUME IInv,
           \/ \E w \in 0 .. MaxWeight : Registered(w)
           \/ \E v \in DOMAIN row : \/ \E w \in 0 .. MaxWeight : WeightChanges(v, w)
                                    \/ Banned(v) \/ \E p \in Periods : PunishmentChanges(v, p)
    PROVE  IInv'
<1>1. PICK n \in Nat \ {0} : row \in [1 .. n -> Row] /\ DOMAIN row = 1 .. n /\ Cardinality(DOMAIN row) = n
  BY Shape DEF IInv
<1>2. ASSUME NEW w \in 0 .. MaxWeight, Registered(w) PROVE IInv'
  <2>1. row' = [v \in 1 .. n + 1 |-> IF v \in 1 .. n THEN row[v] ELSE NewRow(w)] /\ Changed
    BY <1>1, <1>2 DEF Registered
  <2>2. NewRow(w) \in Row
    BY DEF NewRow, Row, NoRank, Statuses, Periods
  <2>3. row' \in [1 .. n + 1 -> Row] /\ n + 1 \in Nat \ {0} /\ DOMAIN row \subseteq DOMAIN row'
    BY <1>1, <2>1, <2>2
  <2>. QED BY <2>1, <2>3, ChangedInv
<1>3. ASSUME NEW v \in DOMAIN row, NEW x \in Row, row' = [row EXCEPT ![v] = x], Changed PROVE IInv'
  <2>1. row' \in [1 .. n -> Row] /\ DOMAIN row \subseteq DOMAIN row'
    BY <1>1, <1>3
  <2>. QED BY <1>3, <2>1, ChangedInv
<1>4. ASSUME NEW v \in DOMAIN row, NEW w \in 0 .. MaxWeight, WeightChanges(v, w) PROVE IInv'
  <2> DEFINE x == [row[v] EXCEPT !.weight = w]
  <2>1. row[v] \in Row
    BY <1>1
  <2>2. x \in Row
    BY <2>1 DEF Row
  <2>3. row' = [row EXCEPT ![v] = x] /\ Changed
    BY <1>4 DEF WeightChanges
  <2>. QED BY <1>3, <2>2, <2>3
<1>5. ASSUME NEW v \in DOMAIN row, Banned(v) PROVE IInv'
  <2> DEFINE x == [row[v] EXCEPT !.banned = TRUE]
  <2>1. row[v] \in Row
    BY <1>1
  <2>2. x \in Row
    BY <2>1 DEF Row
  <2>3. row' = [row EXCEPT ![v] = x] /\ Changed
    BY <1>5 DEF Banned
  <2>. QED BY <1>3, <2>2, <2>3
<1>6. ASSUME NEW v \in DOMAIN row, NEW p \in Periods, PunishmentChanges(v, p) PROVE IInv'
  <2> DEFINE x == [row[v] EXCEPT !.period = p]
  <2>1. row[v] \in Row
    BY <1>1
  <2>2. x \in Row
    BY <2>1 DEF Row
  <2>3. row' = [row EXCEPT ![v] = x] /\ Changed
    BY <1>6 DEF PunishmentChanges
  <2>. QED BY <1>3, <2>2, <2>3
<1>. QED BY <1>2, <1>4, <1>5, <1>6

LEMMA ModeChangesInv == ASSUME IInv, ModeChanges \/ UNCHANGED vars PROVE IInv'
<1>1. UNCHANGED <<row, plan, alone, calm>> /\ mode' \in {"SYNCING", "INDEXING"}
  BY DEF ModeChanges, vars, IInv, TypeInv
<1>2. /\ \A v \in DOMAIN row : /\ Rank(v)' = Rank(v) /\ \A s : Fit(v, s)' <=> Fit(v, s)
                               /\ \A s : Right(v, s)' <=> Right(v, s)
      /\ \A c : Left(c)' = Left(c) /\ (Running(c)' <=> Running(c))
  BY <1>1, SameInputs DEF Left, Running
<1>3. \A c \in Callers : \A i \in DOMAIN plan[c] : plan[c][i].address \in DOMAIN row
  BY DEF IInv, TypeInv, Left
<1>4. \A v \in DOMAIN row : Placed(v)' <=> Placed(v)
  BY <1>1, <1>2 DEF Placed
<1>5. TypeInv' /\ AloneInv' /\ PassedInv' /\ CalmInv'
  BY <1>1, <1>2, <1>4 DEF IInv, TypeInv, AloneInv, PassedInv, CalmInv
<1>6. PlanInv'
  BY <1>1, <1>2, <1>3 DEF IInv, PlanInv, Current
<1>7. SeatsPlanInv' /\ SeatsPassedInv' /\ SeatsInv'
  BY <1>1, <1>2, <1>3 DEF IInv, SeatsPlanInv, SeatsPassedInv, SeatsInv
<1>. QED BY <1>5, <1>6, <1>7 DEF IInv

LEMMA RanksComputedInv == ASSUME IInv, NEW c \in Callers, RanksComputed(c) PROVE IInv'
<1>1. PICK order \in Orders : plan' = [plan EXCEPT ![c] = Plan(order)]
  BY DEF RanksComputed
<1>2. /\ UNCHANGED <<row, mode, calm>> /\ ~Running(c)
      /\ alone' = [d \in Callers |-> d = c /\ \A e \in Callers : ~Running(e)]
  BY DEF RanksComputed, MayRun
<1>3. PICK q : q = Plan(order)
  OBVIOUS
<1>4. /\ q \in Seq(Update) /\ q # <<>>
      /\ \A i \in DOMAIN q : q[i].address \in DOMAIN row /\ Current(q[i])
      /\ \A v \in DOMAIN row : \E i \in DOMAIN q : q[i].address = v
  BY <1>3, PlanIsCurrent DEF IInv
<1>5. (\A v \in DOMAIN row : row[v].rank = Rank(v)) => \A i \in DOMAIN q : Right(q[i].address, q[i].status)
  BY <1>3, PlanIsRight DEF IInv
<1>6. /\ plan' \in [Callers -> Seq(Update)] /\ plan'[c] = q
      /\ \A d \in Callers : d # c => plan'[d] = plan[d]
  BY <1>1, <1>3, <1>4 DEF IInv, TypeInv
<1>7. \A v \in DOMAIN row : /\ Rank(v)' = Rank(v) /\ \A s : Fit(v, s)' <=> Fit(v, s)
                            /\ \A s : Right(v, s)' <=> Right(v, s)
  BY <1>2, SameInputs
<1>8. /\ Left(c)' = DOMAIN row
      /\ \A d \in Callers : d # c => Left(d)' = Left(d) /\ (Running(d)' <=> Running(d))
  <2>1. \A v : v \in Left(c)' <=> v \in DOMAIN row
    BY <1>4, <1>6 DEF Left
  <2>. QED BY <1>6, <2>1 DEF Left, Running
<1>9. TypeInv'
  BY <1>2, <1>6, <1>8 DEF IInv, TypeInv
<1>10. AloneInv'
  BY <1>2, <1>8 DEF AloneInv
<1>11. \A d \in Callers : \A i \in DOMAIN plan'[d] : plan'[d][i].address \in DOMAIN row
  BY <1>4, <1>6 DEF IInv, TypeInv, Left
<1>12. PlanInv'
  <2>1. ASSUME NEW d \in Callers, alone'[d] \/ calm >= 1, NEW i \in DOMAIN plan'[d], NEW u, u = plan'[d][i]
        PROVE  Current(u)'
    <3>1. Current(u)
      BY <1>2, <1>4, <1>6, <2>1 DEF IInv, PlanInv
    <3>. QED BY <1>7, <1>11, <2>1, <3>1 DEF Current
  <2>. QED BY <1>2, <2>1 DEF PlanInv
<1>13. PassedInv'
  BY <1>2, <1>8 DEF PassedInv
<1>14. CalmInv' /\ SeatsInv'
  BY <1>2, <1>7 DEF IInv, CalmInv, SeatsInv, Placed
<1>15. SeatsPlanInv'
  <2>1. ASSUME calm >= 1, NEW d \in Callers, NEW i \in DOMAIN plan'[d], NEW u, u = plan'[d][i]
        PROVE  Right(u.address, u.status)'
    <3>1. Right(u.address, u.status)
      BY <1>5, <1>6, <2>1 DEF IInv, CalmInv, Placed, SeatsPlanInv
    <3>. QED BY <1>7, <1>11, <2>1, <3>1
  <2>. QED BY <1>2, <2>1 DEF SeatsPlanInv
<1>16. SeatsPassedInv'
  BY <1>2, <1>8 DEF SeatsPassedInv
<1>. QED BY <1>9, <1>10, <1>12, <1>13, <1>14, <1>15, <1>16 DEF IInv

LEMMA RankWrittenInv == ASSUME IInv, NEW c \in Callers, RankWritten(c) PROVE IInv'
<1>1. PICK p \in Seq(Update) : p = plan[c] /\ p # <<>>
  BY DEF RankWritten, Running, IInv, TypeInv
<1>2. PICK u : u = p[1]
  OBVIOUS
<1>3. /\ u \in Update /\ u.address \in DOMAIN row /\ u.rank \in Nat /\ u.status \in Statuses
      /\ \A i \in DOMAIN p : i # 1 => i - 1 \in DOMAIN Tail(p) /\ p[i] = Tail(p)[i - 1]
      /\ \A i \in DOMAIN Tail(p) : i + 1 \in DOMAIN p /\ Tail(p)[i] = p[i + 1]
      /\ 1 \in DOMAIN p /\ Tail(p) \in Seq(Update)
      /\ Tail(p) = <<>> => \A i \in DOMAIN p : i = 1
  <2>1. u \in Update /\ 1 \in DOMAIN p
    BY <1>1, <1>2
  <2>2. u.address \in DOMAIN row
    BY <1>1, <1>2, <2>1 DEF IInv, TypeInv, Left
  <2>3. u.rank \in Nat /\ u.status \in Statuses
    BY <2>1 DEF Update
  <2>4. Tail(p) \in Seq(Update) /\ Len(Tail(p)) = Len(p) - 1 /\ Len(p) \in Nat
    BY <1>1
  <2>5. \A i \in 1 .. Len(p) - 1 : Tail(p)[i] = p[i + 1]
    BY <1>1
  <2>6. DOMAIN Tail(p) = 1 .. Len(p) - 1 /\ DOMAIN p = 1 .. Len(p)
    BY <1>1, <2>4
  <2>7. Tail(p) = <<>> => Len(p) = 1
    BY <2>4
  <2>. QED BY <2>1, <2>2, <2>3, <2>4, <2>5, <2>6, <2>7
<1>4. PICK x : x = [row[u.address] EXCEPT !.rank = u.rank, !.status = u.status]
  OBVIOUS
<1>5. row' = [row EXCEPT ![u.address] = x]
  BY <1>1, <1>2, <1>3, <1>4 DEF RankWritten
<1>6. PICK n \in Nat \ {0} : row \in [1 .. n -> Row] /\ DOMAIN row = 1 .. n
  BY Shape DEF IInv
<1>7. /\ x \in Row /\ x.rank = u.rank /\ x.status = u.status /\ x.weight = row[u.address].weight
      /\ x.banned = row[u.address].banned /\ x.period = row[u.address].period
  <2>1. row[u.address] \in Row
    BY <1>3, <1>6
  <2>. QED BY <1>3, <1>4, <2>1 DEF Row
<1>8. /\ row' \in [1 .. n -> Row] /\ DOMAIN row' = DOMAIN row /\ row'[u.address] = x
      /\ \A v \in DOMAIN row : v # u.address => row'[v] = row[v]
  BY <1>3, <1>5, <1>6, <1>7
<1>9. /\ plan' = [plan EXCEPT ![c] = Tail(p)] /\ UNCHANGED <<mode, alone>>
      /\ calm' = IF Tail(p) # <<>> \/ (alone[c] /\ calm = 2) THEN calm
                 ELSE IF alone[c] THEN calm + 1 ELSE 0
  BY <1>1 DEF RankWritten
<1>10. /\ plan' \in [Callers -> Seq(Update)] /\ plan'[c] = Tail(p)
       /\ \A d \in Callers : d # c => plan'[d] = plan[d]
  BY <1>3, <1>9 DEF IInv, TypeInv
<1>11. \A v \in DOMAIN row : /\ Rank(v)' = Rank(v) /\ \A s : Fit(v, s)' <=> Fit(v, s)
                             /\ \A s : Right(v, s)' <=> Right(v, s)
  <2>1. \A v \in DOMAIN row : /\ row'[v].weight = row[v].weight
                              /\ row'[v].banned = row[v].banned /\ row'[v].period = row[v].period
    BY <1>3, <1>7, <1>8
  <2>. QED BY <1>8, <2>1, SameInputs
<1>12. /\ \A d \in Callers : d # c => Left(d)' = Left(d) /\ (Running(d)' <=> Running(d))
       /\ \A v \in Left(c) : v = u.address \/ v \in Left(c)'
       /\ Left(c)' \subseteq Left(c) /\ Running(c) /\ (Running(c)' <=> Tail(p) # <<>>)
       /\ Tail(p) = <<>> => Left(c)' = {}
  <2>1. \A v : v \in Left(c)' => v \in Left(c)
    BY <1>1, <1>3, <1>10 DEF Left
  <2>2. ASSUME NEW v \in Left(c), v # u.address PROVE v \in Left(c)'
    <3>1. PICK i \in DOMAIN p : v = p[i].address
      BY <1>1 DEF Left
    <3>2. i # 1
      BY <1>2, <2>2, <3>1
    <3>3. i - 1 \in DOMAIN plan'[c] /\ v = plan'[c][i - 1].address
      BY <1>3, <1>10, <3>1, <3>2
    <3>. QED BY <3>3 DEF Left
  <2>3. \A d \in Callers : d # c => Left(d)' = Left(d) /\ (Running(d)' <=> Running(d))
    BY <1>10 DEF Left, Running
  <2>4. Running(c) /\ (Running(c)' <=> Tail(p) # <<>>)
    BY <1>1, <1>10 DEF Running
  <2>5. Tail(p) = <<>> => Left(c)' = {}
    BY <1>10 DEF Left
  <2>. QED BY <2>1, <2>2, <2>3, <2>4, <2>5
<1>13. calm \in 0 .. 2 /\ alone \in [Callers -> BOOLEAN] /\ calm' \in 0 .. 2
  BY <1>9 DEF IInv, TypeInv
<1>14. TypeInv'
  <2>1. \E k \in Nat \ {0} : row' \in [1 .. k -> Row]
    BY <1>8
  <2>2. \A d \in Callers : Left(d)' \subseteq DOMAIN row'
    BY <1>8, <1>12 DEF IInv, TypeInv
  <2>. QED BY <1>9, <1>10, <1>13, <2>1, <2>2 DEF IInv, TypeInv
<1>15. AloneInv'
  BY <1>9, <1>12 DEF IInv, AloneInv
\* A run that ends alone makes the table calm: there is nothing planned any more.
<1>16. calm' >= 1 => calm >= 1 \/ (Tail(p) = <<>> /\ alone[c] /\ \A d \in Callers : plan'[d] = <<>>)
  BY <1>9, <1>10, <1>13 DEF IInv, AloneInv, Running, RankWritten
<1>17. \A d \in Callers : \A i \in DOMAIN plan'[d] :
           /\ plan'[d][i].address \in DOMAIN row
           /\ \E j \in DOMAIN plan[d] : plan[d][j] = plan'[d][i]
  <2>1. ASSUME NEW d \in Callers, NEW i \in DOMAIN plan'[d]
        PROVE  \E j \in DOMAIN plan[d] : plan[d][j] = plan'[d][i]
    <3>1. CASE d = c
      <4>1. i \in DOMAIN Tail(p) /\ plan'[d][i] = Tail(p)[i]
        BY <1>10, <2>1, <3>1
      <4>2. i + 1 \in DOMAIN p /\ plan'[d][i] = p[i + 1]
        BY <1>3, <4>1
      <4>. QED BY <1>1, <3>1, <4>2
    <3>2. CASE d # c
      BY <1>10, <3>2
    <3>. QED BY <3>1, <3>2
  <2>2. \A d \in Callers : \A j \in DOMAIN plan[d] : plan[d][j].address \in DOMAIN row
    BY DEF IInv, TypeInv, Left
  <2>. QED BY <2>1, <2>2
<1>18. PlanInv'
  <2>1. ASSUME NEW d \in Callers, alone[d] \/ calm' >= 1, NEW i \in DOMAIN plan'[d], NEW w, w = plan'[d][i]
        PROVE  Current(w)'
    <3>1. alone[d] \/ calm >= 1
      BY <1>16, <2>1
    <3>2. Current(w)
      BY <1>17, <2>1, <3>1 DEF IInv, PlanInv
    <3>. QED BY <1>11, <1>17, <2>1, <3>2 DEF Current
  <2>. QED BY <1>9, <2>1 DEF PlanInv
<1>19. alone[c] \/ calm >= 1 => Placed(u.address)'
  <2>1. alone[c] \/ calm >= 1 => Current(u)
    BY <1>1, <1>2, <1>3 DEF IInv, PlanInv
  <2>. QED BY <1>3, <1>7, <1>8, <1>11, <2>1 DEF Current, Placed
<1>20. \A v \in DOMAIN row : v # u.address /\ Placed(v) => Placed(v)'
  BY <1>8, <1>11 DEF Placed
<1>21. PassedInv'
  <2> SUFFICES ASSUME NEW d \in Callers, alone[d], Running(d)', NEW v \in DOMAIN row
               PROVE  Placed(v)' \/ v \in Left(d)'
    BY <1>8, <1>9 DEF PassedInv
  <2>1. d = c
    BY <1>12 DEF IInv, AloneInv
  <2>2. Placed(v) \/ v \in Left(c)
    BY <1>12, <2>1 DEF IInv, PassedInv
  <2>. QED BY <1>12, <1>19, <1>20, <2>1, <2>2
<1>22. CalmInv'
  <2> SUFFICES ASSUME calm' >= 1, NEW v \in DOMAIN row PROVE Placed(v)'
    BY <1>8 DEF CalmInv
  <2>1. CASE calm >= 1
    BY <1>19, <1>20, <2>1 DEF IInv, CalmInv
  <2>2. CASE Tail(p) = <<>> /\ alone[c]
    <3>1. Placed(v) \/ v = u.address
      BY <1>12, <2>2 DEF IInv, PassedInv
    <3>. QED BY <1>19, <1>20, <2>2, <3>1
  <2>. QED BY <1>16, <2>1, <2>2
<1>23. SeatsPlanInv'
  <2>1. ASSUME calm' >= 1, NEW d \in Callers, NEW i \in DOMAIN plan'[d], NEW w, w = plan'[d][i]
        PROVE  Right(w.address, w.status)'
    <3>1. calm >= 1
      BY <1>16, <2>1
    <3>2. Right(w.address, w.status)
      BY <1>17, <2>1, <3>1 DEF IInv, SeatsPlanInv
    <3>. QED BY <1>11, <1>17, <2>1, <3>2
  <2>. QED BY <2>1 DEF SeatsPlanInv
<1>24. /\ calm >= 1 => Right(u.address, row[u.address].status)'
       /\ \A v \in DOMAIN row : v # u.address /\ Right(v, row[v].status) => Right(v, row[v].status)'
  <2>1. calm >= 1 => Right(u.address, u.status)
    BY <1>1, <1>2, <1>3 DEF IInv, SeatsPlanInv
  <2>. QED BY <1>3, <1>7, <1>8, <1>11, <2>1
<1>25. SeatsPassedInv'
  <2> SUFFICES ASSUME NEW d \in Callers, calm' >= 1, alone[d], Running(d)', NEW v \in DOMAIN row
               PROVE  Right(v, row[v].status)' \/ v \in Left(d)'
    BY <1>8, <1>9 DEF SeatsPassedInv
  <2>1. d = c /\ calm >= 1
    BY <1>12, <1>16 DEF IInv, AloneInv
  <2>2. Right(v, row[v].status) \/ v \in Left(c)
    BY <1>12, <2>1 DEF IInv, SeatsPassedInv
  <2>. QED BY <1>12, <1>24, <2>1, <2>2
<1>26. SeatsInv'
  <2> SUFFICES ASSUME calm' = 2, NEW v \in DOMAIN row PROVE Right(v, row[v].status)'
    BY <1>8 DEF SeatsInv
  <2>1. CASE calm = 2
    BY <1>24, <2>1 DEF IInv, SeatsInv
  <2>2. CASE calm # 2
    <3>1. calm = 1 /\ Tail(p) = <<>> /\ alone[c]
      BY <1>9, <1>13, <2>2
    <3>2. Right(v, row[v].status) \/ v = u.address
      BY <1>12, <3>1 DEF IInv, SeatsPassedInv
    <3>. QED BY <1>24, <3>1, <3>2
  <2>. QED BY <2>1, <2>2
<1>. QED BY <1>14, <1>15, <1>18, <1>21, <1>22, <1>23, <1>25, <1>26 DEF IInv

LEMMA NextInv == ASSUME IInv, [Next]_vars PROVE IInv'
BY ValidatorsChange, ModeChangesInv, RanksComputedInv, RankWrittenInv DEF Next

LEMMA RanksInvariant == Spec => []IInv
BY InitInv, NextInv, PTL DEF Spec

-----------------------------------------------------------------------------
(* Results *)

\* After a run that had the table to itself the ranks are 1 to n, in the order of
\* sortValidators, for any number of validators, and later runs keep them so.
THEOREM RanksAreOrdered == Spec => []RanksOrdered
<1>1. ASSUME IInv PROVE RanksOrdered
  <2> DEFINE Weight(v) == IF row[v].weight < MinimumWeight /\ ~row[v].banned THEN row[v].weight
                          ELSE IF row[v].banned \/ Punished(v) THEN 0 ELSE row[v].weight
  <2>1. \A v \in DOMAIN row : Effective(v) = Weight(v)
    BY <1>1, RowType, ValidatorRanksAssumption DEF IInv
  <2> SUFFICES ASSUME calm >= 1
               PROVE  /\ {row[v].rank : v \in DOMAIN row} = 1 .. Cardinality(DOMAIN row)
                      /\ \A u, v \in DOMAIN row : row[u].rank < row[v].rank =>
                             Weight(u) > Weight(v) \/ (Weight(u) = Weight(v) /\ u > v)
    BY DEF RanksOrdered
  <2>. HIDE DEF Weight
  <2>2. \A v \in DOMAIN row : row[v].rank = Rank(v)
    BY <1>1 DEF IInv, CalmInv, Placed
  <2>3. {row[v].rank : v \in DOMAIN row} = 1 .. Cardinality(DOMAIN row)
    BY <1>1, <2>2, RankType, RankOnto DEF IInv
  <2>4. \A u, v \in DOMAIN row : row[u].rank < row[v].rank => Before(u, v)
    BY <1>1, <2>2, RankTells DEF IInv
  <2>. QED BY <2>1, <2>3, <2>4 DEF Before
<1>. QED BY <1>1, RanksInvariant, PTL

\* One such run takes the seat of every validator that is banned, light, or in the
\* first of its punishment periods, the only one calcStatus looks at, and of no other.
THEOREM ExcludedByOneRun == Spec => []ExcludedAtOnce
<1>1. ASSUME IInv PROVE ExcludedAtOnce
  BY <1>1, RowType, ValidatorRanksAssumption DEF IInv, CalmInv, Placed, Fit, Eligible, Punished, ExcludedAtOnce
<1>. QED BY <1>1, RanksInvariant, PTL

\* Two such runs in a row leave exactly the eligible of the first ranks ACTIVE,
\* although the loop adds a seat for everyone who loses one.
THEOREM ActiveByTwoRuns == Spec => []ActiveAfterTwoRuns
<1>1. ASSUME IInv PROVE ActiveAfterTwoRuns
  BY <1>1 DEF IInv, CalmInv, Placed, SeatsInv, Right, Eligible, Punished, ActiveAfterTwoRuns
<1>. QED BY <1>1, RanksInvariant, PTL
=============================================================================
