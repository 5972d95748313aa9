--------------------------- MODULE BlockTotalsProofs ---------------------------
(***************************************************************************)
(* Theorems about BlockTotals, for any generators, any amounts, any height *)
(* of the chain and any number of runs that overlap and fail.              *)
(***************************************************************************)
EXTENDS BlockTotals, FiniteSetTheorems, WellFoundedInduction, TLAPS

-----------------------------------------------------------------------------
(* The inductive invariant *)

Writing == {"finality", "info", "mark", "count", "find", "update", "create", "fees"}
Phases  == Writing \cup {"idle", "headers"}
Row     == [last : Nat, generated : Nat, rewards : Nat, shared : Nat, selfStake : Int]
Block   == [reward : Nat, burnt : Nat, network : Int, forged : Int, final : BOOLEAN]
Run     == [pc : Phases, kind : {"none", "sync", "direct"}, blocks : SUBSET Heights,
            left : SUBSET Heights, read : Nat, row : Row]

TypeInv ==
    /\ generator \in [Heights -> Validators]
    /\ finalized \in Nat /\ info \in Nat /\ next \in Nat \ {0} /\ clean \in BOOLEAN
    /\ DOMAIN block \subseteq Heights /\ block \in [DOMAIN block -> Block]
    /\ DOMAIN validator \subseteq Validators /\ validator \in [DOMAIN validator -> Row]
    /\ run \in [Runs -> Run]

\* The node's finalized height does not go back.
InfoInv == info <= finalized /\ \A r \in Runs : At(r, "info") => run[r].read <= finalized

Past(r) == run[r].pc \in Writing

\* What a run that stored its headers has left to credit is stored, and no other run's.
ApartInv ==
    /\ \A r \in Runs : Past(r) => run[r].left \subseteq DOMAIN block
    /\ \A r, q \in Runs : Past(r) /\ Past(q) /\ run[r].left \cap run[q].left # {} => r = q
    /\ \A r \in Runs : At(r, "headers") => run[r].left = run[r].blocks
    /\ \A r \in Runs : run[r].pc \in {"find", "update", "create"} => run[r].left # {}
    /\ \A r \in Runs : At(r, "fees") => run[r].left = {}

\* Stored blocks of a generator that a run has still to credit, and the others.
Owed(v)      == {h \in BlocksOf(v) : \E r \in Runs : Past(r) /\ h \in run[r].left}
Accounted(v) == BlocksOf(v) \ Owed(v)

\* No row, and no row as a run has read it, has more than the blocks that are accounted for.
CreditInv ==
    /\ \A v \in DOMAIN validator : validator[v].rewards <= Sum(Minted, Accounted(v))
    /\ \A r \in Runs : run[r].pc \in {"update", "create"} =>
           run[r].row.rewards <= Sum(Minted, Accounted(Current(r)))

\* As long as runs take turns there is one at a time, with blocks after all others.
TurnsInv ==
    clean => /\ \A r, q \in Runs : Busy(r) /\ Busy(q) => r = q
             /\ \A h \in DOMAIN block : h < next
             /\ \A r \in Runs : \A h \in run[r].left : h < next
             /\ \A r \in Runs : Busy(r) => \A k \in run[r].left, h \in DOMAIN block :
                    generator[h] = generator[k] /\ h \notin run[r].left => h < k

\* What the run read is still so.
ReadInv ==
    clean => \A r \in Runs :
        /\ run[r].pc \in {"find", "update", "create"} => run[r].read = Cardinality(BlocksOf(Current(r)))
        /\ At(r, "update") => Current(r) \in DOMAIN validator /\ run[r].row = validator[Current(r)]
        /\ At(r, "create") => run[r].row = Bare

\* Each row has exactly its blocks.
RowsInv ==
    clean => \A v \in Validators :
        /\ v \notin DOMAIN validator => Accounted(v) = {}
        /\ v \in DOMAIN validator =>
               /\ validator[v].rewards = Sum(Minted, Accounted(v))
               /\ validator[v].shared = Sum(Locked, Accounted(v))
               /\ Owed(v) = {} /\ BlocksOf(v) # {} =>
                      /\ validator[v].generated = Cardinality(BlocksOf(v))
                      /\ validator[v].last = Max(BlocksOf(v))

\* Each block is marked, and has its fees, when no run has it before it.
FinalInv ==
    clean /\ (\A r \in Runs : run[r].pc \notin {"headers", "finality", "info", "mark"}) =>
        \A h \in DOMAIN block : h <= info => block[h].final
FeesInv ==
    clean => \A h \in DOMAIN block : (\A r \in Runs : Past(r) => h \notin run[r].blocks) =>
        block[h].burnt = Burnt[h] /\ block[h].network = Fee[h] - Burnt[h]

IInv ==
    /\ TypeInv /\ InfoInv /\ ApartInv /\ CreditInv
    /\ TurnsInv /\ ReadInv /\ RowsInv /\ FinalInv /\ FeesInv

-----------------------------------------------------------------------------
(* Sums *)

\* A set of numbers has a least element: what is false of some number is false of a
\* first one.
LEMMA Least == ASSUME NEW T \in SUBSET Nat, T # {} PROVE \E x \in T : \A y \in T : x <= y
<1>1. PICK x \in T : \A y \in T : ~(<<y, x>> \in OpToRel(<, Nat))
  BY NatLessThanWellFounded, WFMin
<1>2. \A y \in T : ~(y < x)
  BY <1>1 DEF OpToRel
<1>. QED BY <1>2

LEMMA MinFacts == ASSUME NEW T \in SUBSET Heights, T # {} PROVE Min(T) \in T /\ \A y \in T : Min(T) <= y
<1>1. T \in SUBSET Nat
  BY DEF Heights
<1>2. \E x \in T : \A y \in T : x <= y
  BY <1>1, Least
<1>. QED BY <1>2 DEF Min

LEMMA MaxFacts == ASSUME NEW T \in SUBSET Heights, T # {} PROVE Max(T) \in T /\ \A y \in T : y <= Max(T)
<1> DEFINE U == {n \in Nat : MaxHeight - n \in T}
<1>0. \A y \in T : y \in Nat /\ MaxHeight - y \in Nat /\ MaxHeight - (MaxHeight - y) = y
  BY BlockTotalsAssumption DEF Heights
<1>1. U \in SUBSET Nat /\ U # {}
  BY <1>0
<1>2. PICK u \in U : \A y \in U : u <= y
  BY <1>1, Least
<1>3. PICK x \in T : x = MaxHeight - u
  BY <1>2
<1>4. ASSUME NEW y \in T PROVE y <= x
  <2>1. MaxHeight - y \in U
    BY <1>0
  <2>2. u \in Nat /\ y \in Nat /\ u <= MaxHeight - y /\ MaxHeight \in Nat
    BY <1>0, <1>2, <2>1, BlockTotalsAssumption
  <2>. QED BY <1>3, <2>2
<1>5. \E z \in T : \A y \in T : y <= z
  BY <1>4
<1>. QED BY <1>5 DEF Max

\* One turn of the summation.
Turn(f, amounts, hs, h) == IF h = 0 THEN 0 ELSE f[h - 1] + IF h \in hs THEN amounts[h] ELSE 0
Adds(f, amounts, hs, m) ==
    f \in [0 .. m -> Nat] /\ \A h \in 0 .. m : f[h] = Turn(f, amounts, hs, h)

LEMMA SumsExist ==
    ASSUME NEW amounts \in [Heights -> Nat], NEW hs, NEW m \in 0 .. MaxHeight
    PROVE  \E f : Adds(f, amounts, hs, m)
<1> DEFINE T == {k \in 0 .. MaxHeight : ~ \E f : Adds(f, amounts, hs, k)}
<1> SUFFICES ASSUME T # {} PROVE FALSE
  OBVIOUS
<1>1. T \in SUBSET Nat
  OBVIOUS
<1>2. PICK k \in T : \A j \in T : k <= j
  BY <1>1, Least
<1>3. k \in 0 .. MaxHeight /\ MaxHeight \in Nat /\ ~ \E f : Adds(f, amounts, hs, k)
  BY <1>2, BlockTotalsAssumption
<1>4. k # 0
  <2>1. Adds([h \in 0 .. 0 |-> 0], amounts, hs, 0)
    BY DEF Adds, Turn
  <2>. QED BY <1>3, <2>1
<1>5. PICK f : Adds(f, amounts, hs, k - 1)
  BY <1>2, <1>3, <1>4
<1> DEFINE g == [h \in 0 .. k |-> IF h = k THEN Turn(f, amounts, hs, k) ELSE f[h]]
<1>6. Turn(f, amounts, hs, k) \in Nat
  BY <1>3, <1>4, <1>5 DEF Adds, Turn, Heights
<1>7. g \in [0 .. k -> Nat]
  BY <1>3, <1>4, <1>5, <1>6 DEF Adds
<1>8. ASSUME NEW h \in 0 .. k PROVE g[h] = Turn(g, amounts, hs, h)
  <2>1. h # 0 => g[h - 1] = f[h - 1]
    BY <1>3
  <2>2. Turn(g, amounts, hs, h) = Turn(f, amounts, hs, h)
    BY <2>1 DEF Turn
  <2>3. g[h] = Turn(f, amounts, hs, h)
    BY <1>3, <1>5 DEF Adds
  <2>. QED BY <2>2, <2>3
<1>9. Adds(g, amounts, hs, k)
  BY <1>7, <1>8 DEF Adds
<1>. QED BY <1>3, <1>9

LEMMA SumUpToAdds ==
    ASSUME NEW amounts \in [Heights -> Nat], NEW hs
    PROVE  Adds(SumUpTo(amounts, hs), amounts, hs, MaxHeight)
<1> DEFINE a == SumUpTo(amounts, hs)
           Step(g, h) == IF h = 0 THEN 0 ELSE g[h - 1] + IF h \in hs THEN amounts[h] ELSE 0
<1>0. MaxHeight \in Nat
  BY BlockTotalsAssumption
<1>1. PICK f : Adds(f, amounts, hs, MaxHeight)
  BY <1>0, SumsExist
<1>2. f = [h \in 0 .. MaxHeight |-> Step(f, h)]
  BY <1>1 DEF Adds, Turn
<1>3. a = [h \in 0 .. MaxHeight |-> Step(a, h)]
  BY <1>2, Zenon DEF SumUpTo
<1> HIDE DEF a
<1>4. \A h \in 0 .. MaxHeight : a[h] = Turn(a, amounts, hs, h)
  BY <1>3, Zenon DEF Turn
<1> HIDE DEF Step
<1>5. \A h \in 0 .. MaxHeight : a[h] \in Nat
  <2> DEFINE T == {h \in 0 .. MaxHeight : a[h] \notin Nat}
  <2> SUFFICES ASSUME T # {} PROVE FALSE
    OBVIOUS
  <2>1. T \in SUBSET Nat
    OBVIOUS
  <2>2. PICK h \in T : \A j \in T : h <= j
    BY <2>1, Least
  <2>3. a[h] = Turn(a, amounts, hs, h)
    BY <1>4, <2>2
  <2>4. h # 0
    BY <2>2, <2>3 DEF Turn
  <2>5. h - 1 \in 0 .. MaxHeight /\ h \in Heights
    BY <1>0, <2>2, <2>4 DEF Heights
  <2>6. a[h - 1] \in Nat
    BY <2>2, <2>5
  <2>. QED BY <2>2, <2>3, <2>4, <2>5, <2>6 DEF Turn
<1>6. a \in [0 .. MaxHeight -> Nat]
  BY <1>3, <1>5
<1>. QED BY <1>4, <1>6 DEF Adds, a

LEMMA SumType == ASSUME NEW amounts \in [Heights -> Nat], NEW hs PROVE Sum(amounts, hs) \in Nat
<1>1. SumUpTo(amounts, hs) \in [0 .. MaxHeight -> Nat]
  BY SumUpToAdds DEF Adds
<1>. QED BY <1>1, BlockTotalsAssumption DEF Sum

LEMMA SumOfBoth ==
    ASSUME NEW amounts \in [Heights -> Nat], NEW A, NEW B, A \cap B = {}
    PROVE  Sum(amounts, A \cup B) = Sum(amounts, A) + Sum(amounts, B)
<1> DEFINE a == SumUpTo(amounts, A)
           b == SumUpTo(amounts, B)
           c == SumUpTo(amounts, A \cup B)
           T == {h \in 0 .. MaxHeight : c[h] # a[h] + b[h]}
<1>0. MaxHeight \in Nat
  BY BlockTotalsAssumption
<1>1. /\ Adds(a, amounts, A, MaxHeight) /\ Adds(b, amounts, B, MaxHeight)
      /\ Adds(c, amounts, A \cup B, MaxHeight)
  BY SumUpToAdds
<1> HIDE DEF a, b, c
<1>2. ASSUME T # {} PROVE FALSE
  <2>1. T \in SUBSET Nat
    OBVIOUS
  <2>2. PICK h \in T : \A j \in T : h <= j
    BY <1>2, <2>1, Least
  <2>3. /\ a[h] = Turn(a, amounts, A, h) /\ b[h] = Turn(b, amounts, B, h)
        /\ c[h] = Turn(c, amounts, A \cup B, h)
    BY <1>1, <2>2 DEF Adds
  <2>4. h # 0
    BY <2>2, <2>3 DEF Turn
  <2>5. h - 1 \in 0 .. MaxHeight /\ h \in Heights
    BY <1>0, <2>2, <2>4 DEF Heights
  <2>6. c[h - 1] = a[h - 1] + b[h - 1] /\ a[h - 1] \in Nat /\ b[h - 1] \in Nat
    BY <1>1, <2>2, <2>5 DEF Adds
  <2>7. amounts[h] \in Nat
    BY <2>5
  <2>. QED BY <2>2, <2>3, <2>4, <2>6, <2>7 DEF Turn
<1>. QED BY <1>0, <1>2 DEF Sum, a, b, c

LEMMA SumOfMore ==
    ASSUME NEW amounts \in [Heights -> Nat], NEW B, NEW A \in SUBSET B
    PROVE  Sum(amounts, A) <= Sum(amounts, B)
<1>1. A \cup (B \ A) = B
  OBVIOUS
<1>2. Sum(amounts, B) = Sum(amounts, A) + Sum(amounts, B \ A)
  <2>1. Sum(amounts, A \cup (B \ A)) = Sum(amounts, A) + Sum(amounts, B \ A)
    BY SumOfBoth
  <2>. QED BY <1>1, <2>1
<1>. QED BY <1>2, SumType

LEMMA SumOfNone == ASSUME NEW amounts \in [Heights -> Nat] PROVE Sum(amounts, {}) = 0
<1>1. Sum(amounts, {} \cup {}) = Sum(amounts, {}) + Sum(amounts, {})
  BY SumOfBoth
<1>2. {} \cup {} = {}
  OBVIOUS
<1>. QED BY <1>1, <1>2, SumType

-----------------------------------------------------------------------------
(* Lemmas about runs and their blocks *)

LEMMA IdleType == Idle \in Run /\ Bare \in Row /\ Idle.pc = "idle" /\ Idle.left = {} /\ Idle.blocks = {}
BY DEF Idle, Bare, Run, Row, Phases

\* A run that changes some of its fields.
LEMMA RunSteps ==
    ASSUME TypeInv, NEW r \in Runs, NEW p \in Phases, Steps(r, p)
    PROVE  /\ run' \in [Runs -> Run]
           /\ \A q \in Runs \ {r} : run'[q] = run[q]
           /\ run'[r].pc = p /\ run'[r].kind = run[r].kind /\ run'[r].blocks = run[r].blocks
           /\ run'[r].left = run[r].left /\ run'[r].read = run[r].read /\ run'[r].row = run[r].row
BY DEF TypeInv, Steps, Run

\* What a run has to credit, and the stored blocks, only depend on these.
SameBlocks ==
    /\ generator' = generator /\ DOMAIN block' = DOMAIN block
    /\ \A q \in Runs : run'[q].left = run[q].left /\ (run'[q].pc \in Writing <=> Past(q))

LEMMA BlocksStay ==
    ASSUME SameBlocks
    PROVE  /\ \A v : BlocksOf(v)' = BlocksOf(v) /\ Owed(v)' = Owed(v) /\ Accounted(v)' = Accounted(v)
           /\ \A q \in Runs : Current(q)' = Current(q)
<1>1. ASSUME NEW v PROVE BlocksOf(v)' = BlocksOf(v)
  BY DEF SameBlocks, BlocksOf
<1>2. ASSUME NEW v PROVE Owed(v)' = Owed(v)
  BY <1>1 DEF SameBlocks, Owed, Past
<1>3. ASSUME NEW q \in Runs PROVE Current(q)' = Current(q)
  BY DEF SameBlocks, Current
<1>. QED BY <1>1, <1>2, <1>3 DEF Accounted

\* A run that goes on over the same blocks, with the same rows, keeps what is known.
LEMMA RunGoesOn ==
    ASSUME IInv, TypeInv', SameBlocks, NEW r \in Runs, Past(r),
           \A q \in Runs \ {r} : run'[q] = run[q],
           UNCHANGED <<next, clean, validator>>,
           run'[r].pc \in {"find", "update", "create"} => run[r].left # {},
           run'[r].pc = "fees" => run[r].left = {}
    PROVE  /\ ApartInv' /\ TurnsInv' /\ RowsInv'
           /\ \A v \in DOMAIN validator : validator'[v].rewards <= Sum(Minted, Accounted(v)')
<1>1. /\ \A v : BlocksOf(v)' = BlocksOf(v) /\ Owed(v)' = Owed(v) /\ Accounted(v)' = Accounted(v)
      /\ \A q \in Runs : Current(q)' = Current(q)
  BY BlocksStay
<1>2. ApartInv'
  BY DEF IInv, ApartInv, SameBlocks, Past, At, Writing
<1>3. TurnsInv'
  BY DEF IInv, TurnsInv, SameBlocks, Past, Busy, Writing
<1>4. RowsInv'
  BY <1>1 DEF IInv, RowsInv
<1>5. \A v \in DOMAIN validator : validator'[v].rewards <= Sum(Minted, Accounted(v)')
  BY <1>1 DEF IInv, CreditInv
<1>. QED BY <1>2, <1>3, <1>4, <1>5

\* What is not the run's own business stays as it was.
OthersStay(r) == run' \in [Runs -> Run] /\ \A q \in Runs \ {r} : run'[q] = run[q]

LEMMA RunReads ==
    ASSUME TypeInv, NEW r \in Runs, NEW p \in Phases, NEW n \in Nat,
           run' = [run EXCEPT ![r].pc = p, ![r].read = n]
    PROVE  /\ OthersStay(r)
           /\ run'[r].pc = p /\ run'[r].kind = run[r].kind /\ run'[r].blocks = run[r].blocks
           /\ run'[r].left = run[r].left /\ run'[r].read = n /\ run'[r].row = run[r].row
<1> DEFINE a == [run EXCEPT ![r].pc = p]
<1>1. /\ a \in [Runs -> Run] /\ \A q \in Runs \ {r} : a[q] = run[q]
      /\ a[r].pc = p /\ a[r].kind = run[r].kind /\ a[r].blocks = run[r].blocks
      /\ a[r].left = run[r].left /\ a[r].row = run[r].row
  BY DEF TypeInv, Run
<1>2. run' = [a EXCEPT ![r].read = n]
  BY DEF TypeInv, Run
<1> HIDE DEF a
<1>0. a[r] \in Run /\ [a[r] EXCEPT !.read = n] \in Run
  BY <1>1 DEF Run
<1>3. run' \in [Runs -> Run] /\ \A q \in Runs \ {r} : run'[q] = a[q]
  BY <1>0, <1>1, <1>2
<1>4. /\ run'[r].pc = a[r].pc /\ run'[r].kind = a[r].kind /\ run'[r].blocks = a[r].blocks
      /\ run'[r].left = a[r].left /\ run'[r].read = n /\ run'[r].row = a[r].row
  BY <1>1, <1>2 DEF Run
<1>. QED BY <1>1, <1>3, <1>4 DEF OthersStay

LEMMA RunFinds ==
    ASSUME TypeInv, NEW r \in Runs, NEW p \in Phases, NEW x \in Row,
           run' = [run EXCEPT ![r].pc = p, ![r].row = x]
    PROVE  /\ OthersStay(r)
           /\ run'[r].pc = p /\ run'[r].kind = run[r].kind /\ run'[r].blocks = run[r].blocks
           /\ run'[r].left = run[r].left /\ run'[r].read = run[r].read /\ run'[r].row = x
<1> DEFINE a == [run EXCEPT ![r].pc = p]
<1>1. /\ a \in [Runs -> Run] /\ \A q \in Runs \ {r} : a[q] = run[q]
      /\ a[r].pc = p /\ a[r].kind = run[r].kind /\ a[r].blocks = run[r].blocks
      /\ a[r].left = run[r].left /\ a[r].read = run[r].read
  BY DEF TypeInv, Run
<1>2. run' = [a EXCEPT ![r].row = x]
  BY DEF TypeInv, Run
<1> HIDE DEF a
<1>0. a[r] \in Run /\ [a[r] EXCEPT !.row = x] \in Run
  BY <1>1 DEF Run
<1>3. run' \in [Runs -> Run] /\ \A q \in Runs \ {r} : run'[q] = a[q]
  BY <1>0, <1>1, <1>2
<1>4. /\ run'[r].pc = a[r].pc /\ run'[r].kind = a[r].kind /\ run'[r].blocks = a[r].blocks
      /\ run'[r].left = a[r].left /\ run'[r].read = a[r].read /\ run'[r].row = x
  BY <1>1, <1>2 DEF Run
<1>. QED BY <1>1, <1>3, <1>4 DEF OthersStay

LEMMA RunTurns ==
    ASSUME TypeInv, NEW r \in Runs, NextGenerator(r)
    PROVE  /\ OthersStay(r)
           /\ run'[r].pc = "count" /\ run'[r].kind = run[r].kind /\ run'[r].blocks = run[r].blocks
           /\ run'[r].left = run[r].left \ Mine(r) /\ run'[r].read = 0 /\ run'[r].row = Bare
<1> DEFINE a == [run EXCEPT ![r].pc = "count"]
           b == [a EXCEPT ![r].left = @ \ Mine(r)]
           c == [b EXCEPT ![r].read = 0]
<1>1. /\ a \in [Runs -> Run] /\ \A q \in Runs \ {r} : a[q] = run[q]
      /\ a[r].pc = "count" /\ a[r].kind = run[r].kind /\ a[r].blocks = run[r].blocks
      /\ a[r].left = run[r].left /\ a[r].row = run[r].row
  BY DEF TypeInv, Run, Phases, Writing
<1>2. run' = [c EXCEPT ![r].row = Bare]
  BY DEF NextGenerator, TypeInv, Run
<1> HIDE DEF a
<1>3. /\ b \in [Runs -> Run] /\ \A q \in Runs \ {r} : b[q] = run[q]
      /\ b[r].pc = "count" /\ b[r].kind = run[r].kind /\ b[r].blocks = run[r].blocks
      /\ b[r].left = run[r].left \ Mine(r) /\ b[r].row = run[r].row
  BY <1>1 DEF Run
<1> HIDE DEF b
<1>4. /\ c \in [Runs -> Run] /\ \A q \in Runs \ {r} : c[q] = run[q]
      /\ c[r].pc = "count" /\ c[r].kind = run[r].kind /\ c[r].blocks = run[r].blocks
      /\ c[r].left = run[r].left \ Mine(r) /\ c[r].read = 0
  BY <1>3 DEF Run
<1> HIDE DEF c
<1>. QED BY <1>2, <1>4, IdleType DEF OthersStay, Run

LEMMA RunEnds ==
    ASSUME TypeInv, NEW r \in Runs, run' = [run EXCEPT ![r] = Idle]
    PROVE  OthersStay(r) /\ run'[r] = Idle
BY IdleType DEF TypeInv, OthersStay

LEMMA RunTypes ==
    ASSUME TypeInv, NEW r \in Runs
    PROVE  /\ run[r] \in Run /\ run[r].pc \in Phases /\ run[r].blocks \in SUBSET Heights
           /\ run[r].left \in SUBSET Heights /\ run[r].read \in Nat /\ run[r].row \in Row
BY DEF TypeInv, Run

-----------------------------------------------------------------------------
(* The steps *)

LEMMA InitInv == Init => IInv
<1> SUFFICES ASSUME Init PROVE IInv
  OBVIOUS
<1>1. \A r \in Runs : run[r] = Idle
  BY DEF Init
<1>2. TypeInv
  BY IdleType DEF Init, TypeInv
<1>3. InfoInv /\ ApartInv /\ CreditInv /\ TurnsInv /\ ReadInv /\ FinalInv /\ FeesInv
  BY <1>1, IdleType DEF Init, InfoInv, ApartInv, CreditInv, TurnsInv, ReadInv, FinalInv, FeesInv,
     At, Past, Busy, Writing
<1>4. RowsInv
  BY DEF Init, RowsInv, BlocksOf, Accounted
<1>. QED BY <1>2, <1>3, <1>4 DEF IInv

\* Steps that leave the runs and the rows alone.
LEMMA NodeKeeps ==
    ASSUME IInv, InfoInv', finalized' \in Nat,
           UNCHANGED <<generator, info, next, run, block, validator, clean>>
    PROVE  IInv'
<1>1. TypeInv'
  BY DEF IInv, TypeInv
<1>2. ApartInv' /\ TurnsInv' /\ FinalInv' /\ FeesInv'
  BY DEF IInv, ApartInv, TurnsInv, FinalInv, FeesInv, At, Past, Busy
<1>3. /\ \A v : BlocksOf(v)' = BlocksOf(v) /\ Owed(v)' = Owed(v) /\ Accounted(v)' = Accounted(v)
      /\ \A q \in Runs : Current(q)' = Current(q)
  BY DEF BlocksOf, Owed, Accounted, Current, Past
<1>4. CreditInv' /\ ReadInv' /\ RowsInv'
  BY <1>3 DEF IInv, CreditInv, ReadInv, RowsInv, At
<1>. QED BY <1>1, <1>2, <1>4 DEF IInv

LEMMA FinalizesKeeps == IInv /\ Finalizes => IInv'
<1> SUFFICES ASSUME IInv, Finalizes PROVE IInv'
  OBVIOUS
<1>1. finalized \in Nat /\ info \in Nat /\ \A r \in Runs : run[r].read \in Nat
  BY RunTypes DEF IInv, TypeInv
<1>2. InfoInv'
  BY <1>1 DEF IInv, InfoInv, Finalizes, At
<1>3. finalized' \in Nat
  BY <1>1 DEF Finalizes
<1>. QED BY <1>2, <1>3, NodeKeeps DEF Finalizes

LEMMA StutterKeeps == IInv /\ UNCHANGED vars => IInv'
<1> SUFFICES ASSUME IInv, UNCHANGED vars PROVE IInv'
  OBVIOUS
<1>1. InfoInv' /\ finalized' \in Nat
  BY DEF IInv, TypeInv, InfoInv, At, vars
<1>. QED BY <1>1, NodeKeeps DEF vars

\* A row without amounts, of a validator that had none.
LEMMA RegisteredKeeps == ASSUME IInv, NEW v \in Validators, Registered(v) PROVE IInv'
<1>1. /\ DOMAIN validator' = DOMAIN validator \cup {v} /\ validator'[v] = Bare
      /\ \A u \in DOMAIN validator : u # v /\ validator'[u] = validator[u]
  BY DEF Registered
<1>2. TypeInv'
  <2>1. validator' \in [DOMAIN validator' -> Row]
    BY <1>1, IdleType DEF IInv, TypeInv, Registered
  <2>. QED BY <1>1, <2>1 DEF IInv, TypeInv, Registered
<1>3. InfoInv' /\ ApartInv' /\ TurnsInv' /\ FinalInv' /\ FeesInv'
  BY DEF IInv, Registered, InfoInv, ApartInv, TurnsInv, FinalInv, FeesInv, At, Past, Busy
<1>4. /\ \A u : BlocksOf(u)' = BlocksOf(u) /\ Owed(u)' = Owed(u) /\ Accounted(u)' = Accounted(u)
      /\ \A q \in Runs : Current(q)' = Current(q)
  BY DEF Registered, BlocksOf, Owed, Accounted, Current, Past
<1>5. \A hs : Sum(Minted, hs) \in Nat /\ Sum(Locked, hs) \in Nat
  BY SumType, BlockTotalsAssumption
<1>6. CreditInv'
  BY <1>1, <1>4, <1>5 DEF IInv, CreditInv, Registered, Bare
<1>7. ReadInv'
  BY <1>1, <1>4 DEF IInv, ReadInv, Registered, At
<1>8. RowsInv'
  <2> SUFFICES ASSUME clean, NEW u \in Validators
               PROVE  /\ u \notin DOMAIN validator' => Accounted(u) = {}
                      /\ u \in DOMAIN validator' =>
                             /\ validator'[u].rewards = Sum(Minted, Accounted(u))
                             /\ validator'[u].shared = Sum(Locked, Accounted(u))
                             /\ Owed(u) = {} /\ BlocksOf(u) # {} =>
                                    /\ validator'[u].generated = Cardinality(BlocksOf(u))
                                    /\ validator'[u].last = Max(BlocksOf(u))
    BY <1>4 DEF RowsInv, Registered
  <2>1. CASE u # v
    BY <1>1, <2>1 DEF IInv, RowsInv
  <2>2. CASE u = v
    <3>1. Accounted(u) = {}
      BY <2>2 DEF IInv, RowsInv, Registered
    <3>2. ~(Owed(u) = {} /\ BlocksOf(u) # {})
      BY <3>1 DEF Accounted
    <3>3. Sum(Minted, {}) = 0 /\ Sum(Locked, {}) = 0
      BY SumOfNone, BlockTotalsAssumption
    <3>. QED BY <1>1, <2>2, <3>1, <3>2, <3>3 DEF Bare
  <2>. QED BY <2>1, <2>2
<1>. QED BY <1>2, <1>3, <1>6, <1>7, <1>8 DEF IInv

LEMMA ResumedKeeps == ASSUME IInv, NEW h \in Heights, Resumed(h) PROVE IInv'
<1>1. TypeInv'
  BY DEF IInv, TypeInv, Resumed, Heights
<1>2. InfoInv' /\ ApartInv'
  BY DEF IInv, Resumed, InfoInv, ApartInv, At, Past
<1>3. /\ \A v : BlocksOf(v)' = BlocksOf(v) /\ Owed(v)' = Owed(v) /\ Accounted(v)' = Accounted(v)
      /\ \A q \in Runs : Current(q)' = Current(q)
  BY DEF Resumed, BlocksOf, Owed, Accounted, Current, Past
<1>4. CreditInv'
  BY <1>3 DEF IInv, CreditInv, Resumed
<1>5. TurnsInv' /\ ReadInv' /\ RowsInv' /\ FinalInv' /\ FeesInv'
  BY DEF Resumed, TurnsInv, ReadInv, RowsInv, FinalInv, FeesInv
<1>. QED BY <1>1, <1>2, <1>4, <1>5 DEF IInv

LEMMA StartedKeeps ==
    ASSUME IInv, NEW r \in Runs, NEW kind \in {"sync", "direct"}, NEW last \in Heights,
           Started(r, kind, last)
    PROVE  IInv'
<1>1. last \in next .. last /\ next .. last \in SUBSET Heights /\ last' = last
  BY BlockTotalsAssumption DEF IInv, TypeInv, Started, Heights
<1>2. /\ OthersStay(r) /\ run[r].pc = "idle" /\ run'[r].pc = "headers"
      /\ run'[r].left = next .. last /\ run'[r].blocks = next .. last
  <2> DEFINE new == [pc |-> "headers", kind |-> kind, blocks |-> next .. last,
                     left |-> next .. last, read |-> 0, row |-> Bare]
  <2>1. new \in Run
    BY <1>1, IdleType DEF Run, Phases
  <2>2. run' = [run EXCEPT ![r] = new]
    BY DEF Started
  <2>. QED BY <2>1, <2>2 DEF IInv, TypeInv, OthersStay, Started, Busy
<1>3. /\ next \in Nat \ {0} /\ next' = last + 1 /\ last \in Nat /\ next <= last
      /\ info' \in {info, finalized} /\ finalized' = finalized
      /\ generator' = generator /\ block' = block /\ validator' = validator
      /\ clean' \in BOOLEAN /\ (clean' => clean /\ \A q \in Runs : run[q].pc = "idle")
  <2>1. next \in Nat \ {0} /\ next' = last + 1 /\ last \in Nat /\ next <= last
    BY <1>1 DEF IInv, TypeInv, Started, Heights
  <2>2. \A q \in Runs : ~Busy(q) <=> run[q].pc = "idle"
    BY DEF Busy
  <2>. QED BY <2>1, <2>2 DEF IInv, TypeInv, Started
<1>4. TypeInv'
  BY <1>2, <1>3 DEF IInv, TypeInv, OthersStay
<1>5. \A q \in Runs : Past(q)' = Past(q) /\ (Past(q) => run'[q].left = run[q].left)
  BY <1>2 DEF Past, OthersStay, Writing
<1>6. \A v : BlocksOf(v)' = BlocksOf(v) /\ Owed(v)' = Owed(v) /\ Accounted(v)' = Accounted(v)
  <2>1. ASSUME NEW v PROVE BlocksOf(v)' = BlocksOf(v)
    BY <1>3 DEF BlocksOf
  <2>2. ASSUME NEW v PROVE Owed(v)' = Owed(v)
    BY <1>5, <2>1 DEF Owed
  <2>. QED BY <2>1, <2>2 DEF Accounted
<1>7. \A q \in Runs \ {r} : Current(q)' = Current(q)
  BY <1>2, <1>3 DEF Current, OthersStay
<1>8. InfoInv'
  BY <1>2, <1>3 DEF IInv, TypeInv, InfoInv, At, OthersStay
<1>9. ApartInv'
  BY <1>2, <1>3, <1>5 DEF IInv, ApartInv, At, OthersStay
<1>10. CreditInv'
  BY <1>2, <1>3, <1>6, <1>7 DEF IInv, CreditInv, OthersStay
<1>11. TurnsInv'
  <2> SUFFICES ASSUME clean' PROVE TurnsInv'
    BY DEF TurnsInv
  <2>1. \A q \in Runs \ {r} : ~Busy(q)'
    BY <1>2, <1>3 DEF Busy, OthersStay
  <2>2. \A h \in DOMAIN block : h < next /\ h \in Nat
    BY <1>3 DEF IInv, TypeInv, TurnsInv, Heights
  <2>3. \A q \in Runs : \A h \in run[q].left : h < next /\ h \in Nat
    BY <1>3, RunTypes DEF IInv, TurnsInv, Heights
  <2>4. \A q \in Runs : \A h \in run'[q].left : h < next'
    BY <1>2, <1>3, <2>3 DEF OthersStay
  <2>5. \A k \in next .. last, h \in DOMAIN block : h < k /\ h < next'
    BY <1>3, <2>2
  <2>. QED BY <1>2, <1>3, <2>1, <2>2, <2>4, <2>5 DEF TurnsInv
<1>12. ReadInv'
  BY <1>2, <1>3, <1>6, <1>7 DEF IInv, ReadInv, At, OthersStay
<1>13. RowsInv'
  BY <1>3, <1>6 DEF IInv, RowsInv
<1>14. FinalInv'
  BY <1>2 DEF FinalInv
<1>15. FeesInv'
  BY <1>2, <1>3, <1>5 DEF IInv, FeesInv, OthersStay, Past, Writing
<1>. QED BY <1>4, <1>8, <1>9, <1>10, <1>11, <1>12, <1>13, <1>14, <1>15 DEF IInv

LEMMA HeadersWrittenKeeps == ASSUME IInv, NEW r \in Runs, HeadersWritten(r) PROVE IInv'
<1>0. TypeInv
  BY DEF IInv
<1>1. /\ OthersStay(r) /\ run[r].pc = "headers" /\ run'[r].pc = "finality"
      /\ run'[r].left = run[r].left /\ run'[r].blocks = run[r].blocks
      /\ run[r].left = run[r].blocks /\ run[r].blocks \in SUBSET Heights
  <2>1. run[r].left = run[r].blocks /\ run[r].blocks \in SUBSET Heights /\ At(r, "headers")
    BY <1>0, RunTypes DEF HeadersWritten, IInv, ApartInv
  <2>. QED BY <1>0, <2>1, RunSteps DEF HeadersWritten, At, OthersStay, Phases, Writing
<1>2. /\ DOMAIN block' = DOMAIN block \cup run[r].blocks
      /\ run[r].blocks \cap DOMAIN block = {}
      /\ \A h \in DOMAIN block : block'[h] = block[h]
      /\ UNCHANGED <<generator, finalized, info, next, validator, clean>>
  BY DEF HeadersWritten, Stored
<1>3. TypeInv'
  <2>1. \A h \in DOMAIN block' : block'[h] \in Block
    <3>1. ASSUME NEW h \in DOMAIN block' PROVE block'[h] \in Block
      <4>1. CASE h \in DOMAIN block
        BY <1>0, <1>2, <4>1 DEF TypeInv
      <4>2. CASE h \notin DOMAIN block
        <5>1. h \in Heights /\ Expected[h] \in Nat
          BY <1>1, <1>2, <4>2, BlockTotalsAssumption
        <5>2. block'[h] = [reward |-> Expected[h], burnt |-> 0, network |-> 0, forged |-> Expected[h],
                           final |-> run[r].kind = "sync"]
          BY <1>2, <4>2 DEF HeadersWritten, Stored
        <5>. QED BY <5>1, <5>2 DEF Block
      <4>. QED BY <4>1, <4>2
    <3>. QED BY <3>1
  <2>2. block' \in [DOMAIN block' -> Block]
    BY <2>1 DEF HeadersWritten, Stored
  <2>. QED BY <1>0, <1>1, <1>2, <2>2 DEF TypeInv, OthersStay
<1>4. \A q \in Runs \ {r} : Past(q)' = Past(q) /\ run'[q] = run[q]
  BY <1>1 DEF Past, OthersStay
<1>5. ~Past(r) /\ Past(r)'
  BY <1>1 DEF Past, Writing
<1>6. \A v : /\ BlocksOf(v)' = BlocksOf(v) \cup {h \in run[r].left : generator[h] = v}
             /\ Owed(v)' = Owed(v) \cup {h \in run[r].left : generator[h] = v}
             /\ Accounted(v)' = Accounted(v)
  <2>1. ASSUME NEW v PROVE BlocksOf(v)' = BlocksOf(v) \cup {h \in run[r].left : generator[h] = v}
    BY <1>1, <1>2 DEF BlocksOf
  <2>2. ASSUME NEW v, NEW h \in DOMAIN block'
        PROVE  h \in Owed(v)' <=> h \in Owed(v) \cup {k \in run[r].left : generator[k] = v}
    <3>1. CASE h \in DOMAIN block
      <4>1. h \notin run[r].left
        BY <1>1, <1>2, <3>1
      <4>. QED BY <1>1, <1>2, <1>4, <1>5, <2>1, <3>1, <4>1 DEF Owed, BlocksOf
    <3>2. CASE h \notin DOMAIN block
      BY <1>1, <1>2, <1>4, <1>5, <2>1, <3>2 DEF Owed, BlocksOf
    <3>. QED BY <3>1, <3>2
  <2>3. ASSUME NEW v PROVE Owed(v)' = Owed(v) \cup {h \in run[r].left : generator[h] = v}
    <3>1. Owed(v) \subseteq DOMAIN block' /\ Owed(v)' \subseteq DOMAIN block'
      BY <1>2 DEF Owed, BlocksOf
    <3>2. {h \in run[r].left : generator[h] = v} \subseteq DOMAIN block'
      BY <1>1, <1>2
    <3>. QED BY <2>2, <3>1, <3>2
  <2>4. ASSUME NEW v PROVE BlocksOf(v) \cap run[r].left = {} /\ Owed(v) \cap run[r].left = {}
    BY <1>1, <1>2 DEF BlocksOf, Owed
  <2>5. ASSUME NEW v PROVE Accounted(v)' = Accounted(v)
    BY <2>1, <2>3, <2>4 DEF Accounted
  <2>. QED BY <2>1, <2>3, <2>5
<1>7. \A q \in Runs : Current(q)' = Current(q)
  BY <1>1, <1>2, <1>4 DEF Current
<1>8. InfoInv'
  BY <1>1, <1>2, <1>4 DEF IInv, InfoInv, At
<1>9. ApartInv'
  <2>1. \A q \in Runs : Past(q) => run[q].left \subseteq DOMAIN block
    BY DEF IInv, ApartInv
  <2>. QED BY <1>1, <1>2, <1>4, <1>5, <2>1 DEF IInv, ApartInv, At
<1>10. CreditInv'
  BY <1>1, <1>2, <1>4, <1>6, <1>7 DEF IInv, CreditInv
<1>11. clean => \A q \in Runs \ {r} : run[q].pc = "idle" /\ ~Past(q)
  BY <1>1 DEF IInv, TurnsInv, Busy, Past, Writing
<1>12. TurnsInv'
  BY <1>1, <1>2, <1>4 DEF IInv, TurnsInv, Busy
<1>13. ReadInv'
  BY <1>1, <1>2, <1>4, <1>11 DEF ReadInv, At
<1>14. RowsInv'
  <2> SUFFICES ASSUME clean, NEW v \in Validators, v \in DOMAIN validator,
                      Owed(v)' = {}, BlocksOf(v)' # {}
               PROVE  /\ validator[v].generated = Cardinality(BlocksOf(v)')
                      /\ validator[v].last = Max(BlocksOf(v)')
    BY <1>2, <1>6 DEF IInv, RowsInv
  <2>1. BlocksOf(v)' = BlocksOf(v) /\ Owed(v) = {}
    BY <1>6
  <2>. QED BY <2>1 DEF IInv, RowsInv
<1>15. FinalInv'
  BY <1>1 DEF FinalInv
<1>16. FeesInv'
  BY <1>1, <1>2, <1>4, <1>5 DEF IInv, FeesInv
<1>. QED BY <1>3, <1>8, <1>9, <1>10, <1>12, <1>13, <1>14, <1>15, <1>16 DEF IInv

LEMMA InfoAskedKeeps == ASSUME IInv, NEW r \in Runs, InfoAsked(r) PROVE IInv'
<1>0. TypeInv /\ finalized \in Nat /\ "info" \in Phases
  BY DEF IInv, TypeInv, Phases, Writing
<1>1. /\ OthersStay(r) /\ run[r].pc = "finality" /\ run'[r].pc = "info" /\ run'[r].read = finalized
      /\ run'[r].left = run[r].left /\ run'[r].blocks = run[r].blocks
  BY <1>0, RunReads DEF InfoAsked, At
<1>2. TypeInv'
  BY <1>1 DEF IInv, TypeInv, InfoAsked, OthersStay
<1>3. SameBlocks /\ Past(r)
  BY <1>1 DEF SameBlocks, InfoAsked, OthersStay, Past, Writing
<1>4. /\ ApartInv' /\ TurnsInv' /\ RowsInv'
      /\ \A v \in DOMAIN validator : validator'[v].rewards <= Sum(Minted, Accounted(v)')
  BY <1>1, <1>2, <1>3, RunGoesOn DEF InfoAsked, OthersStay
<1>5. InfoInv'
  BY <1>0, <1>1 DEF IInv, InfoInv, InfoAsked, At, OthersStay
<1>6. CreditInv' /\ ReadInv'
  BY <1>1, <1>3, <1>4, BlocksStay DEF IInv, CreditInv, ReadInv, At, OthersStay, InfoAsked
<1>7. FinalInv' /\ FeesInv'
  BY <1>1 DEF IInv, FinalInv, FeesInv, InfoAsked, OthersStay, Past, Writing
<1>. QED BY <1>2, <1>4, <1>5, <1>6, <1>7 DEF IInv

LEMMA InfoAnsweredKeeps == ASSUME IInv, NEW r \in Runs, InfoAnswered(r) PROVE IInv'
<1>0. TypeInv /\ 0 \in Nat /\ "mark" \in Phases
  BY DEF IInv, TypeInv, Phases, Writing
<1>1. /\ OthersStay(r) /\ run[r].pc = "info" /\ run'[r].pc = "mark" /\ info' = run[r].read
      /\ run'[r].left = run[r].left /\ run'[r].blocks = run[r].blocks
  BY <1>0, RunReads DEF InfoAnswered, At
<1>2. TypeInv'
  BY <1>0, <1>1, RunTypes DEF TypeInv, InfoAnswered, OthersStay
<1>3. SameBlocks /\ Past(r)
  BY <1>1 DEF SameBlocks, InfoAnswered, OthersStay, Past, Writing
<1>4. /\ ApartInv' /\ TurnsInv' /\ RowsInv'
      /\ \A v \in DOMAIN validator : validator'[v].rewards <= Sum(Minted, Accounted(v)')
  BY <1>1, <1>2, <1>3, RunGoesOn DEF InfoAnswered, OthersStay
<1>5. InfoInv'
  BY <1>1 DEF IInv, InfoInv, InfoAnswered, At, OthersStay
<1>6. CreditInv' /\ ReadInv'
  BY <1>1, <1>3, <1>4, BlocksStay DEF IInv, CreditInv, ReadInv, At, OthersStay, InfoAnswered
<1>7. FinalInv' /\ FeesInv'
  BY <1>1 DEF IInv, FinalInv, FeesInv, InfoAnswered, OthersStay, Past, Writing
<1>. QED BY <1>2, <1>4, <1>5, <1>6, <1>7 DEF IInv

LEMMA MarkedKeeps == ASSUME IInv, NEW r \in Runs, Marked(r) PROVE IInv'
<1>0. TypeInv /\ "count" \in Phases
  BY DEF IInv, Phases, Writing
<1>1. /\ OthersStay(r) /\ run[r].pc = "mark" /\ run'[r].pc = "count"
      /\ run'[r].left = run[r].left /\ run'[r].blocks = run[r].blocks
  BY <1>0, RunSteps DEF Marked, At, OthersStay
<1>2. /\ DOMAIN block' = DOMAIN block
      /\ \A h \in DOMAIN block : /\ block'[h] \in Block
                                 /\ block'[h].final = (block[h].final \/ h <= info)
                                 /\ block'[h].burnt = block[h].burnt /\ block'[h].network = block[h].network
  <2>1. \A h \in DOMAIN block : block[h] \in Block
    BY <1>0 DEF TypeInv
  <2>. QED BY <2>1 DEF Marked, Block
<1>3. TypeInv'
  <2>1. block' \in [DOMAIN block' -> Block]
    BY <1>2 DEF Marked
  <2>. QED BY <1>0, <1>1, <1>2, <2>1 DEF TypeInv, Marked, OthersStay
<1>4. SameBlocks /\ Past(r)
  BY <1>1, <1>2 DEF SameBlocks, Marked, OthersStay, Past, Writing
<1>5. /\ ApartInv' /\ TurnsInv' /\ RowsInv'
      /\ \A v \in DOMAIN validator : validator'[v].rewards <= Sum(Minted, Accounted(v)')
  BY <1>1, <1>3, <1>4, RunGoesOn DEF Marked, OthersStay
<1>6. InfoInv'
  BY <1>1 DEF IInv, InfoInv, Marked, At, OthersStay
<1>7. CreditInv' /\ ReadInv'
  BY <1>1, <1>4, <1>5, BlocksStay DEF IInv, CreditInv, ReadInv, At, OthersStay, Marked
<1>8. FinalInv'
  BY <1>2 DEF FinalInv, Marked
<1>9. FeesInv'
  <2>1. /\ clean' = clean /\ \A q \in Runs : run'[q].blocks = run[q].blocks
        /\ \A q \in Runs : Past(q)' = Past(q)
    BY <1>1 DEF Marked, OthersStay, Past, Writing
  <2>. QED BY <1>2, <2>1 DEF IInv, FeesInv
<1>. QED BY <1>3, <1>5, <1>6, <1>7, <1>8, <1>9 DEF IInv

LEMMA CountedKeeps == ASSUME IInv, NEW r \in Runs, Counted(r) PROVE IInv'
<1> DEFINE n == Cardinality(BlocksOf(Current(r)))
<1>0. TypeInv /\ "find" \in Phases /\ n \in Nat
  <2>1. IsFiniteSet(Heights)
    BY BlockTotalsAssumption, FS_Interval DEF Heights
  <2>2. IsFiniteSet(BlocksOf(Current(r)))
    BY <2>1, FS_Subset DEF IInv, TypeInv, BlocksOf
  <2>. QED BY <2>2, FS_CardinalityType DEF IInv, Phases, Writing
<1>1. /\ OthersStay(r) /\ run[r].pc = "count" /\ run[r].left # {} /\ run'[r].pc = "find"
      /\ run'[r].read = n /\ run'[r].left = run[r].left /\ run'[r].blocks = run[r].blocks
  <2>1. run' = [run EXCEPT ![r].pc = "find", ![r].read = n]
    BY DEF Counted
  <2>2. run[r].pc = "count" /\ run[r].left # {}
    BY DEF Counted, At
  <2>3. TypeInv /\ n \in Nat /\ "find" \in Phases
    BY <1>0
  <2> HIDE DEF n
  <2>4. /\ OthersStay(r) /\ run'[r].pc = "find" /\ run'[r].read = n
        /\ run'[r].left = run[r].left /\ run'[r].blocks = run[r].blocks
    BY <2>1, <2>3, RunReads
  <2>. QED BY <2>2, <2>4
<1>2. TypeInv'
  BY <1>0, <1>1 DEF TypeInv, Counted, OthersStay
<1>3. SameBlocks /\ Past(r)
  BY <1>1 DEF SameBlocks, Counted, OthersStay, Past, Writing
<1>4. /\ ApartInv' /\ TurnsInv' /\ RowsInv'
      /\ \A v \in DOMAIN validator : validator'[v].rewards <= Sum(Minted, Accounted(v)')
  BY <1>1, <1>2, <1>3, RunGoesOn DEF Counted, OthersStay
<1>5. InfoInv'
  BY <1>1 DEF IInv, InfoInv, Counted, At, OthersStay
<1>6. CreditInv'
  BY <1>1, <1>3, <1>4, BlocksStay DEF IInv, CreditInv, OthersStay, Counted
<1>7. ReadInv'
  <2>1. n = Cardinality(BlocksOf(Current(r)))'
    <3>1. Current(r)' = Current(r)
      BY <1>3, BlocksStay
    <3>2. \A v : BlocksOf(v)' = BlocksOf(v)
      BY <1>3, BlocksStay
    <3>. QED BY <3>1, <3>2
  <2>2. \A q \in Runs \ {r} : BlocksOf(Current(q))' = BlocksOf(Current(q)) /\ Current(q)' = Current(q)
    BY <1>3, BlocksStay
  <2> HIDE DEF n
  <2>. QED BY <1>1, <2>1, <2>2 DEF IInv, ReadInv, At, OthersStay, Counted
<1>8. FinalInv' /\ FeesInv'
  BY <1>1 DEF IInv, FinalInv, FeesInv, Counted, OthersStay, Past, Writing
<1>. QED BY <1>2, <1>4, <1>5, <1>6, <1>7, <1>8 DEF IInv

LEMMA FoundKeeps == ASSUME IInv, NEW r \in Runs, Found(r) PROVE IInv'
<1> DEFINE v == Current(r)
           p == IF v \in DOMAIN validator THEN "update" ELSE "create"
           x == IF v \in DOMAIN validator THEN validator[v] ELSE Bare
<1>0. TypeInv /\ p \in {"update", "create"} /\ p \in Phases /\ x \in Row
  BY IdleType DEF IInv, TypeInv, Phases, Writing
<1>1. run[r].pc = "find" /\ run[r].left # {}
  BY DEF Found, At, IInv, ApartInv
<1>2. run' = [run EXCEPT ![r].pc = p, ![r].row = x]
  BY DEF Found
<1>3. \A hs : Sum(Minted, hs) \in Nat
  BY SumType, BlockTotalsAssumption
<1>4. /\ x.rewards <= Sum(Minted, Accounted(v))
      /\ p = "update" => v \in DOMAIN validator /\ x = validator[v]
      /\ p = "create" => x = Bare
  BY <1>3 DEF IInv, CreditInv, Bare
<1> HIDE DEF p, x
<1>5. /\ OthersStay(r) /\ run'[r].pc = p /\ run'[r].row = x
      /\ run'[r].left = run[r].left /\ run'[r].blocks = run[r].blocks /\ run'[r].read = run[r].read
  BY <1>0, <1>2, RunFinds
<1>6. TypeInv'
  BY <1>0, <1>5 DEF TypeInv, Found, OthersStay
<1>7. SameBlocks /\ Past(r)
  BY <1>0, <1>1, <1>5 DEF SameBlocks, Found, OthersStay, Past, Writing
<1>8. /\ ApartInv' /\ TurnsInv' /\ RowsInv'
      /\ \A u \in DOMAIN validator : validator'[u].rewards <= Sum(Minted, Accounted(u)')
  BY <1>0, <1>1, <1>5, <1>6, <1>7, RunGoesOn DEF Found, OthersStay
<1>9. InfoInv'
  BY <1>0, <1>5 DEF IInv, InfoInv, Found, At, OthersStay
<1>10. /\ \A u : BlocksOf(u)' = BlocksOf(u) /\ Accounted(u)' = Accounted(u)
       /\ \A q \in Runs : Current(q)' = Current(q)
       /\ UNCHANGED <<validator, clean>>
  BY <1>7, BlocksStay DEF Found
<1>11. CreditInv'
  <2>1. \A q \in Runs \ {r} : run'[q].pc \in {"update", "create"} =>
            run'[q].row.rewards <= Sum(Minted, Accounted(Current(q)))
    BY <1>5 DEF IInv, CreditInv, OthersStay
  <2>2. run'[r].row.rewards <= Sum(Minted, Accounted(Current(r)))
    BY <1>4, <1>5
  <2>. QED BY <1>8, <1>10, <2>1, <2>2 DEF CreditInv
<1>12. ReadInv'
  <2> SUFFICES ASSUME clean PROVE ReadInv'
    BY <1>10 DEF ReadInv
  <2>1. run'[r].read = Cardinality(BlocksOf(Current(r)))
    BY <1>1, <1>5 DEF IInv, ReadInv
  <2>. QED BY <1>0, <1>4, <1>5, <1>10, <2>1 DEF IInv, ReadInv, At, OthersStay
<1>13. FinalInv' /\ FeesInv'
  BY <1>0, <1>1, <1>5, <1>7 DEF IInv, FinalInv, FeesInv, Found, OthersStay, SameBlocks, Past, Writing
<1>. QED BY <1>6, <1>8, <1>9, <1>11, <1>12, <1>13 DEF IInv

LEMMA GeneratorsDoneKeeps == ASSUME IInv, NEW r \in Runs, GeneratorsDone(r) PROVE IInv'
<1>0. TypeInv /\ "fees" \in Phases
  BY DEF IInv, Phases, Writing
<1>1. /\ OthersStay(r) /\ run[r].pc = "count" /\ run'[r].pc = "fees" /\ run[r].left = {}
      /\ run'[r].left = run[r].left /\ run'[r].blocks = run[r].blocks
  BY <1>0, RunSteps DEF GeneratorsDone, At, OthersStay
<1>2. TypeInv'
  BY <1>0, <1>1 DEF TypeInv, GeneratorsDone, OthersStay
<1>3. SameBlocks /\ Past(r)
  BY <1>1 DEF SameBlocks, GeneratorsDone, OthersStay, Past, Writing
<1>4. /\ ApartInv' /\ TurnsInv' /\ RowsInv'
      /\ \A v \in DOMAIN validator : validator'[v].rewards <= Sum(Minted, Accounted(v)')
  BY <1>1, <1>2, <1>3, RunGoesOn DEF GeneratorsDone, OthersStay
<1>5. InfoInv'
  BY <1>1 DEF IInv, InfoInv, GeneratorsDone, At, OthersStay
<1>6. CreditInv' /\ ReadInv'
  BY <1>1, <1>3, <1>4, BlocksStay DEF IInv, CreditInv, ReadInv, At, OthersStay, GeneratorsDone
<1>7. FinalInv' /\ FeesInv'
  BY <1>1 DEF IInv, FinalInv, FeesInv, GeneratorsDone, OthersStay, Past, Writing
<1>. QED BY <1>2, <1>4, <1>5, <1>6, <1>7 DEF IInv

LEMMA FeesWrittenKeeps == ASSUME IInv, NEW r \in Runs, FeesWritten(r) PROVE IInv'
<1>0. TypeInv
  BY DEF IInv
<1>1. PICK h : /\ h = Min(run[r].blocks) /\ block' = [block EXCEPT ![h] = Fees(h)]
               /\ run' = [run EXCEPT ![r].blocks = @ \ {h}]
  BY DEF FeesWritten
<1>2. h \in Heights
  BY <1>0, <1>1, RunTypes, MinFacts DEF FeesWritten
<1>3. /\ OthersStay(r) /\ run[r].pc = "fees" /\ run'[r].pc = "fees"
      /\ run'[r].left = run[r].left /\ run'[r].blocks = run[r].blocks \ {h}
      /\ run[r].left = {}
  BY <1>0, <1>1 DEF TypeInv, Run, OthersStay, FeesWritten, At, IInv, ApartInv
<1>4. /\ DOMAIN block' = DOMAIN block
      /\ \A k \in DOMAIN block : block'[k] = IF k = h THEN Fees(h) ELSE block[k]
      /\ UNCHANGED <<generator, finalized, info, next, validator, clean>>
  BY <1>1 DEF FeesWritten
<1>5. /\ Fees(h).burnt = Burnt[h] /\ Fees(h).network = Fee[h] - Burnt[h] /\ Fees(h).final = block[h].final
  BY DEF Fees
<1>6. TypeInv'
  <2>1. ASSUME h \in DOMAIN block PROVE Fees(h) \in Block
    <3>1. block[h] \in Block /\ block[h].reward \in Nat /\ block[h].final \in BOOLEAN
      BY <1>0, <2>1 DEF TypeInv, Block
    <3>2. Burnt[h] \in Nat /\ Fee[h] \in Nat
      BY <1>2, BlockTotalsAssumption
    <3>. QED BY <3>1, <3>2 DEF Fees, Block
  <2>2. block' \in [DOMAIN block -> Block]
    BY <1>0, <1>1, <2>1 DEF TypeInv
  <2>. QED BY <1>0, <1>3, <1>4, <2>2 DEF TypeInv, OthersStay
<1>7. SameBlocks /\ Past(r)
  BY <1>3, <1>4 DEF SameBlocks, OthersStay, Past, Writing
<1>8. /\ ApartInv' /\ TurnsInv' /\ RowsInv'
      /\ \A v \in DOMAIN validator : validator'[v].rewards <= Sum(Minted, Accounted(v)')
  BY <1>3, <1>4, <1>6, <1>7, RunGoesOn DEF OthersStay
<1>9. InfoInv'
  BY <1>3, <1>4 DEF IInv, InfoInv, At, OthersStay
<1>10. CreditInv' /\ ReadInv'
  BY <1>3, <1>4, <1>7, <1>8, BlocksStay DEF IInv, CreditInv, ReadInv, At, OthersStay
<1>11. FinalInv'
  BY <1>3, <1>4, <1>5 DEF IInv, FinalInv, OthersStay
<1>12. FeesInv'
  <2> SUFFICES ASSUME clean, NEW k \in DOMAIN block, \A q \in Runs : Past(q)' => k \notin run'[q].blocks
               PROVE  block'[k].burnt = Burnt[k] /\ block'[k].network = Fee[k] - Burnt[k]
    BY <1>4 DEF FeesInv
  <2>1. CASE k = h
    BY <1>4, <1>5, <2>1
  <2>2. CASE k # h
    <3>1. \A q \in Runs : Past(q) => k \notin run[q].blocks
      BY <1>3, <1>7, <2>2 DEF OthersStay, SameBlocks, Past
    <3>. QED BY <1>4, <2>2, <3>1 DEF IInv, FeesInv
  <2>. QED BY <2>1, <2>2
<1>. QED BY <1>6, <1>8, <1>9, <1>10, <1>11, <1>12 DEF IInv

LEMMA EndedKeeps == ASSUME IInv, NEW r \in Runs, Ended(r) PROVE IInv'
<1>0. TypeInv
  BY DEF IInv
<1>1. /\ OthersStay(r) /\ run'[r] = Idle /\ run[r].pc = "fees" /\ run[r].blocks = {}
      /\ run[r].left = {} /\ run'[r].pc = "idle" /\ run'[r].left = {} /\ run'[r].blocks = {}
      /\ UNCHANGED <<generator, finalized, info, next, block, validator, clean>>
  BY <1>0, IdleType, RunEnds DEF Ended, At, IInv, ApartInv
<1>2. TypeInv'
  BY <1>0, <1>1 DEF TypeInv, OthersStay
<1>3. \A q \in Runs \ {r} : run'[q] = run[q] /\ Past(q)' = Past(q) /\ Current(q)' = Current(q)
  BY <1>1 DEF OthersStay, Past, Current
<1>4. Past(r) /\ ~Past(r)'
  BY <1>1 DEF Past, Writing
<1>5. \A v : BlocksOf(v)' = BlocksOf(v) /\ Owed(v)' = Owed(v) /\ Accounted(v)' = Accounted(v)
  <2>1. ASSUME NEW v PROVE BlocksOf(v)' = BlocksOf(v)
    BY <1>1 DEF BlocksOf
  <2>2. ASSUME NEW v PROVE Owed(v)' = Owed(v)
    BY <1>1, <1>3, <1>4, <2>1 DEF Owed
  <2>. QED BY <2>1, <2>2 DEF Accounted
<1>6. InfoInv' /\ ApartInv'
  BY <1>1, <1>3, <1>4 DEF IInv, InfoInv, ApartInv, At
<1>7. CreditInv' /\ ReadInv' /\ RowsInv'
  BY <1>1, <1>3, <1>5 DEF IInv, CreditInv, ReadInv, RowsInv, At
<1>8. TurnsInv'
  BY <1>1, <1>3 DEF IInv, TurnsInv, Busy
<1>9. FinalInv' /\ FeesInv'
  BY <1>1, <1>3, <1>4 DEF IInv, FinalInv, FeesInv
<1>. QED BY <1>2, <1>6, <1>7, <1>8, <1>9 DEF IInv

\* What the run had left to credit never will be.
LEMMA FailedKeeps == ASSUME IInv, NEW r \in Runs, Failed(r) PROVE IInv'
<1>0. TypeInv
  BY DEF IInv
<1>1. /\ OthersStay(r) /\ run'[r] = Idle /\ run'[r].pc = "idle" /\ run'[r].left = {}
      /\ clean' = FALSE /\ UNCHANGED <<generator, finalized, info, next, block, validator>>
  BY <1>0, IdleType, RunEnds DEF Failed
<1>2. TypeInv'
  BY <1>0, <1>1 DEF TypeInv, OthersStay
<1>3. \A q \in Runs \ {r} : run'[q] = run[q] /\ Past(q)' = Past(q) /\ Current(q)' = Current(q)
  BY <1>1 DEF OthersStay, Past, Current
<1>4. ~Past(r)'
  BY <1>1 DEF Past, Writing
<1>5. \A v : Accounted(v) \in SUBSET Accounted(v)'
  <2>1. ASSUME NEW v PROVE BlocksOf(v)' = BlocksOf(v)
    BY <1>1 DEF BlocksOf
  <2>2. ASSUME NEW v PROVE Owed(v)' \subseteq Owed(v)
    BY <1>1, <1>3, <1>4, <2>1 DEF Owed
  <2>. QED BY <2>1, <2>2 DEF Accounted
<1>6. \A v : Sum(Minted, Accounted(v)) <= Sum(Minted, Accounted(v)')
  BY <1>5, SumOfMore, BlockTotalsAssumption
<1>7. \A hs : Sum(Minted, hs) \in Nat
  BY SumType, BlockTotalsAssumption
<1>8. InfoInv' /\ ApartInv'
  BY <1>1, <1>3, <1>4 DEF IInv, InfoInv, ApartInv, At
<1>9. CreditInv'
  <2>1. ASSUME NEW v \in DOMAIN validator PROVE validator[v].rewards <= Sum(Minted, Accounted(v)')
    <3>1. validator[v].rewards \in Nat
      BY <1>0 DEF TypeInv, Row
    <3>2. validator[v].rewards <= Sum(Minted, Accounted(v))
      BY DEF IInv, CreditInv
    <3>3. Sum(Minted, Accounted(v)) <= Sum(Minted, Accounted(v)')
      BY <1>6
    <3>4. Sum(Minted, Accounted(v)) \in Nat /\ Sum(Minted, Accounted(v)') \in Nat
      BY <1>7
    <3>. QED BY <3>1, <3>2, <3>3, <3>4
  <2>2. ASSUME NEW q \in Runs \ {r}, run[q].pc \in {"update", "create"}
        PROVE  run[q].row.rewards <= Sum(Minted, Accounted(Current(q))')
    <3> DEFINE v == Current(q)
    <3>1. run[q].row.rewards \in Nat
      BY <1>0, RunTypes DEF Row
    <3>2. run[q].row.rewards <= Sum(Minted, Accounted(v))
      BY <2>2 DEF IInv, CreditInv
    <3>3. PICK u : u = v
      OBVIOUS
    <3>4. Sum(Minted, Accounted(u)) <= Sum(Minted, Accounted(u)')
      BY <1>6
    <3>5. Sum(Minted, Accounted(u)) \in Nat /\ Sum(Minted, Accounted(u)') \in Nat
      BY <1>7
    <3>6. Current(q)' = u
      BY <1>3, <3>3
    <3>7. Accounted(Current(q))' = Accounted(u)'
      BY <1>3, <3>6
    <3>. QED BY <3>1, <3>2, <3>3, <3>4, <3>5, <3>7
  <2>3. \A q \in Runs : run'[q].pc \in {"update", "create"} => q # r
    BY <1>1
  <2>. QED BY <1>1, <1>3, <2>1, <2>2, <2>3 DEF CreditInv
<1>10. TurnsInv' /\ ReadInv' /\ RowsInv' /\ FinalInv' /\ FeesInv'
  BY <1>1 DEF TurnsInv, ReadInv, RowsInv, FinalInv, FeesInv
<1>. QED BY <1>2, <1>8, <1>9, <1>10 DEF IInv

\* The blocks of its turn, and what they are worth, go from what is owed to the row.
LEMMA CreditedKeeps ==
    ASSUME IInv, NEW r \in Runs, run[r].pc \in {"update", "create"},
           run[r].pc = "create" => Current(r) \notin DOMAIN validator,
           validator' = Credited(r), NextGenerator(r),
           UNCHANGED <<generator, finalized, info, next, block, clean>>
    PROVE  IInv'
<1>0. TypeInv
  BY DEF IInv
<1>1. PICK v, mine : v = Current(r) /\ mine = Mine(r)
  OBVIOUS
<1>2. /\ OthersStay(r) /\ run'[r].pc = "count" /\ run'[r].left = run[r].left \ mine
      /\ run'[r].blocks = run[r].blocks
  BY <1>0, <1>1, RunTurns
<1>3. /\ run[r].left # {} /\ run[r].left \subseteq DOMAIN block /\ DOMAIN block \subseteq Heights
      /\ Past(r) /\ Past(r)'
  BY <1>0, <1>2 DEF IInv, TypeInv, ApartInv, Past, Writing
<1>4. /\ mine = {h \in run[r].left : generator[h] = v} /\ mine # {} /\ mine \subseteq run[r].left
      /\ v \in Validators /\ mine \in SUBSET Heights
  <2>1. Min(run[r].left) \in run[r].left
    BY <1>0, <1>3, RunTypes, MinFacts
  <2>2. generator[Min(run[r].left)] = v
    BY <1>1 DEF Current
  <2>. QED BY <1>0, <1>1, <1>3, <2>1, <2>2 DEF Mine, TypeInv
<1>5. \A q \in Runs \ {r} : /\ run'[q] = run[q] /\ Past(q)' = Past(q) /\ Current(q)' = Current(q)
                            /\ Past(q) => run[q].left \cap run[r].left = {}
  BY <1>2, <1>3 DEF IInv, ApartInv, OthersStay, Past, Current
<1>6. \A u : BlocksOf(u)' = BlocksOf(u)
  BY DEF BlocksOf
<1>7. mine \subseteq Owed(v)
  BY <1>3, <1>4 DEF Owed, BlocksOf
<1>8. \A u : u # v => Owed(u)' = Owed(u) /\ Accounted(u)' = Accounted(u)
  <2>1. ASSUME NEW u, u # v PROVE Owed(u)' = Owed(u)
    <3>1. ASSUME NEW h \in BlocksOf(u) PROVE h \in run'[r].left <=> h \in run[r].left
      BY <1>2, <1>4, <2>1, <3>1 DEF BlocksOf
    <3>. QED BY <1>3, <1>5, <1>6, <3>1 DEF Owed
  <2>. QED BY <1>6, <2>1 DEF Accounted
<1>9. Owed(v)' = Owed(v) \ mine
  <2>1. ASSUME NEW h \in BlocksOf(v) PROVE h \notin run'[r].left
    BY <1>2, <1>4, <2>1 DEF BlocksOf
  <2>2. ASSUME NEW h \in BlocksOf(v), h \in run[r].left PROVE h \in mine
    BY <1>4, <2>2 DEF BlocksOf
  <2>3. ASSUME NEW h \in mine, NEW q \in Runs \ {r}, Past(q) PROVE h \notin run[q].left
    BY <1>4, <1>5, <2>3
  <2>4. ASSUME NEW h \in BlocksOf(v) PROVE h \in Owed(v)' <=> h \in Owed(v) \ mine
    BY <1>3, <1>5, <1>6, <2>1, <2>2, <2>3 DEF Owed
  <2>5. Owed(v) \subseteq BlocksOf(v) /\ Owed(v)' \subseteq BlocksOf(v)
    BY <1>6 DEF Owed
  <2>. QED BY <2>4, <2>5
<1>10. Accounted(v)' = Accounted(v) \cup mine /\ Accounted(v) \cap mine = {}
  <2>1. mine \subseteq BlocksOf(v)
    BY <1>7 DEF Owed
  <2>. QED BY <1>6, <1>7, <1>9, <2>1 DEF Accounted
<1>11. /\ Sum(Minted, Accounted(v)') = Sum(Minted, Accounted(v)) + Sum(Minted, mine)
       /\ Sum(Locked, Accounted(v)') = Sum(Locked, Accounted(v)) + Sum(Locked, mine)
  BY <1>10, SumOfBoth, BlockTotalsAssumption
<1>12. \A hs : Sum(Minted, hs) \in Nat /\ Sum(Locked, hs) \in Nat
  BY SumType, BlockTotalsAssumption
<1>13. Max(mine) \in mine /\ \A h \in mine : h <= Max(mine)
  BY <1>4, MaxFacts
<1>14. /\ run[r].row \in Row /\ run[r].read \in Nat
       /\ run[r].row.rewards \in Nat /\ run[r].row.shared \in Nat /\ run[r].row.selfStake \in Int
  BY <1>0, RunTypes DEF Row
<1>15. /\ DOMAIN validator' = DOMAIN validator \cup {v}
       /\ \A u \in DOMAIN validator \ {v} : validator'[u] = validator[u]
       /\ validator'[v].last = Max(mine) /\ validator'[v].generated = run[r].read
       /\ validator'[v].rewards = run[r].row.rewards + Sum(Minted, mine)
       /\ validator'[v].shared = run[r].row.shared + Sum(Locked, mine)
       /\ validator'[v] \in Row /\ validator' = [u \in DOMAIN validator' |-> validator'[u]]
  <2>1. PICK new : new = [last |-> Max(mine), generated |-> run[r].read,
                          rewards |-> run[r].row.rewards + Sum(Minted, mine),
                          shared |-> run[r].row.shared + Sum(Locked, mine),
                          selfStake |-> run[r].row.selfStake + Sum(Minted, mine) - Sum(Locked, mine)]
    OBVIOUS
  <2>2. new \in Row
    <3>1. /\ Max(mine) \in Nat /\ run[r].row.rewards + Sum(Minted, mine) \in Nat
          /\ run[r].row.shared + Sum(Locked, mine) \in Nat
          /\ run[r].row.selfStake + Sum(Minted, mine) - Sum(Locked, mine) \in Int
      BY <1>4, <1>12, <1>13, <1>14 DEF Heights
    <3>. QED BY <1>14, <2>1, <3>1 DEF Row
  <2>3. validator' = [u \in DOMAIN validator \cup {v} |-> IF u = v THEN new ELSE validator[u]]
    BY <1>1, <2>1 DEF Credited, Reward, Shared
  <2>4. validator'[v] = new
    BY <2>3
  <2>. QED BY <2>1, <2>2, <2>3, <2>4
<1>16. TypeInv'
  <2>1. ASSUME NEW u \in DOMAIN validator' PROVE validator'[u] \in Row
    BY <1>0, <1>15 DEF TypeInv
  <2>2. validator' \in [DOMAIN validator' -> Row]
    BY <1>15, <2>1
  <2>. QED BY <1>0, <1>2, <1>4, <1>15, <2>2 DEF TypeInv, OthersStay
<1>17. InfoInv'
  BY <1>2, <1>5 DEF IInv, InfoInv, At
<1>18. ApartInv'
  BY <1>2, <1>3, <1>4, <1>5 DEF IInv, ApartInv, At
<1>19. CreditInv'
  <2>1. \A u : Sum(Minted, Accounted(u)) <= Sum(Minted, Accounted(u)')
    <3>1. ASSUME NEW u, u # v PROVE Sum(Minted, Accounted(u)) <= Sum(Minted, Accounted(u)')
      BY <1>8, <1>12, <3>1
    <3>2. Sum(Minted, Accounted(v)) <= Sum(Minted, Accounted(v)')
      BY <1>11, <1>12
    <3>. QED BY <3>1, <3>2
  <2>2. ASSUME NEW u \in DOMAIN validator' PROVE validator'[u].rewards <= Sum(Minted, Accounted(u)')
    <3>1. CASE u = v
      <4>1. run[r].row.rewards <= Sum(Minted, Accounted(v))
        BY <1>1 DEF IInv, CreditInv
      <4>. QED BY <1>11, <1>12, <1>14, <1>15, <3>1, <4>1
    <3>2. CASE u # v
      BY <1>8, <1>15, <3>2 DEF IInv, CreditInv
    <3>. QED BY <3>1, <3>2
  <2>3. ASSUME NEW q \in Runs \ {r}, run[q].pc \in {"update", "create"}
        PROVE  run[q].row.rewards <= Sum(Minted, Accounted(Current(q))')
    <3>1. PICK u : u = Current(q)
      OBVIOUS
    <3>2. run[q].row.rewards \in Nat
      BY <1>0, RunTypes DEF Row
    <3>3. run[q].row.rewards <= Sum(Minted, Accounted(u))
      BY <2>3, <3>1 DEF IInv, CreditInv
    <3>4. Sum(Minted, Accounted(u)) <= Sum(Minted, Accounted(u)')
      BY <2>1
    <3>5. Sum(Minted, Accounted(u)) \in Nat /\ Sum(Minted, Accounted(u)') \in Nat
      BY <1>12
    <3>6. Accounted(Current(q))' = Accounted(u)'
      BY <1>5, <3>1
    <3>. QED BY <3>2, <3>3, <3>4, <3>5, <3>6
  <2>4. \A q \in Runs : run'[q].pc \in {"update", "create"} => q # r
    BY <1>2
  <2>. QED BY <1>5, <2>2, <2>3, <2>4 DEF CreditInv
<1>20. clean => \A q \in Runs \ {r} : run[q].pc = "idle" /\ ~Past(q)
  BY <1>3 DEF IInv, TurnsInv, Busy, Past, Writing
<1>21. TurnsInv'
  <2> SUFFICES ASSUME clean PROVE TurnsInv'
    BY DEF TurnsInv
  <2>1. ASSUME NEW q \in Runs, Busy(q)' PROVE q = r
    BY <1>5, <1>20, <2>1 DEF Busy
  <2>2. ASSUME NEW k \in run[r].left \ mine, NEW h \in DOMAIN block, generator[h] = generator[k],
               h \notin run[r].left \ mine
        PROVE  h < k
    <3>1. h \notin run[r].left
      BY <1>4, <2>2
    <3>. QED BY <2>2, <3>1, <1>3 DEF IInv, TurnsInv, Busy, Past, Writing
  <2>3. \A q \in Runs : \A h \in run'[q].left : h < next
    BY <1>2, <1>5 DEF IInv, TurnsInv
  <2>. QED BY <1>2, <2>1, <2>2, <2>3 DEF IInv, TurnsInv
<1>22. ReadInv'
  BY <1>2, <1>5, <1>20 DEF ReadInv, At
<1>23. RowsInv'
  <2> SUFFICES ASSUME clean, NEW u \in Validators
               PROVE  /\ u \notin DOMAIN validator' => Accounted(u)' = {}
                      /\ u \in DOMAIN validator' =>
                             /\ validator'[u].rewards = Sum(Minted, Accounted(u)')
                             /\ validator'[u].shared = Sum(Locked, Accounted(u)')
                             /\ Owed(u)' = {} /\ BlocksOf(u)' # {} =>
                                    /\ validator'[u].generated = Cardinality(BlocksOf(u)')
                                    /\ validator'[u].last = Max(BlocksOf(u)')
    BY DEF RowsInv
  <2>1. CASE u # v
    <3>1. u \in DOMAIN validator' <=> u \in DOMAIN validator
      BY <1>15, <2>1
    <3>2. Owed(u)' = Owed(u) /\ Accounted(u)' = Accounted(u) /\ BlocksOf(u)' = BlocksOf(u)
      BY <1>6, <1>8, <2>1
    <3>3. u \in DOMAIN validator => validator'[u] = validator[u]
      BY <1>15, <2>1
    <3>. QED BY <3>1, <3>2, <3>3 DEF IInv, RowsInv
  <2>2. CASE u = v
    <3>1. /\ run[r].row.rewards = Sum(Minted, Accounted(v))
          /\ run[r].row.shared = Sum(Locked, Accounted(v))
          /\ run[r].read = Cardinality(BlocksOf(v))
      <4>1. run[r].read = Cardinality(BlocksOf(v))
        BY <1>1 DEF IInv, ReadInv
      <4>2. CASE run[r].pc = "update"
        <5>1. v \in DOMAIN validator /\ run[r].row = validator[v]
          BY <1>1, <4>2 DEF IInv, ReadInv, At
        <5>. QED BY <1>4, <4>1, <5>1 DEF IInv, RowsInv
      <4>3. CASE run[r].pc = "create" /\ v \notin DOMAIN validator
        <5>1. run[r].row = Bare /\ Accounted(v) = {}
          BY <1>4, <4>3 DEF IInv, ReadInv, RowsInv, At
        <5>2. Sum(Minted, {}) = 0 /\ Sum(Locked, {}) = 0
          BY SumOfNone, BlockTotalsAssumption
        <5>. QED BY <4>1, <5>1, <5>2 DEF Bare
      <4>. QED BY <1>1, <4>2, <4>3
    <3>2. ASSUME Owed(v)' = {} PROVE Max(mine) = Max(BlocksOf(v))
      <4>1. mine \subseteq BlocksOf(v) /\ BlocksOf(v) \in SUBSET Heights
        BY <1>3, <1>4 DEF BlocksOf
      <4>2. Max(BlocksOf(v)) \in BlocksOf(v) /\ \A h \in BlocksOf(v) : h <= Max(BlocksOf(v))
        BY <1>4, <4>1, MaxFacts
      <4>3. ASSUME NEW h \in BlocksOf(v) \ mine PROVE h < Max(mine)
        <5>1. h \notin run[r].left /\ h \in DOMAIN block /\ generator[h] = v
          BY <1>4, <4>3 DEF BlocksOf
        <5>2. Max(mine) \in run[r].left /\ generator[Max(mine)] = v
          BY <1>4, <1>13
        <5>. QED BY <1>3, <5>1, <5>2 DEF IInv, TurnsInv, Busy, Past, Writing
      <4>4. Max(mine) \in Int /\ Max(BlocksOf(v)) \in Int
        BY <1>4, <1>13, <4>1, <4>2 DEF Heights
      <4>5. Max(BlocksOf(v)) <= Max(mine)
        BY <1>13, <4>2, <4>3, <4>4
      <4>6. Max(mine) <= Max(BlocksOf(v))
        BY <1>13, <4>1, <4>2
      <4>. QED BY <4>4, <4>5, <4>6
    <3>3. BlocksOf(v)' = BlocksOf(v)
      BY <1>6
    <3>. QED BY <1>11, <1>15, <2>2, <3>1, <3>2, <3>3
  <2>. QED BY <2>1, <2>2
<1>24. FinalInv' /\ FeesInv'
  BY <1>2, <1>3, <1>5 DEF IInv, FinalInv, FeesInv
<1>. QED BY <1>16, <1>17, <1>18, <1>19, <1>21, <1>22, <1>23, <1>24 DEF IInv

LEMMA NextInv == IInv /\ [Next]_vars => IInv'
<1> SUFFICES ASSUME IInv, [Next]_vars PROVE IInv'
  OBVIOUS
<1>1. CASE UNCHANGED vars
  BY <1>1, StutterKeeps
<1>2. CASE Finalizes
  BY <1>2, FinalizesKeeps
<1>3. ASSUME NEW v \in Validators, Registered(v) PROVE IInv'
  BY <1>3, RegisteredKeeps
<1>4. ASSUME NEW h \in Heights, Resumed(h) PROVE IInv'
  BY <1>4, ResumedKeeps
<1>5. ASSUME NEW r \in Runs, NEW kind \in {"sync", "direct"}, NEW last \in Heights, Started(r, kind, last)
      PROVE  IInv'
  BY <1>5, StartedKeeps
<1>6. ASSUME NEW r \in Runs, HeadersWritten(r) \/ InfoAsked(r) \/ InfoAnswered(r) \/ Marked(r)
      PROVE  IInv'
  BY <1>6, HeadersWrittenKeeps, InfoAskedKeeps, InfoAnsweredKeeps, MarkedKeeps
<1>7. ASSUME NEW r \in Runs, Counted(r) \/ Found(r) PROVE IInv'
  BY <1>7, CountedKeeps, FoundKeeps
<1>8. ASSUME NEW r \in Runs, ValidatorUpdated(r) \/ ValidatorCreated(r) PROVE IInv'
  <2>1. CASE ValidatorUpdated(r)
    BY <2>1, CreditedKeeps DEF ValidatorUpdated, At
  <2>2. CASE ValidatorCreated(r)
    BY <2>2, CreditedKeeps DEF ValidatorCreated, At
  <2>. QED BY <1>8, <2>1, <2>2
<1>9. ASSUME NEW r \in Runs, GeneratorsDone(r) \/ FeesWritten(r) \/ Ended(r) \/ Failed(r) PROVE IInv'
  BY <1>9, GeneratorsDoneKeeps, FeesWrittenKeeps, EndedKeeps, FailedKeeps
<1>. QED BY <1>1, <1>2, <1>3, <1>4, <1>5, <1>6, <1>7, <1>8, <1>9 DEF Next

LEMMA Invariant == Spec => []IInv
<1>. QED BY InitInv, NextInv, PTL DEF Spec

-----------------------------------------------------------------------------
(* Theorems *)

\* Whatever fails, overlaps or is indexed again, updateValidators credits no generator with
\* more than the chain gave it in the stored blocks: createMany refuses a batch with a block
\* that is stored, so that no two runs have the same block to credit.
THEOREM NobodyOverCredited == Spec => []NeverOverCredited
<1>1. ASSUME IInv, NEW v \in DOMAIN validator
      PROVE  validator[v].rewards <= Sum(Minted, BlocksOf(v))
  <2>1. Accounted(v) \in SUBSET BlocksOf(v)
    BY DEF Accounted
  <2>2. Sum(Minted, Accounted(v)) <= Sum(Minted, BlocksOf(v))
    BY <2>1, SumOfMore, BlockTotalsAssumption
  <2>3. Sum(Minted, Accounted(v)) \in Nat /\ Sum(Minted, BlocksOf(v)) \in Nat
    BY SumType, BlockTotalsAssumption
  <2>4. validator[v].rewards \in Nat /\ validator[v].rewards <= Sum(Minted, Accounted(v))
    BY <1>1 DEF IInv, TypeInv, Row, CreditInv
  <2>. QED BY <2>2, <2>3, <2>4
<1>2. IInv => NeverOverCredited
  BY <1>1 DEF NeverOverCredited
<1>. QED BY <1>2, Invariant, PTL

\* After runs of handleNewBlockEvent that took turns and did not fail, the fees, the rewards,
\* the counts and the last heights are those of the chain, and what was finalized is final.
THEOREM TotalsAreComplete == Spec => []TotalsComplete
<1>1. ASSUME IInv, clean, \A r \in Runs : ~Busy(r), NEW h \in DOMAIN block
      PROVE  /\ block[h].burnt = Burnt[h] /\ block[h].network = Fee[h] - Burnt[h]
             /\ h <= info => block[h].final
             /\ generator[h] \in DOMAIN validator
             /\ validator[generator[h]].rewards = Sum(Minted, BlocksOf(generator[h]))
             /\ validator[generator[h]].shared = Sum(Locked, BlocksOf(generator[h]))
             /\ validator[generator[h]].generated = Cardinality(BlocksOf(generator[h]))
             /\ validator[generator[h]].last = Max(BlocksOf(generator[h]))
  <2>1. \A r \in Runs : run[r].pc = "idle" /\ ~Past(r)
    BY <1>1 DEF Busy, Past, Writing
  <2>2. PICK v \in Validators : v = generator[h]
    BY <1>1 DEF IInv, TypeInv
  <2>3. h \in BlocksOf(v) /\ Owed(v) = {} /\ Accounted(v) = BlocksOf(v)
    BY <2>1, <2>2 DEF BlocksOf, Owed, Accounted
  <2>4. block[h].burnt = Burnt[h] /\ block[h].network = Fee[h] - Burnt[h]
    BY <1>1, <2>1 DEF IInv, FeesInv
  <2>5. h <= info => block[h].final
    BY <1>1, <2>1 DEF IInv, FinalInv
  <2>6. v \in DOMAIN validator
    BY <1>1, <2>3 DEF IInv, RowsInv
  <2>. QED BY <1>1, <2>2, <2>3, <2>4, <2>5, <2>6 DEF IInv, RowsInv
<1>2. IInv => TotalsComplete
  BY <1>1 DEF TotalsComplete
<1>. QED BY <1>2, Invariant, PTL

\* CheckForBlockFinalityCommand marks finalized blocks only, though the node's answer may be
\* older than nodeInfo, and no other command changes isFinal.
THEOREM OnlyFinalizedAreMarked == Spec => FinalIsFinalized
<1>1. ASSUME IInv, [Next]_vars, NEW h \in DOMAIN block, block'[h].final # block[h].final
      PROVE  block'[h].final /\ h <= finalized
  <2>1. CASE \E r \in Runs : Marked(r)
    <3>1. block'[h].final = (block[h].final \/ h <= info)
      BY <1>1, <2>1 DEF Marked, IInv, TypeInv, Block
    <3>2. block[h].final \in BOOLEAN /\ h \in Nat
      BY <1>1 DEF IInv, TypeInv, Block, Heights
    <3>3. h <= info /\ info \in Nat /\ finalized \in Nat /\ info <= finalized
      BY <1>1, <3>1, <3>2 DEF IInv, TypeInv, InfoInv
    <3>4. block'[h].final
      BY <3>1, <3>3, Zenon
    <3>5. h <= finalized
      BY <3>2, <3>3
    <3>. QED BY <3>4, <3>5, Zenon
  <2>2. CASE \E r \in Runs : HeadersWritten(r)
    <3>1. block'[h] = block[h]
      BY <1>1, <2>2 DEF HeadersWritten, Stored
    <3>. QED BY <1>1, <3>1
  <2>3. CASE \E r \in Runs : FeesWritten(r)
    <3>1. PICK k : block' = [block EXCEPT ![k] = Fees(k)]
      BY <2>3 DEF FeesWritten
    <3>2. Fees(k).final = block[k].final
      BY DEF Fees
    <3>3. block'[h].final = block[h].final
      BY <1>1, <3>1, <3>2
    <3>. QED BY <1>1, <3>3
  <2>4. CASE block' = block
    BY <1>1, <2>4
  <2>5. \A r \in Runs : /\ \A kind, last : Started(r, kind, last) => block' = block
                        /\ InfoAsked(r) \/ InfoAnswered(r) \/ Counted(r) \/ Found(r) => block' = block
                        /\ ValidatorUpdated(r) \/ ValidatorCreated(r) => block' = block
                        /\ GeneratorsDone(r) \/ Ended(r) \/ Failed(r) => block' = block
    BY DEF Started, InfoAsked, InfoAnswered, Counted, Found, ValidatorUpdated, ValidatorCreated,
       GeneratorsDone, Ended, Failed
  <2>6. /\ Finalizes \/ UNCHANGED vars => block' = block
        /\ \A v : Registered(v) => block' = block
        /\ \A k : Resumed(k) => block' = block
    BY DEF Finalizes, vars, Registered, Resumed
  <2>7. block' = block \/ \E r \in Runs : Marked(r) \/ HeadersWritten(r) \/ FeesWritten(r)
    BY <1>1, <2>5, <2>6 DEF Next
  <2>. QED BY <2>1, <2>2, <2>3, <2>4, <2>7
<1>2. IInv /\ [Next]_vars =>
          [\A h \in DOMAIN block : block'[h].final # block[h].final => block'[h].final /\ h <= finalized]_vars
  BY <1>1
<1>. QED BY <1>2, Invariant, PTL DEF Spec, FinalIsFinalized
=============================================================================
