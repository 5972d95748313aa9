------------------------ MODULE TransactionIndexProofs ------------------------
(***************************************************************************)
(* Theorems about TransactionIndex, for any accounts, any number of blocks *)
(* and transactions in the batch, and any fees and results of theirs.      *)
(***************************************************************************)
EXTENDS TransactionIndex, FiniteSetTheorems, WellFoundedInduction, TLAPS

-----------------------------------------------------------------------------
(* The inductive invariant *)

Entry == [key : BOOLEAN, nonce : Nat]
Pcs   == {"process", "lookup", "upsert", "create", "assets", "events", "done", "failed", "stopped"}

Named(i, v) == \E k \in DOMAIN batch[i].to : batch[i].to[k] = v

BatchInv ==
    /\ Last \in 0 .. MaxTxs /\ DOMAIN batch = 1 .. Last
    /\ \A i \in DOMAIN batch : /\ batch[i].sender \in Accounts
                               /\ \A v : Named(i, v) => v \in Accounts
                               /\ i \in Stakes => \E v : Named(i, v)
    /\ sent \in [Accounts -> Nat]

TypeInv ==
    /\ DOMAIN table \subseteq Accounts /\ table \in [DOMAIN table -> Entry]
    /\ pc \in Pcs
    /\ asked \subseteq Stakes \X Accounts /\ \A p \in asked : Named(p[1], p[2])
    /\ DOMAIN status \subseteq DOMAIN batch /\ updates \subseteq Filtered \cap DOMAIN status
    /\ status \in [DOMAIN status -> {"pending", "successful", "failed"}]

\* The transactions that went on, and the fees of some of them.
Gone == {i \in DOMAIN batch : ~ \E p \in asked : p[1] = i}
FeesBy(is) ==
    [h \in {batch[i].height : i \in is} |->
        [burnt |-> MinFee * Cardinality(is \cap Of(h)), fee |-> FeesOf(is \cap Of(h))]]

FeesInv ==
    /\ pc \notin {"process", "failed", "stopped"} => fees = FeesBy(Gone)
    /\ pc \notin {"process", "lookup", "failed", "stopped"} => asked = {}

\* What the map of accounts holds of an account when the first n transactions were met: it
\* is known by what it sends or receives, and its key is lost if it received first, sent
\* only once, and that was its transaction 0.
Seen(a, n)    == \E j \in 1 .. n : a \in Recipients(j)
Known(n)      == {a \in Accounts : Sends(a, n) # {} \/ Seen(a, n)}
Lost(a, n)    == sent[a] = 0 /\ Cardinality(Sends(a, n)) = 1 /\ \E i \in Sends(a, n) : Seen(a, i - 1)
EntryOf(a, n) == IF Sends(a, n) = {} \/ Lost(a, n) THEN Empty
                 ELSE [key |-> TRUE, nonce |-> sent[a] + Cardinality(Sends(a, n)) - 1]

Senders  == {a \in Accounts : Sends(a, Last) # {}}
All      == Known(Last)
Final(a) == EntryOf(a, Last)

\* An account has its row, which for a sender is what the map held.
HasRow(a) == a \in DOMAIN table /\ (a \in Senders => table[a] = Final(a))

MapInv ==
    pc \in {"lookup", "upsert"} =>
        /\ DOMAIN met \subseteq All /\ \A a \in DOMAIN met : met[a] = Final(a)
        /\ \A a \in All \ DOMAIN met : HasRow(a)

\* An account that never sent anything has no row, or an empty one, before its upsert.
TableInv ==
    pc \in {"process", "lookup", "upsert"} =>
        \A a \in DOMAIN table : sent[a] = 0 /\ (pc = "process" \/ a \in DOMAIN met) => table[a] = Empty

RowsInv == pc \in {"create", "assets", "events", "done"} => \A a \in All : HasRow(a)

StatusInv ==
    /\ \A i \in DOMAIN status : status[i] # "pending" => status[i] = Result(i)
    /\ updates # {} => pc = "done"
    /\ pc = "done" => \A i \in DOMAIN status : status[i] = "pending" <=> i \notin Filtered \/ i \in updates
    /\ pc \notin {"done", "stopped"} => \A i \in DOMAIN status : status[i] = "pending"

IInv == BatchInv /\ TypeInv /\ FeesInv /\ MapInv /\ TableInv /\ RowsInv /\ StatusInv

-----------------------------------------------------------------------------
(* Sums of fees *)

\* A set of numbers has a least element: what is false of some number is false of a
\* first one.
LEMMA Least == ASSUME NEW T \in SUBSET Nat, T # {} PROVE \E x \in T : \A y \in T : x <= y
<1>1. PICK x \in T : \A y \in T : ~(<<y, x>> \in OpToRel(<, Nat))
  BY NatLessThanWellFounded, WFMin
<1>2. \A y \in T : ~(y < x)
  BY <1>1 DEF OpToRel
<1>. QED BY <1>2

\* One turn of the summation.
FeeTurn(f, is, i)  == IF i = 0 THEN 0 ELSE f[i - 1] + IF i \in is THEN Fee[i] ELSE 0
FeeTurns(f, is, m) == f \in [0 .. m -> Nat] /\ \A i \in 0 .. m : f[i] = FeeTurn(f, is, i)

LEMMA FeeTurnsExist == ASSUME NEW is, NEW m \in 0 .. MaxTxs PROVE \E f : FeeTurns(f, is, m)
<1> DEFINE T == {k \in 0 .. MaxTxs : ~ \E f : FeeTurns(f, is, k)}
<1> SUFFICES ASSUME T # {} PROVE FALSE
  OBVIOUS
<1>1. T \in SUBSET Nat
  OBVIOUS
<1>2. PICK k \in T : \A j \in T : k <= j
  BY <1>1, Least
<1>3. k \in 0 .. MaxTxs /\ MaxTxs \in Nat /\ ~ \E f : FeeTurns(f, is, k)
  BY <1>2, TransactionIndexAssumption
<1>4. k # 0
  <2>1. FeeTurns([i \in 0 .. 0 |-> 0], is, 0)
    BY DEF FeeTurns, FeeTurn
  <2>. QED BY <1>3, <2>1
<1>5. PICK f : FeeTurns(f, is, k - 1)
  BY <1>2, <1>3, <1>4
<1> DEFINE g == [i \in 0 .. k |-> IF i = k THEN FeeTurn(f, is, k) ELSE f[i]]
<1>6. FeeTurn(f, is, k) \in Nat
  BY <1>3, <1>4, <1>5, TransactionIndexAssumption DEF FeeTurns, FeeTurn
<1>7. g \in [0 .. k -> Nat]
  BY <1>3, <1>4, <1>5, <1>6 DEF FeeTurns
<1>8. ASSUME NEW i \in 0 .. k PROVE g[i] = FeeTurn(g, is, i)
  <2>1. i # 0 => g[i - 1] = f[i - 1]
    BY <1>3
  <2>2. FeeTurn(g, is, i) = FeeTurn(f, is, i)
    BY <2>1 DEF FeeTurn
  <2>3. g[i] = FeeTurn(f, is, i)
    BY <1>3, <1>5 DEF FeeTurns
  <2>. QED BY <2>2, <2>3
<1>9. FeeTurns(g, is, k)
  BY <1>7, <1>8 DEF FeeTurns
<1>. QED BY <1>3, <1>9

LEMMA FeesUpToTurns == ASSUME NEW is PROVE FeeTurns(FeesUpTo(is), is, MaxTxs)
<1> DEFINE a == FeesUpTo(is)
           Step(g, i) == IF i = 0 THEN 0 ELSE g[i - 1] + IF i \in is THEN Fee[i] ELSE 0
<1>0. MaxTxs \in Nat
  BY TransactionIndexAssumption
<1>1. PICK f : FeeTurns(f, is, MaxTxs)
  BY <1>0, FeeTurnsExist
<1>2. f = [i \in 0 .. MaxTxs |-> Step(f, i)]
  BY <1>1 DEF FeeTurns, FeeTurn
<1>3. a = [i \in 0 .. MaxTxs |-> Step(a, i)]
  BY <1>2, Zenon DEF FeesUpTo
<1> HIDE DEF a
<1>4. \A i \in 0 .. MaxTxs : a[i] = FeeTurn(a, is, i)
  BY <1>3, Zenon DEF FeeTurn
<1> HIDE DEF Step
<1>5. \A i \in 0 .. MaxTxs : a[i] \in Nat
  <2> DEFINE T == {i \in 0 .. MaxTxs : a[i] \notin Nat}
  <2> SUFFICES ASSUME T # {} PROVE FALSE
    OBVIOUS
  <2>1. T \in SUBSET Nat
    OBVIOUS
  <2>2. PICK i \in T : \A j \in T : i <= j
    BY <2>1, Least
  <2>3. a[i] = FeeTurn(a, is, i)
    BY <1>4, <2>2
  <2>4. i # 0
    BY <2>2, <2>3 DEF FeeTurn
  <2>5. i - 1 \in 0 .. MaxTxs /\ i \in 1 .. MaxTxs
    BY <1>0, <2>2, <2>4
  <2>6. a[i - 1] \in Nat /\ Fee[i] \in Nat
    BY <2>2, <2>5, TransactionIndexAssumption
  <2>. QED BY <2>2, <2>3, <2>4, <2>6 DEF FeeTurn
<1>6. a \in [0 .. MaxTxs -> Nat]
  BY <1>3, <1>5
<1>. QED BY <1>4, <1>6 DEF FeeTurns, a

LEMMA FeesOfNone == FeesOf({}) = 0
<1> DEFINE a == FeesUpTo({})
           T == {i \in 0 .. MaxTxs : a[i] # 0}
<1>0. MaxTxs \in Nat /\ FeeTurns(a, {}, MaxTxs)
  BY FeesUpToTurns, TransactionIndexAssumption
<1> HIDE DEF a
<1>1. ASSUME T # {} PROVE FALSE
  <2>1. T \in SUBSET Nat
    OBVIOUS
  <2>2. PICK i \in T : \A j \in T : i <= j
    BY <1>1, <2>1, Least
  <2>3. a[i] = FeeTurn(a, {}, i)
    BY <1>0, <2>2 DEF FeeTurns
  <2>. QED BY <1>0, <2>2, <2>3 DEF FeeTurn
<1>. QED BY <1>0, <1>1 DEF FeesOf, a

LEMMA FeesOfOneMore ==
    ASSUME NEW is, NEW i \in 1 .. MaxTxs, i \notin is
    PROVE  FeesOf(is \cup {i}) = FeesOf(is) + Fee[i] /\ FeesOf(is) \in Nat
<1> DEFINE a == FeesUpTo(is)
           b == FeesUpTo(is \cup {i})
           T == {j \in 0 .. MaxTxs : b[j] # a[j] + IF j >= i THEN Fee[i] ELSE 0}
<1>0. /\ MaxTxs \in Nat /\ Fee[i] \in Nat
      /\ FeeTurns(a, is, MaxTxs) /\ FeeTurns(b, is \cup {i}, MaxTxs)
  BY FeesUpToTurns, TransactionIndexAssumption
<1> HIDE DEF a, b
<1>1. ASSUME T # {} PROVE FALSE
  <2>1. T \in SUBSET Nat
    OBVIOUS
  <2>2. PICK j \in T : \A k \in T : j <= k
    BY <1>1, <2>1, Least
  <2>3. a[j] = FeeTurn(a, is, j) /\ b[j] = FeeTurn(b, is \cup {i}, j)
    BY <1>0, <2>2 DEF FeeTurns
  <2>4. j # 0
    BY <2>2, <2>3 DEF FeeTurn
  <2>5. j - 1 \in 0 .. MaxTxs /\ j \in 1 .. MaxTxs
    BY <1>0, <2>2, <2>4
  <2>6. /\ b[j - 1] = a[j - 1] + IF j - 1 >= i THEN Fee[i] ELSE 0
        /\ a[j - 1] \in Nat /\ Fee[j] \in Nat
    <3>1. j - 1 \notin T
      BY <2>2, <2>5
    <3>2. a[j - 1] \in Nat
      BY <1>0, <2>5 DEF FeeTurns
    <3>3. Fee[j] \in Nat
      BY <2>5, TransactionIndexAssumption
    <3>. QED BY <2>5, <3>1, <3>2, <3>3
  <2>7. CASE j = i
    BY <1>0, <2>2, <2>3, <2>4, <2>6, <2>7 DEF FeeTurn
  <2>8. CASE j # i
    BY <1>0, <2>2, <2>3, <2>4, <2>6, <2>8 DEF FeeTurn
  <2>. QED BY <2>7, <2>8
<1>2. b[MaxTxs] = a[MaxTxs] + Fee[i]
  BY <1>0, <1>1
<1>3. a[MaxTxs] \in Nat
  BY <1>0 DEF FeeTurns
<1>. QED BY <1>2, <1>3 DEF FeesOf, a, b

\* Any sets of transactions are finite.
LEMMA Counts ==
    ASSUME BatchInv, NEW is \in SUBSET DOMAIN batch
    PROVE  /\ IsFiniteSet(is) /\ Cardinality(is) \in Nat /\ (Cardinality(is) = 0 <=> is = {})
           /\ \A i : i \notin is => Cardinality(is \cup {i}) = Cardinality(is) + 1
<1>1. IsFiniteSet(DOMAIN batch)
  BY FS_Interval, TransactionIndexAssumption DEF BatchInv
<1>2. IsFiniteSet(is)
  BY <1>1, FS_Subset
<1>. QED BY <1>2, FS_CardinalityType, FS_EmptySet, FS_AddElement

\* calcFeePerBlock adds a transaction to what the others sum up to.
LEMMA FeeAddedSums ==
    ASSUME BatchInv, NEW is \in SUBSET DOMAIN batch, NEW i \in DOMAIN batch, i \notin is
    PROVE  FeeAdded(FeesBy(is), i) = FeesBy(is \cup {i})
<1> DEFINE f == FeesBy(is)
           g == FeesBy(is \cup {i})
           c == batch[i].height
           old == IF c \in DOMAIN f THEN f[c] ELSE [burnt |-> 0, fee |-> 0]
           H(js) == {batch[j].height : j \in js}
<1>1. /\ DOMAIN f = H(is)
      /\ \A h \in H(is) : f[h] = [burnt |-> MinFee * Cardinality(is \cap Of(h)), fee |-> FeesOf(is \cap Of(h))]
  BY DEF FeesBy
<1>2. H(is \cup {i}) = H(is) \cup {c}
  OBVIOUS
<1>3. g = [h \in H(is) \cup {c} |-> [burnt |-> MinFee * Cardinality((is \cup {i}) \cap Of(h)),
                                    fee |-> FeesOf((is \cup {i}) \cap Of(h))]]
  BY <1>2 DEF FeesBy
<1>4. FeeAdded(f, i) = [h \in H(is) \cup {c} |->
           IF h = c THEN [burnt |-> old.burnt + MinFee, fee |-> old.fee + Fee[i]] ELSE f[h]]
  <2>1. FeeAdded(f, i) = [h \in DOMAIN f \cup {c} |->
           IF h = c THEN [burnt |-> old.burnt + MinFee, fee |-> old.fee + Fee[i]] ELSE f[h]]
    BY DEF FeeAdded
  <2> HIDE DEF f, c, H, old
  <2>. QED BY <1>1, <2>1
<1> HIDE DEF f, g
<1>5. ASSUME NEW h \in H(is), h # c
      PROVE  f[h] = [burnt |-> MinFee * Cardinality((is \cup {i}) \cap Of(h)),
                     fee |-> FeesOf((is \cup {i}) \cap Of(h))]
  <2>1. (is \cup {i}) \cap Of(h) = is \cap Of(h)
    BY <1>5 DEF Of
  <2>. QED BY <1>1, <2>1
<1>6. /\ old.burnt + MinFee = MinFee * Cardinality((is \cup {i}) \cap Of(c))
      /\ old.fee + Fee[i] = FeesOf((is \cup {i}) \cap Of(c))
  <2> DEFINE js == is \cap Of(c)
  <2>1. (is \cup {i}) \cap Of(c) = js \cup {i} /\ i \notin js /\ js \in SUBSET DOMAIN batch
    BY DEF Of
  <2>2. i \in 1 .. MaxTxs /\ MinFee \in Nat /\ Fee[i] \in Nat
    BY TransactionIndexAssumption DEF BatchInv
  <2>3. /\ Cardinality(js \cup {i}) = Cardinality(js) + 1 /\ Cardinality(js) \in Nat
        /\ (Cardinality(js) = 0 <=> js = {})
        /\ FeesOf(js \cup {i}) = FeesOf(js) + Fee[i] /\ FeesOf(js) \in Nat
    <3>1. Cardinality(js \cup {i}) = Cardinality(js) + 1 /\ Cardinality(js) \in Nat
          /\ (Cardinality(js) = 0 <=> js = {})
      BY <2>1, Counts
    <3> HIDE DEF js
    <3>2. FeesOf(js \cup {i}) = FeesOf(js) + Fee[i] /\ FeesOf(js) \in Nat
      BY <2>1, <2>2, FeesOfOneMore
    <3>. QED BY <3>1, <3>2
  <2>4. old.burnt = MinFee * Cardinality(js) /\ old.fee = FeesOf(js)
    <3>1. CASE c \in H(is)
      <4>1. old = [burnt |-> MinFee * Cardinality(js), fee |-> FeesOf(js)]
        BY <1>1, <3>1
      <4> HIDE DEF old, js
      <4>. QED BY <4>1
    <3>2. CASE c \notin H(is)
      <4>1. js = {}
        BY <3>2 DEF Of
      <4>2. old = [burnt |-> 0, fee |-> 0]
        BY <1>1, <3>2
      <4>3. Cardinality(js) = 0 /\ FeesOf(js) = 0
        BY <2>3, <4>1, FeesOfNone
      <4>4. MinFee * 0 = 0
        BY <2>2
      <4> HIDE DEF old, js
      <4>. QED BY <4>2, <4>3, <4>4
    <3>. QED BY <3>1, <3>2
  <2>5. MinFee * (Cardinality(js) + 1) = MinFee * Cardinality(js) + MinFee
    BY <2>2, <2>3
  <2> HIDE DEF js, old
  <2>. QED BY <2>1, <2>3, <2>4, <2>5
<1> HIDE DEF old, H, c
<1>7. FeeAdded(f, i) = g
  BY <1>3, <1>4, <1>5, <1>6
<1>. QED BY <1>7 DEF f, g

\* The first turn of the transactions adds those that do not wait for a lookup.
LEMMA AddedSums ==
    ASSUME BatchInv
    PROVE  AddedUpTo(Last)[Last] = FeesBy(DOMAIN batch \ Stakes)
<1> DEFINE a == AddedUpTo(Last)
           Step(g, n) == IF n = 0 THEN [h \in {} |-> Empty]
                         ELSE IF n \in Stakes THEN g[n - 1] ELSE FeeAdded(g[n - 1], n)
           W(n) == (1 .. n) \ Stakes
           f == [n \in 0 .. Last |-> FeesBy(W(n))]
<1>0. Last \in Nat /\ DOMAIN batch = 1 .. Last
  BY TransactionIndexAssumption DEF BatchInv
<1>1. ASSUME NEW n \in 0 .. Last PROVE FeesBy(W(n)) = Step(f, n)
  <2>1. CASE n = 0
    <3>1. W(n) = {}
      BY <2>1
    <3>2. FeesBy({}) = [h \in {} |-> Empty]
      BY DEF FeesBy
    <3>. QED BY <2>1, <3>1, <3>2
  <2>2. CASE n # 0
    <3>1. n - 1 \in 0 .. Last /\ n \in DOMAIN batch /\ W(n - 1) \in SUBSET DOMAIN batch /\ n \notin W(n - 1)
      BY <1>0, <2>2
    <3>2. f[n - 1] = FeesBy(W(n - 1))
      BY <3>1
    <3>3. CASE n \in Stakes
      <4>1. W(n) = W(n - 1)
        BY <1>0, <2>2, <3>3
      <4>. QED BY <2>2, <3>2, <3>3, <4>1
    <3>4. CASE n \notin Stakes
      <4>1. W(n) = W(n - 1) \cup {n}
        BY <1>0, <2>2, <3>4
      <4>2. FeeAdded(FeesBy(W(n - 1)), n) = FeesBy(W(n - 1) \cup {n})
        BY <3>1, FeeAddedSums
      <4>. QED BY <2>2, <3>2, <3>4, <4>1, <4>2
    <3>. QED BY <3>3, <3>4
  <2>. QED BY <2>1, <2>2
<1>2. f = [n \in 0 .. Last |-> Step(f, n)]
  BY <1>1
<1>3. a = [n \in 0 .. Last |-> Step(a, n)]
  BY <1>2, Zenon DEF AddedUpTo
<1> HIDE DEF a
<1>4. \A n \in 0 .. Last : a[n] = Step(a, n)
  BY <1>3, Zenon
<1>5. \A n \in 0 .. Last : f[n] = Step(f, n)
  BY <1>2, Zenon
<1> DEFINE T == {n \in 0 .. Last : a[n] # f[n]}
<1>6. ASSUME T # {} PROVE FALSE
  <2>1. T \in SUBSET Nat
    OBVIOUS
  <2>2. PICK n \in T : \A j \in T : n <= j
    BY <1>6, <2>1, Least
  <2> HIDE DEF f
  <2>3. n \in 0 .. Last
    BY <2>2
  <2>4. n # 0
    BY <1>4, <1>5, <2>2, <2>3
  <2>5. n - 1 \in 0 .. Last /\ n - 1 \notin T
    BY <1>0, <2>2, <2>3, <2>4
  <2>6. a[n - 1] = f[n - 1]
    BY <2>5
  <2>. QED BY <1>4, <1>5, <2>2, <2>3, <2>6
<1>7. a[Last] = f[Last]
  BY <1>0, <1>6
<1>8. f[Last] = FeesBy(W(Last))
  BY <1>0
<1>. QED BY <1>0, <1>7, <1>8 DEF a

-----------------------------------------------------------------------------
(* The map of accounts *)

LEMMA SendsGrow ==
    ASSUME BatchInv, NEW n \in DOMAIN batch, NEW a
    PROVE  /\ n - 1 \in 0 .. Last /\ n \in 1 .. Last
           /\ Sends(a, n) = Sends(a, n - 1) \cup (IF batch[n].sender = a THEN {n} ELSE {})
           /\ n \notin Sends(a, n - 1)
           /\ Seen(a, n) <=> Seen(a, n - 1) \/ a \in Recipients(n)
           /\ Sends(a, n) \in SUBSET DOMAIN batch /\ Sends(a, n - 1) \in SUBSET DOMAIN batch
<1>1. Last \in Nat /\ DOMAIN batch = 1 .. Last /\ n \in 1 .. Last /\ n - 1 \in 0 .. Last
  BY TransactionIndexAssumption DEF BatchInv
<1>2. 1 .. n = (1 .. (n - 1)) \cup {n} /\ n \notin 1 .. (n - 1)
  BY <1>1
<1>. QED BY <1>1, <1>2 DEF Sends, Seen

LEMMA SendsCount ==
    ASSUME BatchInv, NEW n \in DOMAIN batch, NEW a
    PROVE  /\ Cardinality(Sends(a, n - 1)) \in Nat /\ Cardinality(Sends(a, n)) \in Nat
           /\ (Cardinality(Sends(a, n - 1)) = 0 <=> Sends(a, n - 1) = {})
           /\ batch[n].sender = a => Cardinality(Sends(a, n)) = Cardinality(Sends(a, n - 1)) + 1
           /\ batch[n].sender # a => Sends(a, n) = Sends(a, n - 1)
<1> DEFINE old == Sends(a, n - 1)
           new == Sends(a, n)
<1>1. /\ old \in SUBSET DOMAIN batch /\ new \in SUBSET DOMAIN batch /\ n \notin old
      /\ batch[n].sender = a => new = old \cup {n}
      /\ batch[n].sender # a => new = old
  <2>1. /\ old \in SUBSET DOMAIN batch /\ new \in SUBSET DOMAIN batch /\ n \notin old
        /\ new = old \cup (IF batch[n].sender = a THEN {n} ELSE {})
    BY SendsGrow, Zenon
  <2> HIDE DEF old, new
  <2>. QED BY <2>1
<1> HIDE DEF old, new
<1>2. /\ Cardinality(old) \in Nat /\ Cardinality(new) \in Nat /\ (Cardinality(old) = 0 <=> old = {})
      /\ Cardinality(old \cup {n}) = Cardinality(old) + 1
  BY <1>1, Counts
<1>. QED BY <1>1, <1>2 DEF old, new

\* createTransaction, of the map of the transactions before it.
LEMMA MeetEntries ==
    ASSUME BatchInv, NEW n \in DOMAIN batch
    PROVE  Meet([a \in Known(n - 1) |-> EntryOf(a, n - 1)], n) = [a \in Known(n) |-> EntryOf(a, n)]
<1> DEFINE map == [a \in Known(n - 1) |-> EntryOf(a, n - 1)]
           s == batch[n].sender
           sets == s \notin DOMAIN map \/ Nonce(n) > map[s].nonce
<1>0. s \in Accounts /\ sent[s] \in Nat /\ Recipients(n) \in SUBSET Accounts
  BY DEF BatchInv, Recipients, Named
<1>1. Known(n) = Known(n - 1) \cup {s} \cup Recipients(n)
  <2>1. ASSUME NEW a \in Accounts
        PROVE  a \in Known(n) <=> a \in Known(n - 1) \/ a = s \/ a \in Recipients(n)
    <3>1. Sends(a, n) # {} <=> Sends(a, n - 1) # {} \/ a = s
      BY SendsGrow
    <3>2. Seen(a, n) <=> Seen(a, n - 1) \/ a \in Recipients(n)
      BY SendsGrow
    <3>. QED BY <3>1, <3>2 DEF Known
  <2>. QED BY <1>0, <2>1 DEF Known
<1>2. Meet(map, n) = [a \in Known(n) |->
           IF a = s /\ sets THEN [key |-> TRUE, nonce |-> Nonce(n)]
           ELSE IF a \in Known(n - 1) THEN EntryOf(a, n - 1) ELSE Empty]
  <2>1. Meet(map, n) = [a \in Known(n - 1) \cup {s} \cup Recipients(n) |->
           IF a = s /\ sets THEN [key |-> TRUE, nonce |-> Nonce(n)]
           ELSE IF a \in Known(n - 1) THEN map[a] ELSE Empty]
    BY DEF Meet, After
  <2>. QED BY <1>1, <2>1
<1>3. ASSUME NEW a \in Known(n), a # s
      PROVE  EntryOf(a, n) = IF a \in Known(n - 1) THEN EntryOf(a, n - 1) ELSE Empty
  <2>1. Sends(a, n) = Sends(a, n - 1)
    BY <1>3, SendsCount
  <2>2. a \notin Known(n - 1) => Sends(a, n) = {}
    BY <2>1, <1>3 DEF Known
  <2>. QED BY <2>1, <2>2 DEF EntryOf, Lost
<1>4. EntryOf(s, n) = IF sets THEN [key |-> TRUE, nonce |-> Nonce(n)]
                      ELSE IF s \in Known(n - 1) THEN EntryOf(s, n - 1) ELSE Empty
  <2> DEFINE c == Cardinality(Sends(s, n - 1))
  <2>1. /\ c \in Nat /\ (c = 0 <=> Sends(s, n - 1) = {}) /\ Cardinality(Sends(s, n)) = c + 1
        /\ Sends(s, n) = Sends(s, n - 1) \cup {n}
    BY SendsCount, SendsGrow
  <2>2. Nonce(n) = sent[s] + c
    BY DEF Nonce
  <2>3. s \in Known(n - 1) <=> c # 0 \/ Seen(s, n - 1)
    BY <1>0, <2>1 DEF Known
  <2>4. Lost(s, n) <=> sent[s] = 0 /\ c = 0 /\ Seen(s, n - 1)
    <3>1. Lost(s, n) <=> sent[s] = 0 /\ c + 1 = 1 /\ \E i \in Sends(s, n) : Seen(s, i - 1)
      BY <2>1 DEF Lost
    <3>2. c = 0 => Sends(s, n) = {n}
      BY <2>1
    <3>. QED BY <2>1, <3>1, <3>2
  <2>5. EntryOf(s, n) = IF Lost(s, n) THEN Empty ELSE [key |-> TRUE, nonce |-> sent[s] + (c + 1) - 1]
    BY <2>1 DEF EntryOf
  <2>6. sent[s] + (c + 1) - 1 = Nonce(n)
    BY <1>0, <2>1, <2>2
  <2>7. s \in Known(n - 1) => map[s] = EntryOf(s, n - 1)
    OBVIOUS
  <2>8. CASE c = 0
    <3>1. EntryOf(s, n - 1) = Empty
      BY <2>1, <2>8 DEF EntryOf
    <3>2. sets <=> ~Lost(s, n)
      BY <1>0, <2>2, <2>3, <2>4, <2>7, <2>8, <3>1 DEF Empty
    <3>. QED BY <2>3, <2>4, <2>5, <2>6, <2>8, <3>1, <3>2
  <2>9. CASE c # 0
    <3>1. s \in Known(n - 1) /\ ~Lost(s, n)
      BY <2>1, <2>3, <2>4, <2>9
    <3>2. EntryOf(s, n - 1).nonce \in {0, sent[s] + c - 1}
      BY DEF EntryOf, Empty
    <3>3. Nonce(n) > EntryOf(s, n - 1).nonce
      BY <1>0, <2>1, <2>2, <2>9, <3>2
    <3>. QED BY <2>5, <2>6, <2>7, <3>1, <3>3
  <2>. QED BY <2>8, <2>9
<1> HIDE DEF sets, s
<1>5. Meet(map, n) = [a \in Known(n) |-> EntryOf(a, n)]
  BY <1>2, <1>3, <1>4
<1>. QED BY <1>5

LEMMA MetEntries ==
    ASSUME BatchInv
    PROVE  Met = [a \in All |-> Final(a)]
<1> DEFINE b == MetUpTo(Last)
           Step(g, n) == IF n = 0 THEN [x \in {} |-> Empty] ELSE Meet(g[n - 1], n)
           f == [n \in 0 .. Last |-> [a \in Known(n) |-> EntryOf(a, n)]]
<1>0. Last \in Nat /\ DOMAIN batch = 1 .. Last
  BY TransactionIndexAssumption DEF BatchInv
<1>1. ASSUME NEW n \in 0 .. Last PROVE f[n] = Step(f, n)
  <2>1. CASE n = 0
    <3>1. Known(0) = {}
      BY DEF Known, Sends, Seen
    <3>2. [a \in {} |-> EntryOf(a, 0)] = [x \in {} |-> Empty]
      OBVIOUS
    <3>. QED BY <2>1, <3>1, <3>2
  <2>2. CASE n # 0
    <3>1. n - 1 \in 0 .. Last /\ n \in DOMAIN batch
      BY <1>0, <2>2
    <3>2. f[n - 1] = [a \in Known(n - 1) |-> EntryOf(a, n - 1)]
      BY <3>1
    <3>. QED BY <2>2, <3>1, <3>2, MeetEntries
  <2>. QED BY <2>1, <2>2
<1>2. f = [n \in 0 .. Last |-> Step(f, n)]
  BY <1>1
<1>3. b = [n \in 0 .. Last |-> Step(b, n)]
  BY <1>2, Zenon DEF MetUpTo
<1> HIDE DEF b
<1>4. \A n \in 0 .. Last : b[n] = Step(b, n)
  BY <1>3, Zenon
<1>5. \A n \in 0 .. Last : f[n] = Step(f, n)
  BY <1>2, Zenon
<1> DEFINE T == {n \in 0 .. Last : b[n] # f[n]}
<1>6. ASSUME T # {} PROVE FALSE
  <2>1. T \in SUBSET Nat
    OBVIOUS
  <2>2. PICK n \in T : \A j \in T : n <= j
    BY <1>6, <2>1, Least
  <2> HIDE DEF f
  <2>3. n \in 0 .. Last
    BY <2>2
  <2>4. n # 0
    BY <1>4, <1>5, <2>2, <2>3
  <2>5. n - 1 \in 0 .. Last /\ n - 1 \notin T
    BY <1>0, <2>2, <2>3, <2>4
  <2>6. b[n - 1] = f[n - 1]
    BY <2>5
  <2>. QED BY <1>4, <1>5, <2>2, <2>3, <2>6
<1>7. b[Last] = f[Last]
  BY <1>0, <1>6
<1>8. f[Last] = [a \in All |-> Final(a)]
  BY <1>0 DEF All, Final
<1>. QED BY <1>7, <1>8 DEF b, Met

-----------------------------------------------------------------------------
(* The steps *)

\* The batch, and all that is said of it, stay as they are.
LEMMA SameBatch ==
    ASSUME BatchInv, UNCHANGED <<batch, sent>>
    PROVE  /\ BatchInv' /\ Last' = Last /\ All' = All /\ Senders' = Senders
           /\ Stakes' = Stakes /\ Filtered' = Filtered
           /\ \A a : Final(a)' = Final(a)
           /\ \A is : FeesBy(is)' = FeesBy(is)
           /\ \A i, v : Named(i, v)' <=> Named(i, v)
<1>1. Last' = Last /\ Stakes' = Stakes /\ Filtered' = Filtered
  BY DEF Last, Stakes, Filtered
<1>2. \A i, v : Named(i, v)' <=> Named(i, v)
  BY DEF Named
<1>3. \A a, n : Sends(a, n)' = Sends(a, n)
  BY DEF Sends
<1>4. \A a, n : Seen(a, n)' <=> Seen(a, n)
  BY DEF Seen, Recipients
<1>5. All' = All /\ Senders' = Senders
  BY <1>1, <1>3, <1>4 DEF All, Known, Senders
<1>6. ASSUME NEW a PROVE Final(a)' = Final(a)
  BY <1>1, <1>3, <1>4 DEF Final, EntryOf, Lost
<1>7. ASSUME NEW is PROVE FeesBy(is)' = FeesBy(is)
  BY DEF FeesBy, Of
<1>8. BatchInv'
  BY <1>1, <1>2 DEF BatchInv
<1>. QED BY <1>1, <1>2, <1>5, <1>6, <1>7, <1>8

LEMMA InitInv == Init => IInv
<1> SUFFICES ASSUME Init PROVE IInv
  OBVIOUS
<1>1. PICK n \in 0 .. MaxTxs : batch \in [1 .. n -> Tx]
  BY DEF Init
<1>2. BatchInv
  <2>1. n \in Nat /\ DOMAIN batch = 1 .. n
    BY <1>1, TransactionIndexAssumption
  <2>2. Cardinality(1 .. n) = n
    BY <2>1, FS_Interval
  <2>3. Last = n
    BY <2>1, <2>2 DEF Last
  <2>4. ASSUME NEW i \in DOMAIN batch
        PROVE  /\ batch[i].sender \in Accounts
               /\ \A v : Named(i, v) => v \in Accounts
               /\ i \in Stakes => \E v : Named(i, v)
    <3>1. PICK k \in Kinds : batch[i] \in [height : 1 .. Blocks, sender : Accounts, kind : {k}, to : Names(k)]
      BY <1>1 DEF Tx
    <3>2. PICK m \in Lengths(k) : batch[i].to \in [1 .. m -> Accounts]
      BY <3>1 DEF Names
    <3>3. batch[i].sender \in Accounts /\ batch[i].kind = k
      BY <3>1
    <3>4. \A v : Named(i, v) => v \in Accounts
      BY <3>2 DEF Named
    <3>5. ASSUME i \in Stakes PROVE \E v : Named(i, v)
      <4>1. k = "stake"
        BY <3>3, <3>5 DEF Stakes
      <4>2. 1 \in 1 .. m
        BY <3>2, <4>1 DEF Lengths
      <4>. QED BY <3>2, <4>2 DEF Named
    <3>. QED BY <3>3, <3>4, <3>5
  <2>5. sent \in [Accounts -> Nat]
    BY TransactionIndexAssumption DEF Init
  <2>. QED BY <2>1, <2>3, <2>4, <2>5 DEF BatchInv
<1>3. /\ DOMAIN table = {a \in Accounts : sent[a] > 0}
      /\ table \in [DOMAIN table -> [key : BOOLEAN, nonce : 0 .. MaxSent]]
  BY DEF Init
<1>4. TypeInv
  <2>1. table \in [DOMAIN table -> Entry]
    BY <1>3, TransactionIndexAssumption DEF Entry
  <2>. QED BY <1>3, <2>1 DEF Init, TypeInv, Pcs
<1>5. TableInv
  <2>1. \A a \in DOMAIN table : sent[a] > 0 /\ sent[a] \in Nat
    BY <1>2, <1>3 DEF BatchInv
  <2>. QED BY <2>1 DEF TableInv
<1>6. FeesInv /\ MapInv /\ RowsInv /\ StatusInv
  BY DEF Init, FeesInv, MapInv, RowsInv, StatusInv
<1>. QED BY <1>2, <1>4, <1>5, <1>6 DEF IInv

LEMMA ProcessedKeeps == IInv /\ Processed => IInv'
<1> SUFFICES ASSUME IInv, Processed PROVE IInv'
  OBVIOUS
<1>0. BatchInv /\ UNCHANGED <<batch, sent>>
  BY DEF IInv, Processed
<1>1. /\ BatchInv' /\ Last' = Last /\ All' = All /\ Senders' = Senders
      /\ Stakes' = Stakes /\ Filtered' = Filtered
      /\ \A a : Final(a)' = Final(a)
      /\ \A is : FeesBy(is)' = FeesBy(is)
      /\ \A i, v : Named(i, v)' <=> Named(i, v)
  BY <1>0, SameBatch
<1>2. /\ asked' = {p \in Stakes \X Accounts : Named(p[1], p[2])}
      /\ pc = "process" /\ pc' \in {"failed", "assets", "upsert", "lookup"}
      /\ pc' = "assets" => DOMAIN batch = {}
      /\ pc' = "upsert" \/ pc' = "assets" => Stakes = {}
      /\ UNCHANGED <<table, status, assets, updates>>
  BY DEF Processed, Named, Stakes
<1>3. TypeInv'
  BY <1>1, <1>2 DEF IInv, TypeInv, Pcs, Processed
<1>4. Gone' = DOMAIN batch \ Stakes
  <2>1. ASSUME NEW i \in DOMAIN batch PROVE i \in Stakes <=> \E p \in asked' : p[1] = i
    <3>1. ASSUME i \in Stakes PROVE \E p \in asked' : p[1] = i
      <4>1. PICK v : Named(i, v)
        BY <1>0, <3>1 DEF BatchInv
      <4>2. v \in Accounts
        BY <1>0, <4>1 DEF BatchInv
      <4>3. <<i, v>> \in asked'
        BY <1>2, <3>1, <4>1, <4>2
      <4>. QED BY <4>3
    <3>2. ASSUME NEW p \in asked', p[1] = i PROVE i \in Stakes
      BY <1>2, <3>2
    <3>. QED BY <3>1, <3>2
  <2>. QED BY <1>0, <2>1 DEF Gone
<1>5. FeesInv'
  <2>1. fees' = FeesBy(DOMAIN batch \ Stakes)
    BY <1>0, AddedSums DEF Processed
  <2>2. FeesBy(Gone)' = FeesBy(DOMAIN batch \ Stakes)
    BY <1>1, <1>4
  <2>3. pc' \notin {"process", "lookup", "failed", "stopped"} => asked' = {}
    BY <1>2
  <2>. QED BY <2>1, <2>2, <2>3 DEF FeesInv
<1>6. met' = [a \in All |-> Final(a)]
  BY <1>0, MetEntries DEF Processed
<1>7. MapInv'
  BY <1>1, <1>6 DEF MapInv
<1>8. TableInv'
  BY <1>0, <1>2 DEF IInv, TableInv
<1>9. RowsInv'
  <2>1. ASSUME DOMAIN batch = {} PROVE All = {}
    <3>1. 1 .. Last = {}
      BY <1>0, <2>1 DEF BatchInv
    <3>. QED BY <3>1 DEF All, Known, Sends, Seen
  <2>. QED BY <1>1, <1>2, <2>1 DEF RowsInv
<1>10. StatusInv'
  BY <1>1, <1>2 DEF IInv, StatusInv
<1>. QED BY <1>1, <1>3, <1>5, <1>7, <1>8, <1>9, <1>10 DEF IInv

LEMMA FoundKeeps == ASSUME IInv, NEW i, NEW v, Found(i, v) PROVE IInv'
<1>0. BatchInv /\ UNCHANGED <<batch, sent>>
  BY DEF IInv, Found
<1>1. /\ BatchInv' /\ Last' = Last /\ All' = All /\ Senders' = Senders
      /\ Stakes' = Stakes /\ Filtered' = Filtered
      /\ \A a : Final(a)' = Final(a)
      /\ \A is : FeesBy(is)' = FeesBy(is)
      /\ \A j, u : Named(j, u)' <=> Named(j, u)
  BY <1>0, SameBatch
<1>2. /\ pc = "lookup" /\ <<i, v>> \in asked /\ asked' = asked \ {<<i, v>>}
      /\ pc' = IF asked' = {} THEN "upsert" ELSE "lookup"
      /\ UNCHANGED <<table, met, status, updates>>
  BY DEF Found
<1>3. TypeInv'
  BY <1>0, <1>1, <1>2 DEF IInv, TypeInv, Pcs
<1>4. i \in DOMAIN batch /\ i \notin Gone /\ Gone \in SUBSET DOMAIN batch
  BY <1>2 DEF IInv, TypeInv, Stakes, Gone
<1>5. FeesInv'
  <2>1. fees = FeesBy(Gone)
    BY <1>2 DEF IInv, FeesInv
  <2>2. CASE \E p \in asked' : p[1] = i
    <3>1. \A j : (\E p \in asked' : p[1] = j) <=> (\E p \in asked : p[1] = j)
      BY <1>2, <2>2
    <3>2. Gone' = Gone
      BY <1>0, <3>1 DEF Gone
    <3>3. fees' = fees
      BY <2>2 DEF Found
    <3>. QED BY <1>1, <1>2, <2>1, <3>2, <3>3 DEF FeesInv
  <2>3. CASE ~ \E p \in asked' : p[1] = i
    <3>1. \A j \in DOMAIN batch : j # i => ((\E p \in asked' : p[1] = j) <=> (\E p \in asked : p[1] = j))
      BY <1>2
    <3>2. Gone' = Gone \cup {i}
      BY <1>0, <1>4, <2>3, <3>1 DEF Gone
    <3>3. fees' = FeeAdded(fees, i)
      BY <2>3 DEF Found
    <3>4. FeeAdded(FeesBy(Gone), i) = FeesBy(Gone \cup {i})
      BY <1>0, <1>4, FeeAddedSums
    <3>5. FeesBy(Gone)' = FeesBy(Gone \cup {i})
      BY <1>1, <3>2
    <3>. QED BY <1>2, <2>1, <3>3, <3>4, <3>5 DEF FeesInv
  <2>. QED BY <2>2, <2>3
<1>6. MapInv' /\ TableInv' /\ RowsInv'
  BY <1>0, <1>1, <1>2 DEF IInv, MapInv, TableInv, RowsInv, HasRow
<1>7. StatusInv'
  BY <1>1, <1>2 DEF IInv, StatusInv
<1>. QED BY <1>1, <1>3, <1>5, <1>6, <1>7 DEF IInv

\* Steps after which nothing is said of the fees and the accounts.
LEMMA Ends ==
    ASSUME IInv, pc' \in {"failed", "stopped"}, updates' = {}, pc' = "failed" => pc \notin {"done", "stopped"},
           UNCHANGED <<batch, sent, table, asked, status>>
    PROVE  IInv'
<1>1. /\ BatchInv' /\ Stakes' = Stakes /\ Filtered' = Filtered
      /\ \A j, u : Named(j, u)' <=> Named(j, u)
  BY SameBatch DEF IInv
<1>2. TypeInv'
  BY <1>1 DEF IInv, TypeInv, Pcs
<1>3. FeesInv' /\ MapInv' /\ TableInv' /\ RowsInv'
  BY DEF FeesInv, MapInv, TableInv, RowsInv
<1>4. StatusInv'
  BY <1>1 DEF IInv, StatusInv
<1>. QED BY <1>1, <1>2, <1>3, <1>4 DEF IInv

LEMMA NotFoundKeeps == ASSUME IInv, NEW i, NEW v, NotFound(i, v) PROVE IInv'
<1>1. updates = {}
  BY DEF IInv, StatusInv, NotFound
<1>. QED BY <1>1, Ends DEF NotFound

LEMMA StoppedKeeps == IInv /\ Stopped => IInv'
BY Ends DEF Stopped

LEMMA CreatedKeeps == ASSUME IInv, NEW a \in Accounts, Created(a) PROVE IInv'
<1>0. BatchInv /\ UNCHANGED <<batch, sent>>
  BY DEF IInv, Created
<1>1. /\ BatchInv' /\ Last' = Last /\ All' = All /\ Senders' = Senders
      /\ Stakes' = Stakes /\ Filtered' = Filtered
      /\ \A b : Final(b)' = Final(b)
      /\ \A is : FeesBy(is)' = FeesBy(is)
      /\ \A j, u : Named(j, u)' <=> Named(j, u)
  BY <1>0, SameBatch
<1>2. /\ DOMAIN table' = DOMAIN table \cup {a} /\ table'[a] = Empty /\ a \notin DOMAIN table
      /\ \A b \in DOMAIN table : table'[b] = table[b]
      /\ pc \in {"process", "lookup"}
      /\ UNCHANGED <<pc, met, asked, fees, status, updates>>
  BY DEF Created
<1>3. TypeInv'
  <2>1. table' \in [DOMAIN table' -> Entry]
    BY <1>2 DEF IInv, TypeInv, Created, Entry, Empty
  <2>. QED BY <1>0, <1>1, <1>2, <2>1 DEF IInv, TypeInv
<1>4. FeesInv'
  <2>1. Gone' = Gone
    BY <1>0, <1>2 DEF Gone
  <2>. QED BY <1>1, <1>2, <2>1 DEF IInv, FeesInv
<1>5. MapInv' /\ TableInv' /\ RowsInv'
  BY <1>0, <1>1, <1>2 DEF IInv, MapInv, TableInv, RowsInv, HasRow
<1>6. StatusInv'
  BY <1>1, <1>2 DEF IInv, StatusInv
<1>. QED BY <1>1, <1>3, <1>4, <1>5, <1>6 DEF IInv

LEMMA UpsertedKeeps == ASSUME IInv, NEW a \in Accounts, Upserted(a) PROVE IInv'
<1>0. BatchInv /\ UNCHANGED <<batch, sent>>
  BY DEF IInv, Upserted
<1>1. /\ BatchInv' /\ Last' = Last /\ All' = All /\ Senders' = Senders
      /\ Stakes' = Stakes /\ Filtered' = Filtered
      /\ \A b : Final(b)' = Final(b)
      /\ \A is : FeesBy(is)' = FeesBy(is)
      /\ \A j, u : Named(j, u)' <=> Named(j, u)
  BY <1>0, SameBatch
<1>2. /\ pc = "upsert" /\ a \in DOMAIN met /\ DOMAIN table' = DOMAIN table \cup {a}
      /\ table'[a] = IF met[a].key \/ a \notin DOMAIN table THEN met[a] ELSE table[a]
      /\ \A b \in DOMAIN table : b # a => table'[b] = table[b]
      /\ table' = [b \in DOMAIN table' |-> table'[b]]
      /\ DOMAIN met' = DOMAIN met \ {a} /\ \A b \in DOMAIN met' : met'[b] = met[b]
      /\ pc' = IF DOMAIN met' = {} THEN "create" ELSE "upsert"
      /\ UNCHANGED <<asked, fees, status, updates>>
  BY DEF Upserted
<1>3. a \in All /\ met[a] = Final(a)
  BY <1>2 DEF IInv, MapInv
<1>4. Final(a) \in Entry
  <2>1. sent[a] \in Nat
    BY <1>0 DEF BatchInv
  <2>2. Sends(a, Last) \in SUBSET DOMAIN batch
    BY <1>0 DEF Sends, BatchInv
  <2>3. /\ Cardinality(Sends(a, Last)) \in Nat
        /\ (Cardinality(Sends(a, Last)) = 0 <=> Sends(a, Last) = {})
    BY <1>0, <2>2, Counts
  <2>. QED BY <2>1, <2>3 DEF Final, EntryOf, Entry, Empty
<1>5. TypeInv'
  <2>1. \A b \in DOMAIN table' : table'[b] \in Entry
    BY <1>2, <1>3, <1>4 DEF IInv, TypeInv
  <2>2. table' \in [DOMAIN table' -> Entry]
    BY <1>2, <2>1
  <2>. QED BY <1>0, <1>1, <1>2, <2>2 DEF IInv, TypeInv, Pcs
<1>6. FeesInv'
  <2>1. Gone' = Gone
    BY <1>0, <1>2 DEF Gone
  <2>. QED BY <1>1, <1>2, <2>1 DEF IInv, FeesInv
<1>7. HasRow(a)'
  <2>1. ASSUME a \in Senders, ~met[a].key, a \in DOMAIN table PROVE table[a] = met[a]
    <3>1. Sends(a, Last) # {}
      BY <2>1 DEF Senders
    <3>2. Final(a) = Empty /\ sent[a] = 0
      BY <1>3, <2>1, <3>1 DEF Final, EntryOf, Lost
    <3>3. table[a] = Empty
      BY <1>2, <2>1, <3>2 DEF IInv, TableInv
    <3>. QED BY <1>3, <3>2, <3>3
  <2>. QED BY <1>1, <1>2, <1>3, <2>1 DEF HasRow
<1>8. \A b \in All \ DOMAIN met' : HasRow(b)'
  <2>1. ASSUME NEW b \in All \ DOMAIN met', b # a PROVE HasRow(b)'
    <3>1. HasRow(b)
      BY <1>2, <2>1 DEF IInv, MapInv
    <3>. QED BY <1>1, <1>2, <2>1, <3>1 DEF HasRow
  <2>. QED BY <1>7, <2>1
<1>9. MapInv' /\ RowsInv'
  BY <1>1, <1>2, <1>8 DEF IInv, MapInv, RowsInv
<1>10. TableInv'
  BY <1>0, <1>2 DEF IInv, TableInv
<1>11. StatusInv'
  BY <1>1, <1>2 DEF IInv, StatusInv
<1>. QED BY <1>1, <1>5, <1>6, <1>9, <1>10, <1>11 DEF IInv

\* The foreign keys of the transactions are met when they are written.
LEMMA RowsThere ==
    ASSUME IInv, pc = "create", NEW i \in DOMAIN batch
    PROVE  ({batch[i].sender} \cup Recipients(i)) \subseteq DOMAIN table
<1>1. BatchInv /\ i \in 1 .. Last /\ \A a \in All : a \in DOMAIN table
  BY DEF IInv, BatchInv, RowsInv, HasRow
<1>2. batch[i].sender \in All
  BY <1>1 DEF BatchInv, All, Known, Sends
<1>3. ASSUME NEW a \in Recipients(i) PROVE a \in All
  <2>1. a \in Accounts
    BY <1>1, <1>3 DEF BatchInv, Recipients, Named
  <2>2. Seen(a, Last)
    BY <1>1, <1>3 DEF Seen
  <2>. QED BY <2>1, <2>2 DEF All, Known
<1>. QED BY <1>1, <1>2, <1>3

\* The statements after the upserts leave the accounts and the fees alone.
LEMMA StatementKeeps ==
    ASSUME IInv, pc \in {"create", "assets", "events", "done"}, pc' \in {"assets", "events", "done"},
           UNCHANGED <<batch, sent, table, asked, fees>>,
           DOMAIN status' \subseteq DOMAIN batch, updates' \subseteq Filtered \cap DOMAIN status',
           status' \in [DOMAIN status' -> {"pending", "successful", "failed"}]
    PROVE  BatchInv' /\ TypeInv' /\ FeesInv' /\ MapInv' /\ TableInv' /\ RowsInv'
<1>0. BatchInv
  BY DEF IInv
<1>1. /\ BatchInv' /\ Last' = Last /\ All' = All /\ Senders' = Senders
      /\ Stakes' = Stakes /\ Filtered' = Filtered
      /\ \A b : Final(b)' = Final(b)
      /\ \A is : FeesBy(is)' = FeesBy(is)
      /\ \A j, u : Named(j, u)' <=> Named(j, u)
  BY <1>0, SameBatch
<1>2. TypeInv'
  BY <1>1 DEF IInv, TypeInv, Pcs
<1>3. FeesInv'
  <2>1. Gone' = Gone
    BY DEF Gone
  <2>. QED BY <1>1, <2>1 DEF IInv, FeesInv
<1>4. MapInv' /\ TableInv'
  BY DEF MapInv, TableInv
<1>5. RowsInv'
  BY <1>1 DEF IInv, RowsInv, HasRow
<1>. QED BY <1>1, <1>2, <1>3, <1>4, <1>5

LEMMA WrittenKeeps == IInv /\ Written => IInv'
<1> SUFFICES ASSUME IInv, Written PROVE IInv'
  OBVIOUS
<1>1. /\ pc = "create" /\ pc' = "assets" /\ status' = [i \in DOMAIN batch |-> "pending"]
      /\ UNCHANGED <<batch, sent, table, asked, fees, updates>>
  BY RowsThere DEF Written
<1>2. updates = {}
  BY <1>1 DEF IInv, StatusInv
<1>3. BatchInv' /\ TypeInv' /\ FeesInv' /\ MapInv' /\ TableInv' /\ RowsInv'
  BY <1>1, <1>2, StatementKeeps
<1>4. StatusInv'
  BY <1>1, <1>2 DEF StatusInv
<1>. QED BY <1>3, <1>4 DEF IInv

LEMMA AssetsWrittenKeeps == IInv /\ AssetsWritten => IInv'
<1> SUFFICES ASSUME IInv, AssetsWritten PROVE IInv'
  OBVIOUS
<1>1. /\ pc = "assets" /\ pc' = "events"
      /\ UNCHANGED <<batch, sent, table, asked, fees, status, updates>>
  BY DEF AssetsWritten
<1>2. BatchInv' /\ TypeInv' /\ FeesInv' /\ MapInv' /\ TableInv' /\ RowsInv'
  BY <1>1, StatementKeeps DEF IInv, TypeInv
<1>3. StatusInv'
  BY <1>1 DEF IInv, StatusInv
<1>. QED BY <1>2, <1>3 DEF IInv

LEMMA EventsWrittenKeeps == IInv /\ EventsWritten => IInv'
<1> SUFFICES ASSUME IInv, EventsWritten PROVE IInv'
  OBVIOUS
<1>1. /\ pc = "events" /\ pc' = "done" /\ updates' = Filtered /\ DOMAIN status = DOMAIN batch
      /\ UNCHANGED <<batch, sent, table, asked, fees, status>>
  BY DEF EventsWritten
<1>2. Filtered \subseteq DOMAIN status
  BY <1>1 DEF Filtered
<1>3. BatchInv' /\ TypeInv' /\ FeesInv' /\ MapInv' /\ TableInv' /\ RowsInv'
  BY <1>1, <1>2, StatementKeeps DEF IInv, TypeInv
<1>4. Filtered' = Filtered
  BY <1>1 DEF Filtered
<1>5. StatusInv'
  BY <1>1, <1>4 DEF IInv, StatusInv
<1>. QED BY <1>3, <1>5 DEF IInv

LEMMA UpdatedKeeps == ASSUME IInv, NEW i, Updated(i) PROVE IInv'
<1>1. /\ i \in updates /\ updates' = updates \ {i} /\ status' = [status EXCEPT ![i] = Result(i)]
      /\ UNCHANGED <<batch, sent, table, pc, asked, fees>>
  BY DEF Updated
<1>2. pc = "done" /\ updates \subseteq Filtered \cap DOMAIN status
  BY <1>1 DEF IInv, TypeInv, StatusInv
<1>3. /\ DOMAIN status' = DOMAIN status /\ status'[i] = Result(i)
      /\ \A j \in DOMAIN status : j # i => status'[j] = status[j]
      /\ Result(i) \in {"successful", "failed"}
      /\ status' \in [DOMAIN status' -> {"pending", "successful", "failed"}]
  BY <1>1, <1>2 DEF IInv, TypeInv, Result
<1>4. BatchInv' /\ TypeInv' /\ FeesInv' /\ MapInv' /\ TableInv' /\ RowsInv'
  BY <1>1, <1>2, <1>3, StatementKeeps DEF IInv, TypeInv
<1>5. Filtered' = Filtered /\ i \in Filtered
  BY <1>1, <1>2 DEF Filtered
<1>6. StatusInv'
  BY <1>1, <1>2, <1>3, <1>5 DEF IInv, StatusInv
<1>. QED BY <1>4, <1>6 DEF IInv

LEMMA StutterKeeps == IInv /\ UNCHANGED vars => IInv'
<1> SUFFICES ASSUME IInv, UNCHANGED vars PROVE IInv'
  OBVIOUS
<1>0. BatchInv /\ UNCHANGED <<batch, sent, table, pc, met, asked, fees, status, assets, updates>>
  BY DEF IInv, vars
<1>1. /\ BatchInv' /\ Last' = Last /\ All' = All /\ Senders' = Senders
      /\ Stakes' = Stakes /\ Filtered' = Filtered
      /\ \A b : Final(b)' = Final(b)
      /\ \A is : FeesBy(is)' = FeesBy(is)
      /\ \A j, u : Named(j, u)' <=> Named(j, u)
  BY <1>0, SameBatch
<1>2. TypeInv' /\ StatusInv'
  BY <1>0, <1>1 DEF IInv, TypeInv, StatusInv
<1>3. FeesInv'
  <2>1. Gone' = Gone
    BY <1>0 DEF Gone
  <2>. QED BY <1>0, <1>1, <2>1 DEF IInv, FeesInv
<1>4. MapInv' /\ TableInv' /\ RowsInv'
  BY <1>0, <1>1 DEF IInv, MapInv, TableInv, RowsInv, HasRow
<1>. QED BY <1>1, <1>2, <1>3, <1>4 DEF IInv

LEMMA NextInv == IInv /\ [Next]_vars => IInv'
<1> SUFFICES ASSUME IInv, [Next]_vars PROVE IInv'
  OBVIOUS
<1>1. CASE UNCHANGED vars
  BY <1>1, StutterKeeps
<1>2. CASE Processed \/ Written \/ AssetsWritten \/ EventsWritten \/ Stopped
  BY <1>2, ProcessedKeeps, WrittenKeeps, AssetsWrittenKeeps, EventsWrittenKeeps, StoppedKeeps
<1>3. ASSUME NEW i \in DOMAIN batch, Updated(i) PROVE IInv'
  BY <1>3, UpdatedKeeps
<1>4. ASSUME NEW i \in DOMAIN batch, NEW v \in Accounts, Found(i, v) \/ NotFound(i, v) PROVE IInv'
  BY <1>4, FoundKeeps, NotFoundKeeps
<1>5. ASSUME NEW a \in Accounts, Created(a) \/ Upserted(a) PROVE IInv'
  BY <1>5, CreatedKeeps, UpsertedKeeps
<1>. QED BY <1>1, <1>2, <1>3, <1>4, <1>5 DEF Next

LEMMA Invariant == Spec => []IInv
<1>. QED BY InitInv, NextInv, PTL DEF Spec

-----------------------------------------------------------------------------
(* Theorems *)

\* calcFeePerBlock adds the transactions that stake after their lookups, in any order, and
\* loses none of them: UpdateBlocksFeeCommand is given the sums of the block.
THEOREM FeesSumUp == Spec => []FeesAreSums
<1>1. ASSUME IInv, pc \in {"assets", "events", "done"}
      PROVE  fees = [h \in {batch[i].height : i \in DOMAIN batch} |->
                        [burnt |-> MinFee * Cardinality(Of(h)), fee |-> FeesOf(Of(h))]]
  <2>1. asked = {} /\ fees = FeesBy(Gone)
    BY <1>1 DEF IInv, FeesInv
  <2>2. Gone = DOMAIN batch
    BY <2>1 DEF Gone
  <2>3. \A h : DOMAIN batch \cap Of(h) = Of(h)
    BY DEF Of
  <2>4. FeesBy(DOMAIN batch) = [h \in {batch[i].height : i \in DOMAIN batch} |->
                                   [burnt |-> MinFee * Cardinality(Of(h)), fee |-> FeesOf(Of(h))]]
    BY <2>3, Zenon DEF FeesBy
  <2>. QED BY <2>1, <2>2, <2>4
<1>2. IInv => FeesAreSums
  BY <1>1 DEF FeesAreSums
<1>. QED BY <1>2, Invariant, PTL

\* When the rows of the accounts are upserted in any order, after a map in which senders and
\* recipients meet, each sender has its last nonce, and its key but in the one case.
THEOREM SendersHaveRows == Spec => []SendersKnown
<1>1. ASSUME IInv, pc = "done", NEW i \in DOMAIN batch
      PROVE  LET a    == batch[i].sender
                 Mine == Sends(a, Last)
             IN /\ table[a].nonce = sent[a] + Cardinality(Mine) - 1
                /\ table[a].key <=> ~ (Nonce(i) = 0 /\ Cardinality(Mine) = 1
                                       /\ \E j \in 1 .. i - 1 : a \in Recipients(j))
  <2> DEFINE a == batch[i].sender
             c == Cardinality(Sends(a, Last))
             d == Cardinality(Sends(a, i - 1))
  <2>1. BatchInv /\ i \in 1 .. Last /\ Last \in Nat /\ a \in Accounts /\ sent[a] \in Nat
    BY <1>1, TransactionIndexAssumption DEF IInv, BatchInv
  <2>2. i \in Sends(a, Last)
    BY <2>1 DEF Sends
  <2>3. table[a] = EntryOf(a, Last)
    BY <1>1, <2>1, <2>2 DEF IInv, RowsInv, HasRow, Senders, All, Known, Final
  <2>4. Sends(a, Last) \in SUBSET DOMAIN batch /\ Sends(a, i - 1) \in SUBSET Sends(a, Last) \ {i}
    BY <2>1 DEF Sends, BatchInv
  <2>5. c \in Nat /\ d \in Nat /\ (c = 0 <=> Sends(a, Last) = {}) /\ (d = 0 <=> Sends(a, i - 1) = {})
    BY <2>1, <2>4, Counts
  <2>6. ASSUME c = 1 PROVE Sends(a, Last) = {i}
    <3>1. PICK mine, rest : mine = Sends(a, Last) /\ rest = Sends(a, Last) \ {i}
      OBVIOUS
    <3>2. rest \in SUBSET DOMAIN batch /\ i \notin rest /\ mine = rest \cup {i}
      BY <2>2, <2>4, <3>1
    <3>3. /\ Cardinality(rest \cup {i}) = Cardinality(rest) + 1
          /\ Cardinality(rest) \in Nat /\ (Cardinality(rest) = 0 <=> rest = {})
      BY <2>1, <3>2, Counts
    <3>4. Cardinality(mine) = 1
      BY <2>6, <3>1
    <3>5. rest = {}
      BY <3>2, <3>3, <3>4
    <3>. QED BY <3>1, <3>2, <3>5
  <2>7. Nonce(i) = sent[a] + d
    BY DEF Nonce
  <2>8. Lost(a, Last) <=> Nonce(i) = 0 /\ c = 1 /\ Seen(a, i - 1)
    <3>1. CASE c = 1
      <4>1. Sends(a, Last) = {i} /\ Sends(a, i - 1) = {} /\ d = 0
        BY <2>4, <2>5, <2>6, <3>1
      <4>. QED BY <2>1, <2>7, <3>1, <4>1 DEF Lost
    <3>2. CASE c # 1
      BY <3>2 DEF Lost
    <3>. QED BY <3>1, <3>2
  <2>9. table[a].nonce = sent[a] + c - 1
    <3>1. CASE Lost(a, Last)
      BY <2>1, <2>3, <3>1 DEF EntryOf, Lost, Empty
    <3>2. CASE ~Lost(a, Last)
      BY <2>2, <2>3, <3>2 DEF EntryOf
    <3>. QED BY <3>1, <3>2
  <2>10. table[a].key <=> ~Lost(a, Last)
    BY <2>2, <2>3 DEF EntryOf, Empty
  <2>11. Seen(a, i - 1) <=> \E j \in 1 .. i - 1 : a \in Recipients(j)
    BY DEF Seen
  <2>. QED BY <2>8, <2>9, <2>10, <2>11
<1>2. IInv => SendersKnown
  BY <1>1 DEF SendersKnown
<1>. QED BY <1>2, Invariant, PTL

\* ExecutionResultCommand, which nobody awaits, writes the chain's result, and the
\* transactions that stay pending are those of modules without a gateway.
THEOREM PendingIsExplained == Spec => []PendingExplained
<1>1. IInv => PendingExplained
  BY DEF IInv, TypeInv, StatusInv, PendingExplained, Filtered
<1>. QED BY <1>1, Invariant, PTL

\* A batch fails for what cannot be decoded or for a stake on an account without a row: the
\* upserts leave no foreign key of createMany unmet.
THEOREM NoOtherFailure == Spec => FailsOnlyFor
<1>1. ASSUME IInv, [Next]_vars, pc' = "failed", pc # "failed"
      PROVE  \/ \E i \in DOMAIN batch : batch[i].kind = "unknown"
             \/ \E i \in Stakes : \E k \in DOMAIN batch[i].to : batch[i].to[k] \notin DOMAIN table
  <2>1. CASE Processed
    BY <1>1, <2>1 DEF Processed
  <2>2. CASE \E i \in DOMAIN batch, v \in Accounts : NotFound(i, v)
    <3>1. PICK i \in DOMAIN batch, v \in Accounts : NotFound(i, v)
      BY <2>2
    <3>2. i \in Stakes /\ Named(i, v) /\ v \notin DOMAIN table
      BY <1>1, <3>1 DEF NotFound, IInv, TypeInv
    <3>. QED BY <3>2 DEF Named
  <2>3. ~Written
    BY <1>1, RowsThere DEF Written
  <2>4. /\ ~AssetsWritten /\ ~EventsWritten /\ ~Stopped
        /\ \A i : ~Updated(i) /\ \A v : ~Found(i, v)
        /\ \A a : ~Created(a) /\ ~Upserted(a)
        /\ ~UNCHANGED vars
    BY <1>1 DEF AssetsWritten, EventsWritten, Stopped, Updated, Found, Created, Upserted, vars
  <2>. QED BY <1>1, <2>1, <2>2, <2>3, <2>4 DEF Next
<1>2. IInv /\ [Next]_vars =>
          [pc' = "failed" /\ pc # "failed" =>
               \/ \E i \in DOMAIN batch : batch[i].kind = "unknown"
               \/ \E i \in Stakes : \E k \in DOMAIN batch[i].to : batch[i].to[k] \notin DOMAIN table]_vars
  BY <1>1
<1>. QED BY <1>2, Invariant, PTL DEF Spec, FailsOnlyFor
=============================================================================
