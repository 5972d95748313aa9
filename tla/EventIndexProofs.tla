--------------------------- MODULE EventIndexProofs ---------------------------
(***************************************************************************)
(* Theorems about EventIndex, for any accounts, any number of blocks and   *)
(* of events, and every chain the rules of the chain allow.                *)
(***************************************************************************)
EXTENDS EventIndex, FiniteSetTheorems, WellFoundedInduction, TLAPS

-----------------------------------------------------------------------------
(* The inductive invariant *)

TypeInv ==
    /\ chain \in Seq(Event)
    /\ accounts \subseteq Accounts
    /\ pc \in {"decode", "accounts", "write", "filter", "dispatched"}
    /\ next \in Nat \ {0} /\ next <= Len(events) + 1
    /\ filtered \in Seq(Event)

\* What is known of the chain all along: an account has its row, or an event gives it one.
KnownInv ==
    \A i \in DOMAIN chain : \A k \in DOMAIN chain[i].parties :
        chain[i].parties[k] \in accounts \cup Initialised(chain)

\* How far the batch is.
StageInv ==
    /\ pc = "decode" => events = <<>>
    /\ pc # "decode" => events = chain
    /\ pc \in {"write", "filter", "dispatched"} =>
           /\ Initialised(chain) \subseteq accounts
           /\ counts = [h \in 1 .. Blocks |-> CountOf(h)]
    /\ pc \in {"filter", "dispatched"} => rows = chain
    /\ pc \notin {"filter", "dispatched"} => next = 1 /\ filtered = <<>>

\* What was seen are the pairs of the events filtered so far, of which those passed on
\* have none in common.
SeenInv == \A p : p \in seen <=> \E i \in 1 .. next - 1 : p \in PairsOf(events[i])

PassedInv ==
    /\ \A k \in DOMAIN filtered : \E i \in 1 .. next - 1 : filtered[k] = events[i]
    /\ \A j, k \in DOMAIN filtered : PairsOf(filtered[j]) \cap PairsOf(filtered[k]) # {} => j = k

\* Each staker has passed with one of them.
Passed(s, e) == \E k \in DOMAIN s : s[k].type = e.type /\ s[k].parties = e.parties
StakersInv   == \A i \in 1 .. next - 1 : events[i].type \in Staking => Passed(filtered, events[i])

\* The first event of an account that asks for a refresh decides.
FirstOf(s, a, f) == Mentions(s[f], a) /\ \A i \in 1 .. f - 1 : ~Mentions(s[i], a)
Refreshed(s, a)  == \E k \in DOMAIN s : Mentions(s[k], a)
OtherOf(e, a)    == IF e.parties[1] = a THEN e.parties[2] ELSE e.parties[1]
Behind(s, a, f)  == /\ s[f].type \in Pairs
                    /\ \/ OtherOf(s[f], a) = a
                       \/ \E j \in 1 .. f - 1 : Mentions(s[j], OtherOf(s[f], a))
FirstDecidesInv ==
    \A a \in Accounts : \A f \in 1 .. next - 1 :
        FirstOf(events, a, f) => (~Refreshed(filtered, a) <=> Behind(events, a, f))

IInv ==
    /\ TypeInv /\ KnownInv /\ StageInv /\ SeenInv /\ PassedInv
    /\ StakersInv /\ FirstDecidesInv

-----------------------------------------------------------------------------
(* The chain *)

\* A set of numbers has a least element: what is false of some number is false of a
\* first one.
LEMMA Least == ASSUME NEW T \in SUBSET Nat, T # {} PROVE \E x \in T : \A y \in T : x <= y
<1>1. PICK x \in T : \A y \in T : ~(<<y, x>> \in OpToRel(<, Nat))
  BY NatLessThanWellFounded, WFMin
<1>2. \A y \in T : ~(y < x)
  BY <1>1 DEF OpToRel
<1>. QED BY <1>2

LEMMA EventType == \A e \in Event : e.height \in 1 .. Blocks /\ e.parties \in Seq(Accounts)
<1> SUFFICES ASSUME NEW e \in Event PROVE e.height \in 1 .. Blocks /\ e.parties \in Seq(Accounts)
  OBVIOUS
<1>1. CASE e \in [type : Types \ Pairs, height : 1 .. Blocks, parties : {<<a>> : a \in Accounts}]
  <2>1. PICK a \in Accounts : e.parties = <<a>>
    BY <1>1
  <2>. QED BY <1>1, <2>1
<1>2. CASE e \in [type : Types \cap Pairs, height : 1 .. Blocks, parties : Accounts \X Accounts]
  <2>1. PICK a \in Accounts, b \in Accounts : e.parties = <<a, b>>
    BY <1>2
  <2>. QED BY <1>2, <2>1
<1>. QED BY <1>1, <1>2 DEF Event

\* The stretches of the blocks lie one behind the other.
LEMMA UpToFacts ==
    ASSUME chain \in Seq(Event)
    PROVE  /\ \A h \in 0 .. Blocks : UpTo(h) \in 0 .. Len(chain)
           /\ \A h \in 1 .. Blocks : UpTo(h - 1) <= UpTo(h)
           /\ UpTo(0) = 0 /\ UpTo(Blocks) = Len(chain)
<1> DEFINE S(h) == {i \in DOMAIN chain : chain[i].height <= h}
<1>1. \A i \in DOMAIN chain : chain[i].height \in 1 .. Blocks
  BY EventType
<1>2. IsFiniteSet(DOMAIN chain) /\ Cardinality(DOMAIN chain) = Len(chain)
  <2>1. DOMAIN chain = 1 .. Len(chain) /\ Len(chain) \in Nat
    OBVIOUS
  <2>. QED BY <2>1, FS_Interval
<1>3. \A h : IsFiniteSet(S(h)) /\ Cardinality(S(h)) <= Len(chain) /\ Cardinality(S(h)) \in Nat
  BY <1>2, FS_Subset, FS_CardinalityType
<1>4. ASSUME NEW h \in 1 .. Blocks PROVE Cardinality(S(h - 1)) <= Cardinality(S(h))
  <2>1. S(h - 1) \subseteq S(h)
    BY <1>1
  <2>. QED BY <2>1, <1>3, FS_Subset
<1>5. S(0) = {} /\ S(Blocks) = DOMAIN chain
  <2>1. \A i \in DOMAIN chain : chain[i].height <= Blocks /\ ~(chain[i].height <= 0)
    BY <1>1, EventIndexAssumption
  <2>. QED BY <2>1
<1>6. Cardinality(S(0)) = 0 /\ Cardinality(S(Blocks)) = Len(chain)
  BY <1>2, <1>5, FS_EmptySet
<1>. QED BY <1>3, <1>4, <1>6 DEF UpTo

LEMMA StretchesJoin ==
    ASSUME NEW s, s \in Seq(Event), NEW m \in 0 .. Len(s), NEW n \in m .. Len(s)
    PROVE  SubSeq(s, 1, m) \o SubSeq(s, m + 1, n) = SubSeq(s, 1, n)
OBVIOUS

\* What is decoded is the chain.
LEMMA DecodedIsChain == ASSUME chain \in Seq(Event) PROVE Decoded = chain
<1> DEFINE order == [h \in 1 .. Blocks |-> h]
           Step(g, n) == IF n = 0 THEN <<>> ELSE g[n - 1] \o Of(order[n])
           f == [n \in 0 .. Blocks |-> SubSeq(chain, 1, UpTo(n))]
           a == Flat(order)
<1>1. \A n \in 0 .. Blocks : f[n] = Step(f, n)
  <2>1. f[0] = <<>>
    BY UpToFacts, EventIndexAssumption
  <2>2. ASSUME NEW n \in 1 .. Blocks PROVE f[n] = f[n - 1] \o Of(order[n])
    <3>1. n - 1 \in 0 .. Blocks /\ n \in 0 .. Blocks
      BY EventIndexAssumption
    <3>2. UpTo(n - 1) \in 0 .. Len(chain) /\ UpTo(n) \in UpTo(n - 1) .. Len(chain)
      BY <3>1, UpToFacts
    <3>3. Of(order[n]) = SubSeq(chain, UpTo(n - 1) + 1, UpTo(n))
      BY DEF Of
    <3>. QED BY <3>1, <3>2, <3>3, StretchesJoin
  <2> HIDE DEF f
  <2> SUFFICES ASSUME NEW n \in 0 .. Blocks PROVE f[n] = Step(f, n)
    OBVIOUS
  <2>3. CASE n = 0
    BY <2>1, <2>3, Zenon
  <2>4. CASE n # 0
    <3>1. n \in 1 .. Blocks
      BY <2>4, EventIndexAssumption
    <3>. QED BY <2>2, <2>4, <3>1, Zenon
  <2>. QED BY <2>3, <2>4
<1>2. f = [n \in 0 .. Blocks |-> Step(f, n)]
  BY <1>1
<1>3. a = [n \in 0 .. Blocks |-> Step(a, n)]
  BY <1>2, Zenon DEF Flat
<1> HIDE DEF a, f
<1>4. \A n \in 0 .. Blocks : a[n] = f[n]
  <2> DEFINE T == {n \in 0 .. Blocks : a[n] # f[n]}
  <2>. SUFFICES ASSUME T # {} PROVE FALSE
    OBVIOUS
  <2>1. T \in SUBSET Nat
    OBVIOUS
  <2>2. PICK n \in T : \A k \in T : n <= k
    BY <2>1, Least
  <2>3. n = 0 \/ (n - 1 \in 0 .. Blocks /\ a[n - 1] = f[n - 1])
    BY <2>2, EventIndexAssumption
  <2>4. a[n] = Step(a, n) /\ f[n] = Step(f, n)
    BY <1>2, <1>3, <2>2
  <2>. QED BY <2>2, <2>3, <2>4
<1>5. f[Blocks] = chain
  BY UpToFacts, EventIndexAssumption DEF f
<1>. QED BY <1>4, <1>5, EventIndexAssumption DEF Decoded, a

-----------------------------------------------------------------------------
(* Events *)

LEMMA PartiesFacts ==
    ASSUME NEW e \in Event
    PROVE  /\ e.type \in Pairs => \E a, b \in Accounts : e.parties = <<a, b>>
           /\ e.type \notin Pairs => \E a \in Accounts : e.parties = <<a>>
<1>1. CASE e \in [type : Types \ Pairs, height : 1 .. Blocks, parties : {<<a>> : a \in Accounts}]
  BY <1>1
<1>2. CASE e \in [type : Types \cap Pairs, height : 1 .. Blocks, parties : Accounts \X Accounts]
  BY <1>2
<1>. QED BY <1>1, <1>2 DEF Event

\* An event stands for a refresh of the accounts it mentions, or of its staker, or of
\* nobody.
LEMMA PairsFacts ==
    ASSUME NEW e \in Event
    PROVE  /\ \A a : Mentions(e, a) <=> <<"updateAccount", a>> \in PairsOf(e)
           /\ e.type \in Staking =>
                  \A p : p \in PairsOf(e) <=> p = <<"staked", e.parties[1]>>
           /\ \A a : <<"staked", a>> \in PairsOf(e) => e.type \in Staking /\ e.parties[1] = a
           /\ e.type \in Refreshing => PairsOf(e) # {}
<1>1. CASE e.type \in Balance \cup Pairs
  <2>1. PairsOf(e) = {<<"updateAccount", e.parties[k]>> : k \in DOMAIN e.parties}
    BY <1>1 DEF PairsOf, Staking, Balance, Pairs
  <2>2. e.type \notin Staking
    BY <1>1 DEF Staking, Balance, Pairs
  <2>3. DOMAIN e.parties # {}
    BY PartiesFacts
  <2>. QED BY <1>1, <2>1, <2>2, <2>3 DEF Mentions, Refreshing
<1>2. CASE e.type \in Staking
  <2>1. PairsOf(e) = {<<e.type, e.parties[1]>>} /\ e.type = "staked"
    BY <1>2 DEF PairsOf, Staking, Balance, Pairs
  <2>2. e.type \notin Refreshing
    BY <1>2 DEF Staking, Balance, Pairs, Refreshing
  <2>. QED BY <1>2, <2>1, <2>2 DEF Mentions
<1>3. CASE e.type \notin Balance \cup Pairs \cup Staking
  <2>1. PairsOf(e) = {}
    BY <1>3 DEF PairsOf
  <2>. QED BY <1>3, <2>1 DEF Mentions, Refreshing
<1>. QED BY <1>1, <1>2, <1>3

-----------------------------------------------------------------------------
(* The steps before the filter *)

LEMMA InitInv == Init => IInv
<1> SUFFICES ASSUME Init PROVE IInv
  OBVIOUS
<1>1. chain \in Seq(Event) /\ Valid(chain, accounts)
  BY DEF Init
<1>2. TypeInv
  BY <1>1 DEF Init, TypeInv
<1>3. KnownInv
  <2> SUFFICES ASSUME NEW i \in DOMAIN chain, NEW k \in DOMAIN chain[i].parties
               PROVE  chain[i].parties[k] \in accounts \cup Initialised(chain)
    BY DEF KnownInv
  <2>1. k \in {1, 2}
    BY <1>1, PartiesFacts
  <2>2. CASE chain[i].type = "initialize"
    <3>1. k = 1
      BY <1>1, <2>2, PartiesFacts DEF Pairs
    <3>. QED BY <2>2, <3>1 DEF Initialised
  <2>3. CASE chain[i].type # "initialize"
    <3>1. \/ chain[i].parties[k] \in accounts
          \/ \E j \in 1 .. i - 1 : chain[j].type = "initialize" /\ chain[j].parties[1] = chain[i].parties[k]
      BY <1>1, <2>1, <2>3 DEF Valid
    <3>2. 1 .. i - 1 \subseteq DOMAIN chain
      BY <1>1
    <3>. QED BY <3>1, <3>2 DEF Initialised
  <2>. QED BY <2>2, <2>3
<1>4. StageInv
  BY DEF Init, StageInv
<1>5. SeenInv /\ PassedInv /\ StakersInv /\ FirstDecidesInv
  BY DEF Init, SeenInv, PassedInv, StakersInv, FirstDecidesInv
<1>. QED BY <1>2, <1>3, <1>4, <1>5 DEF IInv

\* Before the filter begins nothing is said of it.
LEMMA FilterStays ==
    ASSUME IInv, next = 1, filtered = <<>>, UNCHANGED <<seen, next, filtered>>
    PROVE  SeenInv' /\ PassedInv' /\ StakersInv' /\ FirstDecidesInv'
BY DEF IInv, SeenInv, PassedInv, StakersInv, FirstDecidesInv

LEMMA NotYetFiltering == ASSUME IInv, pc \notin {"filter", "dispatched"} PROVE next = 1 /\ filtered = <<>>
BY DEF IInv, StageInv

LEMMA AnsweredInv == ASSUME IInv, NEW h, Answered(h) PROVE IInv'
<1>1. SeenInv' /\ PassedInv' /\ StakersInv' /\ FirstDecidesInv'
  BY FilterStays, NotYetFiltering DEF Answered
<1>. QED BY <1>1 DEF Answered, IInv, TypeInv, KnownInv, StageInv, CountOf, Initialised

LEMMA AllDecodedInv == ASSUME IInv, AllDecoded PROVE IInv'
<1>1. events' = chain
  BY DecodedIsChain DEF AllDecoded, IInv, TypeInv
<1>2. SeenInv' /\ PassedInv' /\ StakersInv' /\ FirstDecidesInv'
  BY FilterStays, NotYetFiltering DEF AllDecoded
<1>3. TypeInv'
  BY <1>1, NotYetFiltering DEF AllDecoded, IInv, TypeInv
<1>. QED BY <1>1, <1>2, <1>3, NotYetFiltering DEF AllDecoded, IInv, KnownInv, StageInv, Initialised

LEMMA WriteAccountInv == ASSUME IInv, NEW a \in Accounts, WriteAccount(a) PROVE IInv'
<1>1. SeenInv' /\ PassedInv' /\ StakersInv' /\ FirstDecidesInv'
  BY FilterStays, NotYetFiltering DEF WriteAccount
<1>2. TypeInv' /\ StageInv'
  BY DEF WriteAccount, IInv, TypeInv, StageInv
<1>3. KnownInv'
  BY DEF WriteAccount, IInv, KnownInv, Initialised
<1>. QED BY <1>1, <1>2, <1>3 DEF IInv

LEMMA IndexChainEventsEndsInv == ASSUME IInv, IndexChainEventsEnds PROVE IInv'
<1>1. SeenInv' /\ PassedInv' /\ StakersInv' /\ FirstDecidesInv'
  BY FilterStays, NotYetFiltering DEF IndexChainEventsEnds
<1>2. TypeInv' /\ KnownInv'
  BY DEF IndexChainEventsEnds, IInv, TypeInv, KnownInv, Initialised
<1>3. StageInv'
  BY DEF IndexChainEventsEnds, IInv, StageInv, CountOf, Initialised, AccountsWritten
<1>. QED BY <1>1, <1>2, <1>3 DEF IInv

LEMMA WriteChainEventsInv == ASSUME IInv, WriteChainEvents PROVE IInv'
<1>1. SeenInv' /\ PassedInv' /\ StakersInv' /\ FirstDecidesInv'
  BY FilterStays, NotYetFiltering DEF WriteChainEvents
<1>2. TypeInv' /\ KnownInv'
  BY DEF WriteChainEvents, IInv, TypeInv, KnownInv, Initialised
<1>3. StageInv'
  BY DEF WriteChainEvents, IInv, StageInv, CountOf, Initialised
<1>. QED BY <1>1, <1>2, <1>3 DEF IInv

LEMMA DispatchInv == ASSUME IInv, Dispatch PROVE IInv'
<1>1. /\ UNCHANGED <<chain, answers, events, accounts, rows, counts, seen, next, filtered>>
      /\ pc = "filter" /\ pc' = "dispatched"
  BY DEF Dispatch
<1>2. TypeInv' /\ KnownInv'
  BY <1>1 DEF IInv, TypeInv, KnownInv, Initialised
<1>3. StageInv'
  BY <1>1 DEF IInv, StageInv, CountOf, Initialised
<1>4. SeenInv' /\ PassedInv' /\ StakersInv' /\ FirstDecidesInv'
  BY <1>1 DEF IInv, SeenInv, PassedInv, StakersInv, FirstDecidesInv
<1>. QED BY <1>2, <1>3, <1>4 DEF IInv

LEMMA StutterInv == ASSUME IInv, UNCHANGED vars PROVE IInv'
<1>1. UNCHANGED <<chain, answers, pc, events, accounts, rows, counts, seen, next, filtered>>
  BY DEF vars
<1>2. TypeInv' /\ KnownInv'
  BY <1>1 DEF IInv, TypeInv, KnownInv, Initialised
<1>3. StageInv'
  BY <1>1 DEF IInv, StageInv, CountOf, Initialised
<1>4. SeenInv' /\ PassedInv' /\ StakersInv' /\ FirstDecidesInv'
  BY <1>1 DEF IInv, SeenInv, PassedInv, StakersInv, FirstDecidesInv
<1>. QED BY <1>2, <1>3, <1>4 DEF IInv

-----------------------------------------------------------------------------
(* The filter *)

\* The event at hand, and what one call of the filter makes of it.
LEMMA FilterFacts ==
    ASSUME IInv, FilterNext
    PROVE  /\ events[next] \in Event /\ next \in 1 .. Len(events) /\ Len(events) \in Nat
           /\ \A i \in 1 .. next : events[i] \in Event
           /\ \A k \in DOMAIN filtered : filtered[k] \in Event
           /\ next' = next + 1 /\ 1 .. next' - 1 = (1 .. next - 1) \cup {next}
           /\ UNCHANGED <<chain, pc, events, accounts, rows, counts>>
           /\ seen' = seen \cup PairsOf(events[next])
           /\ ~Fresh(events[next]) => filtered' = filtered
           /\ Fresh(events[next]) =>
                  /\ filtered' = Append(filtered, events[next])
                  /\ DOMAIN filtered' = DOMAIN filtered \cup {Len(filtered) + 1}
                  /\ Len(filtered) + 1 \notin DOMAIN filtered
                  /\ filtered'[Len(filtered) + 1] = events[next]
                  /\ \A k \in DOMAIN filtered : filtered'[k] = filtered[k]
<1>1. events = chain /\ events \in Seq(Event)
  BY DEF IInv, TypeInv, StageInv, FilterNext
<1>2. next \in Nat /\ next \in 1 .. Len(events)
  BY <1>1 DEF IInv, TypeInv, FilterNext
<1>3. \A i \in 1 .. next : events[i] \in Event
  BY <1>1, <1>2
<1>4. filtered \in Seq(Event)
  BY DEF IInv, TypeInv
<1>5. /\ filtered' = IF Fresh(events[next]) THEN Append(filtered, events[next]) ELSE filtered
      /\ seen' = Marked(events[next]) /\ next' = next + 1
      /\ UNCHANGED <<chain, answers, pc, events, accounts, rows, counts>>
  BY DEF FilterNext
<1>. QED BY <1>1, <1>2, <1>3, <1>4, <1>5 DEF Marked

\* An event passes if none of its pairs was seen.
LEMMA FreshFacts ==
    ASSUME NEW e \in Event
    PROVE  /\ Fresh(e) => PairsOf(e) \cap seen = {}
           /\ e.type \in Staking => (Fresh(e) <=> <<"staked", e.parties[1]>> \notin seen)
           /\ e.type \in Refreshing =>
                  \A a : Mentions(e, a) =>
                      (Fresh(e) <=> /\ <<"updateAccount", a>> \notin seen
                                    /\ e.type \in Pairs => /\ OtherOf(e, a) # a
                                                           /\ <<"updateAccount", OtherOf(e, a)>> \notin seen)
<1>1. Fresh(e) => PairsOf(e) \cap seen = {}
  BY DEF Fresh
<1>2. ASSUME e.type \in Staking PROVE Fresh(e) <=> <<"staked", e.parties[1]>> \notin seen
  <2>1. e.type \notin Dropped /\ e.type \notin Pairs
    BY <1>2 DEF Staking, Dropped, Pairs
  <2>. QED BY <1>2, <2>1, PairsFacts DEF Fresh
<1>3. ASSUME e.type \in Refreshing, NEW a, Mentions(e, a)
      PROVE  Fresh(e) <=> /\ <<"updateAccount", a>> \notin seen
                          /\ e.type \in Pairs => /\ OtherOf(e, a) # a
                                                 /\ <<"updateAccount", OtherOf(e, a)>> \notin seen
  <2>1. e.type \notin Dropped
    BY <1>3 DEF Refreshing, Balance, Pairs, Dropped
  <2>2. PairsOf(e) = {<<"updateAccount", e.parties[k]>> : k \in DOMAIN e.parties}
    BY <1>3 DEF PairsOf, Refreshing, Balance, Pairs, Staking
  <2>3. CASE e.type \in Pairs
    <3>1. PICK x \in Accounts, y \in Accounts : e.parties = <<x, y>>
      BY <2>3, PartiesFacts
    <3>2. PairsOf(e) = {<<"updateAccount", x>>, <<"updateAccount", y>>}
      BY <2>2, <3>1
    <3>3. a = x \/ a = y
      BY <1>3, <3>1 DEF Mentions
    <3>. QED BY <2>1, <2>3, <3>1, <3>2, <3>3 DEF Fresh, OtherOf
  <2>4. CASE e.type \notin Pairs
    <3>1. PICK x \in Accounts : e.parties = <<x>>
      BY <2>4, PartiesFacts
    <3>2. PairsOf(e) = {<<"updateAccount", x>>} /\ a = x
      BY <1>3, <2>2, <3>1 DEF Mentions
    <3>. QED BY <2>1, <2>4, <3>2 DEF Fresh
  <2>. QED BY <2>3, <2>4
<1>. QED BY <1>1, <1>2, <1>3

LEMMA FilterSeen == ASSUME IInv, FilterNext PROVE SeenInv'
<1> SUFFICES ASSUME NEW p PROVE p \in seen' <=> \E i \in 1 .. next' - 1 : p \in PairsOf(events'[i])
  BY DEF SeenInv, PairsOf
<1>1. p \in seen <=> \E i \in 1 .. next - 1 : p \in PairsOf(events[i])
  BY DEF IInv, SeenInv
<1>. QED BY <1>1, FilterFacts

\* What passes has no pair in common with what passed before.
LEMMA FilterPassed == ASSUME IInv, FilterNext PROVE PassedInv'
<1> DEFINE e == events[next]
           n == Len(filtered) + 1
<1>0. /\ \A k \in DOMAIN filtered : \E i \in 1 .. next - 1 : filtered[k] = events[i]
      /\ \A j, k \in DOMAIN filtered : PairsOf(filtered[j]) \cap PairsOf(filtered[k]) # {} => j = k
  BY DEF IInv, PassedInv
<1>1. CASE ~Fresh(e)
  <2>1. filtered' = filtered /\ events' = events /\ 1 .. next - 1 \subseteq 1 .. next' - 1
    BY <1>1, FilterFacts
  <2>. QED BY <1>0, <2>1 DEF PassedInv, PairsOf
<1>2. CASE Fresh(e)
  <2>1. \A k \in DOMAIN filtered : PairsOf(filtered[k]) \subseteq seen
    BY <1>0 DEF IInv, SeenInv
  <2>2. PairsOf(e) \cap seen = {}
    BY <1>2, FreshFacts, FilterFacts
  <2>3. \A k \in DOMAIN filtered : PairsOf(filtered[k]) \cap PairsOf(e) = {}
    BY <2>1, <2>2
  <2>4. /\ DOMAIN filtered' = DOMAIN filtered \cup {n} /\ n \notin DOMAIN filtered
        /\ filtered'[n] = e /\ \A k \in DOMAIN filtered : filtered'[k] = filtered[k]
        /\ events' = events
        /\ 1 .. next' - 1 = (1 .. next - 1) \cup {next}
    BY <1>2, FilterFacts
  <2>5. \A k \in DOMAIN filtered' : \E i \in 1 .. next' - 1 : filtered'[k] = events'[i]
    BY <1>0, <2>4
  <2>6. ASSUME NEW j \in DOMAIN filtered', NEW k \in DOMAIN filtered',
               PairsOf(filtered'[j]) \cap PairsOf(filtered'[k]) # {}
        PROVE  j = k
    BY <1>0, <2>3, <2>4, <2>6
  <2>. QED BY <2>5, <2>6 DEF PassedInv, PairsOf
<1>. QED BY <1>1, <1>2

\* A staker who does not pass was seen with an event that did.
LEMMA FilterStakers == ASSUME IInv, FilterNext PROVE StakersInv'
<1> DEFINE e == events[next]
           n == Len(filtered) + 1
<1>1. ASSUME NEW x, Passed(filtered, x) PROVE Passed(filtered', x)
  <2>1. PICK k \in DOMAIN filtered : filtered[k].type = x.type /\ filtered[k].parties = x.parties
    BY <1>1 DEF Passed
  <2>2. k \in DOMAIN filtered' /\ filtered'[k] = filtered[k]
    BY FilterFacts
  <2>. QED BY <2>1, <2>2 DEF Passed
<1>2. ASSUME e.type \in Staking PROVE Passed(filtered', e)
  <2>1. CASE Fresh(e)
    <3>1. n \in DOMAIN filtered' /\ filtered'[n] = e
      BY <2>1, FilterFacts
    <3>. QED BY <3>1 DEF Passed
  <2>2. CASE ~Fresh(e)
    <3>1. <<"staked", e.parties[1]>> \in seen
      BY <1>2, <2>2, FreshFacts, FilterFacts
    <3>2. PICK i \in 1 .. next - 1 : <<"staked", e.parties[1]>> \in PairsOf(events[i])
      BY <3>1 DEF IInv, SeenInv
    <3>3. events[i] \in Event
      BY FilterFacts
    <3>4. events[i].type \in Staking /\ events[i].parties[1] = e.parties[1]
      BY <3>2, <3>3, PairsFacts
    <3>5. events[i].type = "staked" /\ e.type = "staked"
      BY <1>2, <3>4 DEF Staking
    <3>6. PICK x \in Accounts : events[i].parties = <<x>>
      BY <3>3, <3>5, PartiesFacts DEF Pairs
    <3>7. PICK y \in Accounts : e.parties = <<y>>
      BY <3>5, PartiesFacts, FilterFacts DEF Pairs
    <3>8. events[i].parties = e.parties
      BY <3>4, <3>6, <3>7
    <3>9. Passed(filtered, events[i])
      BY <3>4 DEF IInv, StakersInv
    <3>. QED BY <1>1, <3>5, <3>8, <3>9 DEF Passed
  <2>. QED BY <2>1, <2>2
<1> SUFFICES ASSUME NEW i \in 1 .. next' - 1, events'[i].type \in Staking
             PROVE  Passed(filtered', events'[i])
  BY DEF StakersInv, Staking
<1>3. events' = events
  BY FilterFacts
<1>4. i \in 1 .. next - 1 => Passed(filtered, events[i])
  BY <1>3 DEF IInv, StakersInv
<1>5. i \in 1 .. next - 1 \/ i = next
  BY FilterFacts
<1>. QED BY <1>1, <1>2, <1>3, <1>4, <1>5

\* An account that was mentioned before is passed over; of one that was not, the event
\* at hand is the first, and nothing has refreshed it yet.
LEMMA FilterFirst == ASSUME IInv, FilterNext PROVE FirstDecidesInv'
<1> DEFINE e == events[next]
           n == Len(filtered) + 1
<1> SUFFICES ASSUME NEW a \in Accounts, NEW f \in 1 .. next' - 1, FirstOf(events, a, f)
             PROVE  ~Refreshed(filtered', a) <=> Behind(events, a, f)
  BY FilterFacts DEF FirstDecidesInv
<1>1. e \in Event /\ f \in Nat /\ next \in Nat /\ (f \in 1 .. next - 1 \/ f = next)
  BY FilterFacts DEF IInv, TypeInv
<1>2. \A x : <<"updateAccount", x>> \in seen <=> \E i \in 1 .. next - 1 : Mentions(events[i], x)
  <2>1. \A i \in 1 .. next - 1 : events[i] \in Event
    BY FilterFacts
  <2>. QED BY <2>1, PairsFacts DEF IInv, SeenInv
<1>3. Refreshed(filtered', a) <=> Refreshed(filtered, a) \/ (Fresh(e) /\ Mentions(e, a))
  <2>1. CASE Fresh(e)
    <3>1. /\ DOMAIN filtered' = DOMAIN filtered \cup {n} /\ filtered'[n] = e
          /\ \A k \in DOMAIN filtered : filtered'[k] = filtered[k]
      BY <2>1, FilterFacts
    <3> HIDE DEF e, n
    <3>. QED BY <2>1, <3>1 DEF Refreshed
  <2>2. CASE ~Fresh(e)
    BY <2>2, FilterFacts
  <2>. QED BY <2>1, <2>2
<1>4. CASE f \in 1 .. next - 1
  <2>1. ~Refreshed(filtered, a) <=> Behind(events, a, f)
    BY <1>4 DEF IInv, FirstDecidesInv
  <2>2. <<"updateAccount", a>> \in seen
    BY <1>2, <1>4 DEF FirstOf
  <2>3. ~(Fresh(e) /\ Mentions(e, a))
    BY <1>1, <2>2, PairsFacts, FreshFacts
  <2>. QED BY <1>3, <2>1, <2>3
<1>5. CASE f = next
  <2>1. Mentions(e, a) /\ <<"updateAccount", a>> \notin seen
    BY <1>2, <1>5 DEF FirstOf
  <2>2. ~Refreshed(filtered, a)
    <3>1. \A k \in DOMAIN filtered : \E i \in 1 .. next - 1 : filtered[k] = events[i]
      BY DEF IInv, PassedInv
    <3>2. \A i \in 1 .. next - 1 : ~Mentions(events[i], a)
      BY <1>5 DEF FirstOf
    <3>. QED BY <3>1, <3>2 DEF Refreshed
  <2>3. Fresh(e) <=> /\ <<"updateAccount", a>> \notin seen
                     /\ e.type \in Pairs => /\ OtherOf(e, a) # a
                                            /\ <<"updateAccount", OtherOf(e, a)>> \notin seen
    BY <1>1, <2>1, FreshFacts DEF Mentions
  <2>4. Behind(events, a, f) <=>
            /\ e.type \in Pairs
            /\ OtherOf(e, a) = a \/ <<"updateAccount", OtherOf(e, a)>> \in seen
    BY <1>2, <1>5 DEF Behind
  <2>. QED BY <1>3, <2>1, <2>2, <2>3, <2>4
<1>. QED BY <1>1, <1>4, <1>5

LEMMA FilterNextInv == ASSUME IInv, FilterNext PROVE IInv'
<1>1. TypeInv'
  <2>1. next' \in Nat \ {0} /\ next' <= Len(events') + 1
    BY FilterFacts
  <2>2. filtered' \in Seq(Event)
    BY FilterFacts DEF IInv, TypeInv
  <2>. QED BY <2>1, <2>2, FilterFacts DEF IInv, TypeInv
<1>2. KnownInv'
  BY FilterFacts DEF IInv, KnownInv, Initialised
<1>3. StageInv'
  BY FilterFacts DEF IInv, StageInv, CountOf, Initialised, FilterNext
<1>. QED BY <1>1, <1>2, <1>3, FilterSeen, FilterPassed, FilterStakers, FilterFirst DEF IInv

LEMMA NextInv == ASSUME IInv, [Next]_vars PROVE IInv'
BY AnsweredInv, AllDecodedInv, WriteAccountInv, IndexChainEventsEndsInv, WriteChainEventsInv,
   FilterNextInv, DispatchInv, StutterInv DEF Next

LEMMA Invariant == Spec => []IInv
BY InitInv, NextInv, PTL DEF Spec

-----------------------------------------------------------------------------
(* The theorems *)

\* In whatever order the node answers chain_getEvents, the rows of ChainEvents are the
\* chain's events in its order, and a block's numberOfEvents is the number of its rows.
THEOREM RowsFollowTheChain == Spec => []RowsAreTheChain
<1>1. IInv => RowsAreTheChain
  BY DEF IInv, StageInv, RowsAreTheChain, CountOf
<1>. QED BY <1>1, Invariant, PTL

\* Every account of an event that writeAndProcessChainEvents dispatches has its row.
THEOREM RowsBeforeDispatch == Spec => []DispatchedHaveRows
<1>1. ASSUME IInv, NEW i \in DOMAIN filtered, NEW k \in DOMAIN filtered[i].parties
      PROVE  filtered[i].parties[k] \in accounts
  <2>1. PICK j \in 1 .. next - 1 : filtered[i] = events[j]
    BY <1>1 DEF IInv, PassedInv
  <2>2. pc \in {"filter", "dispatched"} /\ events = chain /\ Initialised(chain) \subseteq accounts
    BY <1>1 DEF IInv, StageInv
  <2>3. j \in DOMAIN chain
    BY <1>1, <2>2 DEF IInv, TypeInv
  <2>. QED BY <1>1, <2>1, <2>2, <2>3 DEF IInv, KnownInv
<1>2. IInv => DispatchedHaveRows
  BY <1>1 DEF DispatchedHaveRows
<1>. QED BY <1>2, Invariant, PTL

\* The filters let through one refresh of an account, and exactly one of each staker.
THEOREM RefreshesAreSingle == Spec => []RefreshedOnce
<1>1. ASSUME IInv PROVE RefreshedOnce
  <2>1. \A k \in DOMAIN filtered : filtered[k] \in Event
    BY <1>1 DEF IInv, TypeInv
  <2>2. \A i, j \in DOMAIN filtered : PairsOf(filtered[i]) \cap PairsOf(filtered[j]) # {} => i = j
    BY <1>1 DEF IInv, PassedInv
  <2>3. ASSUME NEW a \in Accounts, NEW i \in DOMAIN filtered, NEW j \in DOMAIN filtered,
               Mentions(filtered[i], a), Mentions(filtered[j], a)
        PROVE  i = j
    <3>1. /\ <<"updateAccount", a>> \in PairsOf(filtered[i])
          /\ <<"updateAccount", a>> \in PairsOf(filtered[j])
      BY <2>1, <2>3, PairsFacts
    <3>. QED BY <2>2, <3>1
  <2>4. ASSUME NEW i \in 1 .. next - 1, events[i].type \in Staking
        PROVE  \E k \in DOMAIN filtered :
                   /\ filtered[k].type = events[i].type
                   /\ filtered[k].parties = events[i].parties
                   /\ \A m \in DOMAIN filtered :
                          filtered[m].type = events[i].type /\ filtered[m].parties = events[i].parties => m = k
    <3>1. PICK k \in DOMAIN filtered :
              filtered[k].type = events[i].type /\ filtered[k].parties = events[i].parties
      BY <1>1, <2>4 DEF IInv, StakersInv, Passed
    <3>2. ASSUME NEW m \in DOMAIN filtered,
                 filtered[m].type = events[i].type, filtered[m].parties = events[i].parties
          PROVE  m = k
      <4>1. /\ <<"staked", events[i].parties[1]>> \in PairsOf(filtered[m])
            /\ <<"staked", events[i].parties[1]>> \in PairsOf(filtered[k])
        BY <2>1, <2>4, <3>1, <3>2, PairsFacts
      <4>. QED BY <2>2, <4>1
    <3>. QED BY <3>1, <3>2
  <2>. QED BY <2>3, <2>4 DEF RefreshedOnce
<1>. QED BY <1>1, Invariant, PTL

\* Of the accounts with events in a batch the filters leave out exactly those whose first
\* event is a transfer with a party seen before, or with themselves (filterHelper).
THEOREM OnlyThoseAreLeftOut == Spec => []LeftOutBehindSeenParty
<1>1. ASSUME IInv PROVE LeftOutBehindSeenParty
  <2> SUFFICES ASSUME NEW a \in Accounts
               PROVE  LET mine == {i \in 1 .. next - 1 : Mentions(events[i], a)}
                          f    == CHOOSE i \in mine : \A j \in mine : i <= j
                      IN mine # {} => (~Refreshed(filtered, a) <=> Behind(events, a, f))
    BY DEF LeftOutBehindSeenParty, OtherOf, Refreshed, Behind
  <2> DEFINE mine == {i \in 1 .. next - 1 : Mentions(events[i], a)}
             f    == CHOOSE i \in mine : \A j \in mine : i <= j
  <2> SUFFICES ASSUME mine # {} PROVE ~Refreshed(filtered, a) <=> Behind(events, a, f)
    OBVIOUS
  <2>1. mine \in SUBSET Nat
    BY DEF IInv, TypeInv
  <2>2. \E i \in mine : \A j \in mine : i <= j
    BY <2>1, Least
  <2>3. f \in mine /\ \A j \in mine : f <= j
    BY <2>2
  <2>4. FirstOf(events, a, f)
    <3>1. f \in 1 .. next - 1 /\ next \in Nat /\ Mentions(events[f], a)
      BY <1>1, <2>3 DEF IInv, TypeInv
    <3>2. ASSUME NEW i \in 1 .. f - 1 PROVE ~Mentions(events[i], a)
      <4>1. i \in 1 .. next - 1 /\ ~(f <= i)
        BY <3>1
      <4>. QED BY <2>3, <4>1
    <3>. QED BY <3>1, <3>2 DEF FirstOf
  <2>. QED BY <1>1, <2>3, <2>4 DEF IInv, FirstDecidesInv
<1>. QED BY <1>1, Invariant, PTL
=============================================================================
