---------------------------- MODULE GatewayProofs ----------------------------
(***************************************************************************)
(* Theorems about the parts of Gateway, each under the name of its         *)
(* instance: S is Startup, R is Requests, C is NodeCaches, L is            *)
(* ListQueries, V is ValidatorQueries. A behaviour is one of the part it   *)
(* picked, and keeps that part's invariant.                                *)
(***************************************************************************)
EXTENDS Gateway, FiniteSetTheorems, TLAPS

-----------------------------------------------------------------------------
(* Startup: any genesis accounts, any known names and any number of boots *)

Modules == {"token", "pos", "random"}
Row     == [name : {"none", "validator", "known"}, balance : BOOLEAN]

Handling == {"asset", "users", "balances", "names", "known", "knownNames"}
Working  == Handling \cup {"genesis", "clash"}

StartupTypeInv ==
    /\ env \in [dev : BOOLEAN, known : {"off", "on", "unknown"}]
    /\ assets \in S!Orders
    /\ pc \in {"down", "nodeInfo", "pointer", "create", "up"} \cup Working
    /\ todo \in Seq(Modules) /\ S!IsInjective(todo)
    /\ pointer \in BOOLEAN /\ first \in BOOLEAN /\ lost \in BOOLEAN /\ early \in BOOLEAN
    /\ account \in [DOMAIN account -> Row]
    /\ state \in {"START_UP", "RESTART", "SYNCING"}

\* The start-up commands run in the boot that created the row of the pointer, on a
\* database that has only what announced blocks wrote.
FirstInv ==
    /\ pc \in Working => first /\ pointer
    /\ pc \in {"nodeInfo", "pointer"} => first = ~pointer
    /\ pc = "create" => first /\ ~pointer
    /\ pc = "up" => pointer
    /\ ~pointer => /\ DOMAIN account \subseteq S!Wrote("account")
                   /\ validator \subseteq S!Wrote("validator")
                   /\ \A a \in DOMAIN account \ S!Wrote("name") : account[a].name = "none"

\* The state is not START_UP any more only where a block was announced that late.
StateInv ==
    /\ pc \in {"nodeInfo", "pointer"} => state = "START_UP"
    /\ pc = "create" => state = "START_UP" \/ early

ToCome(module) == module \in S!Range(todo)

\* The token asset comes first, each asset once.
StartupOrderInv ==
    pc \in Handling =>
        /\ ToCome("token") => pc = "asset" /\ todo[1] = "token" /\ ToCome("pos")
        /\ pc = "users" => ToCome("pos")
        /\ pc = "names" => ~ToCome("pos")
        /\ pc \in {"known", "knownNames"} => ~ToCome("token") /\ ~ToCome("pos")

\* Before the users are created only announced blocks have written accounts.
UsersInv ==
    /\ pc \in {"genesis", "users"} \/ (pc = "asset" /\ ToCome("token")) =>
           DOMAIN account \subseteq S!Wrote("account")
    /\ pc \in Handling /\ pc # "users" /\ ~ToCome("token") => Users \subseteq DOMAIN account

\* Accounts left are those of the step at hand.
LeftInv ==
    /\ pc = "names" => left \subseteq Pos
    /\ pc = "knownNames" => left \subseteq KnownNames

PosDone == pc \in Handling \ {"users", "names"} /\ ~ToCome("pos")

\* The name that an account has by now.
NameOf(a) ==
    IF pc = "knownNames" /\ a \in KnownNames \ left THEN "known"
    ELSE IF a \in Pos /\ (PosDone \/ (pc = "names" /\ a \notin left)) THEN "validator"
    ELSE "none"

\* What the boot has written by now.
WrittenInv ==
    pc \in Handling \cup {"genesis"} =>
        /\ validator \subseteq S!Wrote("validator") \cup IF PosDone THEN Pos ELSE {}
        /\ PosDone => Pos \subseteq validator /\ Pos \subseteq DOMAIN account
        /\ pc = "names" => Pos \ left \subseteq DOMAIN account
        /\ pc \in {"known", "knownNames"} => Generator \in DOMAIN account
        /\ pc = "knownNames" => env.known = "on" /\ KnownNames \ left \subseteq DOMAIN account
        /\ \A a \in DOMAIN account \ S!Wrote("name") : account[a].name = NameOf(a)

\* What a whole first boot leaves behind.
Complete ==
    /\ Users \cup Pos \cup {Generator} \subseteq DOMAIN account
    /\ Pos \subseteq validator /\ validator \ Pos \subseteq S!Wrote("validator")
    /\ env.known = "on" => KnownNames \subseteq DOMAIN account
    /\ \A a \in DOMAIN account \ S!Wrote("name") :
           account[a].name = IF env.known = "on" /\ a \in KnownNames THEN "known"
                             ELSE IF a \in Pos THEN "validator" ELSE "none"

CompleteInv == pc \notin Working /\ pointer /\ ~lost /\ ~early => Complete

StartupInv ==
    /\ StartupTypeInv /\ FirstInv /\ StateInv /\ StartupOrderInv /\ UsersInv /\ LeftInv /\ WrittenInv
    /\ CompleteInv /\ S!ClashNeedsOther

-----------------------------------------------------------------------------
(* Lemmas about the helpers *)

\* The token asset is moved to the front, and none is lost.
LEMMA SortedFacts ==
    ASSUME assets \in S!Orders
    PROVE  /\ S!Sorted \in Seq(Modules) /\ S!IsInjective(S!Sorted)
           /\ S!Sorted[1] = "token" /\ S!Range(S!Sorted) = Modules
<1> DEFINE at == CHOOSE i \in 1 .. 3 : assets[i] = "token"
<1>1. /\ assets[1] \in Modules /\ assets[2] \in Modules /\ assets[3] \in Modules
      /\ assets[1] # assets[2] /\ assets[1] # assets[3] /\ assets[2] # assets[3]
  BY DEF S!Orders, S!IsInjective, Modules
<1>2. \E i \in 1 .. 3 : assets[i] = "token"
  BY <1>1 DEF Modules
<1>3. at \in 1 .. 3 /\ assets[at] = "token"
  BY <1>2
<1>4. S!Sorted = [i \in 1 .. 3 |-> IF i = 1 THEN "token"
                                 ELSE IF i <= at THEN assets[i - 1] ELSE assets[i]]
  BY DEF S!Sorted
<1> HIDE DEF at
<1>5. /\ S!Sorted[1] = "token"
      /\ S!Sorted[2] = IF at = 1 THEN assets[2] ELSE assets[1]
      /\ S!Sorted[3] = IF at = 3 THEN assets[2] ELSE assets[3]
      /\ DOMAIN S!Sorted = 1 .. 3
  BY <1>3, <1>4
<1>6. /\ S!Sorted[2] \in {"pos", "random"} /\ S!Sorted[3] \in {"pos", "random"}
      /\ S!Sorted[2] # S!Sorted[3]
  BY <1>1, <1>3, <1>5 DEF Modules
<1>7. S!Sorted \in [1 .. 3 -> Modules]
  BY <1>4, <1>5, <1>6 DEF Modules
<1>8. S!Sorted \in Seq(Modules)
  <2>1. 3 \in Nat
    OBVIOUS
  <2>2. Seq(Modules) = UNION {[1 .. n -> Modules] : n \in Nat}
    OBVIOUS
  <2>. QED BY <1>7, <2>1, <2>2
<1>9. S!IsInjective(S!Sorted)
  BY <1>5, <1>6 DEF S!IsInjective
<1>10. S!Range(S!Sorted) = Modules
  BY <1>5, <1>6 DEF S!Range, Modules
<1>. QED BY <1>5, <1>8, <1>9, <1>10

\* The asset that is taken does not come again, the others do.
LEMMA TakenFacts ==
    ASSUME todo \in Seq(Modules), S!IsInjective(todo), todo # <<>>
    PROVE  /\ Tail(todo) \in Seq(Modules) /\ S!IsInjective(Tail(todo))
           /\ Head(todo) = todo[1] /\ Head(todo) \in Modules
           /\ S!Range(Tail(todo)) = S!Range(todo) \ {Head(todo)}
<1> DEFINE n == Len(todo)
<1>1. /\ n \in Nat \ {0} /\ DOMAIN todo = 1 .. n /\ Head(todo) = todo[1]
      /\ \A i \in 1 .. n : todo[i] \in Modules
      /\ Tail(todo) \in Seq(Modules) /\ Len(Tail(todo)) = n - 1
      /\ DOMAIN Tail(todo) = 1 .. (n - 1)
      /\ \A i \in 1 .. (n - 1) : Tail(todo)[i] = todo[i + 1]
  OBVIOUS
<1>2. S!IsInjective(Tail(todo))
  <2> SUFFICES ASSUME NEW i \in 1 .. (n - 1), NEW j \in 1 .. (n - 1),
                      Tail(todo)[i] = Tail(todo)[j]
               PROVE  i = j
    BY <1>1 DEF S!IsInjective
  <2>1. i + 1 \in 1 .. n /\ j + 1 \in 1 .. n /\ todo[i + 1] = todo[j + 1]
    BY <1>1
  <2>2. i + 1 = j + 1
    BY <1>1, <2>1 DEF S!IsInjective
  <2>. QED BY <2>2
<1>3. ASSUME NEW x \in S!Range(Tail(todo)) PROVE x \in S!Range(todo) /\ x # Head(todo)
  <2>1. PICK i \in 1 .. (n - 1) : x = todo[i + 1]
    BY <1>1, <1>3 DEF S!Range
  <2>2. i + 1 \in 1 .. n /\ 1 \in 1 .. n /\ i + 1 # 1
    BY <1>1
  <2>3. todo[i + 1] # todo[1]
    BY <1>1, <2>2 DEF S!IsInjective
  <2>. QED BY <1>1, <2>1, <2>2, <2>3 DEF S!Range
<1>4. ASSUME NEW x \in S!Range(todo), x # Head(todo) PROVE x \in S!Range(Tail(todo))
  <2>1. PICK i \in 1 .. n : x = todo[i]
    BY <1>1, <1>4 DEF S!Range
  <2>2. i - 1 \in 1 .. (n - 1) /\ (i - 1) + 1 = i
    BY <1>1, <1>4, <2>1
  <2>. QED BY <1>1, <2>1, <2>2 DEF S!Range
<1>. QED BY <1>1, <1>2, <1>3, <1>4

\* Nothing is to come of an empty list.
LEMMA NothingToCome == ASSUME todo = <<>> PROVE ~ToCome("token") /\ ~ToCome("pos")
BY DEF ToCome, S!Range

\* An account is named whether it is there or not, the others stay.
LEMMA NamedFacts ==
    ASSUME account \in [DOMAIN account -> Row], NEW a, NEW name \in {"validator", "known"}
    PROVE  /\ DOMAIN S!Named(a, name) = DOMAIN account \cup {a}
           /\ S!Named(a, name) \in [DOMAIN S!Named(a, name) -> Row]
           /\ S!Named(a, name)[a].name = name
           /\ \A b \in DOMAIN account : b # a => S!Named(a, name)[b] = account[b]
<1>1. CASE a \in DOMAIN account
  <2>1. account[a] \in Row
    BY <1>1
  <2>2. [account[a] EXCEPT !.name = name] \in Row /\ [account[a] EXCEPT !.name = name].name = name
    BY <2>1 DEF Row
  <2>3. S!Named(a, name) = [account EXCEPT ![a] = [account[a] EXCEPT !.name = name]]
    BY <1>1 DEF S!Named
  <2>. QED BY <1>1, <2>2, <2>3
<1>2. CASE a \notin DOMAIN account
  <2>1. [S!NoName EXCEPT !.name = name] \in Row /\ [S!NoName EXCEPT !.name = name].name = name
    BY DEF S!NoName, Row
  <2>2. S!Named(a, name) = S!Created({a}, [S!NoName EXCEPT !.name = name])
    BY <1>2 DEF S!Named
  <2> DEFINE given == [S!NoName EXCEPT !.name = name]
             new == S!Created({a}, given)
  <2>3. /\ DOMAIN new = DOMAIN account \cup {a} /\ new \in [DOMAIN new -> Row]
        /\ \A b \in DOMAIN account : new[b] = account[b]
        /\ \A b \in {a} \ DOMAIN account : new[b] = given
    BY <2>1 DEF S!Created
  <2>4. new[a] = given /\ given.name = name
    BY <1>2, <2>1, <2>3
  <2> HIDE DEF new, given
  <2>5. new[a].name = name
    BY <2>4
  <2>. QED BY <2>2, <2>3, <2>5 DEF new, given
<1>. QED BY <1>1, <1>2

LEMMA NoNameType == S!NoName \in Row /\ S!NoName.name = "none"
BY DEF S!NoName, Row

-----------------------------------------------------------------------------
(* The invariant holds at first *)

LEMMA StartupInitInv == S!Init => StartupInv
<1> SUFFICES ASSUME S!Init PROVE StartupInv
  OBVIOUS
<1>1. DOMAIN account = {} /\ account \in [DOMAIN account -> Row]
  BY DEF S!Init
<1>2. StartupTypeInv
  <2>1. todo \in Seq(Modules) /\ S!IsInjective(todo)
    BY DEF S!Init, S!IsInjective
  <2>. QED BY <1>1, <2>1 DEF S!Init, StartupTypeInv
<1>3. FirstInv /\ StateInv /\ StartupOrderInv /\ UsersInv /\ LeftInv /\ WrittenInv /\ CompleteInv /\ S!ClashNeedsOther
  BY <1>1 DEF S!Init, FirstInv, StateInv, StartupOrderInv, UsersInv, LeftInv, WrittenInv, CompleteInv,
       S!ClashNeedsOther, Handling, Working
<1>. QED BY <1>2, <1>3 DEF StartupInv

-----------------------------------------------------------------------------
(* Starting and ending *)

LEMMA StartedInv == ASSUME StartupInv, S!Started PROVE StartupInv'
<1>1. /\ pc = "down" /\ pc' = "nodeInfo" /\ first' = ~pointer' /\ state' = "START_UP"
      /\ lost' = (lost /\ pointer') /\ early' = (early /\ pointer')
      /\ UNCHANGED <<env, assets, todo, left>>
  BY DEF S!Started
<1>2. StateInv'
  BY <1>1 DEF StateInv
<1>3. CASE env.dev
  <2>1. pointer' = FALSE /\ account' = <<>> /\ DOMAIN account' = {} /\ validator' = {}
    BY <1>3 DEF S!Started
  <2>2. account' \in [DOMAIN account' -> Row]
    BY <2>1
  <2>3. StartupTypeInv'
    BY <1>1, <2>1, <2>2 DEF StartupInv, StartupTypeInv
  <2>4. FirstInv' /\ CompleteInv'
    BY <1>1, <2>1 DEF FirstInv, CompleteInv, Working, Handling
  <2>. QED BY <1>1, <1>2, <2>3, <2>4 DEF StartupInv, LeftInv, StartupOrderInv, UsersInv, WrittenInv,
       S!ClashNeedsOther, Handling
<1>4. CASE ~env.dev
  <2>1. UNCHANGED <<pointer, account, validator, others>>
    BY <1>4 DEF S!Started
  <2>2. StartupTypeInv'
    BY <1>1, <2>1 DEF StartupInv, StartupTypeInv
  <2>3. FirstInv'
    BY <1>1, <2>1 DEF StartupInv, FirstInv, Working, Handling, S!Wrote
  <2>4. CompleteInv'
    BY <1>1, <2>1 DEF StartupInv, CompleteInv, Complete, Working, Handling, S!Wrote
  <2>. QED BY <1>1, <1>2, <2>2, <2>3, <2>4 DEF StartupInv, LeftInv, StartupOrderInv, UsersInv, WrittenInv,
       S!ClashNeedsOther, Handling
<1>. QED BY <1>3, <1>4

LEMMA DiesInv == ASSUME StartupInv, S!Dies PROVE StartupInv'
<1>1. /\ pc # "down" /\ pc' = "down" /\ lost' = (lost \/ (first /\ pointer /\ pc # "up"))
      /\ UNCHANGED <<env, assets, todo, left, pointer, account, validator, first, state, early, others>>
  BY DEF S!Dies
<1>2. StartupTypeInv'
  BY <1>1 DEF StartupInv, StartupTypeInv
<1>3. FirstInv'
  BY <1>1 DEF StartupInv, FirstInv, Working, Handling, S!Wrote
<1>4. CompleteInv'
  BY <1>1 DEF StartupInv, FirstInv, CompleteInv, Complete, Working, Handling, S!Wrote
<1>. QED BY <1>1, <1>2, <1>3, <1>4 DEF StartupInv, StateInv, LeftInv, StartupOrderInv, UsersInv, WrittenInv,
     S!ClashNeedsOther, Handling

-----------------------------------------------------------------------------
(* Announced blocks *)

LEMMA AnnouncedInv == ASSUME StartupInv, S!Announced PROVE StartupInv'
<1>1. /\ pc \notin {"down", "clash", "up"} /\ early' = (early \/ pc = "create")
      /\ state' \in CASE pc \in {"nodeInfo", "pointer"} -> {state}
                       [] pc = "create"               -> {"SYNCING"}
                       [] OTHER                       -> {state, "SYNCING"}
      /\ UNCHANGED <<env, assets, pc, todo, left, pointer, account, validator, first, lost, others>>
  BY DEF S!Announced, S!Booting
<1>2. StateInv' /\ state' \in {state, "SYNCING"}
  <2>1. CASE pc \in {"nodeInfo", "pointer"}
    BY <1>1, <2>1 DEF StartupInv, StateInv
  <2>2. CASE pc = "create"
    BY <1>1, <2>2 DEF StateInv
  <2>3. CASE pc \notin {"nodeInfo", "pointer", "create"}
    BY <1>1, <2>3 DEF StateInv
  <2>. QED BY <2>1, <2>2, <2>3
<1>3. StartupTypeInv'
  BY <1>1, <1>2 DEF StartupInv, StartupTypeInv
<1>4. FirstInv'
  BY <1>1 DEF StartupInv, FirstInv, S!Wrote
<1>5. CompleteInv'
  BY <1>1 DEF StartupInv, FirstInv, CompleteInv, Complete, S!Wrote
<1>6. StartupOrderInv' /\ UsersInv' /\ LeftInv'
  BY <1>1 DEF StartupInv, StartupOrderInv, UsersInv, LeftInv, ToCome, S!Wrote
<1>7. WrittenInv'
  BY <1>1 DEF StartupInv, WrittenInv, PosDone, NameOf, ToCome, S!Wrote
<1>. QED BY <1>1, <1>2, <1>3, <1>4, <1>5, <1>6, <1>7 DEF S!ClashNeedsOther, StartupInv

\* What else an announced block leads to adds accounts, names and validators, and
\* each is in the history.
Grows ==
    /\ S!Booting
    /\ UNCHANGED <<env, assets, pc, todo, left, pointer, first, lost, state, early>>
    /\ others \subseteq others'
    /\ DOMAIN account \subseteq DOMAIN account' /\ account' \in [DOMAIN account' -> Row]
    /\ DOMAIN account' \ DOMAIN account \subseteq S!Wrote("account")'
    /\ \A a \in DOMAIN account \ S!Wrote("name")' : account'[a].name = account[a].name
    /\ \A a \in DOMAIN account' \ (DOMAIN account \cup S!Wrote("name")') : account'[a].name = "none"
    /\ validator \subseteq validator' /\ validator' \ validator \subseteq S!Wrote("validator")'

LEMMA GrowsInv == ASSUME StartupInv, Grows PROVE StartupInv'
<1>1. /\ pc \notin {"down", "clash", "up"}
      /\ UNCHANGED <<env, assets, pc, todo, left, pointer, first, lost, state, early>>
  BY DEF Grows, S!Booting
<1>2. \A what : S!Wrote(what) \subseteq S!Wrote(what)'
  BY DEF Grows, S!Wrote
<1>3. StartupTypeInv' /\ StateInv' /\ LeftInv' /\ S!ClashNeedsOther'
  BY <1>1 DEF Grows, StartupInv, StartupTypeInv, StateInv, LeftInv, S!ClashNeedsOther
<1>4. FirstInv'
  <2>1. ASSUME ~pointer PROVE DOMAIN account' \subseteq S!Wrote("account")'
    BY <1>2, <2>1 DEF Grows, StartupInv, FirstInv
  <2>2. ASSUME ~pointer PROVE validator' \subseteq S!Wrote("validator")'
    BY <1>2, <2>2 DEF Grows, StartupInv, FirstInv
  <2>3. ASSUME ~pointer, NEW a \in DOMAIN account' \ S!Wrote("name")' PROVE account'[a].name = "none"
    BY <1>2, <2>3 DEF Grows, StartupInv, FirstInv
  <2>. QED BY <1>1, <2>1, <2>2, <2>3 DEF StartupInv, FirstInv
<1>5. StartupOrderInv'
  BY <1>1 DEF StartupInv, StartupOrderInv, ToCome
<1>6. UsersInv'
  <2>1. ToCome("token")' = ToCome("token")
    BY <1>1 DEF ToCome
  <2>2. DOMAIN account \subseteq S!Wrote("account") => DOMAIN account' \subseteq S!Wrote("account")'
    BY <1>2 DEF Grows
  <2>. QED BY <1>1, <2>1, <2>2 DEF Grows, StartupInv, UsersInv
<1>7. WrittenInv'
  <2>1. PosDone' = PosDone /\ \A b : NameOf(b)' = NameOf(b)
    BY <1>1 DEF PosDone, NameOf, ToCome
  <2>2. ASSUME pc \in Handling \cup {"genesis"}, NEW b \in DOMAIN account' \ S!Wrote("name")'
        PROVE  account'[b].name = NameOf(b)
    <3>1. CASE b \in DOMAIN account
      BY <1>2, <2>2, <3>1 DEF Grows, StartupInv, WrittenInv
    <3>2. CASE b \notin DOMAIN account
      <4>1. NameOf(b) = "none"
        BY <2>2, <3>2 DEF StartupInv, WrittenInv, NameOf
      <4>. QED BY <2>2, <3>2, <4>1 DEF Grows
    <3>. QED BY <3>1, <3>2
  <2>3. pc \in Handling \cup {"genesis"} =>
           validator' \subseteq S!Wrote("validator")' \cup IF PosDone THEN Pos ELSE {}
    BY <1>2 DEF Grows, StartupInv, WrittenInv
  <2>. QED BY <1>1, <2>1, <2>2, <2>3 DEF Grows, StartupInv, WrittenInv
<1>8. CompleteInv'
  <2> SUFFICES ASSUME pc \notin Working, pointer, ~lost, ~early PROVE Complete'
    BY <1>1 DEF CompleteInv
  <2>1. Complete
    BY DEF StartupInv, CompleteInv
  <2>2. ASSUME NEW b \in DOMAIN account' \ S!Wrote("name")'
        PROVE  account'[b].name = IF env.known = "on" /\ b \in KnownNames THEN "known"
                                  ELSE IF b \in Pos THEN "validator" ELSE "none"
    <3>1. CASE b \in DOMAIN account
      BY <1>2, <2>1, <2>2, <3>1 DEF Grows, Complete
    <3>2. CASE b \notin DOMAIN account
      BY <2>1, <2>2, <3>2 DEF Grows, Complete
    <3>. QED BY <3>1, <3>2
  <2>3. validator' \ Pos \subseteq S!Wrote("validator")'
    BY <1>2, <2>1 DEF Grows, Complete
  <2>. QED BY <1>1, <2>1, <2>2, <2>3 DEF Grows, Complete
<1>. QED BY <1>3, <1>4, <1>5, <1>6, <1>7, <1>8 DEF StartupInv

\* What is written of an address is in the history.
LEMMA WritesFacts ==
    ASSUME NEW what, NEW a \in Touched, S!Writes(what, a)
    PROVE  /\ S!Booting /\ others \subseteq others'
           /\ UNCHANGED <<env, assets, pc, todo, left, pointer, first, lost, state, early>>
           /\ \A w \in what : a \in S!Wrote(w)'
<1>1. /\ S!Booting /\ others' = others \cup {<<w, a>> : w \in what}
      /\ UNCHANGED <<env, assets, pc, todo, left, pointer, first, lost, state, early>>
  BY DEF S!Writes
<1>2. \A w \in what : <<w, a>> \in others'
  BY <1>1
<1>3. \A w \in what : a \in S!Wrote(w)'
  BY <1>2 DEF S!Wrote
<1>. QED BY <1>1, <1>3

LEMMA AccountInitialisedInv == ASSUME StartupInv, NEW a \in Touched, S!AccountInitialised(a) PROVE StartupInv'
<1>1. /\ S!Writes({"account"}, a) /\ account' = S!Created({a}, S!NoName) /\ a \notin DOMAIN account
      /\ UNCHANGED validator
  BY DEF S!AccountInitialised
<1>2. account \in [DOMAIN account -> Row]
  BY DEF StartupInv, StartupTypeInv
<1>3. /\ DOMAIN account' = DOMAIN account \cup {a} /\ account' \in [DOMAIN account' -> Row]
      /\ \A b \in DOMAIN account : account'[b] = account[b]
      /\ account'[a].name = "none"
  <2>1. /\ DOMAIN account' = DOMAIN account \cup {a} /\ account' \in [DOMAIN account' -> Row]
        /\ \A b \in DOMAIN account : account'[b] = account[b]
        /\ \A b \in {a} \ DOMAIN account : account'[b] = S!NoName
    BY <1>1, <1>2, NoNameType DEF S!Created
  <2>. QED BY <1>1, <2>1, NoNameType
<1>4. /\ S!Booting /\ others \subseteq others' /\ a \in S!Wrote("account")'
      /\ UNCHANGED <<env, assets, pc, todo, left, pointer, first, lost, state, early>>
  BY <1>1, WritesFacts
<1>5. Grows
  BY <1>1, <1>3, <1>4 DEF Grows
<1>. QED BY <1>5, GrowsInv

LEMMA GeneratorWrittenInv == ASSUME StartupInv, NEW a \in Touched, S!GeneratorWritten(a) PROVE StartupInv'
<1>1. /\ S!Writes({"validator"}, a) /\ validator' = validator \cup {a}
      /\ UNCHANGED account
  BY DEF S!GeneratorWritten
<1>2. account \in [DOMAIN account -> Row]
  BY DEF StartupInv, StartupTypeInv
<1>3. /\ S!Booting /\ others \subseteq others' /\ a \in S!Wrote("validator")'
      /\ UNCHANGED <<env, assets, pc, todo, left, pointer, first, lost, state, early>>
  BY <1>1, WritesFacts
<1>4. Grows
  BY <1>1, <1>2, <1>3 DEF Grows
<1>. QED BY <1>4, GrowsInv

LEMMA CommandNamesInv == ASSUME StartupInv, NEW a \in Touched, S!CommandNames(a) PROVE StartupInv'
<1> DEFINE what == {"name"} \cup IF a \in DOMAIN account THEN {} ELSE {"account"}
<1>1. S!Writes(what, a) /\ account' = S!Named(a, "validator") /\ UNCHANGED validator
  BY DEF S!CommandNames
<1>2. /\ DOMAIN account' = DOMAIN account \cup {a} /\ account' \in [DOMAIN account' -> Row]
      /\ \A b \in DOMAIN account : b # a => account'[b] = account[b]
  <2>1. account \in [DOMAIN account -> Row]
    BY DEF StartupInv, StartupTypeInv
  <2>2. "validator" \in {"validator", "known"}
    OBVIOUS
  <2>. QED BY <1>1, <2>1, <2>2, NamedFacts
<1>3. a \in S!Wrote("name")' /\ (a \notin DOMAIN account => a \in S!Wrote("account")')
  BY <1>1, WritesFacts
<1>4. /\ S!Booting /\ others \subseteq others'
      /\ UNCHANGED <<env, assets, pc, todo, left, pointer, first, lost, state, early>>
  BY <1>1, WritesFacts
<1>5. Grows
  BY <1>1, <1>2, <1>3, <1>4 DEF Grows
<1>. QED BY <1>5, GrowsInv

LEMMA CommandCreatesInv == ASSUME StartupInv, NEW a \in Touched, S!CommandCreates(a) PROVE StartupInv'
<1>1. /\ S!Writes({"validator"}, a) /\ validator' = validator \cup {a}
      /\ UNCHANGED account
  BY DEF S!CommandCreates
<1>2. account \in [DOMAIN account -> Row]
  BY DEF StartupInv, StartupTypeInv
<1>3. /\ S!Booting /\ others \subseteq others' /\ a \in S!Wrote("validator")'
      /\ UNCHANGED <<env, assets, pc, todo, left, pointer, first, lost, state, early>>
  BY <1>1, WritesFacts
<1>4. Grows
  BY <1>1, <1>2, <1>3 DEF Grows
<1>. QED BY <1>4, GrowsInv

\* A command that reads, or ends without an effect, writes nothing.
LEMMA CommandStepInv ==
    ASSUME StartupInv, S!CommandFails \/ \E a \in Touched : S!CommandReads(a) PROVE StartupInv'
<1>1. UNCHANGED <<env, assets, pc, todo, left, pointer, account, validator, first, lost, state, early, others>>
  BY DEF S!CommandFails, S!CommandReads
<1>2. StateInv' /\ LeftInv' /\ S!ClashNeedsOther'
  BY <1>1 DEF StartupInv, StateInv, LeftInv, S!ClashNeedsOther, S!Wrote
<1>7. StartupTypeInv'
  BY <1>1 DEF StartupInv, StartupTypeInv
<1>3. FirstInv'
  BY <1>1 DEF StartupInv, FirstInv, S!Wrote
<1>4. StartupOrderInv' /\ UsersInv'
  BY <1>1 DEF StartupInv, StartupOrderInv, UsersInv, ToCome, S!Wrote
<1>5. WrittenInv'
  BY <1>1 DEF StartupInv, WrittenInv, PosDone, NameOf, ToCome, S!Wrote
<1>6. CompleteInv'
  BY <1>1 DEF StartupInv, CompleteInv, Complete, S!Wrote
<1>. QED BY <1>2, <1>3, <1>4, <1>5, <1>6, <1>7 DEF StartupInv

-----------------------------------------------------------------------------
(* The pointer *)

LEMMA StartupNodeInfoSetInv == ASSUME StartupInv, S!NodeInfoSet PROVE StartupInv'
<1>1. /\ pc = "nodeInfo" /\ pc' = "pointer"
      /\ UNCHANGED <<env, assets, todo, left, pointer, account, validator, first, lost, state, early, others>>
  BY DEF S!NodeInfoSet, S!events
<1>2. StartupTypeInv'
  BY <1>1 DEF StartupInv, StartupTypeInv
<1>3. FirstInv' /\ StateInv'
  BY <1>1 DEF StateInv, StartupInv, FirstInv, Working, Handling, S!Wrote
<1>4. CompleteInv'
  BY <1>1 DEF StartupInv, CompleteInv, Complete, Working, Handling, S!Wrote
<1>. QED BY <1>1, <1>2, <1>3, <1>4 DEF StartupInv, LeftInv, StartupOrderInv, UsersInv, WrittenInv,
     S!ClashNeedsOther, Handling, S!Wrote

LEMMA PointerFoundInv == ASSUME StartupInv, S!PointerFound PROVE StartupInv'
<1>1. /\ pc = "pointer"
      /\ pointer => state' = "RESTART" /\ pc' = "up"
      /\ ~pointer => pc' = "create" /\ UNCHANGED state
      /\ UNCHANGED <<env, assets, todo, left, pointer, account, validator, first, lost, early, others>>
  BY DEF S!PointerFound
<1>2. StartupTypeInv'
  BY <1>1 DEF StartupInv, StartupTypeInv, Working
<1>3. FirstInv' /\ StateInv'
  BY <1>1 DEF StartupInv, FirstInv, StateInv, Working, Handling, S!Wrote
<1>4. CompleteInv'
  BY <1>1 DEF StartupInv, CompleteInv, Complete, Working, Handling, S!Wrote
<1>. QED BY <1>1, <1>2, <1>3, <1>4 DEF StartupInv, LeftInv, StartupOrderInv, UsersInv, WrittenInv,
     S!ClashNeedsOther, Handling

\* Without start-up commands a block was announced while the row was created.
LEMMA PointerCreatedInv == ASSUME StartupInv, S!PointerCreated PROVE StartupInv'
<1>1. /\ pc = "create" /\ pointer' = TRUE
      /\ pc' = IF state = "START_UP" THEN "genesis" ELSE "up"
      /\ UNCHANGED <<env, assets, todo, left, account, validator, first, lost, state, early, others>>
  BY DEF S!PointerCreated, S!events
<1>2. StartupTypeInv'
  BY <1>1 DEF StartupInv, StartupTypeInv, Working
<1>3. FirstInv' /\ StateInv'
  BY <1>1 DEF StartupInv, FirstInv, StateInv, Working, Handling
<1>4. CompleteInv'
  BY <1>1 DEF StartupInv, StateInv, CompleteInv, Working, Handling
<1>5. /\ DOMAIN account \subseteq S!Wrote("account") /\ validator \subseteq S!Wrote("validator")
      /\ \A a \in DOMAIN account \ S!Wrote("name") : account[a].name = "none"
  BY <1>1 DEF StartupInv, FirstInv
<1>6. \A what : S!Wrote(what)' = S!Wrote(what)
  BY <1>1 DEF S!Wrote
<1>7. UsersInv' /\ WrittenInv'
  BY <1>1, <1>5, <1>6 DEF UsersInv, WrittenInv, PosDone, NameOf, Handling
<1>. QED BY <1>1, <1>2, <1>3, <1>4, <1>7 DEF StartupInv, LeftInv, StartupOrderInv, S!ClashNeedsOther, Handling

-----------------------------------------------------------------------------
(* The genesis assets *)

LEMMA GenesisFetchedInv == ASSUME StartupInv, S!GenesisFetched PROVE StartupInv'
<1>1. /\ pc = "genesis" /\ pc' = "asset" /\ todo' = S!Sorted
      /\ UNCHANGED <<env, assets, left, pointer, account, validator, first, lost, state, early, others>>
  BY DEF S!GenesisFetched, S!events
<1>2. /\ todo' \in Seq(Modules) /\ S!IsInjective(todo') /\ todo'[1] = "token"
      /\ S!Range(todo') = Modules
  BY <1>1, SortedFacts DEF StartupInv, StartupTypeInv
<1>3. StartupTypeInv'
  BY <1>1, <1>2 DEF StartupInv, StartupTypeInv, Working, Handling
<1>4. FirstInv' /\ StateInv' /\ CompleteInv'
  BY <1>1 DEF StateInv, StartupInv, FirstInv, CompleteInv, Working, Handling, S!Wrote
<1>5. ToCome("token")' /\ ToCome("pos")'
  BY <1>2 DEF ToCome, Modules
<1>6. StartupOrderInv' /\ UsersInv'
  BY <1>1, <1>2, <1>5 DEF StartupInv, StartupOrderInv, UsersInv, S!Wrote
<1>7. WrittenInv'
  BY <1>1, <1>5 DEF StartupInv, WrittenInv, PosDone, NameOf, Handling, S!Wrote
<1>. QED BY <1>1, <1>3, <1>4, <1>6, <1>7 DEF StartupInv, LeftInv, S!ClashNeedsOther, S!Wrote

\* Every asset was handled: the generator's account is upserted.
LEMMA GeneratorInv == ASSUME StartupInv, S!AssetTaken, todo = <<>> PROVE StartupInv'
<1>1. /\ pc = "asset" /\ pc' = "known" /\ account' = S!Created({Generator}, S!NoName)
      /\ UNCHANGED <<env, assets, todo, left, pointer, validator, first, lost, state, early, others>>
  BY DEF S!AssetTaken, S!events
<1>2. /\ DOMAIN account' = DOMAIN account \cup {Generator} /\ account' \in [DOMAIN account' -> Row]
      /\ \A b \in DOMAIN account : account'[b] = account[b]
      /\ \A b \in {Generator} \ DOMAIN account : account'[b].name = "none"
  <2>1. account \in [DOMAIN account -> Row]
    BY DEF StartupInv, StartupTypeInv
  <2>. QED BY <1>1, <2>1, NoNameType DEF S!Created
<1>3. ~ToCome("token") /\ ~ToCome("pos")
  BY NothingToCome
<1>4. ToCome("token")' = ToCome("token") /\ ToCome("pos")' = ToCome("pos")
  BY <1>1 DEF ToCome
<1>5. StartupTypeInv'
  BY <1>1, <1>2 DEF StartupInv, StartupTypeInv, Working, Handling
<1>6. FirstInv' /\ StateInv' /\ CompleteInv'
  BY <1>1 DEF StateInv, StartupInv, FirstInv, CompleteInv, Working, Handling, S!Wrote
<1>7. StartupOrderInv' /\ UsersInv'
  BY <1>1, <1>2, <1>3, <1>4 DEF StartupInv, StartupOrderInv, UsersInv, Handling, S!Wrote
<1>8. WrittenInv'
  <2>1. PosDone /\ PosDone' /\ pc \in Handling \cup {"genesis"}
    BY <1>1, <1>3, <1>4 DEF PosDone, Handling
  <2>2. \A b : NameOf(b)' = NameOf(b)
    BY <1>1, <2>1 DEF NameOf
  <2>3. Pos \subseteq DOMAIN account /\ Pos \subseteq validator /\ validator \subseteq S!Wrote("validator") \cup Pos
    BY <2>1 DEF StartupInv, WrittenInv, S!Wrote
  <2>4. ASSUME NEW b \in DOMAIN account' \ S!Wrote("name") PROVE account'[b].name = NameOf(b)'
    <3>1. CASE b \in DOMAIN account
      BY <1>2, <2>1, <2>2, <3>1 DEF StartupInv, WrittenInv, S!Wrote
    <3>2. CASE b \notin DOMAIN account
      <4>1. b \notin Pos /\ pc' # "knownNames"
        BY <1>1, <2>3, <3>2
      <4>. QED BY <1>2, <3>2, <4>1 DEF NameOf
    <3>. QED BY <3>1, <3>2
  <2>. QED BY <1>1, <1>2, <2>1, <2>3, <2>4 DEF WrittenInv, S!Wrote
<1>. QED BY <1>1, <1>5, <1>6, <1>7, <1>8 DEF StartupInv, LeftInv, S!ClashNeedsOther, S!Wrote

LEMMA AssetTakenInv == ASSUME StartupInv, S!AssetTaken, todo # <<>> PROVE StartupInv'
<1>0. PICK head : head = todo[1]
  OBVIOUS
<1>1. /\ pc = "asset" /\ todo' = Tail(todo)
      /\ pc' = CASE Head(todo) = "token" -> "users" [] Head(todo) = "pos" -> "names" [] OTHER -> "asset"
      /\ left' = IF Head(todo) = "pos" THEN Pos ELSE left
      /\ UNCHANGED <<env, assets, account, pointer, validator, first, lost, state, early, others>>
  BY DEF S!AssetTaken, S!events
<1>2. /\ todo' \in Seq(Modules) /\ S!IsInjective(todo')
      /\ head \in Modules /\ S!Range(todo') = S!Range(todo) \ {head} /\ Head(todo) = head
  <2>1. todo \in Seq(Modules) /\ S!IsInjective(todo)
    BY DEF StartupInv, StartupTypeInv
  <2>. QED BY <1>0, <1>1, <2>1, TakenFacts
<1>3. head \in S!Range(todo)
  <2>1. todo \in Seq(Modules) /\ 1 \in DOMAIN todo
    BY DEF StartupInv, StartupTypeInv
  <2>. QED BY <1>0, <2>1 DEF S!Range
<1>4. /\ ToCome(head) /\ ~ToCome(head)'
      /\ \A m \in Modules : m # head => (ToCome(m)' <=> ToCome(m))
  BY <1>2, <1>3 DEF ToCome
<1>5. ~ToCome("token")'
  <2>1. CASE head = "token"
    BY <1>4, <2>1
  <2>2. CASE head # "token"
    <3>1. ~ToCome("token")
      BY <1>0, <1>1, <2>2 DEF StartupInv, StartupOrderInv, Handling
    <3>. QED BY <1>4, <2>2, <3>1 DEF Modules
  <2>. QED BY <2>1, <2>2
<1>6. pc' \in {"users", "names", "asset"}
  BY <1>1
<1>7. StartupTypeInv'
  BY <1>1, <1>2, <1>6 DEF StartupInv, StartupTypeInv, Working, Handling
<1>8. FirstInv' /\ StateInv' /\ CompleteInv'
  BY <1>1, <1>6 DEF StateInv, StartupInv, FirstInv, CompleteInv, Working, Handling, S!Wrote
<1>9. StartupOrderInv'
  <2>1. CASE head = "token"
    <3>1. pc' = "users"
      BY <1>1, <1>2, <2>1
    <3>2. ToCome("pos")
      BY <1>1, <1>4, <2>1 DEF StartupInv, StartupOrderInv, Handling
    <3>. QED BY <1>4, <1>5, <2>1, <3>1, <3>2 DEF StartupOrderInv, Modules
  <2>2. CASE head = "pos"
    BY <1>1, <1>2, <1>4, <1>5, <2>2 DEF StartupOrderInv
  <2>3. CASE head = "random"
    BY <1>1, <1>2, <1>5, <2>3 DEF StartupOrderInv
  <2>. QED BY <1>2, <2>1, <2>2, <2>3 DEF Modules
<1>10. UsersInv'
  <2>1. CASE head = "token"
    BY <1>1, <1>2, <1>4, <1>5, <2>1 DEF StartupInv, UsersInv, S!Wrote
  <2>2. CASE head # "token"
    <3>1. ~ToCome("token")
      BY <1>0, <1>1, <2>2 DEF StartupInv, StartupOrderInv, Handling
    <3>2. pc' # "users" /\ pc' # "genesis"
      BY <1>1, <1>2, <2>2
    <3>. QED BY <1>1, <1>5, <3>1, <3>2 DEF StartupInv, LeftInv, UsersInv, Handling, S!Wrote
  <2>. QED BY <2>1, <2>2
<1>11. WrittenInv'
  <2>1. PosDone' = PosDone /\ pc # "names" /\ pc' \notin {"known", "knownNames"}
    <3>1. CASE head = "token"
      <4>1. ToCome("pos")
        BY <1>1, <1>4, <3>1 DEF StartupInv, StartupOrderInv, Handling
      <4>. QED BY <1>1, <1>2, <3>1, <4>1 DEF PosDone
    <3>2. CASE head = "pos"
      BY <1>1, <1>2, <1>4, <3>2 DEF PosDone
    <3>3. CASE head = "random"
      BY <1>1, <1>2, <1>4, <3>3 DEF PosDone, Modules, Handling
    <3>. QED BY <1>1, <1>2, <1>6, <3>1, <3>2, <3>3 DEF Modules
  <2>2. pc' = "names" => left' = Pos
    BY <1>1, <1>2
  <2>3. \A b : NameOf(b)' = NameOf(b)
    BY <1>1, <1>6, <2>1, <2>2 DEF NameOf
  <2>4. \A b \in DOMAIN account' \ S!Wrote("name") : account'[b].name = NameOf(b)'
    BY <1>1, <2>3 DEF StartupInv, WrittenInv, Handling, S!Wrote
  <2>. QED BY <1>1, <2>1, <2>2, <2>4 DEF StartupInv, LeftInv, WrittenInv, Handling, S!Wrote
<1>. QED BY <1>1, <1>6, <1>7, <1>8, <1>9, <1>10, <1>11 DEF StartupInv, LeftInv, S!ClashNeedsOther, S!Wrote

\* The users' statement fails only on an account that an announced block wrote.
LEMMA UsersCreatedInv == ASSUME StartupInv, S!UsersCreated PROVE StartupInv'
<1>1. /\ pc = "users"
      /\ UNCHANGED <<env, assets, pointer, first, lost, state, early, others>>
  BY DEF S!UsersCreated, S!events
<1>2. DOMAIN account \subseteq S!Wrote("account") /\ ToCome("pos") /\ ~ToCome("token")
  BY <1>1 DEF StartupInv, UsersInv, StartupOrderInv, Handling, S!Wrote
<1>3. CASE Users \cap DOMAIN account # {}
  <2>1. pc' = "clash" /\ UNCHANGED <<todo, left, account, validator>>
    BY <1>3 DEF S!UsersCreated, S!Clash
  <2>2. S!Wrote("account")' \cap Users # {}
    BY <1>1, <1>2, <1>3 DEF S!Wrote
  <2>3. StartupTypeInv'
    BY <1>1, <2>1 DEF StartupInv, StartupTypeInv, Working
  <2>4. FirstInv' /\ StateInv' /\ CompleteInv'
    BY <1>1, <2>1 DEF StateInv, StartupInv, FirstInv, CompleteInv, Working, Handling, S!Wrote
  <2>. QED BY <2>1, <2>2, <2>3, <2>4
       DEF StartupInv, LeftInv, S!ClashNeedsOther, StartupOrderInv, UsersInv, WrittenInv, Handling, S!Wrote
<1>4. CASE Users \cap DOMAIN account = {}
  <2>1. pc' = "balances" /\ account' = S!Created(Users, S!NoName) /\ UNCHANGED <<todo, validator>>
    BY <1>4 DEF S!UsersCreated
  <2>2. /\ DOMAIN account' = DOMAIN account \cup Users /\ account' \in [DOMAIN account' -> Row]
        /\ \A b \in DOMAIN account : account'[b] = account[b]
        /\ \A b \in Users \ DOMAIN account : account'[b].name = "none"
    <3>1. account \in [DOMAIN account -> Row]
      BY DEF StartupInv, StartupTypeInv
    <3>. QED BY <2>1, <3>1, NoNameType DEF S!Created
  <2>3. ToCome("token")' = ToCome("token") /\ ToCome("pos")' = ToCome("pos")
    BY <2>1 DEF ToCome
  <2>4. StartupTypeInv'
    BY <1>1, <2>1, <2>2 DEF StartupInv, StartupTypeInv, Working, Handling
  <2>5. FirstInv' /\ StateInv' /\ CompleteInv'
    BY <1>1, <2>1 DEF StateInv, StartupInv, FirstInv, CompleteInv, Working, Handling, S!Wrote
  <2>6. StartupOrderInv' /\ UsersInv'
    BY <1>2, <2>1, <2>2, <2>3 DEF StartupOrderInv, UsersInv, S!Wrote
  <2>7. WrittenInv'
    <3>1. ~PosDone /\ ~PosDone' /\ \A b : NameOf(b) = "none" /\ NameOf(b)' = "none"
      BY <1>1, <1>2, <2>1, <2>3 DEF PosDone, NameOf
    <3>2. \A b \in DOMAIN account' \ S!Wrote("name") : account'[b].name = "none"
      BY <1>1, <2>2, <3>1 DEF StartupInv, WrittenInv, Handling, S!Wrote
    <3>. QED BY <1>1, <2>1, <3>1, <3>2 DEF StartupInv, LeftInv, WrittenInv, Handling, S!Wrote
  <2>. QED BY <2>1, <2>4, <2>5, <2>6, <2>7 DEF StartupInv, LeftInv, S!ClashNeedsOther, S!Wrote
<1>. QED BY <1>3, <1>4

\* Whether the node answers or not, the rows and their names stay.
LEMMA BalanceUpdatedInv == ASSUME StartupInv, NEW known, S!BalanceUpdated(known) PROVE StartupInv'
<1>1. /\ pc = "balances" /\ pc' \in {"asset", "balances"}
      /\ UNCHANGED <<env, assets, todo, pointer, validator, first, lost, state, early, others>>
  BY DEF S!BalanceUpdated, S!events
<1>2. /\ DOMAIN account' = DOMAIN account /\ account' \in [DOMAIN account' -> Row]
      /\ \A b \in DOMAIN account : account'[b].name = account[b].name
  <2>1. account \in [DOMAIN account -> Row]
    BY DEF StartupInv, StartupTypeInv
  <2>2. CASE account' = account
    BY <2>1, <2>2
  <2>3. CASE account' # account
    <3>1. PICK a : account' = [account EXCEPT ![a].balance = TRUE]
      BY <2>3 DEF S!BalanceUpdated
    <3>2. account' = [account EXCEPT ![a] = [account[a] EXCEPT !.balance = TRUE]]
      BY <3>1
    <3>3. a \in DOMAIN account
      <4>1. SUFFICES ASSUME a \notin DOMAIN account PROVE FALSE
        OBVIOUS
      <4>2. DOMAIN account' = DOMAIN account /\ \A x \in DOMAIN account : account'[x] = account[x]
        BY <2>1, <3>2, <4>1
      <4>3. account' \in [DOMAIN account -> Row]
        BY <2>1, <3>2, <4>1
      <4>. QED BY <2>1, <2>3, <4>2, <4>3
    <3>4. account[a] \in Row
      BY <2>1, <3>3
    <3>5. /\ [account[a] EXCEPT !.balance = TRUE] \in Row
          /\ [account[a] EXCEPT !.balance = TRUE].name = account[a].name
      BY <3>4 DEF Row
    <3>. QED BY <2>1, <3>2, <3>3, <3>5
  <2>. QED BY <2>2, <2>3
<1>3. ToCome("token")' = ToCome("token") /\ ToCome("pos")' = ToCome("pos")
  BY <1>1 DEF ToCome
<1>4. StartupTypeInv'
  BY <1>1, <1>2 DEF StartupInv, StartupTypeInv, Working, Handling
<1>5. FirstInv' /\ StateInv' /\ CompleteInv'
  BY <1>1 DEF StateInv, StartupInv, FirstInv, CompleteInv, Working, Handling, S!Wrote
<1>6. ~ToCome("token")
  BY <1>1 DEF StartupInv, StartupOrderInv, Handling
<1>7. StartupOrderInv' /\ UsersInv'
  BY <1>1, <1>2, <1>3, <1>6 DEF StartupInv, StartupOrderInv, UsersInv, Handling, S!Wrote
<1>8. WrittenInv'
  <2>1. PosDone' = PosDone
    BY <1>1, <1>3 DEF PosDone, Handling
  <2>2. \A b : NameOf(b)' = NameOf(b)
    BY <1>1, <2>1 DEF NameOf
  <2>3. \A b \in DOMAIN account' \ S!Wrote("name") : account'[b].name = NameOf(b)'
    BY <1>1, <1>2, <2>2 DEF StartupInv, WrittenInv, Handling, S!Wrote
  <2>. QED BY <1>1, <1>2, <2>1, <2>3 DEF StartupInv, LeftInv, WrittenInv, Handling, S!Wrote
<1>. QED BY <1>1, <1>4, <1>5, <1>7, <1>8 DEF StartupInv, LeftInv, S!ClashNeedsOther, S!Wrote

LEMMA ValidatorNamedInv == ASSUME StartupInv, S!ValidatorNamed PROVE StartupInv'
<1>1. /\ pc = "names"
      /\ UNCHANGED <<env, assets, pc, todo, pointer, validator, first, lost, state, early, others>>
  BY DEF S!ValidatorNamed, S!events
<1>2. PICK a \in left : account' = S!Named(a, "validator") /\ left' = left \ {a}
  BY DEF S!ValidatorNamed
<1>3. /\ DOMAIN account' = DOMAIN account \cup {a} /\ account' \in [DOMAIN account' -> Row]
      /\ account'[a].name = "validator"
      /\ \A b \in DOMAIN account : b # a => account'[b] = account[b]
  <2>1. account \in [DOMAIN account -> Row]
    BY DEF StartupInv, StartupTypeInv
  <2>2. "validator" \in {"validator", "known"}
    OBVIOUS
  <2>. QED BY <1>2, <2>1, <2>2, NamedFacts
<1>4. ToCome("token")' = ToCome("token") /\ ToCome("pos")' = ToCome("pos")
  BY <1>1 DEF ToCome
<1>5. StartupTypeInv'
  BY <1>1, <1>3 DEF StartupInv, StartupTypeInv
<1>6. FirstInv' /\ StateInv' /\ CompleteInv'
  BY <1>1 DEF StateInv, StartupInv, FirstInv, CompleteInv, Working, Handling, S!Wrote
<1>7. ~ToCome("token")
  BY <1>1 DEF StartupInv, StartupOrderInv, Handling
<1>8. StartupOrderInv' /\ UsersInv'
  BY <1>1, <1>3, <1>4, <1>7 DEF StartupInv, StartupOrderInv, UsersInv, Handling, S!Wrote
<1>9. WrittenInv'
  <2>1. a \in Pos
    BY <1>1, <1>2 DEF StartupInv, LeftInv
  <2>2. ~PosDone /\ ~PosDone'
    BY <1>1 DEF PosDone
  <2>3. NameOf(a)' = "validator" /\ \A b : b # a => NameOf(b)' = NameOf(b)
    BY <1>1, <1>2, <2>1, <2>2 DEF NameOf
  <2>4. \A b \in DOMAIN account' \ S!Wrote("name") : account'[b].name = NameOf(b)'
    BY <1>1, <1>3, <2>3 DEF StartupInv, WrittenInv, Handling, S!Wrote
  <2>. QED BY <1>1, <1>2, <1>3, <2>2, <2>4 DEF StartupInv, WrittenInv, Handling, S!Wrote
<1>10. LeftInv'
  BY <1>1, <1>2 DEF StartupInv, LeftInv
<1>. QED BY <1>1, <1>5, <1>6, <1>8, <1>9, <1>10 DEF StartupInv, S!ClashNeedsOther, S!Wrote

\* The validators' statement fails only on a row that an announced block wrote.
LEMMA ValidatorsCreatedInv == ASSUME StartupInv, S!ValidatorsCreated PROVE StartupInv'
<1>1. /\ pc = "names" /\ left = {}
      /\ UNCHANGED <<env, assets, pointer, first, lost, state, early, others>>
  BY DEF S!ValidatorsCreated, S!events
<1>2. validator \subseteq S!Wrote("validator")
  BY <1>1 DEF StartupInv, WrittenInv, PosDone, Handling
<1>3. CASE Pos \cap validator # {}
  <2>1. pc' = "clash" /\ UNCHANGED <<todo, left, account, validator>>
    BY <1>3 DEF S!ValidatorsCreated, S!Clash
  <2>2. S!Wrote("validator")' \cap Pos # {}
    BY <1>1, <1>2, <1>3 DEF S!Wrote
  <2>3. StartupTypeInv'
    BY <1>1, <2>1 DEF StartupInv, StartupTypeInv, Working
  <2>4. FirstInv' /\ StateInv' /\ CompleteInv'
    BY <1>1, <2>1 DEF StartupInv, FirstInv, StateInv, CompleteInv, Working, Handling, S!Wrote
  <2>. QED BY <2>1, <2>2, <2>3, <2>4
       DEF StartupInv, LeftInv, S!ClashNeedsOther, StartupOrderInv, UsersInv, WrittenInv, Handling
<1>4. CASE Pos \cap validator = {}
  <2>1. pc' = "asset" /\ validator' = validator \cup Pos /\ UNCHANGED <<todo, left, account>>
    BY <1>4 DEF S!ValidatorsCreated
  <2>2. ToCome("token")' = ToCome("token") /\ ToCome("pos")' = ToCome("pos")
    BY <2>1 DEF ToCome
  <2>3. StartupTypeInv'
    BY <1>1, <2>1 DEF StartupInv, StartupTypeInv, Working, Handling
  <2>4. FirstInv' /\ StateInv' /\ CompleteInv'
    BY <1>1, <2>1 DEF StartupInv, FirstInv, StateInv, CompleteInv, Working, Handling, S!Wrote
  <2>5. ~ToCome("token") /\ ~ToCome("pos")
    BY <1>1 DEF StartupInv, StartupOrderInv, Handling
  <2>6. StartupOrderInv' /\ UsersInv'
    BY <1>1, <2>1, <2>2, <2>5 DEF StartupInv, StartupOrderInv, UsersInv, Handling
  <2>7. WrittenInv'
    <3>1. ~PosDone /\ PosDone'
      BY <1>1, <2>1, <2>2, <2>5 DEF PosDone, Handling
    <3>2. \A b : NameOf(b)' = NameOf(b)
      BY <1>1, <2>1, <3>1 DEF NameOf
    <3>3. \A what : S!Wrote(what)' = S!Wrote(what)
      BY <1>1 DEF S!Wrote
    <3>4. \A b \in DOMAIN account' \ S!Wrote("name") : account'[b].name = NameOf(b)'
      BY <1>1, <2>1, <3>2 DEF StartupInv, WrittenInv, Handling
    <3>5. Pos \subseteq DOMAIN account
      BY <1>1 DEF StartupInv, WrittenInv, Handling
    <3>. QED BY <1>2, <2>1, <3>1, <3>3, <3>4, <3>5 DEF WrittenInv, Handling
  <2>. QED BY <2>1, <2>3, <2>4, <2>6, <2>7 DEF StartupInv, S!ClashNeedsOther, LeftInv
<1>. QED BY <1>3, <1>4

-----------------------------------------------------------------------------
(* The known accounts *)

LEMMA KnownFetchedInv == ASSUME StartupInv, S!KnownFetched PROVE StartupInv'
<1>1. /\ pc = "known"
      /\ pc' = CASE env.known = "off" -> "up" [] env.known = "unknown" -> "clash" [] OTHER -> "knownNames"
      /\ left' = KnownNames
      /\ UNCHANGED <<env, assets, todo, pointer, account, validator, first, lost, state, early, others>>
  BY DEF S!KnownFetched, S!events
<1>2. env.known \in {"off", "on", "unknown"}
  BY DEF StartupInv, StartupTypeInv
<1>3. /\ env.known = "off" => pc' = "up"
      /\ env.known = "unknown" => pc' = "clash"
      /\ env.known = "on" => pc' = "knownNames"
      /\ pc' \in {"up", "clash", "knownNames"}
  BY <1>1, <1>2
<1>4. ToCome("token")' = ToCome("token") /\ ToCome("pos")' = ToCome("pos")
  BY <1>1 DEF ToCome
<1>5. StartupTypeInv'
  BY <1>1, <1>3 DEF StartupInv, StartupTypeInv, Working, Handling
<1>6. FirstInv' /\ StateInv'
  BY <1>1, <1>3 DEF StateInv, StartupInv, FirstInv, Working, Handling, S!Wrote
<1>7. /\ ~ToCome("token") /\ ~ToCome("pos") /\ Users \subseteq DOMAIN account
      /\ PosDone /\ Pos \subseteq validator /\ validator \subseteq S!Wrote("validator") \cup Pos /\ Pos \subseteq DOMAIN account /\ Generator \in DOMAIN account
      /\ \A b \in DOMAIN account \ S!Wrote("name") : account[b].name = IF b \in Pos THEN "validator" ELSE "none"
  BY <1>1 DEF StartupInv, StartupOrderInv, UsersInv, WrittenInv, PosDone, NameOf, Handling, S!Wrote
<1>8. StartupOrderInv' /\ UsersInv'
  BY <1>1, <1>3, <1>4, <1>7 DEF StartupOrderInv, UsersInv, Handling, S!Wrote
<1>9. CompleteInv'
  BY <1>1, <1>2, <1>3, <1>7 DEF CompleteInv, Complete, Working, Handling, S!Wrote
<1>10. WrittenInv'
  <2>1. CASE env.known = "on"
    <3>1. PosDone' /\ \A b : NameOf(b)' = IF b \in Pos THEN "validator" ELSE "none"
      BY <1>1, <1>3, <1>4, <1>7, <2>1 DEF PosDone, NameOf, Handling
    <3>. QED BY <1>1, <1>3, <1>7, <2>1, <3>1 DEF WrittenInv, S!Wrote
  <2>2. CASE env.known # "on"
    BY <1>2, <1>3, <2>2 DEF WrittenInv, Handling, S!Wrote
  <2>. QED BY <2>1, <2>2
<1>. QED BY <1>1, <1>2, <1>3, <1>5, <1>6, <1>8, <1>9, <1>10 DEF StartupInv, S!ClashNeedsOther, LeftInv, S!Wrote

LEMMA KnownNamedInv == ASSUME StartupInv, S!KnownNamed, left # {} PROVE StartupInv'
<1>1. /\ pc = "knownNames"
      /\ UNCHANGED <<env, assets, pc, todo, pointer, validator, first, lost, state, early, others>>
  BY DEF S!KnownNamed, S!events
<1>2. PICK a \in left : account' = S!Named(a, "known") /\ left' = left \ {a}
  BY DEF S!KnownNamed
<1>3. /\ DOMAIN account' = DOMAIN account \cup {a} /\ account' \in [DOMAIN account' -> Row]
      /\ account'[a].name = "known"
      /\ \A b \in DOMAIN account : b # a => account'[b] = account[b]
  <2>1. account \in [DOMAIN account -> Row]
    BY DEF StartupInv, StartupTypeInv
  <2>2. "known" \in {"validator", "known"}
    OBVIOUS
  <2>. QED BY <1>2, <2>1, <2>2, NamedFacts
<1>4. ToCome("token")' = ToCome("token") /\ ToCome("pos")' = ToCome("pos")
  BY <1>1 DEF ToCome
<1>5. StartupTypeInv'
  BY <1>1, <1>3 DEF StartupInv, StartupTypeInv
<1>6. FirstInv' /\ StateInv' /\ CompleteInv'
  BY <1>1 DEF StateInv, StartupInv, FirstInv, CompleteInv, Working, Handling, S!Wrote
<1>7. ~ToCome("token") /\ ~ToCome("pos")
  BY <1>1 DEF StartupInv, StartupOrderInv, Handling
<1>8. StartupOrderInv' /\ UsersInv'
  BY <1>1, <1>3, <1>4, <1>7 DEF StartupInv, StartupOrderInv, UsersInv, Handling, S!Wrote
<1>9. WrittenInv'
  <2>1. a \in KnownNames
    BY <1>1, <1>2 DEF StartupInv, LeftInv
  <2>2. PosDone /\ PosDone'
    BY <1>1, <1>4, <1>7 DEF PosDone, Handling
  <2>3. NameOf(a)' = "known" /\ \A b : b # a => NameOf(b)' = NameOf(b)
    BY <1>1, <1>2, <2>1, <2>2 DEF NameOf
  <2>4. \A b \in DOMAIN account' \ S!Wrote("name") : account'[b].name = NameOf(b)'
    BY <1>1, <1>3, <2>3 DEF StartupInv, WrittenInv, Handling, S!Wrote
  <2>. QED BY <1>1, <1>2, <1>3, <2>2, <2>4 DEF StartupInv, WrittenInv, Handling, S!Wrote
<1>10. LeftInv'
  BY <1>1, <1>2 DEF StartupInv, LeftInv
<1>. QED BY <1>1, <1>5, <1>6, <1>8, <1>9, <1>10 DEF StartupInv, S!ClashNeedsOther, S!Wrote

\* With the last name the boot is through, and nothing is missing.
LEMMA KnownDoneInv == ASSUME StartupInv, S!KnownNamed, left = {} PROVE StartupInv'
<1>1. /\ pc = "knownNames" /\ pc' = "up"
      /\ UNCHANGED <<env, assets, todo, left, account, pointer, validator, first, lost, state, early, others>>
  BY DEF S!KnownNamed, S!events
<1>2. StartupTypeInv'
  BY <1>1 DEF StartupInv, StartupTypeInv
<1>3. FirstInv' /\ StateInv'
  BY <1>1 DEF StateInv, StartupInv, FirstInv, Working, Handling, S!Wrote
<1>4. /\ ~ToCome("token") /\ ~ToCome("pos") /\ PosDone /\ Users \subseteq DOMAIN account
      /\ env.known = "on" /\ KnownNames \subseteq DOMAIN account
      /\ Pos \subseteq validator /\ validator \subseteq S!Wrote("validator") \cup Pos
      /\ Pos \subseteq DOMAIN account /\ Generator \in DOMAIN account
      /\ \A b \in DOMAIN account \ S!Wrote("name") :
             account[b].name = IF b \in KnownNames THEN "known" ELSE IF b \in Pos THEN "validator" ELSE "none"
  BY <1>1 DEF StartupInv, StartupOrderInv, UsersInv, WrittenInv, PosDone, NameOf, Handling, S!Wrote
<1>5. CompleteInv'
  BY <1>1, <1>4 DEF CompleteInv, Complete, S!Wrote
<1>. QED BY <1>1, <1>2, <1>3, <1>5
     DEF StartupInv, StartupOrderInv, UsersInv, WrittenInv, S!ClashNeedsOther, LeftInv, Handling, S!Wrote

-----------------------------------------------------------------------------
(* What follows *)

LEMMA StartupStutterInv == ASSUME StartupInv, UNCHANGED S!vars PROVE StartupInv'
BY DEF StartupInv, StartupTypeInv, FirstInv, StateInv, StartupOrderInv, UsersInv, LeftInv, WrittenInv,
     PosDone, NameOf, ToCome, CompleteInv, Complete, S!ClashNeedsOther, S!Wrote, S!vars, S!events

LEMMA StartupNextInv == ASSUME StartupInv, [S!Next]_S!vars PROVE StartupInv'
<1>1. CASE S!Started BY <1>1, StartedInv
<1>2. CASE S!Dies BY <1>2, DiesInv
<1>3. CASE S!NodeInfoSet BY <1>3, StartupNodeInfoSetInv
<1>4. CASE S!PointerFound BY <1>4, PointerFoundInv
<1>5. CASE S!PointerCreated BY <1>5, PointerCreatedInv
<1>6. CASE S!GenesisFetched BY <1>6, GenesisFetchedInv
<1>7. CASE S!AssetTaken BY <1>7, AssetTakenInv, GeneratorInv
<1>8. CASE S!UsersCreated BY <1>8, UsersCreatedInv
<1>9. CASE S!ValidatorNamed BY <1>9, ValidatorNamedInv
<1>10. CASE S!ValidatorsCreated BY <1>10, ValidatorsCreatedInv
<1>11. CASE S!KnownFetched BY <1>11, KnownFetchedInv
<1>12. CASE S!KnownNamed BY <1>12, KnownNamedInv, KnownDoneInv
<1>13. CASE \E known \in BOOLEAN : S!BalanceUpdated(known) BY <1>13, BalanceUpdatedInv
<1>14. CASE S!Others
  BY <1>14, AnnouncedInv, AccountInitialisedInv, GeneratorWrittenInv, CommandNamesInv, CommandCreatesInv,
     CommandStepInv DEF S!Others
<1>15. CASE UNCHANGED S!vars BY <1>15, StartupStutterInv
<1>. QED BY <1>1, <1>2, <1>3, <1>4, <1>5, <1>6, <1>7, <1>8, <1>9, <1>10, <1>11, <1>12, <1>13, <1>14, <1>15
   DEF S!Next

\* The invariant the properties follow from.
LEMMA InvGenesisIn == ASSUME StartupInv PROVE S!GenesisIn
BY DEF StartupInv, FirstInv, CompleteInv, Complete, S!GenesisIn, Working, Handling

LEMMA InvClashNeedsOther == ASSUME StartupInv PROVE S!ClashNeedsOther
BY DEF StartupInv

-----------------------------------------------------------------------------
(* Requests: any accounts, any number of commands and any number of changes *)

Task == [pc : {"idle", "asked", "delete", "create"}, staker : Askers \cup {R!None}, got : Nat]

Fields == {"endpoint", "given", "came", "left", "waits", "account", "rows", "uncounted", "sum",
           "moved", "answer"}

\* A request is a record of these fields.
IsRequest(q) == DOMAIN q = Fields /\ q = [f \in Fields |-> q[f]]

RequestsTypeInv ==
    /\ DOMAIN row \subseteq Askers
    /\ status \in [Askers -> R!Statuses \cup {R!None, R!Null}]
    /\ history \in [Askers -> Seq(SUBSET Askers)]
    /\ \A a \in Askers : Len(history[a]) > 0
    /\ task \in [Tasks -> Task]
    /\ IsRequest(request)
    /\ request.moved \in Nat /\ request.sum \in Int
    /\ request.uncounted \subseteq R!Statuses

MutexInv == \A t, u \in Tasks : task[t].pc # "idle" /\ task[u].pc # "idle" => t = u

RowsBy(a) == {s \in stake : s.staker = a}

\* What a command holds of the node, and that it has deleted before it creates.
TaskOk(k) ==
    /\ k.pc # "idle" => k.staker \in Askers
    /\ k.pc \in {"delete", "create"} => k.got \in 1 .. Len(history[k.staker])
    /\ k.pc = "create" => RowsBy(k.staker) = {}

TaskInv == \A t \in Tasks : TaskOk(task[t])

\* The stakes of an account are those of one time, or none.
StakeInv == \A a \in Askers : RowsBy(a) = {} \/ \E k \in DOMAIN history[a] : RowsBy(a) = R!RowsOf(a, k)

\* The stakes are read at last, with the account found before.
StepsInv ==
    /\ ~request.came => request.left = <<>> /\ request.rows = {} /\ request.answer = R!None
    /\ request.endpoint \in {"stakes", "stakers"} =>
           /\ request.left \in {<<>>, <<"rows">>, <<"account", "rows">>}
           /\ request.left = <<"rows">> => request.account \in DOMAIN row
           /\ request.left # <<>> => request.rows = {}
           /\ request.rows # {} => request.account \in Askers
    /\ request.endpoint = "counts" =>
           /\ request.left \in {<<>>, <<"count">>}
           /\ request.answer = "200" => request.uncounted = {}

\* An account that was found has its row, and what the client gave of it.
FoundInv ==
    request.account # R!None /\ request.endpoint # "exists" =>
        /\ request.account \in DOMAIN row
        /\ \A p \in DOMAIN request.given : request.given[p] = request.account /\ p \in row[request.account]

OfStatus(T) == {a \in Askers : status[a] \in T}
Present     == OfStatus(R!Statuses)

\* What is counted, and what there is to count, differ from what there is by no more
\* than the changes.
CountInv ==
    request.sum + Cardinality(OfStatus(request.uncounted)) - Cardinality(Present)
        \in -request.moved .. request.moved

RequestsInv ==
    /\ RequestsTypeInv /\ MutexInv /\ TaskInv /\ StakeInv /\ StepsInv /\ FoundInv /\ CountInv
    /\ R!WholeStakes

-----------------------------------------------------------------------------
(* Lemmas about the request and the commands *)

\* The cardinality that the instance brings along.
LEMMA InstanceCardinality == \A X : R!Cardinality(X) = Cardinality(X)
BY DEF R!Cardinality, Cardinality

\* The fields a request keeps.
Keeps(d, q, fields) == IsRequest(d) /\ \A f \in Fields \ fields : d[f] = q[f]

LEMMA SetLeft == ASSUME NEW q, IsRequest(q), NEW x
                 PROVE  Keeps([q EXCEPT !.left = x], q, {"left"}) /\ [q EXCEPT !.left = x].left = x
BY DEF Keeps, IsRequest, Fields
LEMMA SetAnswer == ASSUME NEW q, IsRequest(q), NEW x
                   PROVE  Keeps([q EXCEPT !.answer = x], q, {"answer"}) /\ [q EXCEPT !.answer = x].answer = x
BY DEF Keeps, IsRequest, Fields
LEMMA SetWaits == ASSUME NEW q, IsRequest(q), NEW x
                  PROVE  Keeps([q EXCEPT !.waits = x], q, {"waits"})
BY DEF Keeps, IsRequest, Fields

LEMMA PassedFacts ==
    ASSUME NEW q, IsRequest(q)
    PROVE  /\ Keeps(R!Passed(q), q, {"left", "waits", "answer"})
           /\ R!Passed(q).left = Tail(q.left)
           /\ R!Passed(q).answer = IF Len(q.left) = 1 THEN "200" ELSE q.answer
<1> DEFINE d1 == [q EXCEPT !.left = Tail(q.left)]
           d2 == [d1 EXCEPT !.waits = FALSE]
           d3 == [d2 EXCEPT !.answer = IF Len(q.left) = 1 THEN "200" ELSE q.answer]
<1>1. R!Passed(q) = d3
  BY DEF R!Passed, IsRequest, Fields
<1>2. Keeps(d1, q, {"left"}) /\ d1.left = Tail(q.left)
  BY SetLeft
<1> HIDE DEF d1
<1>3. Keeps(d2, d1, {"waits"})
  BY <1>2, SetWaits DEF Keeps
<1> HIDE DEF d2
<1>4. Keeps(d3, d2, {"answer"}) /\ d3.answer = IF Len(q.left) = 1 THEN "200" ELSE q.answer
  BY <1>3, SetAnswer DEF Keeps
<1> HIDE DEF d3
<1>. QED BY <1>1, <1>2, <1>3, <1>4 DEF Keeps, Fields

LEMMA EndsFacts ==
    ASSUME IsRequest(request), NEW reply, R!Ends(reply)
    PROVE  /\ Keeps(request', request, {"left", "waits", "answer"})
           /\ request'.left = <<>> /\ request'.answer = reply
<1> DEFINE d1 == [request EXCEPT !.answer = reply]
           d2 == [d1 EXCEPT !.left = <<>>]
           d3 == [d2 EXCEPT !.waits = FALSE]
<1>1. request' = d3
  BY DEF R!Ends, IsRequest, Fields
<1>2. Keeps(d1, request, {"answer"}) /\ d1.answer = reply
  BY SetAnswer
<1> HIDE DEF d1
<1>3. Keeps(d2, d1, {"left"}) /\ d2.left = <<>>
  BY <1>2, SetLeft DEF Keeps
<1> HIDE DEF d2
<1>4. Keeps(d3, d2, {"waits"})
  BY <1>3, SetWaits DEF Keeps
<1> HIDE DEF d3
<1>. QED BY <1>1, <1>2, <1>3, <1>4 DEF Keeps, Fields

LEMMA IdleFacts == R!Idle \in Task /\ R!Idle.pc = "idle"
BY DEF R!Idle, Task

-----------------------------------------------------------------------------
(* The invariant holds at first *)

LEMMA RequestsInitInv == ASSUME IsFiniteSet(Askers), R!Init PROVE RequestsInv
<1>1. PICK e, g : request = R!NewRequest(e, g)
  BY DEF R!Init
<1>2. /\ IsRequest(request) /\ request.came = FALSE /\ request.left = <<>>
      /\ request.account = R!None /\ request.rows = {} /\ request.uncounted = R!Statuses
      /\ request.sum = 0 /\ request.moved = 0 /\ request.answer = R!None
  BY <1>1 DEF R!NewRequest, IsRequest, Fields
<1>3. status \in [Askers -> R!Statuses \cup {R!None, R!Null}]
  BY DEF R!Init, R!Statuses, R!None, R!Null
<1>4. history \in [Askers -> Seq(SUBSET Askers)] /\ \A a \in Askers : Len(history[a]) > 0
  <2>1. \A a \in Askers : history[a] = <<{}>>
    BY DEF R!Init
  <2>2. <<{}>> \in Seq(SUBSET Askers) /\ Len(<<{}>>) > 0
    OBVIOUS
  <2>. QED BY <2>1, <2>2 DEF R!Init
<1>5. task \in [Tasks -> Task] /\ \A t \in Tasks : task[t].pc = "idle"
  BY IdleFacts DEF R!Init
<1>6. RequestsTypeInv
  BY <1>2, <1>3, <1>4, <1>5 DEF R!Init, RequestsTypeInv
<1>7. MutexInv /\ TaskInv
  BY <1>5 DEF MutexInv, TaskInv, TaskOk
<1>8. StakeInv
  BY DEF R!Init, StakeInv, RowsBy
<1>9. StepsInv /\ FoundInv /\ R!WholeStakes
  BY <1>2 DEF StepsInv, FoundInv, R!WholeStakes, R!None
<1>10. CountInv
  <2>1. OfStatus(R!Statuses) = Present
    BY DEF Present, OfStatus
  <2>2. Cardinality(Present) \in Nat
    BY FS_Subset, FS_CardinalityType DEF Present, OfStatus
  <2>. QED BY <1>2, <2>1, <2>2 DEF CountInv
<1>. QED BY <1>6, <1>7, <1>8, <1>9, <1>10 DEF RequestsInv

-----------------------------------------------------------------------------
(* Frames *)

\* What only changes the rows of the accounts and the commands leaves the request as it is.
LEMMA RequestStays ==
    ASSUME RequestsInv, UNCHANGED <<status, request>>,
           \A a \in DOMAIN row : a \in DOMAIN row' /\ row[a] \subseteq row'[a],
           \A a \in Askers : \A k \in DOMAIN history[a] : k \in DOMAIN history'[a] /\ R!RowsOf(a, k)' = R!RowsOf(a, k)
    PROVE  StepsInv' /\ FoundInv' /\ CountInv' /\ R!WholeStakes'
<1>1. StepsInv' /\ FoundInv' /\ CountInv'
  BY DEF RequestsInv, StepsInv, FoundInv, CountInv, OfStatus, Present
<1>2. R!WholeStakes'
  <2> SUFFICES ASSUME request.endpoint = "stakes", request.rows # {}
               PROVE  \E k \in DOMAIN history'[request.account] : request.rows = R!RowsOf(request.account, k)'
    BY DEF R!WholeStakes
  <2>1. PICK k \in DOMAIN history[request.account] : request.rows = R!RowsOf(request.account, k)
    BY DEF RequestsInv, R!WholeStakes
  <2>2. request.account \in Askers
    BY DEF RequestsInv, StepsInv
  <2>. QED BY <2>1, <2>2
<1>. QED BY <1>1, <1>2

\* What only changes the request leaves the stakes and the commands as they are.
LEMMA StakesStay ==
    ASSUME RequestsInv, UNCHANGED <<row, status, history, stake, task>>, IsRequest(request'),
           request'.moved \in Nat, request'.sum \in Int, request'.uncounted \subseteq R!Statuses
    PROVE  RequestsTypeInv' /\ MutexInv' /\ TaskInv' /\ StakeInv'
BY DEF RequestsInv, RequestsTypeInv, MutexInv, TaskInv, TaskOk, StakeInv, RowsBy, R!RowsOf

\* A request that only goes on keeps what it has.
LEMMA GoesOn ==
    ASSUME RequestsInv, UNCHANGED <<row, status, history, stake, task>>,
           Keeps(request', request, {"came", "left", "waits", "answer"}), StepsInv'
    PROVE  RequestsInv'
<1>1. /\ IsRequest(request') /\ request'.endpoint = request.endpoint /\ request'.given = request.given
      /\ request'.account = request.account /\ request'.rows = request.rows
      /\ request'.uncounted = request.uncounted /\ request'.sum = request.sum /\ request'.moved = request.moved
  BY DEF Keeps, Fields
<1>2. RequestsTypeInv' /\ MutexInv' /\ TaskInv' /\ StakeInv'
  BY <1>1, StakesStay DEF RequestsInv, RequestsTypeInv
<1>3. FoundInv' /\ CountInv' /\ R!WholeStakes'
  BY <1>1 DEF RequestsInv, FoundInv, CountInv, R!WholeStakes, OfStatus, Present, R!RowsOf
<1>. QED BY <1>2, <1>3 DEF RequestsInv

-----------------------------------------------------------------------------
(* The request *)

\* Nothing but an account is looked up for stakes, nothing but the count for the counts.
LEMMA WhereItIs ==
    ASSUME RequestsInv, NEW step, R!At(step)
    PROVE  /\ request.came
           /\ request.endpoint \in {"stakes", "stakers"} => step \in {"account", "rows"}
           /\ request.endpoint = "counts" => step = "count"
BY DEF RequestsInv, StepsInv, R!At, RequestsTypeInv

LEMMA EndedInv ==
    ASSUME RequestsInv, UNCHANGED <<row, status, history, stake, task>>,
           NEW step, R!At(step), NEW reply, R!Ends(reply),
           reply = "200" => step # "count"
    PROVE  RequestsInv'
<1>1. /\ Keeps(request', request, {"left", "waits", "answer"})
      /\ request'.left = <<>> /\ request'.answer = reply
  BY EndsFacts DEF RequestsInv, RequestsTypeInv
<1>2. /\ request'.endpoint = request.endpoint /\ request'.came = request.came
      /\ request'.uncounted = request.uncounted /\ request'.account = request.account
      /\ request'.rows = request.rows
  BY <1>1 DEF Keeps, Fields
<1>3. request.came /\ (request.endpoint = "counts" => reply # "200")
  BY WhereItIs
<1>4. StepsInv'
  BY <1>1, <1>2, <1>3 DEF RequestsInv, StepsInv
<1>. QED BY <1>1, <1>4, GoesOn DEF Keeps

LEMMA PassesInv ==
    ASSUME RequestsInv, UNCHANGED <<row, status, history, stake, task>>,
           NEW step \in {"validator", "node"}, R!At(step), request' = R!Passed(request)
    PROVE  RequestsInv'
<1>1. Keeps(request', request, {"left", "waits", "answer"})
  BY PassedFacts DEF RequestsInv, RequestsTypeInv
<1>2. /\ request'.endpoint = request.endpoint /\ request'.came = request.came
  BY <1>1 DEF Keeps, Fields
<1>3. request.came /\ request.endpoint \notin {"stakes", "stakers", "counts"}
  BY WhereItIs
<1>4. StepsInv'
  BY <1>2, <1>3 DEF StepsInv
<1>. QED BY <1>1, <1>4, GoesOn DEF Keeps

LEMMA NodeAskedInv == ASSUME RequestsInv, R!NodeAsked PROVE RequestsInv'
<1>1. R!At("node") /\ UNCHANGED <<row, status, history, stake, task>>
  BY DEF R!NodeAsked
<1>2. CASE R!Ends("400")
  BY <1>1, <1>2, EndedInv
<1>3. CASE request' = [request EXCEPT !.waits = TRUE]
  <2>1. Keeps(request', request, {"waits"})
    BY <1>3, SetWaits DEF RequestsInv, RequestsTypeInv
  <2>2. /\ request'.endpoint = request.endpoint /\ request'.came = request.came /\ request'.left = request.left
        /\ request'.uncounted = request.uncounted /\ request'.answer = request.answer
        /\ request'.account = request.account /\ request'.rows = request.rows
    BY <2>1 DEF Keeps, Fields
  <2>3. StepsInv'
    BY <1>1, <2>2 DEF RequestsInv, StepsInv
  <2>. QED BY <1>1, <2>1, <2>3, GoesOn DEF Keeps
<1>. QED BY <1>2, <1>3 DEF R!NodeAsked

LEMMA NodeAnsweredInv == ASSUME RequestsInv, R!NodeAnswered PROVE RequestsInv'
<1>1. R!At("node") /\ UNCHANGED <<row, status, history, stake, task>>
  BY DEF R!NodeAnswered
<1>2. CASE request' = R!Passed(request)
  BY <1>1, <1>2, PassesInv
<1>3. CASE R!Ends("404")
  BY <1>1, <1>3, EndedInv
<1>. QED BY <1>2, <1>3 DEF R!NodeAnswered

LEMMA TimedOutInv == ASSUME RequestsInv, R!TimedOut PROVE RequestsInv'
BY EndedInv DEF R!TimedOut

LEMMA HealthCheckedInv == ASSUME RequestsInv, R!HealthChecked PROVE RequestsInv'
<1>1. PICK reply : reply = IF mode = "INDEXING" THEN "200" ELSE "503"
  OBVIOUS
<1>2. R!At("state") /\ R!Ends(reply) /\ UNCHANGED <<row, status, history, stake, task>>
  BY <1>1 DEF R!HealthChecked
<1>. QED BY <1>2, EndedInv

LEMMA AccountMissingInv == ASSUME RequestsInv, R!AccountMissing PROVE RequestsInv'
<1>1. PICK reply : reply = IF request.endpoint \in {"exists", "info"} THEN "200" ELSE "400"
  OBVIOUS
<1>2. R!At("account") /\ R!Ends(reply) /\ UNCHANGED <<row, status, history, stake, task>>
  BY <1>1 DEF R!AccountMissing
<1>. QED BY <1>2, EndedInv

LEMMA ValidatorLookedUpInv == ASSUME RequestsInv, R!ValidatorLookedUp PROVE RequestsInv'
<1>1. R!At("validator") /\ UNCHANGED <<row, status, history, stake, task>>
  BY DEF R!ValidatorLookedUp
<1>2. CASE request' = R!Passed(request)
  BY <1>1, <1>2, PassesInv
<1>3. CASE R!Ends("404")
  BY <1>1, <1>3, EndedInv
<1>. QED BY <1>2, <1>3 DEF R!ValidatorLookedUp

\* A request that comes in is refused, or takes the first of its steps.
LEMMA ArrivesInv == ASSUME RequestsInv, R!Arrives PROVE RequestsInv'
<1> DEFINE q == [request EXCEPT !.came = TRUE]
<1>1. UNCHANGED <<row, status, history, stake, task>> /\ ~request.came /\ IsRequest(request)
  BY DEF R!Arrives, RequestsInv, RequestsTypeInv
<1>2. Keeps(q, request, {"came"}) /\ q.came = TRUE
  BY <1>1 DEF Keeps, IsRequest, Fields
<1>3. /\ q.endpoint = request.endpoint /\ q.left = <<>> /\ q.answer = R!None /\ q.rows = {}
  BY <1>1, <1>2 DEF Keeps, Fields, RequestsInv, StepsInv
<1>4. PICK x : \/ request' = [q EXCEPT !.answer = x] /\ x \in {"503", "400"}
               \/ request' = [q EXCEPT !.left = x] /\ x = R!Steps(request.endpoint)
  <2>1. \/ request' = [q EXCEPT !.answer = "503"] \/ request' = [q EXCEPT !.answer = "400"]
        \/ request' = [q EXCEPT !.left = R!Steps(q.endpoint)]
    BY DEF R!Arrives
  <2>. QED BY <1>3, <2>1
<1> HIDE DEF q
<1>5. CASE request' = [q EXCEPT !.answer = x] /\ x \in {"503", "400"}
  <2>1. Keeps(request', q, {"answer"}) /\ request'.answer = x
    BY <1>2, <1>5, SetAnswer DEF Keeps
  <2>2. Keeps(request', request, {"came", "left", "waits", "answer"})
    BY <1>2, <2>1 DEF Keeps
  <2>3. /\ request'.came = TRUE /\ request'.left = <<>> /\ request'.endpoint = request.endpoint
        /\ request'.rows = {}
    BY <1>2, <1>3, <2>1 DEF Keeps, Fields
  <2>4. StepsInv'
    BY <1>5, <2>1, <2>3 DEF StepsInv
  <2>. QED BY <1>1, <2>2, <2>4, GoesOn
<1>6. CASE request' = [q EXCEPT !.left = x] /\ x = R!Steps(request.endpoint)
  <2>1. Keeps(request', q, {"left"}) /\ request'.left = x
    BY <1>2, <1>6, SetLeft DEF Keeps
  <2>2. Keeps(request', request, {"came", "left", "waits", "answer"})
    BY <1>2, <2>1 DEF Keeps
  <2>3. /\ request'.came = TRUE /\ request'.answer = R!None /\ request'.rows = {}
        /\ request'.endpoint = request.endpoint
    BY <1>2, <1>3, <2>1 DEF Keeps, Fields
  <2>4. /\ request.endpoint \in {"stakes", "stakers"} => x = <<"account", "rows">>
        /\ request.endpoint = "counts" => x = <<"count">>
    BY <1>6 DEF R!Steps
  <2>5. StepsInv'
    BY <2>1, <2>3, <2>4 DEF StepsInv, R!None
  <2>. QED BY <1>1, <2>2, <2>5, GoesOn
<1>. QED BY <1>4, <1>5, <1>6

LEMMA AccountFoundInv == ASSUME RequestsInv, R!AccountFound PROVE RequestsInv'
<1>1. /\ R!At("account") /\ UNCHANGED <<row, status, history, stake, task>> /\ IsRequest(request)
      /\ request.came /\ request.endpoint # "counts"
  BY WhereItIs DEF R!AccountFound, RequestsInv, RequestsTypeInv
<1>2. PICK a \in R!Matches(request) : request' = R!Passed([request EXCEPT !.account = a])
  BY DEF R!AccountFound
<1> DEFINE q == [request EXCEPT !.account = a]
<1>3. Keeps(q, request, {"account"}) /\ q.account = a
  BY <1>1 DEF Keeps, IsRequest, Fields
<1>4. request' = R!Passed(q)
  BY <1>2
<1> HIDE DEF q
<1>5. Keeps(request', q, {"left", "waits", "answer"}) /\ request'.left = Tail(q.left)
  BY <1>3, <1>4, PassedFacts DEF Keeps
<1>6. /\ IsRequest(request') /\ request'.endpoint = request.endpoint /\ request'.given = request.given
      /\ request'.account = a /\ request'.rows = request.rows /\ request'.came = request.came
      /\ request'.uncounted = request.uncounted /\ request'.sum = request.sum /\ request'.moved = request.moved
      /\ request'.left = Tail(request.left)
  BY <1>3, <1>5 DEF Keeps, Fields
<1>7. /\ a \in DOMAIN row
      /\ request.endpoint # "exists" =>
             \A p \in DOMAIN request.given : request.given[p] = a /\ p \in row[a]
  BY <1>2 DEF R!Matches, R!Has
<1>8. RequestsTypeInv' /\ MutexInv' /\ TaskInv' /\ StakeInv'
  BY <1>1, <1>6, StakesStay DEF RequestsInv, RequestsTypeInv
<1>9. FoundInv'
  BY <1>1, <1>6, <1>7 DEF FoundInv
<1>10. CountInv'
  BY <1>1, <1>6 DEF RequestsInv, CountInv, OfStatus, Present
<1>11. request.endpoint \in {"stakes", "stakers"} => request.left = <<"account", "rows">> /\ request.rows = {}
  <2>1. Head(<<"rows">>) = "rows"
    OBVIOUS
  <2>2. request.left # <<>> /\ Head(request.left) = "account"
    BY <1>1 DEF R!At
  <2>. QED BY <2>1, <2>2 DEF RequestsInv, StepsInv
<1>12. Tail(<<"account", "rows">>) = <<"rows">>
  OBVIOUS
<1>13. StepsInv'
  BY <1>1, <1>6, <1>7, <1>11, <1>12 DEF StepsInv
<1>14. R!WholeStakes'
  BY <1>1, <1>6, <1>11 DEF R!WholeStakes
<1>. QED BY <1>8, <1>9, <1>10, <1>13, <1>14 DEF RequestsInv

\* What is read is what one command created, or nothing while a command is in between.
LEMMA StakesReadInv == ASSUME RequestsInv, R!StakesRead PROVE RequestsInv'
<1>1. /\ R!At("rows") /\ UNCHANGED <<row, status, history, stake, task>> /\ IsRequest(request)
      /\ request.came /\ request.endpoint # "counts"
  BY WhereItIs DEF R!StakesRead, RequestsInv, RequestsTypeInv
<1>2. PICK rows : /\ rows = {s \in stake : (IF request.endpoint = "stakes" THEN s.staker ELSE s.validator)
                                             = request.account}
                  /\ request' = R!Passed([request EXCEPT !.rows = rows])
  BY DEF R!StakesRead
<1> DEFINE q == [request EXCEPT !.rows = rows]
<1>3. Keeps(q, request, {"rows"}) /\ q.rows = rows
  BY <1>1 DEF Keeps, IsRequest, Fields
<1>4. request' = R!Passed(q)
  BY <1>2
<1> HIDE DEF q
<1>5. Keeps(request', q, {"left", "waits", "answer"}) /\ request'.left = Tail(q.left)
  BY <1>3, <1>4, PassedFacts DEF Keeps
<1>6. /\ IsRequest(request') /\ request'.endpoint = request.endpoint /\ request'.given = request.given
      /\ request'.account = request.account /\ request'.rows = rows /\ request'.came = request.came
      /\ request'.uncounted = request.uncounted /\ request'.sum = request.sum /\ request'.moved = request.moved
      /\ request'.left = Tail(request.left)
  BY <1>3, <1>5 DEF Keeps, Fields
<1>7. RequestsTypeInv' /\ MutexInv' /\ TaskInv' /\ StakeInv'
  BY <1>1, <1>6, StakesStay DEF RequestsInv, RequestsTypeInv
<1>8. FoundInv' /\ CountInv'
  BY <1>1, <1>6 DEF RequestsInv, FoundInv, CountInv, OfStatus, Present
<1>9. request.endpoint \in {"stakes", "stakers"} =>
          request.left = <<"rows">> /\ request.account \in Askers
  <2>1. Head(<<"account", "rows">>) = "account"
    OBVIOUS
  <2>2. request.left # <<>> /\ Head(request.left) = "rows"
    BY <1>1 DEF R!At
  <2>. QED BY <2>1, <2>2 DEF RequestsInv, StepsInv, RequestsTypeInv
<1>10. Tail(<<"rows">>) = <<>>
  OBVIOUS
<1>11. StepsInv'
  <2>1. request.endpoint \in {"stakes", "stakers"} => request'.left = <<>>
    BY <1>6, <1>9, <1>10
  <2>2. <<>> # <<"rows">>
    OBVIOUS
  <2>. QED BY <1>1, <1>6, <1>9, <2>1, <2>2 DEF StepsInv
<1>12. R!WholeStakes'
  <2> SUFFICES ASSUME request.endpoint = "stakes", rows # {}
               PROVE  \E k \in DOMAIN history[request.account] : rows = R!RowsOf(request.account, k)
    BY <1>1, <1>6 DEF R!WholeStakes, R!RowsOf
  <2>1. rows = RowsBy(request.account)
    BY <1>2 DEF RowsBy
  <2>. QED BY <1>9, <2>1 DEF RequestsInv, StakeInv
<1>. QED BY <1>7, <1>8, <1>11, <1>12 DEF RequestsInv

\* Counting the validators of a status takes from what there is to count what it adds.
LEMMA CountedInv ==
    ASSUME IsFiniteSet(Askers), RequestsInv, NEW s \in R!Statuses, R!Counted(s)
    PROVE  RequestsInv'
<1>1. /\ R!At("count") /\ UNCHANGED <<row, status, history, stake, task>> /\ IsRequest(request)
      /\ request.came /\ request.endpoint \notin {"stakes", "stakers"} /\ s \in request.uncounted
      /\ request.sum \in Int /\ request.moved \in Nat /\ request.uncounted \subseteq R!Statuses
  BY WhereItIs DEF R!Counted, RequestsInv, RequestsTypeInv
<1> DEFINE d1 == [request EXCEPT !.uncounted = request.uncounted \ {s}]
           q  == [d1 EXCEPT !.sum = request.sum + R!Count(s)]
<1>2. request' = IF q.uncounted = {} THEN R!Passed(q) ELSE q
  BY <1>1 DEF R!Counted, IsRequest, Fields
<1>3. Keeps(d1, request, {"uncounted"}) /\ d1.uncounted = request.uncounted \ {s}
  BY <1>1 DEF Keeps, IsRequest, Fields
<1> HIDE DEF d1
<1>4. Keeps(q, d1, {"sum"}) /\ q.sum = request.sum + R!Count(s)
  BY <1>3 DEF Keeps, IsRequest, Fields
<1> HIDE DEF q
<1>5. /\ Keeps(q, request, {"uncounted", "sum"}) /\ q.uncounted = request.uncounted \ {s}
  BY <1>3, <1>4 DEF Keeps, Fields
<1>6. /\ Keeps(request', q, {"left", "waits", "answer"})
      /\ request'.left \in {q.left, Tail(q.left)}
      /\ q.uncounted # {} => request'.left = q.left /\ request'.answer = q.answer
  <2>1. CASE q.uncounted = {}
    BY <1>2, <1>5, <2>1, PassedFacts DEF Keeps
  <2>2. CASE q.uncounted # {}
    BY <1>2, <1>5, <2>2 DEF Keeps
  <2>. QED BY <2>1, <2>2
<1>7. /\ IsRequest(request') /\ request'.endpoint = request.endpoint /\ request'.given = request.given
      /\ request'.account = request.account /\ request'.rows = request.rows /\ request'.came = request.came
      /\ request'.uncounted = request.uncounted \ {s} /\ request'.sum = request.sum + R!Count(s)
      /\ request'.moved = request.moved
      /\ request'.left \in {request.left, Tail(request.left)}
      /\ request'.uncounted # {} => request'.answer = request.answer
  BY <1>4, <1>5, <1>6 DEF Keeps, Fields
<1>8. R!Count(s) \in Nat
  BY FS_Subset, FS_CardinalityType, InstanceCardinality DEF R!Count
<1>9. RequestsTypeInv' /\ MutexInv' /\ TaskInv' /\ StakeInv'
  BY <1>1, <1>7, <1>8, StakesStay
<1>10. FoundInv' /\ R!WholeStakes'
  BY <1>1, <1>7 DEF RequestsInv, FoundInv, R!WholeStakes, R!RowsOf
<1>11. StepsInv'
  <2>1. request.endpoint = "counts" => request.left = <<"count">> /\ Tail(request.left) = <<>>
    <3>1. request.endpoint = "counts" => request.left = <<"count">>
      BY <1>1 DEF RequestsInv, StepsInv, R!At
    <3>2. Tail(<<"count">>) = <<>>
      OBVIOUS
    <3>. QED BY <3>1, <3>2
  <2>2. request.endpoint = "counts" /\ request.answer = "200" => request.uncounted = {}
    BY DEF RequestsInv, StepsInv
  <2>. QED BY <1>1, <1>7, <2>1, <2>2 DEF StepsInv
<1>12. CountInv'
  <2> DEFINE A == OfStatus(request.uncounted)
             B == {a \in Askers : status[a] = s}
             D == OfStatus(request.uncounted \ {s})
  <2>1. A = B \cup D /\ B \cap D = {} /\ B \subseteq Askers /\ D \subseteq Askers
    BY <1>1 DEF OfStatus
  <2>2. IsFiniteSet(B) /\ IsFiniteSet(D)
    BY <2>1, FS_Subset
  <2>3. Cardinality(A) = Cardinality(B) + Cardinality(D)
    <3>1. Cardinality(B \cup D) = Cardinality(B) + Cardinality(D) - Cardinality(B \cap D)
      BY <2>2, FS_Union
    <3>2. Cardinality(B \cap D) = 0
      BY <2>1, FS_EmptySet
    <3>3. Cardinality(B) \in Nat /\ Cardinality(D) \in Nat
      BY <2>2, FS_CardinalityType
    <3>4. A = B \cup D
      BY <2>1
    <3> HIDE DEF A, B, D
    <3>. QED BY <3>1, <3>2, <3>3, <3>4
  <2>4. Cardinality(B) = R!Count(s) /\ Cardinality(D) \in Nat /\ Cardinality(Present) \in Nat
    <3>1. Cardinality(B) = R!Count(s)
      BY InstanceCardinality DEF R!Count
    <3>2. Present \subseteq Askers
      BY DEF Present, OfStatus
    <3>3. IsFiniteSet(Present)
      BY <3>2, FS_Subset
    <3> HIDE DEF D
    <3>. QED BY <2>2, <3>1, <3>3, FS_CardinalityType
  <2>5. OfStatus(request.uncounted)' = D /\ Present' = Present
    BY <1>1, <1>7 DEF OfStatus, Present
  <2>6. request.sum + Cardinality(A) - Cardinality(Present) \in -request.moved .. request.moved
    BY DEF RequestsInv, CountInv
  <2> HIDE DEF A, B, D
  <2>. QED BY <1>1, <1>7, <1>8, <2>3, <2>4, <2>5, <2>6 DEF CountInv
<1>. QED BY <1>9, <1>10, <1>11, <1>12 DEF RequestsInv

-----------------------------------------------------------------------------
(* What the indexer changes *)

LEMMA ModeChangesInv == ASSUME RequestsInv, NEW m, R!ModeChanges(m) PROVE RequestsInv'
<1>1. UNCHANGED <<row, status, history, stake, task, request>>
  BY DEF R!ModeChanges
<1>2. IsRequest(request)' /\ RequestsTypeInv' /\ MutexInv' /\ TaskInv' /\ StakeInv'
  BY <1>1, StakesStay DEF RequestsInv, RequestsTypeInv
<1>3. StepsInv' /\ FoundInv' /\ CountInv' /\ R!WholeStakes'
  BY <1>1, RequestStays DEF R!RowsOf
<1>. QED BY <1>2, <1>3 DEF RequestsInv

LEMMA AccountStoredInv == ASSUME RequestsInv, NEW a \in Askers, NEW p, R!AccountStored(a, p) PROVE RequestsInv'
<1>1. /\ UNCHANGED <<status, history, stake, task, request>>
      /\ DOMAIN row' = DOMAIN row \cup {a}
      /\ \A b \in DOMAIN row : row[b] \subseteq row'[b]
  BY DEF R!AccountStored
<1>2. RequestsTypeInv' /\ MutexInv' /\ TaskInv' /\ StakeInv'
  BY <1>1 DEF RequestsInv, RequestsTypeInv, MutexInv, TaskInv, TaskOk, StakeInv, RowsBy, R!RowsOf
<1>3. StepsInv' /\ FoundInv' /\ CountInv' /\ R!WholeStakes'
  BY <1>1, RequestStays DEF R!RowsOf
<1>. QED BY <1>2, <1>3 DEF RequestsInv

\* A set with and without one element.
LEMMA OneElement ==
    ASSUME NEW T, IsFiniteSet(T), NEW a
    PROVE  /\ Cardinality(T \ {a}) \in Nat
           /\ a \in T => Cardinality(T) = Cardinality(T \ {a}) + 1
           /\ a \notin T => Cardinality(T) = Cardinality(T \ {a})
<1>1. IsFiniteSet(T \ {a}) /\ Cardinality(T \ {a}) = IF a \in T THEN Cardinality(T) - 1 ELSE Cardinality(T)
  BY FS_RemoveElement
<1>2. Cardinality(T) \in Nat /\ Cardinality(T \ {a}) \in Nat
  BY <1>1, FS_CardinalityType
<1>. QED BY <1>1, <1>2

\* A new validator has no status that is counted.
LEMMA ValidatorCreatedInv == ASSUME RequestsInv, NEW a \in Askers, R!ValidatorCreated(a) PROVE RequestsInv'
<1>1. /\ UNCHANGED <<row, history, stake, task, request>>
      /\ status[a] = R!None /\ status' = [status EXCEPT ![a] = R!Null]
      /\ status \in [Askers -> R!Statuses \cup {R!None, R!Null}]
      /\ request.uncounted \subseteq R!Statuses
  BY DEF R!ValidatorCreated, RequestsInv, RequestsTypeInv
<1>2. RequestsTypeInv'
  BY <1>1 DEF RequestsInv, RequestsTypeInv
<1>3. MutexInv' /\ TaskInv' /\ StakeInv'
  BY <1>1 DEF RequestsInv, MutexInv, TaskInv, TaskOk, StakeInv, RowsBy, R!RowsOf
<1>4. StepsInv' /\ FoundInv' /\ R!WholeStakes'
  BY <1>1 DEF RequestsInv, StepsInv, FoundInv, R!WholeStakes, R!RowsOf
<1>5. CountInv'
  <2>1. R!None \notin R!Statuses /\ R!Null \notin R!Statuses
    BY DEF R!Statuses, R!None, R!Null
  <2>2. ASSUME NEW T \in SUBSET R!Statuses PROVE OfStatus(T)' = OfStatus(T)
    BY <1>1, <2>1, <2>2 DEF OfStatus
  <2>3. OfStatus(request.uncounted)' = OfStatus(request.uncounted) /\ Present' = Present
    BY <1>1, <2>2 DEF Present, OfStatus
  <2>. QED BY <1>1, <2>3 DEF RequestsInv, CountInv
<1>. QED BY <1>2, <1>3, <1>4, <1>5 DEF RequestsInv

\* A change moves what is there to count, and what is there, by one at most.
LEMMA StatusChangedInv ==
    ASSUME IsFiniteSet(Askers), RequestsInv, NEW a \in Askers, NEW s \in R!Statuses, R!StatusChanged(a, s)
    PROVE  RequestsInv'
<1>1. /\ UNCHANGED <<row, history, stake, task>> /\ IsRequest(request)
      /\ status' = [status EXCEPT ![a] = s] /\ request' = [request EXCEPT !.moved = @ + 1]
      /\ status \in [Askers -> R!Statuses \cup {R!None, R!Null}]
      /\ request.sum \in Int /\ request.moved \in Nat /\ request.uncounted \subseteq R!Statuses
  BY DEF R!StatusChanged, RequestsInv, RequestsTypeInv
<1>2. Keeps(request', request, {"moved"}) /\ request'.moved = request.moved + 1
  BY <1>1 DEF Keeps, IsRequest, Fields
<1>3. /\ IsRequest(request') /\ request'.endpoint = request.endpoint /\ request'.given = request.given
      /\ request'.account = request.account /\ request'.rows = request.rows /\ request'.came = request.came
      /\ request'.uncounted = request.uncounted /\ request'.sum = request.sum
      /\ request'.left = request.left /\ request'.answer = request.answer
  BY <1>2 DEF Keeps, Fields
<1>4. status' \in [Askers -> R!Statuses \cup {R!None, R!Null}]
  BY <1>1
<1>5. RequestsTypeInv' /\ MutexInv' /\ TaskInv' /\ StakeInv'
  <2>1. RequestsTypeInv'
    BY <1>1, <1>2, <1>3, <1>4 DEF RequestsInv, RequestsTypeInv
  <2>2. MutexInv' /\ TaskInv' /\ StakeInv'
    BY <1>1 DEF RequestsInv, MutexInv, TaskInv, TaskOk, StakeInv, RowsBy, R!RowsOf
  <2>. QED BY <2>1, <2>2
<1>6. StepsInv' /\ FoundInv' /\ R!WholeStakes'
  BY <1>1, <1>3 DEF RequestsInv, StepsInv, FoundInv, R!WholeStakes, R!RowsOf
<1>7. CountInv'
  <2>1. PICK A, B, P, Q : /\ A = OfStatus(request.uncounted) /\ B = OfStatus(request.uncounted)'
                          /\ P = Present /\ Q = Present'
    OBVIOUS
  <2>2. /\ A \subseteq Askers /\ B \subseteq Askers /\ P \subseteq Askers /\ Q \subseteq Askers
    BY <2>1 DEF OfStatus, Present
  <2>3. IsFiniteSet(A) /\ IsFiniteSet(B) /\ IsFiniteSet(P) /\ IsFiniteSet(Q)
    BY <2>2, FS_Subset
  <2>4. A \ {a} = B \ {a} /\ P \ {a} = Q \ {a}
    BY <1>1, <1>3, <2>1 DEF OfStatus, Present
  <2>5. a \in Q /\ (a \in A => a \in P)
    BY <1>1, <2>1 DEF OfStatus, Present
  <2>6. /\ Cardinality(A \ {a}) \in Nat /\ Cardinality(P \ {a}) \in Nat
        /\ Cardinality(A) = Cardinality(A \ {a}) + IF a \in A THEN 1 ELSE 0
        /\ Cardinality(B) = Cardinality(A \ {a}) + IF a \in B THEN 1 ELSE 0
        /\ Cardinality(P) = Cardinality(P \ {a}) + IF a \in P THEN 1 ELSE 0
        /\ Cardinality(Q) = Cardinality(P \ {a}) + 1
    BY <2>3, <2>4, <2>5, OneElement
  <2>7. request.sum + Cardinality(A) - Cardinality(P) \in -request.moved .. request.moved
    BY <2>1 DEF RequestsInv, CountInv
  <2>8. request.sum + Cardinality(B) - Cardinality(Q) \in -(request.moved + 1) .. request.moved + 1
    BY <1>1, <2>5, <2>6, <2>7
  <2>. QED BY <1>2, <1>3, <2>1, <2>8 DEF CountInv
<1>. QED BY <1>5, <1>6, <1>7 DEF RequestsInv

-----------------------------------------------------------------------------
(* AddStakesCommand *)

\* The node goes on; what it gave once, it gave.
LEMMA StakesChangedInv ==
    ASSUME RequestsInv, NEW a \in Askers, NEW T \in SUBSET Askers, R!StakesChanged(a, T)
    PROVE  RequestsInv'
<1>1. /\ history' = [history EXCEPT ![a] = Append(history[a], T)]
      /\ UNCHANGED <<row, status, stake, task, request>>
      /\ history \in [Askers -> Seq(SUBSET Askers)] /\ \A b \in Askers : Len(history[b]) > 0
  BY DEF R!StakesChanged, RequestsInv, RequestsTypeInv
<1>2. /\ history' \in [Askers -> Seq(SUBSET Askers)]
      /\ \A b \in Askers : Len(history'[b]) >= Len(history[b])
      /\ \A b \in Askers : \A k \in 1 .. Len(history[b]) : history'[b][k] = history[b][k]
  <2>1. /\ Append(history[a], T) \in Seq(SUBSET Askers) /\ Len(Append(history[a], T)) = Len(history[a]) + 1
        /\ \A k \in 1 .. Len(history[a]) : Append(history[a], T)[k] = history[a][k]
    BY <1>1
  <2>. QED BY <1>1, <2>1
<1>3. \A b \in Askers : \A k \in DOMAIN history[b] : k \in DOMAIN history'[b] /\ R!RowsOf(b, k)' = R!RowsOf(b, k)
  <2> SUFFICES ASSUME NEW b \in Askers, NEW k \in DOMAIN history[b]
               PROVE  k \in DOMAIN history'[b] /\ R!RowsOf(b, k)' = R!RowsOf(b, k)
    OBVIOUS
  <2>1. /\ history[b] \in Seq(SUBSET Askers) /\ history'[b] \in Seq(SUBSET Askers)
        /\ DOMAIN history[b] = 1 .. Len(history[b]) /\ DOMAIN history'[b] = 1 .. Len(history'[b])
        /\ Len(history[b]) \in Nat /\ Len(history'[b]) \in Nat
    BY <1>1, <1>2
  <2>. QED BY <1>2, <2>1 DEF R!RowsOf
<1>4. RequestsTypeInv'
  BY <1>1, <1>2 DEF RequestsInv, RequestsTypeInv
<1>5. MutexInv' /\ TaskInv'
  <2>1. MutexInv'
    BY <1>1 DEF RequestsInv, MutexInv
  <2>2. ASSUME NEW t \in Tasks PROVE TaskOk(task[t])'
    <3>1. TaskOk(task[t])
      BY DEF RequestsInv, TaskInv
    <3>2. \A b \in Askers : 1 .. Len(history[b]) \subseteq 1 .. Len(history'[b])
      <4>1. ASSUME NEW b \in Askers PROVE Len(history[b]) \in Nat /\ Len(history'[b]) \in Nat
        <5>1. history[b] \in Seq(SUBSET Askers) /\ history'[b] \in Seq(SUBSET Askers)
          BY <1>1, <1>2
        <5>. QED BY <5>1
      <4>. QED BY <1>2, <4>1
    <3>. QED BY <1>1, <3>1, <3>2 DEF TaskOk, RowsBy
  <2>. QED BY <2>1, <2>2 DEF TaskInv
<1>6. StakeInv'
  <2> SUFFICES ASSUME NEW b \in Askers, RowsBy(b)' # {}
               PROVE  \E k \in DOMAIN history'[b] : RowsBy(b)' = R!RowsOf(b, k)'
    BY DEF StakeInv
  <2>1. RowsBy(b)' = RowsBy(b)
    BY <1>1 DEF RowsBy
  <2>2. PICK k \in DOMAIN history[b] : RowsBy(b) = R!RowsOf(b, k)
    BY <2>1 DEF RequestsInv, StakeInv
  <2>. QED BY <1>3, <2>1, <2>2
<1>7. StepsInv' /\ FoundInv' /\ CountInv' /\ R!WholeStakes'
  BY <1>1, <1>3, RequestStays
<1>. QED BY <1>4, <1>5, <1>6, <1>7 DEF RequestsInv

\* A command that moves on, whatever it does to the stakes.
LEMMA TaskMoves ==
    ASSUME RequestsInv, NEW t \in Tasks, NEW k \in Task, task' = [task EXCEPT ![t] = k],
           UNCHANGED <<row, status, history, request>>,
           k.pc # "idle" => \A u \in Tasks : u # t => task[u].pc = "idle",
           TaskOk(k)', StakeInv',
           \A u \in Tasks : u # t => TaskOk(task[u])'
    PROVE  RequestsInv'
<1>1. /\ task' \in [Tasks -> Task] /\ task'[t] = k
      /\ \A u \in Tasks : u # t => task'[u] = task[u]
  BY DEF RequestsInv, RequestsTypeInv
<1>2. RequestsTypeInv' /\ MutexInv'
  BY <1>1 DEF RequestsInv, RequestsTypeInv, MutexInv
<1>3. TaskInv'
  BY <1>1 DEF TaskInv, TaskOk
<1>4. StepsInv' /\ FoundInv' /\ CountInv' /\ R!WholeStakes'
  BY RequestStays DEF R!RowsOf
<1>. QED BY <1>2, <1>3, <1>4 DEF RequestsInv

\* The other commands of the mutex are idle.
LEMMA OthersIdle ==
    ASSUME RequestsInv, NEW t \in Tasks, task[t].pc # "idle"
    PROVE  \A u \in Tasks : u # t => task[u].pc = "idle"
BY DEF RequestsInv, MutexInv

LEMMA AcquiredInv == ASSUME RequestsInv, NEW t \in Tasks, NEW a \in Askers, R!Acquired(t, a) PROVE RequestsInv'
<1> DEFINE d == [R!Idle EXCEPT !.pc = "asked"]
<1>1. PICK k : k = [d EXCEPT !.staker = a]
  OBVIOUS
<1>2. /\ UNCHANGED <<row, status, history, stake, request>> /\ task' = [task EXCEPT ![t] = k]
      /\ \A u \in Tasks : task[u].pc = "idle"
  BY <1>1, IdleFacts DEF R!Acquired
<1>3. d \in Task /\ d.pc = "asked"
  BY IdleFacts DEF Task
<1> HIDE DEF d
<1>4. k \in Task /\ k.pc = "asked" /\ k.staker = a
  BY <1>1, <1>3 DEF Task
<1>5. TaskOk(k)' /\ \A u \in Tasks : u # t => TaskOk(task[u])'
  <2>1. task \in [Tasks -> Task]
    BY DEF RequestsInv, RequestsTypeInv
  <2>. QED BY <1>2, <1>4, <2>1 DEF TaskOk
<1>6. StakeInv'
  BY <1>2 DEF RequestsInv, StakeInv, RowsBy, R!RowsOf
<1>. QED BY <1>2, <1>4, <1>5, <1>6, TaskMoves

\* The command holds what the node gave at one time.
LEMMA StakesAnsweredInv == ASSUME RequestsInv, NEW t \in Tasks, R!StakesAnswered(t) PROVE RequestsInv'
<1> DEFINE d == [task[t] EXCEPT !.pc = "delete"]
<1>1. PICK k : k = [d EXCEPT !.got = Len(history[task[t].staker])]
  OBVIOUS
<1>2. /\ UNCHANGED <<row, status, history, stake, request>> /\ task' = [task EXCEPT ![t] = k]
      /\ task[t].pc = "asked" /\ task \in [Tasks -> Task] /\ task[t] \in Task
      /\ task[t].staker \in Askers
  <2>1. task \in [Tasks -> Task] /\ task[t].pc = "asked" /\ TaskOk(task[t])
    BY DEF R!StakesAnswered, RequestsInv, RequestsTypeInv, TaskInv
  <2>. QED BY <1>1, <2>1 DEF R!StakesAnswered, TaskOk
<1>3. Len(history[task[t].staker]) \in Nat \ {0}
  <2>1. history[task[t].staker] \in Seq(SUBSET Askers) /\ Len(history[task[t].staker]) > 0
    BY <1>2 DEF RequestsInv, RequestsTypeInv
  <2>. QED BY <2>1
<1>4. d \in Task /\ d.pc = "delete" /\ d.staker = task[t].staker
  BY <1>2 DEF Task
<1> HIDE DEF d
<1>5. k \in Task /\ k.pc = "delete" /\ k.staker = task[t].staker /\ k.got = Len(history[task[t].staker])
  BY <1>1, <1>3, <1>4 DEF Task
<1>6. \A u \in Tasks : u # t => task[u].pc = "idle"
  BY <1>2, OthersIdle
<1>7. TaskOk(k)' /\ \A u \in Tasks : u # t => TaskOk(task[u])'
  BY <1>2, <1>3, <1>5, <1>6 DEF TaskOk
<1>8. StakeInv'
  BY <1>2 DEF RequestsInv, StakeInv, RowsBy, R!RowsOf
<1>. QED BY <1>2, <1>5, <1>6, <1>7, <1>8, TaskMoves

\* Between the two statements the account has no rows.
LEMMA StakesDeletedInv == ASSUME RequestsInv, NEW t \in Tasks, R!StakesDeleted(t) PROVE RequestsInv'
<1>1. PICK k : k = [task[t] EXCEPT !.pc = "create"]
  OBVIOUS
<1>2. /\ UNCHANGED <<row, status, history, request>> /\ task' = [task EXCEPT ![t] = k]
      /\ stake' = {s \in stake : s.staker # task[t].staker}
      /\ task[t].pc = "delete" /\ task \in [Tasks -> Task] /\ task[t] \in Task
      /\ task[t].staker \in Askers /\ task[t].got \in 1 .. Len(history[task[t].staker])
  <2>1. task \in [Tasks -> Task] /\ task[t].pc = "delete" /\ TaskOk(task[t])
    BY DEF R!StakesDeleted, RequestsInv, RequestsTypeInv, TaskInv
  <2>. QED BY <1>1, <2>1 DEF R!StakesDeleted, TaskOk
<1>3. k \in Task /\ k.pc = "create" /\ k.staker = task[t].staker /\ k.got = task[t].got
  BY <1>1, <1>2 DEF Task
<1>4. \A u \in Tasks : u # t => task[u].pc = "idle"
  BY <1>2, OthersIdle
<1>5. PICK a : a = task[t].staker
  OBVIOUS
<1>6. RowsBy(a)' = {} /\ \A b : b # a => RowsBy(b)' = RowsBy(b)
  BY <1>2, <1>5 DEF RowsBy
<1>7. TaskOk(k)' /\ \A u \in Tasks : u # t => TaskOk(task[u])'
  BY <1>2, <1>3, <1>4, <1>5, <1>6 DEF TaskOk
<1>8. StakeInv'
  <2>1. \A b \in Askers : \A i : R!RowsOf(b, i)' = R!RowsOf(b, i)
    BY <1>2 DEF R!RowsOf
  <2>. QED BY <1>2, <1>6, <2>1 DEF RequestsInv, StakeInv
<1>. QED BY <1>2, <1>3, <1>4, <1>7, <1>8, TaskMoves

\* Afterwards it has all that the command holds.
LEMMA StakesCreatedInv == ASSUME RequestsInv, NEW t \in Tasks, R!StakesCreated(t) PROVE RequestsInv'
<1>1. PICK a, i : a = task[t].staker /\ i = task[t].got
  OBVIOUS
<1>2. /\ UNCHANGED <<row, status, history, request>> /\ task' = [task EXCEPT ![t] = R!Idle]
      /\ stake' = stake \cup R!RowsOf(a, i)
      /\ task[t].pc = "create" /\ task \in [Tasks -> Task]
      /\ a \in Askers /\ i \in 1 .. Len(history[a]) /\ RowsBy(a) = {}
  <2>1. task \in [Tasks -> Task] /\ task[t].pc = "create" /\ TaskOk(task[t])
    BY DEF R!StakesCreated, RequestsInv, RequestsTypeInv, TaskInv
  <2>. QED BY <1>1, <2>1 DEF R!StakesCreated, TaskOk
<1>3. \A u \in Tasks : u # t => task[u].pc = "idle"
  BY <1>2, OthersIdle
<1>4. \A s \in R!RowsOf(a, i) : s.staker = a
  BY DEF R!RowsOf
<1>5. RowsBy(a)' = R!RowsOf(a, i) /\ \A b : b # a => RowsBy(b)' = RowsBy(b)
  BY <1>2, <1>4 DEF RowsBy
<1>6. TaskOk(R!Idle)' /\ \A u \in Tasks : u # t => TaskOk(task[u])'
  BY <1>2, <1>3, IdleFacts DEF TaskOk
<1>7. StakeInv'
  <2>1. \A b \in Askers : \A j : R!RowsOf(b, j)' = R!RowsOf(b, j)
    BY <1>2 DEF R!RowsOf
  <2>2. i \in DOMAIN history[a]
    <3>1. history[a] \in Seq(SUBSET Askers)
      BY <1>2 DEF RequestsInv, RequestsTypeInv
    <3>. QED BY <1>2, <3>1
  <2>. QED BY <1>2, <1>5, <2>1, <2>2 DEF RequestsInv, StakeInv
<1>. QED BY <1>2, <1>6, <1>7, IdleFacts, TaskMoves

LEMMA StakesFailInv == ASSUME RequestsInv, NEW t \in Tasks, R!StakesFail(t) PROVE RequestsInv'
<1>1. /\ UNCHANGED <<row, status, history, stake, request>> /\ task' = [task EXCEPT ![t] = R!Idle]
      /\ task \in [Tasks -> Task]
  BY DEF R!StakesFail, RequestsInv, RequestsTypeInv
<1>2. TaskOk(R!Idle)' /\ \A u \in Tasks : u # t => TaskOk(task[u])'
  BY <1>1, IdleFacts DEF RequestsInv, TaskInv, TaskOk, RowsBy
<1>3. StakeInv'
  BY <1>1 DEF RequestsInv, StakeInv, RowsBy, R!RowsOf
<1>. QED BY <1>1, <1>2, <1>3, IdleFacts, TaskMoves

-----------------------------------------------------------------------------
(* What follows *)

LEMMA RequestsStutterInv == ASSUME RequestsInv, UNCHANGED R!vars PROVE RequestsInv'
<1>1. UNCHANGED <<row, status, history, stake, task, request>>
  BY DEF R!vars
<1>2. RequestsTypeInv' /\ MutexInv' /\ TaskInv' /\ StakeInv'
  BY <1>1, StakesStay DEF RequestsInv, RequestsTypeInv
<1>3. StepsInv' /\ FoundInv' /\ CountInv' /\ R!WholeStakes'
  BY <1>1, RequestStays DEF R!RowsOf
<1>. QED BY <1>2, <1>3 DEF RequestsInv

LEMMA RequestsNextInv == ASSUME IsFiniteSet(Askers), RequestsInv, [R!Next]_R!vars PROVE RequestsInv'
<1>1. CASE \E m \in {"START_UP", "RESTART", "SYNCING", "INDEXING"} : R!ModeChanges(m)
  BY <1>1, ModeChangesInv
<1>2. CASE \E a \in Askers : \E p \in {"address", "publicKey", "name"} : R!AccountStored(a, p)
  BY <1>2, AccountStoredInv
<1>3. CASE \E a \in Askers : \E s \in R!Statuses : R!StatusChanged(a, s)
  BY <1>3, StatusChangedInv
<1>4. CASE \E a \in Askers : \E T \in SUBSET Askers : R!StakesChanged(a, T)
  BY <1>4, StakesChangedInv
<1>5. CASE \E a \in Askers : \E t \in Tasks : R!Acquired(t, a)
  BY <1>5, AcquiredInv
<1>6. CASE \E t \in Tasks : R!StakesAnswered(t) \/ R!StakesDeleted(t) \/ R!StakesCreated(t) \/ R!StakesFail(t)
  BY <1>6, StakesAnsweredInv, StakesDeletedInv, StakesCreatedInv, StakesFailInv
<1>7. CASE R!Arrives \/ R!HealthChecked \/ R!AccountFound \/ R!AccountMissing \/ R!ValidatorLookedUp
  BY <1>7, ArrivesInv, HealthCheckedInv, AccountFoundInv, AccountMissingInv, ValidatorLookedUpInv
<1>8. CASE R!NodeAsked \/ R!NodeAnswered \/ R!TimedOut \/ R!StakesRead
  BY <1>8, NodeAskedInv, NodeAnsweredInv, TimedOutInv, StakesReadInv
<1>9. CASE \E s \in R!Statuses : R!Counted(s)
  BY <1>9, CountedInv
<1>10. CASE \E a \in Askers : R!ValidatorCreated(a)
  BY <1>10, ValidatorCreatedInv
<1>11. CASE UNCHANGED R!vars
  BY <1>11, RequestsStutterInv
<1>. QED BY <1>1, <1>2, <1>3, <1>4, <1>5, <1>6, <1>7, <1>8, <1>9, <1>10, <1>11 DEF R!Next

LEMMA Asked == ASSUME RequestsInv PROVE R!AboutTheAsked
BY DEF RequestsInv, FoundInv, R!AboutTheAsked

LEMMA SumIsClose == ASSUME IsFiniteSet(Askers), RequestsInv PROVE R!CountsOffByChanges
<1> SUFFICES ASSUME request.endpoint = "counts", request.answer = "200"
             PROVE  request.sum - Cardinality(Present) \in -request.moved .. request.moved
  BY InstanceCardinality DEF R!CountsOffByChanges, Present, OfStatus
<1>1. request.uncounted = {} /\ request.sum \in Int
  BY DEF RequestsInv, StepsInv, RequestsTypeInv
<1>2. OfStatus(request.uncounted) = {}
  BY <1>1 DEF OfStatus
<1>3. Cardinality(OfStatus(request.uncounted)) = 0
  BY <1>2, FS_EmptySet
<1>4. Cardinality(Present) \in Nat
  BY FS_Subset, FS_CardinalityType DEF Present, OfStatus
<1>. QED BY <1>1, <1>3, <1>4 DEF RequestsInv, CountInv

LEMMA InvWholeStakes == ASSUME RequestsInv PROVE R!WholeStakes
BY DEF RequestsInv

-----------------------------------------------------------------------------
(* NodeCaches: any number of refreshes and any height of the node *)

Phases == {"idle", "list", "escrowed", "supply", "tokens"}
Call   == [pc : Phases, block : Int, escrowed : Int, supply : Int, answer : Int]

CachesTypeInv ==
    /\ overlap \in BOOLEAN /\ failed \in BOOLEAN
    /\ kind \in {"validators", "summary", "status", "schemas"}
    /\ height \in Nat \ {0}
    /\ info \in -1 .. height /\ list \in -1 .. height
    /\ summary \in [escrowed : -1 .. height, supply : -1 .. height, tokens : -1 .. height]
    /\ row \in [schema : -1 .. height, meta : -1 .. height]
    /\ boot \in [pc : {"schemas", "schema", "metadata", "upsert", "done"},
                schema : -1 .. height, meta : -1 .. height]
    /\ reader \in [asks : BOOLEAN, value : -1 .. height]
    /\ refresh \in [Refreshes -> Call]
    /\ answered \in -1 .. height

\* What a call has of the node by now: its block, and answers in the order they were
\* asked for.
CallOk(c) ==
    /\ c.pc # "idle" => c.block \in 1 .. height /\ (c.answer = C!None \/ c.answer \in c.block .. height)
    /\ c.pc \in {"escrowed", "supply", "tokens"} => c.block % Every = 0 /\ list # C!None
    /\ c.pc \in {"supply", "tokens"} =>
           /\ c.escrowed \in c.block .. height
           /\ c.answer # C!None => c.escrowed <= c.answer
    /\ c.pc = "tokens" =>
           /\ c.supply \in c.escrowed .. height
           /\ c.answer # C!None => c.supply <= c.answer

CallInv == \A r \in Refreshes : CallOk(refresh[r])

SummaryInv == summary # C!NoSummary => summary.escrowed \in 1 .. height

\* A call only knows what is as new as the caches.
AsNew(c) ==
    /\ c.pc = "list" /\ c.answer # C!None => list <= c.answer
    /\ c.pc = "escrowed" /\ c.answer # C!None => summary.escrowed <= c.answer
    /\ c.pc \in {"supply", "tokens"} => summary.escrowed <= c.escrowed

\* As long as the sync loop awaits every refresh, there is one at a time.
TurnsInv ==
    ~overlap =>
        /\ \A r, q \in Refreshes : refresh[r].pc # "idle" /\ refresh[q].pc # "idle" => r = q
        /\ \A r \in Refreshes : AsNew(refresh[r])

\* The values of the row are as new as those of the process before, and there are no
\* runs before the bootstrap is through.
BootInv ==
    /\ boot.pc \in {"metadata", "upsert"} => boot.schema \in 1 .. height
    /\ boot.pc = "upsert" => boot.meta \in 1 .. height
    /\ boot.pc # "done" => row.schema <= 0
    /\ row # C!NoRow => row.schema # C!None
    /\ boot.pc = "done" => row # C!NoRow

\* An answer was taken from a cache that has only become newer since.
CachesOrderInv ==
    /\ ~overlap /\ kind # "schemas" =>
           /\ answered <= C!Cache
           /\ reader.asks => answered <= reader.value /\ reader.value <= C!Cache
    /\ kind = "schemas" => answered <= row.schema

\* A cache that was set once stays so.
ReadyInv ==
    /\ kind \in {"validators", "summary"} =>
           /\ reader.asks /\ reader.value # C!None => C!Cache # C!None
           /\ answered # C!None => C!Cache # C!None /\ (reader.asks => reader.value # C!None)
    /\ kind = "schemas" /\ answered # C!None => row # C!NoRow
    /\ kind # "status" /\ answered # C!None => ~failed

CachesInv ==
    /\ CachesTypeInv /\ CallInv /\ SummaryInv /\ TurnsInv /\ BootInv /\ CachesOrderInv /\ ReadyInv
    /\ C!SummaryOfOneRefresh

-----------------------------------------------------------------------------
(* Lemmas about records *)

LEMMA NoCallType ==
    /\ C!NoCall \in Call /\ C!NoCall.pc = "idle" /\ C!NoCall.answer = C!None
    /\ C!NoCall.block = C!None /\ C!NoCall.escrowed = C!None /\ C!NoCall.supply = C!None
BY DEF C!NoCall, Call, Phases, C!None

\* What the steps of a call make of it.
LEMMA CallBegins ==
    ASSUME NEW n \in Int
    PROVE  LET d == [C!NoCall EXCEPT !.pc = "list", !.block = n]
           IN  d \in Call /\ d.pc = "list" /\ d.block = n /\ d.answer = C!None
<1> DEFINE d1 == [C!NoCall EXCEPT !.pc = "list"]
<1>1. /\ d1 \in Call /\ d1.pc = "list" /\ d1.block = C!NoCall.block
      /\ d1.escrowed = C!NoCall.escrowed /\ d1.supply = C!NoCall.supply /\ d1.answer = C!NoCall.answer
  BY NoCallType DEF Call, Phases
<1> DEFINE d2 == [d1 EXCEPT !.block = n]
<1> HIDE DEF d1
<1>2. /\ d2 \in Call /\ d2.pc = "list" /\ d2.block = n
      /\ d2.escrowed = C!NoCall.escrowed /\ d2.supply = C!NoCall.supply /\ d2.answer = C!NoCall.answer
  BY <1>1, NoCallType DEF Call, Phases, C!None
<1>. QED BY <1>2, NoCallType DEF d1, d2

LEMMA CallGoesOn ==
    ASSUME NEW c \in Call
    PROVE  LET d == [c EXCEPT !.pc = "escrowed", !.answer = C!None]
           IN  d \in Call /\ d.pc = "escrowed" /\ d.block = c.block /\ d.answer = C!None
<1> DEFINE d1 == [c EXCEPT !.pc = "escrowed"]
<1>1. /\ d1 \in Call /\ d1.pc = "escrowed" /\ d1.block = c.block
      /\ d1.escrowed = c.escrowed /\ d1.supply = c.supply /\ d1.answer = c.answer
  BY NoCallType DEF Call, Phases
<1> DEFINE d2 == [d1 EXCEPT !.answer = C!None]
<1> HIDE DEF d1
<1>2. /\ d2 \in Call /\ d2.pc = "escrowed" /\ d2.block = c.block
      /\ d2.escrowed = c.escrowed /\ d2.supply = c.supply /\ d2.answer = C!None
  BY <1>1, NoCallType DEF Call, Phases, C!None
<1>. QED BY <1>2, NoCallType DEF d1, d2

LEMMA CallKeepsEscrowed ==
    ASSUME NEW c \in Call, NEW n \in Int
    PROVE  LET d == [c EXCEPT !.pc = "supply", !.escrowed = n, !.answer = C!None]
           IN  d \in Call /\ d.pc = "supply" /\ d.block = c.block /\ d.escrowed = n /\ d.answer = C!None
<1> DEFINE d1 == [c EXCEPT !.pc = "supply"]
<1>1. /\ d1 \in Call /\ d1.pc = "supply" /\ d1.block = c.block
      /\ d1.escrowed = c.escrowed /\ d1.supply = c.supply /\ d1.answer = c.answer
  BY NoCallType DEF Call, Phases
<1> DEFINE d2 == [d1 EXCEPT !.escrowed = n]
<1> HIDE DEF d1
<1>2. /\ d2 \in Call /\ d2.pc = "supply" /\ d2.block = c.block
      /\ d2.escrowed = n /\ d2.supply = c.supply /\ d2.answer = c.answer
  BY <1>1, NoCallType DEF Call, Phases, C!None
<1> DEFINE d3 == [d2 EXCEPT !.answer = C!None]
<1> HIDE DEF d2
<1>3. /\ d3 \in Call /\ d3.pc = "supply" /\ d3.block = c.block
      /\ d3.escrowed = n /\ d3.supply = c.supply /\ d3.answer = C!None
  BY <1>2, NoCallType DEF Call, Phases, C!None
<1>. QED BY <1>3, NoCallType DEF d1, d2, d3

LEMMA CallKeepsSupply ==
    ASSUME NEW c \in Call, NEW n \in Int
    PROVE  LET d == [c EXCEPT !.pc = "tokens", !.supply = n, !.answer = C!None]
           IN  /\ d \in Call /\ d.pc = "tokens" /\ d.block = c.block /\ d.escrowed = c.escrowed
               /\ d.supply = n /\ d.answer = C!None
<1> DEFINE d1 == [c EXCEPT !.pc = "tokens"]
<1>1. /\ d1 \in Call /\ d1.pc = "tokens" /\ d1.block = c.block
      /\ d1.escrowed = c.escrowed /\ d1.supply = c.supply /\ d1.answer = c.answer
  BY NoCallType DEF Call, Phases
<1> DEFINE d2 == [d1 EXCEPT !.supply = n]
<1> HIDE DEF d1
<1>2. /\ d2 \in Call /\ d2.pc = "tokens" /\ d2.block = c.block
      /\ d2.escrowed = c.escrowed /\ d2.supply = n /\ d2.answer = c.answer
  BY <1>1, NoCallType DEF Call, Phases, C!None
<1> DEFINE d3 == [d2 EXCEPT !.answer = C!None]
<1> HIDE DEF d2
<1>3. /\ d3 \in Call /\ d3.pc = "tokens" /\ d3.block = c.block
      /\ d3.escrowed = c.escrowed /\ d3.supply = n /\ d3.answer = C!None
  BY <1>2, NoCallType DEF Call, Phases, C!None
<1>. QED BY <1>3, NoCallType DEF d1, d2, d3

-----------------------------------------------------------------------------
(* Frames *)

\* One call moves.
LEMMA OneCall ==
    ASSUME CachesTypeInv, NEW r \in Refreshes, NEW c \in Call, refresh' = [refresh EXCEPT ![r] = c]
    PROVE  /\ refresh' \in [Refreshes -> Call] /\ refresh'[r] = c
           /\ \A q \in Refreshes : q # r => refresh'[q] = refresh[q]
BY DEF CachesTypeInv

\* What only the calls change leaves the caches and their readers in order.
LEMMA CachesStay ==
    ASSUME CachesInv, refresh' \in [Refreshes -> Call],
           UNCHANGED <<overlap, kind, height, info, list, summary, schemas, row, boot, reader, answered, failed>>
    PROVE  CachesTypeInv' /\ SummaryInv' /\ BootInv' /\ CachesOrderInv' /\ ReadyInv' /\ C!SummaryOfOneRefresh'
BY DEF CachesInv, CachesTypeInv, SummaryInv, BootInv, CachesOrderInv, ReadyInv, C!SummaryOfOneRefresh, C!Cache

\* A call keeps what it has when the node goes on.
LEMMA CallsStay ==
    ASSUME CachesInv, height' \in {height, height + 1},
           UNCHANGED <<overlap, list, summary, refresh>>
    PROVE  CallInv' /\ TurnsInv'
<1>1. ASSUME NEW r \in Refreshes PROVE CallOk(refresh[r])'
  <2>1. CallOk(refresh[r]) /\ refresh[r] \in Call /\ height \in Nat
    BY DEF CachesInv, CallInv, CachesTypeInv
  <2>. QED BY <2>1 DEF CallOk, Call, C!None
<1>2. TurnsInv'
  BY DEF CachesInv, TurnsInv, AsNew
<1>. QED BY <1>1, <1>2 DEF CallInv

-----------------------------------------------------------------------------
(* The invariant holds at first, and every step keeps it *)

LEMMA CachesInitInv == C!Init => CachesInv
<1> SUFFICES ASSUME C!Init PROVE CachesInv
  OBVIOUS
<1>1. CachesTypeInv
  <2>1. boot \in [pc : {"schemas", "schema", "metadata", "upsert", "done"},
                 schema : -1 .. height, meta : -1 .. height]
    BY DEF C!Init, C!None
  <2>2. /\ summary \in [escrowed : -1 .. height, supply : -1 .. height, tokens : -1 .. height]
        /\ row \in [schema : -1 .. height, meta : -1 .. height]
    BY DEF C!Init, C!None, C!NoSummary, C!NoRow
  <2>3. reader \in [asks : BOOLEAN, value : -1 .. height]
    BY DEF C!Init, C!None, C!NoReader
  <2>4. height = 1 /\ info = -1 /\ list = -1 /\ answered = -1 /\ refresh \in [Refreshes -> Call]
    BY NoCallType DEF C!Init, C!None
  <2>5. height \in Nat \ {0} /\ -1 \in -1 .. height
    BY <2>4
  <2>6. /\ overlap \in BOOLEAN /\ failed \in BOOLEAN
        /\ kind \in {"validators", "summary", "status", "schemas"}
    BY DEF C!Init
  <2>. QED BY <2>1, <2>2, <2>3, <2>4, <2>5, <2>6 DEF CachesTypeInv
<1>2. CallInv /\ TurnsInv
  BY NoCallType DEF C!Init, CallInv, CallOk, TurnsInv, AsNew
<1>3. SummaryInv /\ C!SummaryOfOneRefresh
  BY DEF C!Init, SummaryInv, C!SummaryOfOneRefresh
<1>4. BootInv
  BY DEF C!Init, BootInv, C!NoRow, C!None
<1>5. CachesOrderInv /\ ReadyInv
  BY DEF C!Init, CachesOrderInv, ReadyInv, C!Cache, C!NoSummary, C!NoRow, C!NoReader, C!None
<1>. QED BY <1>1, <1>2, <1>3, <1>4, <1>5 DEF CachesInv

LEMMA BlockForgedInv == ASSUME CachesInv, C!BlockForged PROVE CachesInv'
<1>1. /\ height' = height + 1 /\ UNCHANGED <<overlap, kind, C!caches, boot, refresh, C!readers>>
  BY DEF C!BlockForged
<1>2. CachesTypeInv'
  BY <1>1 DEF CachesInv, CachesTypeInv, C!caches, C!readers
<1>3. CallInv' /\ TurnsInv'
  BY <1>1, CallsStay DEF C!caches
<1>4. SummaryInv' /\ BootInv' /\ CachesOrderInv' /\ ReadyInv' /\ C!SummaryOfOneRefresh'
  BY <1>1 DEF CachesInv, CachesTypeInv, SummaryInv, BootInv, CachesOrderInv, ReadyInv,
       C!SummaryOfOneRefresh, C!Cache, C!caches, C!readers
<1>. QED BY <1>2, <1>3, <1>4 DEF CachesInv

LEMMA BootStepInv == ASSUME CachesInv, C!BootStep PROVE CachesInv'
<1>1. UNCHANGED <<overlap, kind, height, info, list, summary, refresh, reader, answered, failed>>
  BY DEF C!BootStep, C!readers
<1>2. CallInv' /\ TurnsInv'
  BY <1>1, CallsStay
<1>3. boot'.pc = "done" <=> boot.pc = "upsert"
  BY DEF C!BootStep, CachesInv, CachesTypeInv
<1>4. row' = IF boot.pc = "upsert" THEN [schema |-> boot.schema, meta |-> boot.meta] ELSE row
  BY DEF C!BootStep
<1>5. /\ boot' \in [pc : {"schemas", "schema", "metadata", "upsert", "done"},
                    schema : -1 .. height, meta : -1 .. height]
      /\ boot'.pc \in {"metadata", "upsert"} => boot'.schema \in 1 .. height
      /\ boot'.pc = "upsert" => boot'.meta \in 1 .. height
  <2>1. height \in 1 .. height
    BY DEF CachesInv, CachesTypeInv
  <2>2. CASE boot.pc = "schemas"
    BY <2>2 DEF C!BootStep, CachesInv, CachesTypeInv
  <2>3. CASE boot.pc = "schema"
    <3>1. /\ boot' = [[boot EXCEPT !.pc = "metadata"] EXCEPT !.schema = height]
          /\ height \in -1 .. height
      BY <2>1, <2>3 DEF C!BootStep, CachesInv, CachesTypeInv
    <3>. QED BY <2>1, <2>3, <3>1 DEF CachesInv, CachesTypeInv
  <2>4. CASE boot.pc = "metadata"
    <3>1. /\ boot' = [[boot EXCEPT !.pc = "upsert"] EXCEPT !.meta = height]
          /\ height \in -1 .. height
      BY <2>1, <2>4 DEF C!BootStep, CachesInv, CachesTypeInv
    <3>. QED BY <2>1, <2>4, <3>1 DEF CachesInv, CachesTypeInv, BootInv
  <2>5. CASE boot.pc = "upsert"
    BY <2>5 DEF C!BootStep, CachesInv, CachesTypeInv
  <2>. QED BY <2>2, <2>3, <2>4, <2>5 DEF C!BootStep
<1>6. boot.pc # "done" /\ row.schema <= 0
  BY DEF C!BootStep, CachesInv, BootInv
<1>7. /\ row' \in [schema : -1 .. height, meta : -1 .. height]
      /\ row.schema <= row'.schema
      /\ row' # C!NoRow => row'.schema # C!None
      /\ row # C!NoRow => row' # C!NoRow
      /\ boot.pc = "upsert" => row' # C!NoRow
      /\ boot.pc # "upsert" => row' = row
  <2>1. CASE boot.pc = "upsert"
    <3>1. boot.schema \in 1 .. height /\ boot.meta \in 1 .. height
      BY <2>1 DEF CachesInv, BootInv
    <3>2. row'.schema = boot.schema /\ row' \in [schema : -1 .. height, meta : -1 .. height]
      BY <1>4, <2>1, <3>1
    <3>3. row' # C!NoRow
      BY <3>1, <3>2 DEF C!NoRow, C!None
    <3>. QED BY <1>6, <2>1, <3>1, <3>2, <3>3 DEF CachesInv, CachesTypeInv, C!None
  <2>2. CASE boot.pc # "upsert"
    BY <1>4, <2>2 DEF CachesInv, CachesTypeInv, BootInv
  <2>. QED BY <2>1, <2>2
<1>8. CachesTypeInv'
  BY <1>1, <1>5, <1>7 DEF CachesInv, CachesTypeInv
<1>9. BootInv'
  BY <1>1, <1>3, <1>5, <1>6, <1>7 DEF CachesInv, BootInv
<1>10. CachesOrderInv'
  BY <1>1, <1>7 DEF CachesInv, CachesTypeInv, CachesOrderInv, C!Cache
<1>11. ReadyInv'
  BY <1>1, <1>7 DEF CachesInv, ReadyInv, C!Cache
<1>12. SummaryInv' /\ C!SummaryOfOneRefresh'
  BY <1>1 DEF CachesInv, SummaryInv, C!SummaryOfOneRefresh
<1>. QED BY <1>2, <1>8, <1>9, <1>10, <1>11, <1>12 DEF CachesInv

LEMMA CachesNodeInfoSetInv == ASSUME CachesInv, C!NodeInfoSet PROVE CachesInv'
<1>1. /\ boot.pc = "done" /\ kind = "status" /\ info' = height
      /\ UNCHANGED <<overlap, kind, height, list, summary, schemas, row, boot, refresh, reader, answered, failed>>
  BY DEF C!NodeInfoSet, C!Reads, C!readers
<1>2. height \in -1 .. height
  BY DEF CachesInv, CachesTypeInv
<1>3. CachesTypeInv'
  BY <1>1, <1>2 DEF CachesInv, CachesTypeInv
<1>4. CallInv' /\ TurnsInv'
  BY <1>1, CallsStay
<1>5. SummaryInv' /\ BootInv' /\ C!SummaryOfOneRefresh' /\ ReadyInv'
  BY <1>1 DEF CachesInv, SummaryInv, BootInv, C!SummaryOfOneRefresh, ReadyInv
<1>6. CachesOrderInv'
  BY <1>1 DEF CachesInv, CachesTypeInv, CachesOrderInv, C!Cache
<1>. QED BY <1>3, <1>4, <1>5, <1>6 DEF CachesInv

\* A call that moves without touching a cache.
LEMMA CallMoves ==
    ASSUME CachesInv, NEW r \in Refreshes, NEW c \in Call, refresh' = [refresh EXCEPT ![r] = c],
           UNCHANGED <<overlap, kind, height, info, list, summary, schemas, row, boot, reader, answered, failed>>,
           CallOk(c)', ~overlap => AsNew(c)',
           c.pc # "idle" /\ ~overlap => \A q \in Refreshes : q # r => refresh[q].pc = "idle"
    PROVE  CachesInv'
<1>1. /\ refresh' \in [Refreshes -> Call] /\ refresh'[r] = c
      /\ \A q \in Refreshes : q # r => refresh'[q] = refresh[q]
  BY OneCall DEF CachesInv
<1>2. CallInv'
  BY <1>1 DEF CachesInv, CallInv, CallOk
<1>3. TurnsInv'
  BY <1>1 DEF CachesInv, TurnsInv, AsNew
<1>. QED BY <1>1, <1>2, <1>3, CachesStay DEF CachesInv

LEMMA RefreshedInv == ASSUME CachesInv, NEW r \in Refreshes, C!Refreshed(r) PROVE CachesInv'
<1>1. PICK c : c = [C!NoCall EXCEPT !.pc = "list", !.block = height]
  OBVIOUS
<1>2. /\ refresh' = [refresh EXCEPT ![r] = c]
      /\ UNCHANGED <<overlap, kind, height, info, list, summary, schemas, row, boot, reader, answered, failed>>
  BY <1>1 DEF C!Refreshed, C!caches, C!readers
<1>3. height \in Nat \ {0} /\ height \in Int
  BY DEF CachesInv, CachesTypeInv
<1>4. c \in Call /\ c.pc = "list" /\ c.block = height /\ c.answer = C!None
  BY <1>1, <1>3, CallBegins
<1>5. CallOk(c)' /\ AsNew(c)'
  BY <1>2, <1>3, <1>4 DEF CallOk, AsNew
<1>6. ~overlap => \A q \in Refreshes : q # r => refresh[q].pc = "idle"
  BY NoCallType DEF C!Refreshed
<1>. QED BY <1>2, <1>4, <1>5, <1>6, CallMoves

LEMMA AnsweredInv == ASSUME CachesInv, NEW r \in Refreshes, C!Answered(r) PROVE CachesInv'
<1>1. PICK c : c = [refresh[r] EXCEPT !.answer = height]
  OBVIOUS
<1>2. /\ refresh[r].pc # "idle" /\ refresh[r] \in Call /\ height \in Nat \ {0}
      /\ refresh \in [Refreshes -> Call]
  BY DEF C!Answered, CachesInv, CachesTypeInv
<1>3. /\ refresh' = [refresh EXCEPT ![r] = c]
      /\ UNCHANGED <<overlap, kind, height, info, list, summary, schemas, row, boot, reader, answered, failed>>
  BY <1>1, <1>2 DEF C!Answered, C!caches, C!readers
<1>4. /\ c \in Call /\ c.pc = refresh[r].pc /\ c.block = refresh[r].block
      /\ c.escrowed = refresh[r].escrowed /\ c.supply = refresh[r].supply /\ c.answer = height
  BY <1>1, <1>2 DEF Call
<1>5. CallOk(c)'
  <2>1. CallOk(refresh[r])
    BY DEF CachesInv, CallInv
  <2>. QED BY <1>2, <1>3, <1>4, <2>1 DEF CallOk, Call, C!None
<1>6. ~overlap => AsNew(c)'
  <2>1. list \in -1 .. height /\ summary.escrowed \in -1 .. height /\ (~overlap => AsNew(refresh[r]))
    BY DEF CachesInv, CachesTypeInv, TurnsInv
  <2>. QED BY <1>2, <1>3, <1>4, <2>1 DEF AsNew
<1>7. ~overlap => \A q \in Refreshes : q # r => refresh[q].pc = "idle"
  BY <1>2 DEF CachesInv, TurnsInv
<1>. QED BY <1>3, <1>4, <1>5, <1>6, <1>7, CallMoves

LEMMA PartAnsweredInv == ASSUME CachesInv, NEW r \in Refreshes, C!PartAnswered(r) PROVE CachesInv'
<1>1. /\ refresh \in [Refreshes -> Call] /\ refresh[r] \in Call /\ height \in Nat \ {0}
      /\ CallOk(refresh[r]) /\ (~overlap => AsNew(refresh[r]))
      /\ refresh[r].answer \in Int
      /\ UNCHANGED <<overlap, kind, height, info, list, summary, schemas, row, boot, reader, answered, failed>>
  <2>1. refresh \in [Refreshes -> Call] /\ refresh[r] \in Call
    BY DEF CachesInv, CachesTypeInv
  <2>. QED BY <2>1 DEF C!PartAnswered, CachesInv, CachesTypeInv, CallInv, TurnsInv, C!caches, C!readers, Call
<1>2. refresh[r].pc # "idle" /\ refresh[r].answer # C!None
  BY DEF C!PartAnswered, C!Arrived
<1>3. ~overlap => \A q \in Refreshes : q # r => refresh[q].pc = "idle"
  BY <1>2 DEF CachesInv, TurnsInv
<1>4. CASE refresh[r].pc = "escrowed"
  <2>1. PICK c : c = [refresh[r] EXCEPT !.pc = "supply", !.escrowed = refresh[r].answer, !.answer = C!None]
    OBVIOUS
  <2>2. refresh' = [refresh EXCEPT ![r] = c]
    BY <1>1, <1>4, <2>1 DEF C!PartAnswered, C!Arrived
  <2>3. /\ c \in Call /\ c.pc = "supply" /\ c.block = refresh[r].block
        /\ c.escrowed = refresh[r].answer /\ c.answer = C!None
    BY <1>1, <2>1, CallKeepsEscrowed
  <2>4. CallOk(c)' /\ (~overlap => AsNew(c)')
    BY <1>1, <1>2, <1>4, <2>3 DEF CallOk, AsNew
  <2>. QED BY <1>1, <1>3, <2>2, <2>3, <2>4, CallMoves
<1>5. CASE refresh[r].pc = "supply"
  <2>1. PICK c : c = [refresh[r] EXCEPT !.pc = "tokens", !.supply = refresh[r].answer, !.answer = C!None]
    OBVIOUS
  <2>2. refresh' = [refresh EXCEPT ![r] = c]
    BY <1>1, <1>5, <2>1 DEF C!PartAnswered, C!Arrived
  <2>3. /\ c \in Call /\ c.pc = "tokens" /\ c.block = refresh[r].block
        /\ c.escrowed = refresh[r].escrowed /\ c.supply = refresh[r].answer /\ c.answer = C!None
    BY <1>1, <2>1, CallKeepsSupply
  <2>4. CallOk(c)' /\ (~overlap => AsNew(c)')
    BY <1>1, <1>2, <1>5, <2>3 DEF CallOk, AsNew
  <2>. QED BY <1>1, <1>3, <2>2, <2>3, <2>4, CallMoves
<1>. QED BY <1>4, <1>5 DEF C!PartAnswered, C!Arrived

LEMMA RefreshFailsInv == ASSUME CachesInv, NEW r \in Refreshes, C!RefreshFails(r) PROVE CachesInv'
<1>1. /\ refresh' = [refresh EXCEPT ![r] = C!NoCall]
      /\ UNCHANGED <<overlap, kind, height, info, list, summary, schemas, row, boot, reader, answered, failed>>
  BY DEF C!RefreshFails, C!caches, C!readers
<1>2. CallOk(C!NoCall)' /\ AsNew(C!NoCall)'
  BY NoCallType DEF CallOk, AsNew, C!None
<1>. QED BY <1>1, <1>2, NoCallType, CallMoves

LEMMA ListSetInv == ASSUME CachesInv, NEW r \in Refreshes, C!ListSet(r) PROVE CachesInv'
<1>1. PICK c : c = IF refresh[r].block % Every = 0
                   THEN [refresh[r] EXCEPT !.pc = "escrowed", !.answer = C!None] ELSE C!NoCall
  OBVIOUS
<1>2. /\ refresh \in [Refreshes -> Call] /\ refresh[r] \in Call /\ height \in Nat \ {0}
      /\ CallOk(refresh[r]) /\ (~overlap => AsNew(refresh[r]))
      /\ refresh[r].answer \in Int /\ refresh[r].pc = "list" /\ refresh[r].answer # C!None
      /\ list' = refresh[r].answer
      /\ UNCHANGED <<overlap, kind, height, info, summary, schemas, row, boot, reader, answered, failed>>
  <2>1. refresh \in [Refreshes -> Call] /\ refresh[r] \in Call
    BY DEF CachesInv, CachesTypeInv
  <2>. QED BY <2>1 DEF C!ListSet, C!Arrived, CachesInv, CachesTypeInv, CallInv, TurnsInv, C!caches, C!readers, Call
<1>3. refresh' = [refresh EXCEPT ![r] = c]
  BY <1>1, <1>2 DEF C!ListSet
<1>4. /\ c \in Call /\ c.answer = C!None /\ c.pc \in {"idle", "escrowed"}
      /\ c.pc = "escrowed" => c.block = refresh[r].block /\ refresh[r].block % Every = 0
  <2>1. CASE refresh[r].block % Every = 0
    BY <1>1, <1>2, <2>1, CallGoesOn
  <2>2. CASE refresh[r].block % Every # 0
    BY <1>1, <2>2, NoCallType
  <2>. QED BY <2>1, <2>2
<1>5. /\ refresh' \in [Refreshes -> Call] /\ refresh'[r] = c
      /\ \A q \in Refreshes : q # r => refresh'[q] = refresh[q]
  BY <1>3, <1>4, OneCall DEF CachesInv
<1>6. list' \in 1 .. height /\ (~overlap => list <= list')
  BY <1>2 DEF CallOk, AsNew, C!None
<1>7. CachesTypeInv'
  BY <1>2, <1>5, <1>6 DEF CachesInv, CachesTypeInv
<1>8. CallInv'
  <2>1. ASSUME NEW q \in Refreshes, q # r PROVE CallOk(refresh[q])'
    BY <1>2, <1>5, <1>6, <2>1 DEF CachesInv, CallInv, CallOk, C!None
  <2>2. CallOk(c)'
    BY <1>2, <1>4, <1>6 DEF CallOk, C!None
  <2>. QED BY <1>5, <2>1, <2>2 DEF CallInv
<1>9. TurnsInv'
  <2> SUFFICES ASSUME ~overlap PROVE /\ \A q \in Refreshes : q # r => refresh'[q].pc = "idle"
                                     /\ \A q \in Refreshes : AsNew(refresh[q])'
    BY <1>2 DEF TurnsInv
  <2>1. \A q \in Refreshes : q # r => refresh[q].pc = "idle"
    BY <1>2 DEF CachesInv, TurnsInv
  <2>2. AsNew(c)'
    BY <1>4 DEF AsNew
  <2>. QED BY <1>5, <2>1, <2>2 DEF AsNew
<1>10. CachesOrderInv'
  BY <1>2, <1>6 DEF CachesInv, CachesTypeInv, CachesOrderInv, C!Cache
<1>11. ReadyInv'
  BY <1>2, <1>6 DEF CachesInv, ReadyInv, C!Cache, C!None
<1>12. SummaryInv' /\ BootInv' /\ C!SummaryOfOneRefresh'
  BY <1>2, <1>6 DEF CachesInv, SummaryInv, BootInv, C!SummaryOfOneRefresh, C!None
<1>. QED BY <1>7, <1>8, <1>9, <1>10, <1>11, <1>12 DEF CachesInv

LEMMA SummarySetInv == ASSUME CachesInv, NEW r \in Refreshes, C!SummarySet(r) PROVE CachesInv'
<1>1. /\ refresh \in [Refreshes -> Call] /\ refresh[r] \in Call /\ height \in Nat \ {0}
      /\ CallOk(refresh[r]) /\ (~overlap => AsNew(refresh[r]))
      /\ refresh[r].pc = "tokens" /\ refresh[r].answer # C!None
      /\ summary' = [escrowed |-> refresh[r].escrowed, supply |-> refresh[r].supply, tokens |-> refresh[r].answer]
      /\ refresh' = [refresh EXCEPT ![r] = C!NoCall]
      /\ UNCHANGED <<overlap, kind, height, info, list, schemas, row, boot, reader, answered, failed>>
  <2>1. refresh \in [Refreshes -> Call] /\ refresh[r] \in Call
    BY DEF CachesInv, CachesTypeInv
  <2>. QED BY <2>1 DEF C!SummarySet, C!Arrived, CachesInv, CachesTypeInv, CallInv, TurnsInv, C!caches, C!readers
<1>2. /\ refresh[r].block \in 1 .. height /\ refresh[r].block % Every = 0 /\ list # C!None
      /\ refresh[r].escrowed \in refresh[r].block .. height
      /\ refresh[r].supply \in refresh[r].escrowed .. height
      /\ refresh[r].answer \in refresh[r].supply .. height
  BY <1>1 DEF CallOk, Call
<1>3. /\ summary'.escrowed = refresh[r].escrowed /\ summary'.supply = refresh[r].supply
      /\ summary'.tokens = refresh[r].answer
      /\ summary' \in [escrowed : -1 .. height, supply : -1 .. height, tokens : -1 .. height]
  BY <1>1, <1>2
<1>4. summary'.escrowed \in 1 .. height /\ (~overlap => summary.escrowed <= summary'.escrowed)
  BY <1>1, <1>2, <1>3 DEF AsNew
<1>5. /\ refresh' \in [Refreshes -> Call] /\ refresh'[r] = C!NoCall
      /\ \A q \in Refreshes : q # r => refresh'[q] = refresh[q]
  BY <1>1, NoCallType, OneCall DEF CachesInv
<1>6. CachesTypeInv'
  BY <1>1, <1>3, <1>5 DEF CachesInv, CachesTypeInv
<1>7. CallInv'
  <2>1. ASSUME NEW q \in Refreshes, q # r PROVE CallOk(refresh[q])'
    BY <1>1, <1>5, <2>1 DEF CachesInv, CallInv, CallOk
  <2>2. CallOk(C!NoCall)'
    BY NoCallType DEF CallOk, C!None
  <2>. QED BY <1>5, <2>1, <2>2 DEF CallInv
<1>8. TurnsInv'
  <2> SUFFICES ASSUME ~overlap PROVE \A q \in Refreshes : refresh'[q].pc = "idle"
    BY <1>1 DEF TurnsInv, AsNew
  <2>1. \A q \in Refreshes : q # r => refresh[q].pc = "idle"
    BY <1>1 DEF CachesInv, TurnsInv
  <2>. QED BY <1>5, <2>1, NoCallType
<1>9. CachesOrderInv'
  BY <1>1, <1>4 DEF CachesInv, CachesTypeInv, CachesOrderInv, C!Cache
<1>10. ReadyInv'
  BY <1>1, <1>4 DEF CachesInv, ReadyInv, C!Cache, C!None
<1>11. SummaryInv' /\ BootInv'
  BY <1>1, <1>4 DEF CachesInv, SummaryInv, BootInv
<1>12. C!SummaryOfOneRefresh'
  <2>1. refresh[r].block \in 1 .. summary'.escrowed /\ summary'.escrowed <= summary'.supply
        /\ summary'.supply <= summary'.tokens
    BY <1>1, <1>2, <1>3
  <2>. QED BY <1>1, <1>2, <2>1 DEF C!SummaryOfOneRefresh
<1>. QED BY <1>6, <1>7, <1>8, <1>9, <1>10, <1>11, <1>12 DEF CachesInv

LEMMA CapturedInv == ASSUME CachesInv, C!Captured PROVE CachesInv'
<1>1. /\ reader' = [asks |-> TRUE, value |-> C!Cache]
      /\ UNCHANGED <<overlap, kind, height, info, list, summary, schemas, row, boot, refresh, answered, failed>>
  BY DEF C!Captured, C!caches
<1>2. C!Cache \in -1 .. height /\ C!Cache' = C!Cache
  BY <1>1 DEF CachesInv, CachesTypeInv, C!Cache
<1>3. /\ reader'.asks = TRUE /\ reader'.value = C!Cache
      /\ reader' \in [asks : BOOLEAN, value : -1 .. height]
  BY <1>1, <1>2
<1>4. CachesTypeInv'
  BY <1>1, <1>3 DEF CachesInv, CachesTypeInv
<1>5. CallInv' /\ TurnsInv'
  BY <1>1, CallsStay
<1>6. CachesOrderInv'
  BY <1>1, <1>2, <1>3 DEF CachesInv, CachesTypeInv, CachesOrderInv
<1>7. ReadyInv'
  BY <1>1, <1>2, <1>3 DEF CachesInv, ReadyInv
<1>8. SummaryInv' /\ BootInv' /\ C!SummaryOfOneRefresh'
  BY <1>1 DEF CachesInv, SummaryInv, BootInv, C!SummaryOfOneRefresh
<1>. QED BY <1>4, <1>5, <1>6, <1>7, <1>8 DEF CachesInv

LEMMA RepliedInv == ASSUME CachesInv, C!Replied PROVE CachesInv'
<1>1. /\ reader.asks /\ failed' = C!Fails /\ reader' = C!NoReader
      /\ answered' = IF C!Fails THEN answered ELSE IF kind = "schemas" THEN row.schema ELSE reader.value
      /\ UNCHANGED <<overlap, kind, height, info, list, summary, schemas, row, boot, refresh>>
  BY DEF C!Replied, C!caches
<1>2. /\ reader'.asks = FALSE /\ reader' \in [asks : BOOLEAN, value : -1 .. height]
      /\ C!Fails \in BOOLEAN /\ C!Cache' = C!Cache /\ C!Cache \in -1 .. height
  <2>1. reader'.asks = FALSE /\ reader'.value = -1 /\ reader' \in [asks : BOOLEAN, value : {-1}]
    BY <1>1 DEF C!NoReader, C!None
  <2>2. height \in Nat /\ -1 \in -1 .. height
    BY DEF CachesInv, CachesTypeInv
  <2>3. reader' \in [asks : BOOLEAN, value : -1 .. height]
    BY <2>1, <2>2
  <2>4. C!Fails \in BOOLEAN
    BY DEF C!Fails
  <2>5. C!Cache' = C!Cache /\ C!Cache \in -1 .. height
    BY <1>1 DEF C!Cache, CachesInv, CachesTypeInv
  <2>. QED BY <2>1, <2>3, <2>4, <2>5
<1>3. answered' \in -1 .. height
  BY <1>1 DEF CachesInv, CachesTypeInv
<1>4. CachesTypeInv'
  BY <1>1, <1>2, <1>3 DEF CachesInv, CachesTypeInv
<1>5. CallInv' /\ TurnsInv'
  BY <1>1, CallsStay
<1>6. CachesOrderInv'
  BY <1>1, <1>2 DEF CachesInv, CachesTypeInv, CachesOrderInv
<1>7. ReadyInv'
  <2>1. CASE C!Fails
    <3>1. kind \in {"validators", "summary"} => reader.value = C!None
      BY <2>1 DEF C!Fails
    <3>2. kind = "schemas" => row = C!NoRow
      BY <2>1 DEF C!Fails
    <3>3. answered' = answered
      BY <1>1, <2>1
    <3>4. kind # "status" => answered = C!None
      BY <1>1, <3>1, <3>2 DEF CachesInv, CachesTypeInv, ReadyInv
    <3>. QED BY <1>1, <1>2, <3>3, <3>4 DEF ReadyInv
  <2>2. CASE ~C!Fails
    <3>1. failed' = FALSE
      BY <1>1, <1>2, <2>2
    <3>2. kind \in {"validators", "summary"} => reader.value # C!None
      BY <2>2 DEF C!Fails
    <3>3. kind = "schemas" => row # C!NoRow
      BY <2>2 DEF C!Fails
    <3>4. kind \in {"validators", "summary"} => C!Cache # C!None
      BY <1>1, <3>2 DEF CachesInv, ReadyInv
    <3>. QED BY <1>1, <1>2, <3>1, <3>3, <3>4 DEF ReadyInv
  <2>. QED BY <2>1, <2>2
<1>8. SummaryInv' /\ BootInv' /\ C!SummaryOfOneRefresh'
  BY <1>1 DEF CachesInv, SummaryInv, BootInv, C!SummaryOfOneRefresh
<1>. QED BY <1>4, <1>5, <1>6, <1>7, <1>8 DEF CachesInv

LEMMA CachesStutterInv == ASSUME CachesInv, UNCHANGED C!vars PROVE CachesInv'
<1>1. CallInv' /\ TurnsInv'
  BY CallsStay DEF C!vars
<1>2. refresh' \in [Refreshes -> Call]
  BY DEF C!vars, CachesInv, CachesTypeInv
<1>. QED BY <1>1, <1>2, CachesStay DEF C!vars, CachesInv

-----------------------------------------------------------------------------
(* What follows *)

LEMMA CachesNextInv == ASSUME CachesInv, [C!Next]_C!vars PROVE CachesInv'
<1>1. CASE \E r \in Refreshes : \/ C!Refreshed(r) \/ C!Answered(r) \/ C!ListSet(r)
                               \/ C!PartAnswered(r) \/ C!SummarySet(r) \/ C!RefreshFails(r)
  BY <1>1, RefreshedInv, AnsweredInv, ListSetInv, PartAnsweredInv, SummarySetInv, RefreshFailsInv
<1>. QED BY <1>1, BlockForgedInv, BootStepInv, CachesNodeInfoSetInv, CapturedInv, RepliedInv,
     CachesStutterInv DEF C!Next

\* A step either is the answer of an endpoint or leaves the last answer alone.
LEMMA Answers == ASSUME [C!Next]_C!vars PROVE C!Replied \/ UNCHANGED <<answered, failed>>
BY DEF C!Next, C!BlockForged, C!BootStep, C!NodeInfoSet, C!Captured, C!Refreshed, C!Answered, C!ListSet,
     C!PartAnswered,
       C!SummarySet, C!RefreshFails, C!readers, C!vars

\* An endpoint that answered never fails afterwards.
LEMMA StepKeepsReady == ASSUME CachesInv, [C!Next]_C!vars PROVE C!KeepsReady
<1>1. CASE C!Replied
  BY <1>1 DEF C!Replied, C!Fails, CachesInv, CachesTypeInv, ReadyInv, C!KeepsReady
<1>2. CASE UNCHANGED <<answered, failed>>
  BY <1>2 DEF CachesInv, ReadyInv, C!KeepsReady
<1>. QED BY <1>1, <1>2, Answers

\* Of two answers the later one is not the older.
LEMMA StepGoesOn == ASSUME CachesInv, [C!Next]_C!vars PROVE C!GoesOn
<1>1. CASE C!Replied
  BY <1>1 DEF C!Replied, CachesInv, CachesTypeInv, CachesOrderInv, C!GoesOn
<1>2. CASE UNCHANGED <<answered, failed>>
  BY <1>2 DEF CachesInv, CachesTypeInv, C!GoesOn
<1>. QED BY <1>1, <1>2, Answers

-----------------------------------------------------------------------------
(* ListQueries: any limit, any number of pages and of blocks stored *)

\* The parameters of one of the clients.
ClientInv ==
    \E c \in ListClients : endpoint = c.endpoint /\ DOMAIN query = c.given
                           /\ sort \in [field : {c.field}, direction : {"asc", "desc"}]

\* The parameters in the order of the object literals. A later one of the same key makes
\* a parameter a lost one, and so does the height of /blocks.
LEMMA ListKeys ==
    ASSUME ClientInv
    PROVE  /\ DOMAIN L!Entries \subseteq Int
           /\ \A p \in DOMAIN query : \E i \in DOMAIN L!Entries : L!Entries[i][1] = p
           /\ \A i, j \in DOMAIN L!Entries :
                  L!Entries[i][1] \in DOMAIN query \ L!Lost /\ L!Entries[j][1] \in DOMAIN query
                  /\ L!Entries[j][2] = L!Entries[i][2] => j <= i
           /\ endpoint = "blocks" => \A i \in DOMAIN L!Entries :
                  (L!Entries[i][2] = "height" <=> L!Entries[i][1] \in L!Lost)
           /\ endpoint = "blocks" => \A i, j \in DOMAIN L!Entries : L!Entries[i][2] = L!Entries[j][2] => i = j
<1> DEFINE E == L!Entries
<1> PICK c \in ListClients : endpoint = c.endpoint /\ DOMAIN query = c.given
  BY DEF ClientInv
<1>0. endpoint \in DOMAIN ListParameters /\ DOMAIN query \subseteq ListParameters[endpoint]
  BY ListClientsAssumption
<1>1. CASE endpoint = "blocks"
  <2>1. DOMAIN query \subseteq {"blockID", "height", "timestamp", "generatorAddress"}
    BY <1>0, <1>1 DEF ListParameters
  <2>2. E = <<<<"blockID", "id">>, <<"height", "height">>, <<"timestamp", "timestamp">>,
              <<"generatorAddress", "generatorAddress">>>> /\ L!Lost = {"height"}
    BY <1>1 DEF L!Entries, L!Lost
  <2>. QED BY <1>1, <2>1, <2>2
<1>2. CASE endpoint = "transactions"
  <2>1. DOMAIN query \subseteq {"transactionID", "blockID", "senderAddress", "recipientAddress", "nonce",
                               "height", "timestamp", "address"}
    BY <1>0, <1>2 DEF ListParameters
  <2>2. E = <<<<"transactionID", "id">>, <<"blockID", "block">>, <<"senderAddress", "senderAddress">>,
              <<"recipientAddress", "recipientAddress">>, <<"nonce", "nonce">>, <<"height", "height">>,
              <<"timestamp", "block">>, <<"address", "OR">>>>
    BY <1>2 DEF L!Entries
  <2>3. {"blockID", "timestamp"} \subseteq DOMAIN query => "blockID" \in L!Lost
    BY <1>2 DEF L!Lost
  <2>. QED BY <1>2, <2>1, <2>2, <2>3
<1>3. CASE endpoint = "events"
  <2>1. DOMAIN query \subseteq {"transactionID", "height", "timestamp", "blockID", "senderAddress"}
    BY <1>0, <1>3 DEF ListParameters
  <2>2. E = <<<<"transactionID", "transactionID">>, <<"height", "height">>, <<"timestamp", "block">>,
              <<"blockID", "block">>, <<"senderAddress", "transaction">>>>
    BY <1>3 DEF L!Entries
  <2>3. {"blockID", "timestamp"} \subseteq DOMAIN query => "timestamp" \in L!Lost
    BY <1>3 DEF L!Lost
  <2>. QED BY <1>3, <2>1, <2>2, <2>3
<1>4. CASE endpoint = "account"
  <2>1. DOMAIN query \subseteq {"address", "name", "publicKey"}
    BY <1>0, <1>4 DEF ListParameters
  <2>2. E = <<<<"address", "address">>, <<"name", "name">>, <<"publicKey", "publicKey">>>>
    BY <1>4 DEF L!Entries
  <2>. QED BY <1>4, <2>1, <2>2
<1>. QED BY <1>0, <1>1, <1>2, <1>3, <1>4 DEF ListParameters

\* A parameter that is the last of its key is among the conditions.
LEMMA LastApplied ==
    ASSUME ClientInv, NEW i \in DOMAIN L!Entries, L!Entries[i][1] \in DOMAIN query \ L!Lost
    PROVE  /\ L!Entries[i][2] \in DOMAIN L!Where
           /\ L!Where[L!Entries[i][2]] = L!Meaning(L!Entries[i][1], query[L!Entries[i][1]])
<1> DEFINE E     == L!Entries
           given == {n \in DOMAIN E : E[n][1] \in DOMAIN query}
           key   == E[i][2]
           last(k) == CHOOSE n \in given : E[n][2] = k /\ \A j \in given : E[j][2] = k => j <= n
           param(k) == E[last(k)][1]
<1>1. i \in given /\ \A j \in given : E[j][2] = key => j <= i
  BY ListKeys
<1>2. given \subseteq Int
  BY ListKeys
<1>3. last(key) = i
  BY <1>1, <1>2
<1>4. L!Literal(E) = [k \in {E[n][2] : n \in given} |-> L!Meaning(param(k), query[param(k)])]
  BY DEF L!Literal
<1> HIDE DEF last
<1>5. key \in DOMAIN L!Literal(E) /\ L!Literal(E)[key] = L!Meaning(E[i][1], query[E[i][1]])
  BY <1>1, <1>3, <1>4
<1>6. endpoint = "blocks" => key # "height"
  BY ListKeys
<1>. QED BY <1>5, <1>6 DEF L!Where

\* Every row that matches is one that the client wants.
LEMMA MatchingWanted == ASSUME ClientInv PROVE L!Matching \subseteq L!Wanted
<1> SUFFICES ASSUME NEW r \in L!Matching PROVE r \in L!Wanted
  OBVIOUS
<1>1. r \in 1 .. stored /\ \A key \in DOMAIN L!Where : r \in L!Where[key]
  BY DEF L!Matching
<1>2. ASSUME NEW p \in DOMAIN query \ L!Lost PROVE r \in L!Meaning(p, query[p])
  <2>1. PICK i \in DOMAIN L!Entries : L!Entries[i][1] = p
    BY <1>2, ListKeys
  <2>. QED BY <1>1, <1>2, <2>1, LastApplied
<1>3. ASSUME endpoint = "blocks" PROVE L!Height(r) # 0
  <2>1. "height" \in DOMAIN L!Where /\ L!Where["height"] = {q \in L!Rows : L!Height(q) # 0}
    BY <1>3 DEF L!Where
  <2>. QED BY <1>1, <2>1
<1>. QED BY <1>1, <1>2, <1>3 DEF L!Wanted

\* And of /blocks the other way round.
LEMMA WantedMatching ==
    ASSUME ClientInv, endpoint = "blocks", stored \in Nat, stored <= MaxHeight + 1
    PROVE  L!Wanted \subseteq L!Matching
<1> SUFFICES ASSUME NEW r \in L!Wanted, NEW key \in DOMAIN L!Where PROVE r \in L!Where[key]
  BY DEF L!Wanted, L!Matching
<1> DEFINE E     == L!Entries
           given == {n \in DOMAIN E : E[n][1] \in DOMAIN query}
<1>1. /\ r \in 1 .. stored /\ L!Height(r) # 0
      /\ \A p \in DOMAIN query \ L!Lost : r \in L!Meaning(p, query[p])
  BY DEF L!Wanted
<1>2. CASE key = "height"
  <2>1. r \in L!Rows
    BY <1>1, HeightAssumption DEF L!Rows, L!PerBlock
  <2>. QED BY <1>1, <1>2, <2>1 DEF L!Where
<1>3. CASE key # "height"
  <2>1. key \in DOMAIN L!Literal(E)
    BY <1>3 DEF L!Where
  <2>2. DOMAIN L!Literal(E) = {E[n][2] : n \in given}
    BY DEF L!Literal
  <2>3. PICK n \in given : key = E[n][2]
    BY <2>1, <2>2
  <2>4. E[n][1] \in DOMAIN query \ L!Lost
    BY <1>3, <2>3, ListKeys
  <2>. QED BY <1>1, <2>3, <2>4, LastApplied
<1>. QED BY <1>2, <1>3

\* Conditions do not change, and of rows stored later only those are new.
LEMMA MatchingStays ==
    ASSUME UNCHANGED <<endpoint, query>>
    PROVE  /\ stored' = stored => L!Matching' = L!Matching
           /\ stored \in Nat /\ stored' \in Nat /\ stored <= stored' =>
                  L!Matching \subseteq L!Matching' /\ L!Matching' \cap 1 .. stored = L!Matching
<1>1. L!PerBlock' = L!PerBlock
  BY DEF L!PerBlock
<1>2. \A p, r : L!Column(p, r)' = L!Column(p, r)
  BY <1>1 DEF L!Column, L!Height
<1>3. L!Rows' = L!Rows /\ \A r : L!Height(r)' = L!Height(r)
  BY <1>1 DEF L!Rows, L!Height
<1>4. \A p, v : L!Meaning(p, v)' = L!Meaning(p, v)
  BY <1>2, <1>3 DEF L!Meaning, L!Sender, L!Recipient
<1>5. L!Entries' = L!Entries
  BY DEF L!Entries
<1>6. \A e : L!Literal(e)' = L!Literal(e)
  BY <1>4 DEF L!Literal
<1>7. L!Where' = L!Where
  BY <1>3, <1>5, <1>6 DEF L!Where
<1>. QED BY <1>7 DEF L!Matching

LEMMA MatchingType ==
    ASSUME stored \in Nat
    PROVE  L!Matching \subseteq 1 .. stored /\ IsFiniteSet(L!Matching)
<1>1. L!Matching \subseteq 1 .. stored
  BY DEF L!Matching
<1>2. IsFiniteSet(1 .. stored)
  BY FS_Interval
<1>. QED BY <1>1, <1>2, FS_Subset

LEMMA ListCardinality == \A X : L!Cardinality(X) = Cardinality(X)
BY DEF L!Cardinality, Cardinality

\* The place of a row among those of /blocks that match, in the order of the sort.
UpTo(r)  == {q \in L!Matching : ~ L!Before(r, q)}
Place(r) == Cardinality(UpTo(r))

\* The order of the blocks is total.
LEMMA BlockOrder ==
    ASSUME ClientInv, endpoint = "blocks", NEW q \in Nat, NEW r \in Nat
    PROVE  L!Before(q, r) <=> IF sort.direction = "asc" THEN q < r ELSE q > r
<1>1. sort.field # "totalBalance"
  <2>1. PICK c \in ListClients : endpoint = c.endpoint /\ sort \in [field : {c.field}, direction : {"asc", "desc"}]
    BY DEF ClientInv
  <2>2. c.field \in {"height", "timestamp"}
    BY <2>1, ListClientsAssumption
  <2>. QED BY <2>1, <2>2
<1>2. L!PerBlock = 1
  BY DEF L!PerBlock
<1>3. (q - 1) \div 1 = q - 1 /\ (r - 1) \div 1 = r - 1
  OBVIOUS
<1>4. L!Height(q) = q - 1 /\ L!Height(r) = r - 1
  BY <1>2, <1>3 DEF L!Height
<1>. QED BY <1>1, <1>4 DEF L!Before

\* A row more is one place more.
LEMMA OneMore ==
    ASSUME NEW A, NEW B, IsFiniteSet(B), A \subseteq B, NEW r \in B \ A
    PROVE  Cardinality(A) + 1 <= Cardinality(B)
<1>1. IsFiniteSet(A)
  BY FS_Subset
<1>2. Cardinality(A \cup {r}) = Cardinality(A) + 1
  BY <1>1, FS_AddElement
<1>3. A \cup {r} \in SUBSET B
  OBVIOUS
<1>. QED BY <1>2, <1>3, FS_Subset

LEMMA UpToFacts ==
    ASSUME stored \in Nat, NEW r
    PROVE  /\ IsFiniteSet(UpTo(r)) /\ UpTo(r) \subseteq L!Matching
           /\ Place(r) \in Nat /\ Place(r) <= Cardinality(L!Matching)
<1>1. UpTo(r) \subseteq L!Matching
  BY DEF UpTo
<1>2. IsFiniteSet(UpTo(r)) /\ Cardinality(UpTo(r)) <= Cardinality(L!Matching)
  BY <1>1, MatchingType, FS_Subset
<1>. QED BY <1>1, <1>2, FS_CardinalityType DEF Place

\* No two blocks have one place.
LEMMA PlacesDiffer ==
    ASSUME ClientInv, endpoint = "blocks", stored \in Nat,
           NEW q \in L!Matching, NEW r \in L!Matching, Place(q) = Place(r)
    PROVE  q = r
<1>1. L!Matching \subseteq Nat
  BY MatchingType
<1>2. \A x, y \in L!Matching : L!Before(x, y) <=> IF sort.direction = "asc" THEN x < y ELSE x > y
  BY <1>1, BlockOrder
<1>3. ASSUME NEW x \in L!Matching, NEW y \in L!Matching, L!Before(x, y) PROVE Place(x) # Place(y)
  <2>1. \A z \in L!Matching : L!Before(y, z) => L!Before(x, z)
    BY <1>2, <1>1, <1>3
  <2>2. UpTo(x) \subseteq UpTo(y)
    BY <2>1 DEF UpTo
  <2>3. y \in UpTo(y) \ UpTo(x)
    BY <1>2, <1>1, <1>3 DEF UpTo
  <2>4. Place(x) + 1 <= Place(y)
    BY <2>2, <2>3, OneMore, UpToFacts DEF Place
  <2>. QED BY <2>4, UpToFacts
<1>4. q = r \/ L!Before(q, r) \/ L!Before(r, q)
  BY <1>2, <1>1
<1>. QED BY <1>3, <1>4

\* The places up to that of a row are its own and those before.
LEMMA UpToItself ==
    ASSUME ClientInv, endpoint = "blocks", stored \in Nat, NEW r \in L!Matching
    PROVE  UpTo(r) = {q \in L!Matching : L!Before(q, r)} \cup {r} /\ ~ L!Before(r, r)
<1>1. L!Matching \subseteq Nat
  BY MatchingType
<1>2. \A x, y \in L!Matching : L!Before(x, y) <=> IF sort.direction = "asc" THEN x < y ELSE x > y
  BY <1>1, BlockOrder
<1>3. ~ L!Before(r, r)
  BY <1>1, <1>2
<1>4. \A q \in L!Matching : ~ L!Before(r, q) <=> L!Before(q, r) \/ q = r
  BY <1>1, <1>2
<1>. QED BY <1>3, <1>4 DEF UpTo

\* A page has the rows of its places.
LEMMA PagePlaces ==
    ASSUME ClientInv, endpoint = "blocks", stored \in Nat, NEW skip \in Nat, NEW s \in L!Pages(skip),
           NEW i \in DOMAIN s
    PROVE  s[i] \in L!Matching /\ Place(s[i]) = skip + i
<1> DEFINE before == {q \in L!Matching : L!Before(q, s[i])}
<1>1. s[i] \in L!Matching /\ i \in Nat
  BY DEF L!Pages
<1>3. Cardinality(before) < skip + i /\ skip + i <= Place(s[i])
  BY <1>1, ListCardinality DEF L!Pages, Place, UpTo
<1>4. IsFiniteSet(before)
  BY MatchingType, FS_Subset
<1>5. UpTo(s[i]) = before \cup {s[i]} /\ s[i] \notin before
  BY <1>1, UpToItself
<1>6. Place(s[i]) = Cardinality(before) + 1
  BY <1>4, <1>5, FS_AddElement DEF Place
<1>. QED BY <1>1, <1>3, <1>4, <1>6, FS_CardinalityType

\* The length of a page; a short one is the last.
LEMMA PageLength ==
    ASSUME stored \in Nat, NEW skip \in Nat, NEW s \in L!Pages(skip)
    PROVE  /\ s \in Seq(L!Matching)
           /\ Len(s) < Take => Cardinality(L!Matching) <= skip + Len(s)
           /\ \A n \in skip + 1 .. skip + Len(s) : n - skip \in DOMAIN s
<1> DEFINE rest == Cardinality(L!Matching) - skip
           size == IF rest < 0 THEN 0 ELSE IF rest < Take THEN rest ELSE Take
<1>1. rest \in Int
  BY MatchingType, FS_CardinalityType
<1>2. size \in Nat /\ (size < Take => rest <= size)
  BY <1>1, TakeAssumption
<1>3. s \in [1 .. size -> L!Matching]
  BY ListCardinality DEF L!Pages
<1> HIDE DEF size
<1>4. s \in Seq(L!Matching) /\ Len(s) = size
  BY <1>2, <1>3
<1>. QED BY <1>1, <1>2, <1>3, <1>4, MatchingType, FS_CardinalityType

\* A block that is stored moves no row to an earlier place, and none in ascending order.
LEMMA PlacesGrow ==
    ASSUME ClientInv, UNCHANGED <<endpoint, query, sort>>,
           stored \in Nat, stored' \in Nat, stored <= stored', NEW r \in L!Matching
    PROVE  /\ Place(r)' >= Place(r) /\ Place(r)' \in Nat
           /\ endpoint = "blocks" /\ sort.direction = "asc" => Place(r)' = Place(r)
<1>1. L!Matching \subseteq L!Matching' /\ L!Matching' \cap 1 .. stored = L!Matching
  BY MatchingStays
<1>2. \A q : L!Before(r, q)' = L!Before(r, q)
  BY DEF L!Before, L!Height, L!PerBlock
<1>3. UpTo(r) \subseteq UpTo(r)'
  BY <1>1, <1>2 DEF UpTo
<1>4. UpTo(r)' \subseteq 1 .. stored'
  BY DEF UpTo, L!Matching
<1>5. IsFiniteSet(1 .. stored')
  BY FS_Interval
<1>6. IsFiniteSet(UpTo(r)')
  BY <1>4, <1>5, FS_Subset
<1>7. Cardinality(UpTo(r)) <= Cardinality(UpTo(r)')
  BY <1>3, <1>6, FS_Subset
<1>8. ASSUME endpoint = "blocks", sort.direction = "asc" PROVE UpTo(r)' \subseteq UpTo(r)
  <2> SUFFICES ASSUME NEW q \in L!Matching', ~ L!Before(r, q) PROVE q \in UpTo(r)
    BY <1>2 DEF UpTo
  <2>1. q \in Nat /\ r \in 1 .. stored /\ q \in 1 .. stored'
    BY MatchingType DEF L!Matching
  <2>2. ~ r < q
    BY <1>8, <2>1, BlockOrder
  <2>3. q \in L!Matching
    BY <1>1, <2>1, <2>2
  <2>. QED BY <2>3 DEF UpTo
<1>. QED BY <1>3, <1>6, <1>7, <1>8, FS_CardinalityType DEF Place

-----------------------------------------------------------------------------
(* The rows a client has, and those on the way to it *)

Sent == received \o IF page = <<>> THEN <<>> ELSE page[1]

ListsTypeInv ==
    /\ ClientInv
    /\ stored \in Nat /\ atStart \in Nat /\ atStart <= stored
    /\ received \in Seq(L!Matching) /\ offset = Len(received)
    /\ page = <<>> \/ (pc = "asked" /\ \E s \in Seq(L!Matching) : page = <<s>>)

HasAll(n) == \A r \in L!Matching \cap 1 .. atStart :
                 Place(r) <= n => \E i \in DOMAIN Sent : Sent[i] = r

LastPage == (pc = "done" /\ status = "200") \/ (page # <<>> /\ Len(page[1]) < Take)

\* Blocks come in the order of their places, and those skipped have been sent.
BlocksInv ==
    endpoint = "blocks" =>
        /\ sort.direction = "asc" => \A i \in DOMAIN Sent : Place(Sent[i]) = i
        /\ HasAll(Len(Sent))
        /\ LastPage => HasAll(Cardinality(L!Matching))

\* The chain of the model ends.
BoundInv == endpoint = "blocks" => stored <= MaxHeight + 1

ListsInv == ListsTypeInv /\ BlocksInv /\ BoundInv

LEMMA SentType ==
    ASSUME ListsTypeInv
    PROVE  /\ Sent \in Seq(L!Matching)
           /\ page = <<>> => Sent = received
           /\ \A s : page = <<s>> => Sent = received \o s
<1>1. received \o <<>> = received
  BY DEF ListsTypeInv
<1>2. CASE page = <<>>
  BY <1>1, <1>2 DEF ListsTypeInv, Sent
<1>3. CASE page # <<>>
  <2> PICK s \in Seq(L!Matching) : page = <<s>>
    BY <1>3 DEF ListsTypeInv
  <2>1. page[1] = s /\ page # <<>>
    OBVIOUS
  <2>2. Sent = received \o s
    BY <2>1 DEF Sent
  <2>3. \A t : page = <<t>> => t = s
    OBVIOUS
  <2>. QED BY <2>1, <2>2, <2>3 DEF ListsTypeInv
<1>. QED BY <1>2, <1>3

LEMMA ListsInitInv == L!Init => ListsInv
<1> SUFFICES ASSUME L!Init PROVE ListsInv
  OBVIOUS
<1>1. ClientInv
  BY DEF L!Init, ClientInv
<1>2. stored \in Nat /\ atStart = stored
  BY DEF L!Init, L!PerBlock
<1>3. received = <<>> /\ page = <<>> /\ offset = 0 /\ status = "none"
  BY DEF L!Init
<1>4. ListsTypeInv
  BY <1>1, <1>2, <1>3 DEF ListsTypeInv
<1>5. Sent = <<>>
  BY <1>3, <1>4, SentType
<1>6. ~ LastPage
  BY <1>3 DEF LastPage
<1>7. ASSUME endpoint = "blocks" PROVE HasAll(Len(Sent))
  <2> SUFFICES ASSUME NEW r \in L!Matching, Place(r) <= 0 PROVE FALSE
    BY <1>5 DEF HasAll
  <2>1. r \in UpTo(r)
    BY <1>1, <1>2, <1>7, UpToItself
  <2>2. Cardinality({}) + 1 <= Place(r)
    BY <1>2, <2>1, OneMore, UpToFacts DEF Place
  <2>3. Cardinality({}) = 0
    BY FS_EmptySet
  <2>4. Place(r) \in Nat
    BY <1>2, UpToFacts
  <2>. QED BY <2>2, <2>3, <2>4
<1>8. BoundInv
  BY HeightAssumption DEF L!Init, BoundInv, L!PerBlock
<1>. QED BY <1>4, <1>5, <1>6, <1>7, <1>8 DEF ListsInv, BlocksInv

\* What a step that leaves the rows alone keeps.
LEMMA PlacesStay ==
    ASSUME UNCHANGED <<endpoint, query, sort, stored>>
    PROVE  /\ L!Matching' = L!Matching
           /\ \A r : Place(r)' = Place(r)
<1>1. L!Matching' = L!Matching
  BY MatchingStays
<1>2. \A q, r : L!Before(q, r)' = L!Before(q, r)
  BY DEF L!Before, L!Height, L!PerBlock
<1>. QED BY <1>1, <1>2 DEF Place, UpTo

LEMMA ListsStay ==
    ASSUME ListsInv, UNCHANGED <<endpoint, query, sort, stored, atStart>>,
           UNCHANGED <<received, page, offset>>,
           page # <<>> => pc' = pc,
           pc' = "done" /\ status' = "200" => pc = "done" /\ status = "200"
    PROVE  ListsInv'
<1>1. Sent' = Sent
  BY DEF Sent
<1>2. ListsTypeInv'
  BY PlacesStay DEF ListsInv, ListsTypeInv, ClientInv
<1>3. \A n : HasAll(n)' <=> HasAll(n)
  BY <1>1, PlacesStay DEF HasAll
<1>4. LastPage' => LastPage
  BY DEF LastPage
<1>5. BlocksInv'
  BY <1>1, <1>3, <1>4, PlacesStay DEF ListsInv, BlocksInv
<1>. QED BY <1>2, <1>5 DEF ListsInv, BoundInv

LEMMA ListAskedInv == ASSUME ListsInv, L!Asked PROVE ListsInv'
<1>1. /\ UNCHANGED <<endpoint, query, sort, stored, atStart>>
      /\ UNCHANGED <<received, page, offset>>
      /\ pc = "idle" /\ ~ (pc' = "done" /\ status' = "200")
  BY DEF L!Asked
<1>2. page = <<>>
  BY <1>1 DEF ListsInv, ListsTypeInv
<1>. QED BY <1>1, <1>2, ListsStay

LEMMA ListCountedInv == ASSUME ListsInv, L!Count PROVE ListsInv'
BY ListsStay DEF L!Count

LEMMA ListsStutterInv == ASSUME ListsInv, UNCHANGED L!vars PROVE ListsInv'
BY ListsStay DEF L!vars

\* What was sent has come.
LEMMA ListRepliedInv == ASSUME ListsInv, L!Replied PROVE ListsInv'
<1>1. /\ UNCHANGED <<endpoint, query, sort, stored, atStart>>
      /\ page # <<>> /\ page' = <<>> /\ status' = "200"
      /\ received' = received \o page[1] /\ offset' = offset + Len(page[1])
      /\ pc' = IF Len(page[1]) < Take THEN "done" ELSE "idle"
  BY DEF L!Replied
<1>2. PICK s \in Seq(L!Matching) : page = <<s>>
  BY <1>1 DEF ListsInv, ListsTypeInv
<1>3. page[1] = s
  BY <1>2
<1>4. received' = Sent /\ received' \in Seq(L!Matching) /\ offset' = Len(received')
  BY <1>1, <1>2, <1>3, SentType DEF ListsInv, ListsTypeInv
<1>5. ListsTypeInv'
  BY <1>1, <1>4, PlacesStay DEF ListsInv, ListsTypeInv, ClientInv
<1>6. Sent' = Sent
  <2>1. Sent' = received' \o <<>>
    BY <1>1 DEF Sent
  <2>. QED BY <1>4, <2>1
<1>7. \A n : HasAll(n)' <=> HasAll(n)
  BY <1>1, <1>6, PlacesStay DEF HasAll
<1>8. LastPage' => LastPage
  BY <1>1 DEF LastPage
<1>9. BlocksInv'
  BY <1>1, <1>6, <1>7, <1>8, PlacesStay DEF ListsInv, BlocksInv
<1>. QED BY <1>1, <1>5, <1>9 DEF ListsInv, BoundInv

LEMMA ListFoundInv == ASSUME ListsInv, L!FindMany PROVE ListsInv'
<1>1. /\ UNCHANGED <<endpoint, query, sort, stored, atStart, received, offset, pc, status>>
      /\ pc = "asked" /\ page = <<>>
  BY DEF L!FindMany
<1>2. PICK s \in L!Pages(offset) : page' = <<s>>
  BY DEF L!FindMany
<1>3. stored \in Nat /\ offset \in Nat /\ ClientInv
  BY DEF ListsInv, ListsTypeInv
<1>4. s \in Seq(L!Matching) /\ (Len(s) < Take => Cardinality(L!Matching) <= offset + Len(s))
  BY <1>3, PageLength
<1>5. ListsTypeInv'
  BY <1>1, <1>2, <1>4, PlacesStay DEF ListsInv, ListsTypeInv, ClientInv
<1>6. Sent = received /\ Sent' = received \o s
  <2>1. page'[1] = s /\ page' # <<>>
    BY <1>2
  <2>. QED BY <1>1, <2>1, SentType DEF Sent, ListsInv
<1>7. /\ Len(received) = offset /\ Len(Sent') = offset + Len(s)
      /\ \A i \in DOMAIN Sent : Sent'[i] = Sent[i] /\ i \in DOMAIN Sent'
      /\ \A n \in DOMAIN s : Sent'[offset + n] = s[n] /\ offset + n \in DOMAIN Sent'
  BY <1>4, <1>6 DEF ListsInv, ListsTypeInv
<1>8. ASSUME endpoint = "blocks" PROVE HasAll(Len(Sent))'
  <2> SUFFICES ASSUME NEW r \in L!Matching \cap 1 .. atStart, Place(r) <= offset + Len(s)
               PROVE  \E i \in DOMAIN Sent' : Sent'[i] = r
    BY <1>1, <1>7, PlacesStay DEF HasAll
  <2>1. CASE Place(r) <= offset
    BY <1>6, <1>7, <1>8, <2>1 DEF ListsInv, BlocksInv, HasAll
  <2>2. CASE Place(r) > offset
    <3>1. Place(r) \in offset + 1 .. offset + Len(s)
      BY <1>3, <1>4, <2>2, UpToFacts
    <3> PICK n : n = Place(r) - offset
      OBVIOUS
    <3>2. n \in DOMAIN s
      BY <1>3, <3>1, PageLength
    <3>3. s[n] \in L!Matching /\ Place(s[n]) = offset + n
      BY <1>3, <1>8, <3>2, PagePlaces
    <3>4. Place(s[n]) = Place(r)
      BY <1>3, <3>1, <3>3
    <3>5. s[n] = r
      BY <1>3, <1>8, <3>3, <3>4, PlacesDiffer
    <3>. QED BY <1>7, <3>2, <3>5
  <2>. QED BY <1>3, <2>1, <2>2, UpToFacts
<1>9. ASSUME endpoint = "blocks", LastPage' PROVE HasAll(Cardinality(L!Matching))'
  <2>1. Len(s) < Take
    BY <1>1, <1>2, <1>9 DEF LastPage
  <2> SUFFICES ASSUME NEW r \in L!Matching \cap 1 .. atStart
               PROVE  \E i \in DOMAIN Sent' : Sent'[i] = r
    BY <1>1, PlacesStay DEF HasAll
  <2>2. Place(r) <= offset + Len(s)
    BY <1>3, <1>4, <2>1, UpToFacts, MatchingType, FS_CardinalityType
  <2>. QED BY <1>1, <1>7, <1>8, <1>9, <2>2, PlacesStay DEF HasAll
<1>10. ASSUME endpoint = "blocks", sort.direction = "asc", NEW i \in DOMAIN Sent' PROVE Place(Sent'[i]) = i
  <2>1. CASE i \in DOMAIN Sent
    BY <1>7, <1>10, <2>1 DEF ListsInv, BlocksInv
  <2>2. CASE i \notin DOMAIN Sent
    <3>1. PICK n \in DOMAIN s : i = offset + n
      <4>1. i \in Nat /\ i > offset /\ i <= offset + Len(s)
        BY <1>3, <1>4, <1>6, <1>7, <2>2, SentType DEF ListsInv, ListsTypeInv
      <4>. QED BY <1>3, <1>4, <4>1, PageLength
    <3>. QED BY <1>3, <1>7, <1>10, <3>1, PagePlaces
  <2>. QED BY <2>1, <2>2
<1>11. BlocksInv'
  BY <1>1, <1>8, <1>9, <1>10, PlacesStay DEF BlocksInv
<1>. QED BY <1>1, <1>5, <1>11 DEF ListsInv, BoundInv

\* A block that is stored is behind or before all that a client looks for.
LEMMA ListStoredInv == ASSUME ListsInv, L!BlockStored PROVE ListsInv'
<1>1. /\ UNCHANGED <<endpoint, query, sort, atStart, received, page, offset, pc, status>>
      /\ stored' = stored + L!PerBlock
  BY DEF L!BlockStored
<1>2. stored \in Nat /\ stored' \in Nat /\ stored <= stored' /\ atStart \in Nat /\ atStart <= stored
  BY <1>1 DEF ListsInv, ListsTypeInv, L!PerBlock
<1>3. L!Matching \subseteq L!Matching' /\ L!Matching' \cap 1 .. stored = L!Matching
  BY <1>1, <1>2, MatchingStays
<1>4. Seq(L!Matching) \subseteq Seq(L!Matching')
  BY <1>3
<1>5. ListsTypeInv'
  BY <1>1, <1>2, <1>4 DEF ListsInv, ListsTypeInv, ClientInv
<1>6. Sent' = Sent /\ Sent \in Seq(L!Matching)
  BY <1>1, SentType DEF Sent, ListsInv
<1>7. ClientInv
  BY DEF ListsInv, ListsTypeInv
<1>8. \A r \in L!Matching : /\ Place(r)' >= Place(r) /\ Place(r) \in Nat /\ Place(r)' \in Nat
                            /\ endpoint = "blocks" /\ sort.direction = "asc" => Place(r)' = Place(r)
  <2> SUFFICES ASSUME NEW r \in L!Matching
               PROVE  /\ Place(r)' >= Place(r) /\ Place(r) \in Nat /\ Place(r)' \in Nat
                      /\ endpoint = "blocks" /\ sort.direction = "asc" => Place(r)' = Place(r)
    OBVIOUS
  <2>. QED BY <1>1, <1>2, <1>7, PlacesGrow, UpToFacts
<1>9. L!Matching' \cap 1 .. atStart = L!Matching \cap 1 .. atStart
  BY <1>2, <1>3
<1>10. ASSUME NEW n \in Int, HasAll(n) PROVE HasAll(n)'
  BY <1>1, <1>6, <1>8, <1>9, <1>10 DEF HasAll
<1>11. ASSUME HasAll(Cardinality(L!Matching)) PROVE HasAll(Cardinality(L!Matching))'
  <2>1. \A r \in L!Matching : Place(r) <= Cardinality(L!Matching)
    BY <1>2, UpToFacts
  <2>. QED BY <1>1, <1>6, <1>9, <1>11, <2>1 DEF HasAll
<1>12. LastPage' => LastPage
  BY <1>1 DEF LastPage
<1>13. \A i \in DOMAIN Sent : Sent[i] \in L!Matching
  BY <1>6
<1>14. Len(Sent) \in Int
  BY <1>6
<1>15. BlocksInv'
  BY <1>1, <1>6, <1>8, <1>10, <1>11, <1>12, <1>13, <1>14 DEF ListsInv, BlocksInv
<1>16. BoundInv'
  BY <1>1, <1>2, HeightAssumption DEF L!BlockStored, BoundInv, L!PerBlock
<1>. QED BY <1>5, <1>15, <1>16 DEF ListsInv

LEMMA ListsNextInv == ASSUME ListsInv, [L!Next]_L!vars PROVE ListsInv'
BY ListStoredInv, ListAskedInv, ListFoundInv, ListCountedInv, ListRepliedInv, ListsStutterInv DEF L!Next

\* Every row is one that matches.
LEMMA InvListFilters == ASSUME ListsInv PROVE L!FiltersKept
<1>1. \A i \in DOMAIN received : received[i] \in L!Matching
  BY DEF ListsInv, ListsTypeInv
<1>. QED BY <1>1, MatchingWanted DEF ListsInv, ListsTypeInv, L!FiltersKept, L!Range

LEMMA InvNothingMissed == ASSUME ListsInv PROVE L!NothingMissed
<1> SUFFICES ASSUME endpoint = "blocks", pc = "done", status = "200"
             PROVE  /\ L!Wanted \cap 1 .. atStart \subseteq L!Range(received)
                    /\ sort.direction = "asc" => L!IsInjective(received)
  BY DEF L!NothingMissed
<1>1. page = <<>> /\ Sent = received
  BY SentType DEF ListsInv, ListsTypeInv
<1>2. HasAll(Cardinality(L!Matching))
  BY DEF ListsInv, BlocksInv, LastPage
<1>3. \A r \in L!Matching : Place(r) <= Cardinality(L!Matching)
  BY UpToFacts DEF ListsInv, ListsTypeInv
<1>4. L!Wanted \cap 1 .. atStart \subseteq L!Range(received)
  <2>1. L!Matching \cap 1 .. atStart \subseteq L!Range(received)
    BY <1>1, <1>2, <1>3 DEF HasAll, L!Range
  <2>2. L!Wanted \subseteq L!Matching
    BY WantedMatching DEF ListsInv, ListsTypeInv, BoundInv
  <2>. QED BY <2>1, <2>2
<1>5. sort.direction = "asc" => L!IsInjective(received)
  BY <1>1 DEF ListsInv, BlocksInv, L!IsInjective
<1>. QED BY <1>4, <1>5

-----------------------------------------------------------------------------
(* ValidatorQueries: any validators, any limit and any number of pages *)

AskerInv == \E c \in ValidatorClients : endpoint = c.endpoint /\ DOMAIN query = c.given /\ sort = c.field

\* Rows are shown with the times of the list held.
Listed == endpoint = "generators" \/ V!ByTime

\* Every row that was found is asked for, once, and has a time where times are shown.
FoundRowsInv ==
    /\ V!IsInjective(found) /\ DOMAIN found \subseteq Int
    /\ endpoint = "generators" => \E n \in Nat : DOMAIN found = 1 .. n
    /\ \A i \in DOMAIN found :
           /\ Listed => found[i] \in V!Range(held)
           /\ \A p \in DOMAIN query \ V!Lost : found[i] \in V!Meaning(p, query[p])

ValidatorsInv ==
    /\ AskerInv
    /\ list \in {<<>>} \cup GeneratorLists
    /\ pc \in {"asked", "found"} => held \in GeneratorLists
    /\ endpoint = "generators" => offset \in Nat
    /\ pc = "found" => FoundRowsInv
    /\ V!TimesOfOneList /\ V!FiltersKept

\* The parameters in the order of the object literal: a later one of the same key makes
\* a parameter a lost one.
LEMMA ValidatorKeys ==
    ASSUME AskerInv, endpoint = "validators", ~ V!ByTime
    PROVE  /\ DOMAIN V!Entries \subseteq Int
           /\ \A p \in DOMAIN query : \E i \in DOMAIN V!Entries : V!Entries[i][1] = p
           /\ \A i, j \in DOMAIN V!Entries :
                  V!Entries[i][1] \in DOMAIN query \ V!Lost /\ V!Entries[j][1] \in DOMAIN query
                  /\ V!Entries[j][2] = V!Entries[i][2] => j <= i
<1> PICK c \in ValidatorClients : endpoint = c.endpoint /\ DOMAIN query = c.given
  BY DEF AskerInv
<1>0. DOMAIN query \subseteq ValidatorParameters[endpoint]
  BY ValidatorClientsAssumption
<1>1. DOMAIN query \subseteq {"address", "publicKey", "name", "status"}
  BY <1>0 DEF ValidatorParameters
<1>2. V!Entries = <<<<"address", "address">>, <<"publicKey", "account">>, <<"name", "account">>,
                    <<"status", "status">>>>
  BY DEF V!Entries
<1>3. {"publicKey", "name"} \subseteq DOMAIN query => "publicKey" \in V!Lost
  BY DEF V!Lost
<1>. QED BY <1>1, <1>2, <1>3

\* So every parameter but the lost ones is among the conditions, and the rows of a list
\* are on it.
LEMMA MatchingAsked ==
    ASSUME AskerInv, NEW v \in V!Matching
    PROVE  /\ Listed => v \in V!Range(held)
           /\ \A p \in DOMAIN query \ V!Lost : v \in V!Meaning(p, query[p])
<1> PICK c \in ValidatorClients : endpoint = c.endpoint /\ DOMAIN query = c.given
  BY DEF AskerInv
<1>4. endpoint \in DOMAIN ValidatorParameters /\ DOMAIN query \subseteq ValidatorParameters[endpoint]
  BY ValidatorClientsAssumption
<1>0. endpoint \in {"validators", "generators"}
  BY <1>4 DEF ValidatorParameters
<1>1. CASE endpoint = "generators"
  <2>1. DOMAIN query \subseteq {"search"}
    BY <1>1, <1>4 DEF ValidatorParameters
  <2>2. V!Matching = {u \in table \cap V!Range(held) :
                        "search" \in DOMAIN query => u \in V!Meaning("search", query["search"])}
    BY <1>1 DEF V!Matching, V!ByTime
  <2>. QED BY <2>1, <2>2
<1>2. CASE V!ByTime
  <2>1. endpoint = "validators" /\ V!Lost = DOMAIN query
    BY <1>2 DEF V!ByTime, V!Lost
  <2>2. V!Matching = table \cap V!Range(held)
    BY <1>2, <2>1 DEF V!Matching
  <2>. QED BY <2>1, <2>2
<1>3. CASE endpoint # "generators" /\ ~ V!ByTime
  <2> SUFFICES ASSUME NEW p \in DOMAIN query \ V!Lost PROVE v \in V!Meaning(p, query[p])
    BY <1>3 DEF Listed
  <2> DEFINE E     == V!Entries
             given == {i \in DOMAIN E : E[i][1] \in DOMAIN query}
  <2>1. endpoint = "validators"
    BY <1>0, <1>3
  <2> PICK i \in given : E[i][1] = p
    BY <1>3, <2>1, ValidatorKeys
  <2> DEFINE key    == E[i][2]
             last(k) == CHOOSE n \in given : E[n][2] = k /\ \A j \in given : E[j][2] = k => j <= n
             param(k) == E[last(k)][1]
  <2>2. \A j \in given : E[j][2] = key => j <= i
    BY <1>3, <2>1, ValidatorKeys
  <2>3. given \subseteq Int
    BY <1>3, <2>1, ValidatorKeys
  <2>4. last(key) = i
    BY <2>2, <2>3
  <2>5. V!Where = [k \in {E[n][2] : n \in given} |-> V!Meaning(param(k), query[param(k)])]
    BY DEF V!Where
  <2> HIDE DEF last
  <2>6. key \in DOMAIN V!Where /\ V!Where[key] = V!Meaning(p, query[p])
    BY <2>4, <2>5
  <2>7. V!Matching = {u \in table : \A k \in DOMAIN V!Where : u \in V!Where[k]}
    BY <1>3 DEF V!Matching
  <2>. QED BY <2>6, <2>7
<1>. QED BY <1>1, <1>2, <1>3

LEMMA ValidatorsInitInv == V!Init => ValidatorsInv
<1> SUFFICES ASSUME V!Init PROVE ValidatorsInv
  OBVIOUS
<1>1. AskerInv
  BY DEF V!Init, AskerInv
<1>. QED BY <1>1 DEF V!Init, ValidatorsInv, V!TimesOfOneList, V!FiltersKept

LEMMA ValidatorsStay ==
    ASSUME ValidatorsInv, UNCHANGED <<endpoint, query, sort, offset, answer>>
    PROVE  /\ AskerInv' /\ V!TimesOfOneList' /\ V!FiltersKept'
           /\ endpoint' = "generators" => offset' \in Nat
BY DEF ValidatorsInv, AskerInv, V!TimesOfOneList, V!FiltersKept, V!Lost, V!ByTime

LEMMA ListChangedInv ==
    ASSUME ValidatorsInv, UNCHANGED <<endpoint, query, sort, offset, answer, pc, held, found>>,
           list' \in {<<>>} \cup GeneratorLists
    PROVE  ValidatorsInv'
<1>1. FoundRowsInv' <=> FoundRowsInv
  BY DEF FoundRowsInv, Listed, V!ByTime, V!Lost
<1>. QED BY <1>1, ValidatorsStay DEF ValidatorsInv

LEMMA ValidatorsAskedInv == ASSUME ValidatorsInv, V!Asked PROVE ValidatorsInv'
<1>1. pc' \in {"asked", "done"} /\ (pc' = "asked" => held' \in GeneratorLists)
  BY DEF V!Asked, ValidatorsInv
<1>2. list' \in {<<>>} \cup GeneratorLists
  BY DEF V!Asked, ValidatorsInv
<1>3. UNCHANGED <<endpoint, query, sort, offset, answer>>
  BY DEF V!Asked
<1>. QED BY <1>1, <1>2, <1>3, ValidatorsStay DEF ValidatorsInv

LEMMA ListFinite == ASSUME NEW l \in GeneratorLists PROVE IsFiniteSet(V!Range(l))
<1>1. DOMAIN l = 1 .. Len(l) /\ Len(l) \in Nat
  BY ListsAssumption
<1>2. IsFiniteSet(1 .. Len(l))
  BY <1>1, FS_Interval
<1>3. l \in Surjection(1 .. Len(l), V!Range(l))
  BY <1>1, ListsAssumption DEF V!Range, Surjection
<1>. QED BY <1>2, <1>3, FS_Surjection

LEMMA ValidatorsFoundInv == ASSUME ValidatorsInv, V!FindMany PROVE ValidatorsInv'
<1> DEFINE n    == V!Cardinality(V!Matching)
           size == IF V!ByTime THEN n ELSE V!Size(n, IF endpoint = "generators" THEN 0 ELSE offset)
<1>1. /\ UNCHANGED <<endpoint, list, query, sort, offset, answer, held>>
      /\ pc = "asked" /\ pc' = "found"
      /\ found' \in [1 .. size -> V!Matching] /\ V!IsInjective(found')
  BY DEF V!FindMany
<1>2. endpoint = "generators" => size \in Nat
  <2> SUFFICES ASSUME endpoint = "generators" PROVE size \in Nat
    OBVIOUS
  <2>1. held \in GeneratorLists
    BY <1>1 DEF ValidatorsInv
  <2>2. IsFiniteSet(V!Range(held))
    BY <2>1, ListFinite
  <2>3. V!Matching \subseteq V!Range(held)
    BY DEF V!Matching
  <2>5. Cardinality(V!Matching) \in Nat
    BY <2>2, <2>3, FS_Subset, FS_CardinalityType
  <2>6. n \in Nat
    BY <2>5 DEF V!Cardinality, Cardinality
  <2>7. V!Size(n, 0) \in Nat
    BY <2>6, TakeAssumption DEF V!Size
  <2>. QED BY <2>7 DEF V!ByTime
<1>3. FoundRowsInv'
  <2>1. \A i \in DOMAIN found' : found'[i] \in V!Matching
    BY <1>1
  <2>2. \A i \in DOMAIN found' : /\ Listed => found'[i] \in V!Range(held)
                                 /\ \A p \in DOMAIN query \ V!Lost : found'[i] \in V!Meaning(p, query[p])
    BY <2>1, MatchingAsked DEF ValidatorsInv
  <2>3. (Listed' <=> Listed) /\ V!Lost' = V!Lost
    BY <1>1 DEF Listed, V!ByTime, V!Lost
  <2>4. endpoint = "generators" => \E k \in Nat : DOMAIN found' = 1 .. k
    BY <1>1, <1>2
  <2>5. DOMAIN found' \subseteq Int
    BY <1>1
  <2>. QED BY <1>1, <2>2, <2>3, <2>4, <2>5 DEF FoundRowsInv
<1>. QED BY <1>1, <1>3, ValidatorsStay DEF ValidatorsInv

\* A place on a list is that of one address.
LEMMA TimesDiffer ==
    ASSUME NEW l, NEW u \in V!Range(l), NEW v \in V!Range(l), V!Time(l, u) = V!Time(l, v)
    PROVE  u = v
BY DEF V!Time, V!Range

\* Times are the places on a list.
LEMMA TimeType == ASSUME NEW l \in GeneratorLists, NEW v \in V!Range(l) PROVE V!Time(l, v) \in Nat \ {0}
<1>1. DOMAIN l \subseteq Nat \ {0}
  BY ListsAssumption
<1>. QED BY <1>1 DEF V!Time, V!Range

\* What is shown are rows that were found, with their times on the list held.
LEMMA ValidatorsRepliedInv == ASSUME ValidatorsInv, V!Replied PROVE ValidatorsInv'
<1>1. /\ UNCHANGED <<endpoint, list, query, sort, held>>
      /\ pc = "found" /\ pc' \in {"done", "idle"} /\ offset' = offset + Len(answer')
  BY DEF V!Replied
<1>2. FoundRowsInv /\ held \in GeneratorLists
  BY <1>1 DEF ValidatorsInv
<1>3. PICK t \in IF Listed THEN V!Sorted(V!Timed) ELSE {V!Timed} :
         answer' = IF endpoint # "generators" THEN t
                   ELSE [i \in 1 .. V!Size(Len(t), offset) |-> t[offset + i]]
  BY DEF V!Replied, Listed
<1>4. DOMAIN t = DOMAIN found
  BY <1>3 DEF V!Sorted, V!Timed
<1>5. \A i \in DOMAIN t : \E k \in DOMAIN found : t[i] = [address |-> found[k], time |-> V!Time(held, found[k])]
  <2>1. \A i \in DOMAIN t : \E k \in DOMAIN found : t[i] = V!Timed[k]
    BY <1>3 DEF V!Sorted, V!Timed, V!Range
  <2>. QED BY <2>1 DEF V!Timed
<1>6. ASSUME Listed, NEW i \in DOMAIN t, NEW j \in DOMAIN t, i < j PROVE t[i].time < t[j].time
  <2>1. V!IsInjective(t) /\ t[i].time <= t[j].time
    BY <1>3, <1>6 DEF V!Sorted
  <2>2. PICK k \in DOMAIN found : t[i] = [address |-> found[k], time |-> V!Time(held, found[k])]
    BY <1>5, <1>6
  <2>3. PICK l \in DOMAIN found : t[j] = [address |-> found[l], time |-> V!Time(held, found[l])]
    BY <1>5, <1>6
  <2>4. found[k] \in V!Range(held) /\ found[l] \in V!Range(held)
    BY <1>2, <1>6 DEF FoundRowsInv
  <2>5. t[i] # t[j]
    BY <1>2, <1>4, <1>6, <2>1 DEF V!IsInjective, FoundRowsInv
  <2>6. t[i].time # t[j].time
    BY <2>2, <2>3, <2>4, <2>5, TimesDiffer
  <2>7. t[i].time \in Nat /\ t[j].time \in Nat
    BY <1>2, <2>2, <2>3, <2>4, TimeType
  <2>. QED BY <2>1, <2>6, <2>7
<1>7. endpoint = "generators" =>
         /\ Len(t) \in Nat /\ DOMAIN t = 1 .. Len(t) /\ offset \in Nat
         /\ V!Size(Len(t), offset) \in Nat /\ offset' \in Nat
         /\ \A i \in 1 .. V!Size(Len(t), offset) : offset + i \in DOMAIN t
  <2> SUFFICES ASSUME endpoint = "generators"
               PROVE  /\ Len(t) \in Nat /\ DOMAIN t = 1 .. Len(t) /\ offset \in Nat
                      /\ V!Size(Len(t), offset) \in Nat /\ offset' \in Nat
                      /\ \A i \in 1 .. V!Size(Len(t), offset) : offset + i \in DOMAIN t
    OBVIOUS
  <2>1. PICK n \in Nat : DOMAIN t = 1 .. n
    BY <1>2, <1>4 DEF FoundRowsInv
  <2>2. t \in Seq({t[i] : i \in DOMAIN t}) /\ Len(t) = n
    <3>1. t = [i \in DOMAIN t |-> t[i]]
      BY <1>3 DEF V!Sorted, V!Timed
    <3>. QED BY <2>1, <3>1
  <2>3. offset \in Nat
    BY DEF ValidatorsInv
  <2> PICK m : m = V!Size(n, offset)
    OBVIOUS
  <2>4. m \in Nat /\ \A i \in 1 .. m : offset + i \in 1 .. n
    BY <2>3, TakeAssumption DEF V!Size
  <2>5. answer' = [i \in 1 .. m |-> t[offset + i]]
    BY <1>3, <2>2
  <2>6. Len(answer') = m
    BY <2>4, <2>5
  <2>. QED BY <1>1, <2>1, <2>2, <2>3, <2>4, <2>6
<1>8. ASSUME NEW i \in DOMAIN answer'
      PROVE  \E k \in DOMAIN found : answer'[i] = [address |-> found[k], time |-> V!Time(held, found[k])]
  <2>1. CASE endpoint # "generators"
    BY <1>3, <1>5, <1>8, <2>1
  <2>2. CASE endpoint = "generators"
    <3>1. offset + i \in DOMAIN t /\ answer'[i] = t[offset + i]
      BY <1>3, <1>7, <1>8, <2>2
    <3>. QED BY <1>5, <3>1
  <2>. QED BY <2>1, <2>2
<1>9. V!FiltersKept'
  <2>1. V!Lost' = V!Lost /\ (V!ByTime' <=> V!ByTime)
    BY <1>1 DEF V!Lost, V!ByTime
  <2> SUFFICES ASSUME NEW i \in DOMAIN answer'
               PROVE  /\ \A p \in DOMAIN query \ V!Lost : answer'[i].address \in V!Meaning(p, query[p])
                      /\ V!ByTime => answer'[i].time # 0
    BY <1>1, <2>1 DEF V!FiltersKept
  <2>2. PICK k \in DOMAIN found : answer'[i] = [address |-> found[k], time |-> V!Time(held, found[k])]
    BY <1>8
  <2>3. V!ByTime => found[k] \in V!Range(held)
    BY <1>2 DEF FoundRowsInv, Listed
  <2>. QED BY <1>2, <2>2, <2>3, TimeType DEF FoundRowsInv
<1>10. \A i \in DOMAIN answer' : /\ answer'[i].time = V!Time(held, answer'[i].address)
                                 /\ endpoint = "generators" => answer'[i].time # 0
  <2> SUFFICES ASSUME NEW i \in DOMAIN answer'
               PROVE  /\ answer'[i].time = V!Time(held, answer'[i].address)
                      /\ endpoint = "generators" => answer'[i].time # 0
    OBVIOUS
  <2>1. PICK k \in DOMAIN found : answer'[i] = [address |-> found[k], time |-> V!Time(held, found[k])]
    BY <1>8
  <2>2. endpoint = "generators" => found[k] \in V!Range(held)
    BY <1>2 DEF FoundRowsInv, Listed
  <2>. QED BY <1>2, <2>1, <2>2, TimeType
<1>11. ASSUME Listed, NEW i \in DOMAIN answer', NEW j \in DOMAIN answer', i < j
       PROVE  answer'[i].time < answer'[j].time
  <2>1. CASE endpoint # "generators"
    BY <1>3, <1>6, <1>11, <2>1
  <2>2. CASE endpoint = "generators"
    <3>1. /\ i \in 1 .. V!Size(Len(t), offset) /\ answer'[i] = t[offset + i]
          /\ j \in 1 .. V!Size(Len(t), offset) /\ answer'[j] = t[offset + j]
      BY <1>3, <1>11, <2>2
    <3>2. offset + i \in DOMAIN t /\ offset + j \in DOMAIN t /\ offset + i < offset + j
      BY <1>7, <1>11, <2>2, <3>1
    <3>. QED BY <1>6, <1>11, <3>1, <3>2
  <2>. QED BY <2>1, <2>2
<1>12. V!TimesOfOneList'
  <2>1. Listed' <=> Listed
    BY <1>1 DEF Listed, V!ByTime
  <2>2. \E l \in GeneratorLists : \A i \in DOMAIN answer' :
           /\ answer'[i].time = V!Time(l, answer'[i].address)
           /\ endpoint' = "generators" => answer'[i].time # 0
    <3>1. endpoint' = endpoint
      BY <1>1
    <3>. QED BY <1>2, <1>10, <3>1
  <2>3. Listed' => \A i, j \in DOMAIN answer' : i < j => answer'[i].time < answer'[j].time
    BY <1>11, <2>1
  <2>. QED BY <2>2, <2>3 DEF V!TimesOfOneList, Listed
<1>13. endpoint' = "generators" => offset' \in Nat
  BY <1>1, <1>7
<1>. QED BY <1>1, <1>9, <1>12, <1>13 DEF ValidatorsInv, AskerInv

LEMMA ValidatorsStutterInv == ASSUME ValidatorsInv, UNCHANGED V!vars PROVE ValidatorsInv'
BY ListChangedInv DEF V!vars, ValidatorsInv

LEMMA ValidatorsNextInv == ASSUME ValidatorsInv, [V!Next]_V!vars PROVE ValidatorsInv'
<1>1. CASE \E l \in GeneratorLists : V!ListSet(l)
  BY <1>1, ListChangedInv DEF V!ListSet
<1>2. CASE \E v \in Validators : V!ValidatorStored(v)
  BY <1>2, ListChangedInv DEF V!ValidatorStored, ValidatorsInv
<1>. QED BY <1>1, <1>2, ValidatorsAskedInv, ValidatorsFoundInv, ValidatorsRepliedInv, ValidatorsStutterInv
     DEF V!Next

-----------------------------------------------------------------------------
(* The composed specification *)

\* The invariant of the part at hand.
GatewayInv ==
    /\ part = "startup"  => StartupInv
    /\ part = "requests" => RequestsInv
    /\ part = "caches"   => CachesInv
    /\ part = "lists"    => ListsInv
    /\ part = "validators" => ValidatorsInv

LEMMA InitInv == Init => GatewayInv
<1> SUFFICES ASSUME Init PROVE GatewayInv
  OBVIOUS
<1>1. CASE part = "startup"
  BY <1>1, StartupInitInv DEF Init, GatewayInv
<1>2. CASE part = "requests"
  BY <1>2, RequestsInitInv, AskersAssumption DEF Init, GatewayInv
<1>3. CASE part = "caches"
  BY <1>3, CachesInitInv DEF Init, GatewayInv
<1>4. CASE part = "lists"
  BY <1>4, ListsInitInv DEF Init, GatewayInv
<1>5. CASE part = "validators"
  BY <1>5, ValidatorsInitInv DEF Init, GatewayInv
<1>. QED BY <1>1, <1>2, <1>3, <1>4, <1>5 DEF GatewayInv

LEMMA CachesStep == ASSUME part = "caches", [Next]_vars PROVE [C!Next]_C!vars /\ part' = part
BY DEF Next, StartupSteps, ListsSteps, ValidatorsSteps, RequestsSteps, CachesSteps,
   vars, cacheVars, C!vars

LEMMA NextInv == ASSUME GatewayInv, [Next]_vars PROVE GatewayInv'
<1>1. CASE part = "startup"
  <2>1. [S!Next]_S!vars /\ part' = part
    BY <1>1 DEF Next, StartupSteps, ListsSteps, ValidatorsSteps, RequestsSteps, CachesSteps,
       vars, startupVars, S!vars, S!events
  <2>. QED BY <1>1, <2>1, StartupNextInv DEF GatewayInv
<1>2. CASE part = "requests"
  <2>1. [R!Next]_R!vars /\ part' = part
    BY <1>2 DEF Next, StartupSteps, ListsSteps, ValidatorsSteps, RequestsSteps, CachesSteps,
       vars, requestVars, R!vars
  <2>. QED BY <1>2, <2>1, RequestsNextInv, AskersAssumption DEF GatewayInv
<1>3. CASE part = "caches"
  <2>1. [C!Next]_C!vars /\ part' = part
    BY <1>3, CachesStep
  <2>. QED BY <1>3, <2>1, CachesNextInv DEF GatewayInv
<1>4. CASE part = "lists"
  <2>1. [L!Next]_L!vars /\ part' = part
    BY <1>4 DEF Next, StartupSteps, ListsSteps, ValidatorsSteps, RequestsSteps, CachesSteps,
       vars, listVars, clientVars, L!vars
  <2>. QED BY <1>4, <2>1, ListsNextInv DEF GatewayInv
<1>5. CASE part = "validators"
  <2>1. [V!Next]_V!vars /\ part' = part
    BY <1>5 DEF Next, StartupSteps, ListsSteps, ValidatorsSteps, RequestsSteps, CachesSteps,
       vars, heldVars, clientVars, V!vars
  <2>. QED BY <1>5, <2>1, ValidatorsNextInv DEF GatewayInv
<1>6. CASE part \notin {"startup", "requests", "caches", "lists", "validators"}
  <2>1. part' = part
    BY DEF Next, StartupSteps, ListsSteps, ValidatorsSteps, RequestsSteps, CachesSteps, vars
  <2>. QED BY <1>6, <2>1 DEF GatewayInv
<1>. QED BY <1>1, <1>2, <1>3, <1>4, <1>5, <1>6

LEMMA GatewayInvariant == Spec => []GatewayInv
BY InitInv, NextInv, PTL DEF Spec

-----------------------------------------------------------------------------
(* Results *)

\* Unless the first boot ended half-way, or a block was announced while it created the row
\* of the pointer, a gateway that came up has the genesis accounts, validators and names,
\* whatever announced blocks write and whichever boots fail or end later
\* (IndexerService.executeStartUpCommands, IndexGenesisBlockCommand).
THEOREM GenesisStaysIn == Spec => []GenesisIn
<1>1. GatewayInv => GenesisIn
  <2> SUFFICES ASSUME part = "startup", StartupInv PROVE S!GenesisIn
    BY DEF GatewayInv, GenesisIn
  <2>. QED BY InvGenesisIn
<1>. QED BY <1>1, GatewayInvariant, PTL

\* A boot fails on a row of the genesis assets only where an announced block wrote that
\* account or that validator before it, whatever the order of the assets
\* (IndexGenesisBlockCommand, UpdateBlockGeneratorCommand, ProcessValidatorCommand).
THEOREM OnlyOthersClash == Spec => []ClashNeedsOther
<1>1. GatewayInv => ClashNeedsOther
  <2> SUFFICES ASSUME part = "startup", StartupInv PROVE S!ClashNeedsOther
    BY DEF GatewayInv, ClashNeedsOther
  <2>. QED BY InvClashNeedsOther
<1>. QED BY <1>1, GatewayInvariant, PTL

\* A reader of /pos/stakes never sees some of the rows that AddStakesCommand deletes and
\* some of those it creates.
THEOREM StakesAreWhole == Spec => []WholeStakes
<1>1. GatewayInv => WholeStakes
  <2> SUFFICES ASSUME part = "requests", RequestsInv PROVE R!WholeStakes
    BY DEF GatewayInv, WholeStakes
  <2>. QED BY InvWholeStakes
<1>. QED BY <1>1, GatewayInvariant, PTL

\* The sum of the counts by status differs from the number of validators that have a
\* status by no more than the changes of a status while they are read
\* (countValidatorsByStatus).
THEOREM SumsAreClose == Spec => []CountsOffByChanges
<1>1. GatewayInv => CountsOffByChanges
  <2> SUFFICES ASSUME part = "requests", RequestsInv PROVE R!CountsOffByChanges
    BY DEF GatewayInv, CountsOffByChanges
  <2>. QED BY SumIsClose, AskersAssumption
<1>. QED BY <1>1, GatewayInvariant, PTL

\* What a client receives satisfies every parameter it gave, but for the height at /blocks,
\* one of two parameters that share a key, and all where validators are sorted by time;
\* an account that was looked up is the one asked for (the query controllers).
THEOREM FiltersAreKept == Spec => []FiltersKept
<1>1. GatewayInv => FiltersKept
  <2> SUFFICES ASSUME GatewayInv PROVE FiltersKept
    OBVIOUS
  <2>1. CASE part = "lists"
    BY <2>1, InvListFilters DEF GatewayInv, FiltersKept
  <2>2. CASE part = "validators"
    BY <2>2 DEF GatewayInv, FiltersKept, ValidatorsInv
  <2>3. CASE part = "requests"
    BY <2>3, Asked DEF GatewayInv, FiltersKept
  <2>4. CASE part \notin {"lists", "validators", "requests"}
    BY <2>4 DEF FiltersKept
  <2>. QED BY <2>1, <2>2, <2>3, <2>4
<1>. QED BY <1>1, GatewayInvariant, PTL

\* A client that pages through /blocks, in either order, misses none of the blocks it
\* wants that were stored when it began, though rows shift while it pages (BlockController).
THEOREM NothingIsMissed == Spec => []NothingMissed
<1>1. GatewayInv => NothingMissed
  <2> SUFFICES ASSUME part = "lists", ListsInv PROVE L!NothingMissed
    BY DEF GatewayInv, NothingMissed
  <2>. QED BY InvNothingMissed
<1>. QED BY <1>1, GatewayInvariant, PTL

\* The times of an answer come from one generator list and the parts of the token summary
\* from one refresh, though both caches are replaced while the database or the node is
\* awaited (PosController, GeneratorController, NodeApiService).
THEOREM TogetherOfOneTime == Spec => []AnswersOfOneTime
<1>1. GatewayInv => AnswersOfOneTime
  BY DEF GatewayInv, AnswersOfOneTime, ValidatorsInv, CachesInv
<1>. QED BY <1>1, GatewayInvariant, PTL

\* While refreshes of a cache do not overlap, an answer is not of an earlier block than
\* the one before it (cacheNodeApiOnNewBlock).
THEOREM AnswersGoOn == Spec => NeverOlder
<1>1. GatewayInv /\ [Next]_vars => [part = "caches" => C!GoesOn]_vars
  <2> SUFFICES ASSUME part = "caches", CachesInv, [Next]_vars PROVE C!GoesOn
    BY DEF GatewayInv
  <2>1. [C!Next]_C!vars
    BY CachesStep
  <2>. QED BY <2>1, StepGoesOn
<1>. QED BY <1>1, GatewayInvariant, PTL DEF Spec, NeverOlder

\* An endpoint that answered from a cache goes on to, also when a refresh failed halfway
\* (NodeApiService, cacheNodeApiOnNewBlock).
THEOREM ReadyForGood == Spec => OnceReadyAlwaysReady
<1>1. GatewayInv /\ [Next]_vars => [part = "caches" => C!KeepsReady]_vars
  <2> SUFFICES ASSUME part = "caches", CachesInv, [Next]_vars PROVE C!KeepsReady
    BY DEF GatewayInv
  <2>1. [C!Next]_C!vars
    BY CachesStep
  <2>. QED BY <2>1, StepKeepsReady
<1>. QED BY <1>1, GatewayInvariant, PTL DEF Spec, OnceReadyAlwaysReady
=============================================================================
