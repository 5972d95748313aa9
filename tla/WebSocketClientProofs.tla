------------------------ MODULE WebSocketClientProofs ------------------------
(***************************************************************************)
(* For any number of calls and sockets: there is one connection or one     *)
(* timer, an answer goes to the call it answers, none is dropped that      *)
(* could arrive, and an open connection is subscribed.                     *)
(***************************************************************************)
EXTENDS WebSocketClient, TLAPS

\* TypeOK needs OneConnection: a second live socket would make a second timer.
ConnInv == TypeOK /\ OneConnection

\* What is under way travels on the current socket; its numbers are all
\* different, and below the counter until an error resets it.
WireNumbered ==
    /\ \A m \in wire : m.socket = ws /\ socket[ws] \in {"open", "closing", "failing"}
    /\ \A m \in wire : socket[ws] # "failing" => m.id < counter
    /\ \A m, n \in wire : m.id = n.id => m = n

\* What is pending has a number below the counter, and a number on the wire
\* means the same call here and there.
PendingNumbered ==
    /\ \A p \in pending : p.id < counter
    /\ \A p \in pending, m \in wire : p.id = m.id => p.call = m.for

\* An unused call has sent nothing.
UnusedSilent == \A m \in wire : m.for \in Calls => call[m.for] # "unused"

NumberInv == WireNumbered /\ PendingNumbered /\ UnusedSilent

AnswerInv == RightAnswer /\ NumberInv /\ AnswerNotDropped

-----------------------------------------------------------------------------
\* Types and connections.

\* Initially the first socket connects and no timer runs.
LEMMA InitConn == Init => ConnInv
BY CallsAssumption, SocketsAssumption
   DEF Init, ConnInv, TypeOK, OneConnection, Sockets, SocketStates, Messages, Topics, Alive

\* subscribe() keeps the types.
LEMMA SubscribeTypes ==
    ASSUME TypeOK, Subscribe
    PROVE  wire' \subseteq Messages /\ counter' \in Nat /\ subscribed' \subseteq Sockets
BY DEF TypeOK, Subscribe, Request, Messages, Topics

\* Every step keeps the types and one connection or one timer.
LEMMA NextConn == ConnInv /\ [Next]_vars => ConnInv'
<1> SUFFICES ASSUME ConnInv, [Next]_vars PROVE ConnInv'
  OBVIOUS
<1> USE DEF ConnInv
<1>1. CASE UNCHANGED vars
  BY <1>1 DEF vars, TypeOK, OneConnection, Alive
<1>2. CASE Booting
  <2>1. wire' \subseteq Messages /\ counter' \in Nat /\ subscribed' \subseteq Sockets
    BY <1>2, SubscribeTypes DEF Booting, ModuleInitDone, ListenersRegistered, Bootstrap,
       BootstrapFails, TypeOK
  <2> QED
    BY <1>2, <2>1 DEF Booting, ModuleInitDone, ListenersRegistered, Bootstrap,
       BootstrapFails, TypeOK, OneConnection, Alive
<1>3. CASE Opens
  <2>1. wire' \subseteq Messages /\ counter' \in Nat /\ subscribed' \subseteq Sockets
    BY <1>3, SubscribeTypes DEF Opens, OnConnected, TypeOK
  <2> QED
    BY <1>3, <2>1 DEF Opens, TypeOK, SocketStates, OneConnection, Alive
<1>4. CASE TimerFires
  <2>1. ws + 1 \in Sockets /\ timers = 1
    BY <1>4, SocketsAssumption DEF TimerFires, TypeOK, Sockets
  <2> QED
    BY <1>4, <2>1 DEF TimerFires, TypeOK, SocketStates, OneConnection, Alive
<1>5. ASSUME NEW c \in Calls, Invoke(c) \/ InvokeRefused(c) \/ TimesOut(c) PROVE ConnInv'
  <2>1. CASE Invoke(c)
    <3>1. Waits(c) \subseteq [id : Nat, call : Calls] /\ Request(counter, c) \in Messages
      BY DEF Waits, Request, Messages, Topics, TypeOK
    <3> QED
      BY <2>1, <3>1 DEF Invoke, TypeOK, OneConnection, Alive
  <2>2. CASE InvokeRefused(c) \/ TimesOut(c)
    BY <2>2 DEF InvokeRefused, TimesOut, TypeOK, OneConnection, Alive
  <2> QED
    BY <1>5, <2>1, <2>2
<1>6. ASSUME NEW m \in wire, NodeAnswers(m) \/ HandleMessage(m) PROVE ConnInv'
  <2>1. m \in Messages /\ m.for \in Topics
    BY DEF TypeOK, Messages
  <2>2. CASE NodeAnswers(m)
    <3>1. [m EXCEPT !.kind = "answer"] \in Messages
      BY <2>1 DEF Messages
    <3> QED
      BY <2>2, <3>1 DEF NodeAnswers, TypeOK, OneConnection, Alive
  <2>3. CASE HandleMessage(m)
    <3>1. call' \in [Calls -> {"unused", "waiting", "answered", "failed"}]
      BY <2>3 DEF HandleMessage, TypeOK
    <3>2. answer' \in [Calls -> Topics \cup {"none"}]
      BY <2>1, <2>3 DEF HandleMessage, TypeOK
    <3> QED
      BY <2>3, <3>1, <3>2 DEF HandleMessage, TypeOK, OneConnection, Alive
  <2> QED
    BY <1>6, <2>2, <2>3
<1>7. ASSUME NEW s \in Sockets,
             Errors(s) \/ PeerCloses(s) \/ Closed(s) \/ DisconnectTimesOut(s)
      PROVE  ConnInv'
  <2>1. CASE Errors(s)
    BY <2>1 DEF Errors, OnError, Disconnect, TypeOK, SocketStates, OneConnection, Alive
  <2>2. CASE PeerCloses(s)
    BY <2>2 DEF PeerCloses, TypeOK, SocketStates, OneConnection, Alive
  <2>3. CASE Closed(s)
    <3>1. s = ws /\ timers = 0
      BY <2>3 DEF Closed, OneConnection, Alive
    <3> QED
      BY <2>3, <3>1 DEF Closed, Reconnect, TypeOK, SocketStates, OneConnection, Alive
  <2>4. CASE DisconnectTimesOut(s)
    BY <2>4 DEF DisconnectTimesOut, TypeOK, OneConnection, Alive
  <2> QED
    BY <1>7, <2>1, <2>2, <2>3, <2>4
<1> QED
  BY <1>1, <1>2, <1>3, <1>4, <1>5, <1>6, <1>7 DEF Next

\* TypeOK holds for any calls and sockets: among the rest, never two
\* reconnections are scheduled.
THEOREM ClientTypeCorrect == Spec => []TypeOK
<1>1. ConnInv => TypeOK
  BY DEF ConnInv
<1> QED
  BY <1>1, InitConn, NextConn, PTL DEF Spec

\* OneConnection: one live socket or one timer of reconnect(), whatever the
\* order of errors and closes.
THEOREM OneConnectionHolds == Spec => []OneConnection
<1>1. ConnInv => OneConnection
  BY DEF ConnInv
<1> QED
  BY <1>1, InitConn, NextConn, PTL DEF Spec

-----------------------------------------------------------------------------
\* Requests and answers.

\* Initially nothing is under way.
LEMMA InitAnswer == Init => AnswerInv
BY DEF Init, AnswerInv, RightAnswer, NumberInv, WireNumbered, PendingNumbered,
       UnusedSilent, AnswerNotDropped

\* A request that goes out over the open connection for a topic that is not an
\* unused call leaves the wire numbered.
LEMMA SendNumbered ==
    ASSUME ConnInv, NumberInv, IsOpen, NEW topic \in Topics,
           wire' = wire \cup {Request(counter, topic)},
           counter' = counter + 1, ws' = ws, socket' = socket
    PROVE  WireNumbered'
<1> USE DEF ConnInv, NumberInv, WireNumbered
<1>1. counter \in Nat /\ \A m \in wire : m.id \in Nat /\ m.id < counter
  BY DEF TypeOK, Messages, IsOpen
<1>2. Request(counter, topic).id = counter /\ Request(counter, topic).socket = ws
  BY DEF Request
<1>3. \A m, n \in wire' : m.id = n.id => m = n
  BY <1>1, <1>2
<1>4. \A m \in wire' : m.id < counter'
  BY <1>1, <1>2
<1> QED
  BY <1>2, <1>3, <1>4 DEF IsOpen

\* subscribe() over the open connection.
LEMMA SubscribeAnswer ==
    ASSUME ConnInv, AnswerInv, IsOpen, Subscribe,
           UNCHANGED << socket, ws, pending, call, answer >>
    PROVE  AnswerInv'
<1>1. WireNumbered'
  BY SendNumbered DEF Subscribe, AnswerInv, Topics
<1>2. Request(counter, "subscribe").id = counter /\ Request(counter, "subscribe").for \notin Calls
  BY CallsAssumption DEF Request
<1>3. \A p \in pending : p.id \in Nat /\ p.id < counter /\ counter \in Nat
  BY DEF ConnInv, TypeOK, AnswerInv, NumberInv, PendingNumbered
<1>4. \A p \in pending : p.id < counter' /\ p.id # counter
  BY <1>3 DEF Subscribe
<1>5. PendingNumbered'
  BY <1>2, <1>4 DEF Subscribe, AnswerInv, NumberInv, PendingNumbered
<1>6. UnusedSilent' /\ AnswerNotDropped' /\ RightAnswer'
  BY <1>2 DEF Subscribe, AnswerInv, NumberInv, UnusedSilent, AnswerNotDropped, RightAnswer
<1> QED
  BY <1>1, <1>5, <1>6 DEF AnswerInv, NumberInv

\* A socket that connects carries nothing.
LEMMA ConnectingSilent ==
    ASSUME AnswerInv, socket[ws] \notin {"open", "closing", "failing"}
    PROVE  wire = {}
BY DEF AnswerInv, NumberInv, WireNumbered

\* OPEN: the new connection carries nothing, and is subscribed if there is a
\* listener.
LEMMA OpensAnswer == ConnInv /\ AnswerInv /\ Opens => AnswerInv'
<1> SUFFICES ASSUME ConnInv, AnswerInv, Opens PROVE AnswerInv'
  OBVIOUS
<1>1. wire = {} /\ counter \in Nat /\ socket'[ws] = "open" /\ ws' = ws
  BY ConnectingSilent DEF Opens, ConnInv, TypeOK
<1>2. \A p \in pending : p.id \in Nat /\ p.id < counter
  BY DEF ConnInv, TypeOK, AnswerInv, NumberInv, PendingNumbered
<1>3. CASE UNCHANGED << wire, counter, subscribed >>
  BY <1>1, <1>2, <1>3 DEF Opens, AnswerInv, NumberInv, WireNumbered, PendingNumbered,
     UnusedSilent, AnswerNotDropped, RightAnswer
<1>4. CASE Subscribe
  <2>1. wire' = {Request(counter, "subscribe")} /\ counter' = counter + 1
    BY <1>1, <1>4 DEF Subscribe
  <2>2. /\ Request(counter, "subscribe").id = counter
        /\ Request(counter, "subscribe").socket = ws
        /\ Request(counter, "subscribe").for \notin Calls
    BY CallsAssumption DEF Request
  <2>3. WireNumbered'
    BY <1>1, <2>1, <2>2 DEF WireNumbered
  <2>4. \A p \in pending : p.id < counter' /\ p.id # counter
    BY <1>1, <1>2, <2>1
  <2>5. PendingNumbered'
    BY <2>1, <2>2, <2>4 DEF Opens, PendingNumbered
  <2>6. UnusedSilent' /\ AnswerNotDropped' /\ RightAnswer'
    BY <2>1, <2>2 DEF Opens, AnswerInv, UnusedSilent, AnswerNotDropped, RightAnswer
  <2> QED
    BY <2>3, <2>5, <2>6 DEF AnswerInv, NumberInv
<1> QED
  BY <1>3, <1>4 DEF Opens, OnConnected

\* invoke(): the new number is above every other, on the wire and pending.
LEMMA InvokeAnswer == ConnInv /\ AnswerInv => \A c \in Calls : Invoke(c) => AnswerInv'
<1> SUFFICES ASSUME ConnInv, AnswerInv, NEW c \in Calls, Invoke(c) PROVE AnswerInv'
  OBVIOUS
<1>1. WireNumbered'
  BY SendNumbered DEF Invoke, AnswerInv, Topics
<1>2. Request(counter, c).id = counter /\ Request(counter, c).for = c
  BY DEF Request
<1>3. /\ counter \in Nat
      /\ \A p \in pending : p.id \in Nat /\ p.id < counter
      /\ \A m \in wire : m.id \in Nat /\ m.id < counter
  BY DEF ConnInv, TypeOK, Messages, AnswerInv, NumberInv, PendingNumbered, WireNumbered,
     Invoke, IsOpen
<1>4. pending' = pending \cup {[id |-> counter, call |-> c]}
  BY <1>3 DEF Invoke, Waits
<1>5. /\ \A p \in pending' : p.id < counter'
      /\ \A p \in pending : p.id # counter
      /\ \A m \in wire : m.id # counter
  BY <1>3, <1>4 DEF Invoke
<1>6. PendingNumbered'
  BY <1>2, <1>4, <1>5 DEF Invoke, AnswerInv, NumberInv, PendingNumbered
<1>7. call[c] = "unused" /\ call' = [call EXCEPT ![c] = "waiting"] /\ c \in DOMAIN call
  BY DEF Invoke, ConnInv, TypeOK
<1>8. UnusedSilent'
  BY <1>2, <1>7 DEF Invoke, AnswerInv, NumberInv, UnusedSilent
<1>9. AnswerNotDropped'
  BY <1>2, <1>4, <1>7 DEF Invoke, AnswerInv, NumberInv, UnusedSilent, AnswerNotDropped
<1>10. RightAnswer'
  BY DEF Invoke, AnswerInv, RightAnswer
<1> QED
  BY <1>1, <1>6, <1>8, <1>9, <1>10 DEF AnswerInv, NumberInv

\* A call that fails leaves its request and its entry where they are.
LEMMA FailsAnswer ==
    ConnInv /\ AnswerInv => \A c \in Calls : InvokeRefused(c) \/ TimesOut(c) => AnswerInv'
BY DEF InvokeRefused, TimesOut, ConnInv, TypeOK, AnswerInv, NumberInv, WireNumbered,
   PendingNumbered, UnusedSilent, AnswerNotDropped, RightAnswer

-----------------------------------------------------------------------------
\* The node and handleMessage.

\* An answer takes the place of its request, under the same number.
LEMMA NodeAnswersAnswer ==
    ConnInv /\ AnswerInv => \A m \in wire : NodeAnswers(m) => AnswerInv'
<1> SUFFICES ASSUME ConnInv, AnswerInv, NEW m \in wire, NodeAnswers(m) PROVE AnswerInv'
  OBVIOUS
<1> DEFINE a == [m EXCEPT !.kind = "answer"]
<1>1. a.socket = m.socket /\ a.id = m.id /\ a.for = m.for
  BY DEF ConnInv, TypeOK, Messages
<1>2. wire' = (wire \ {m}) \cup {a}
  BY DEF NodeAnswers
<1> HIDE DEF a
<1>3. \A n \in wire' : \E o \in wire : n.socket = o.socket /\ n.id = o.id /\ n.for = o.for
  BY <1>1, <1>2
<1>4. \A n, o \in wire' : n.id = o.id => n = o
  BY <1>1, <1>2 DEF AnswerInv, NumberInv, WireNumbered
<1>5. WireNumbered'
  BY <1>3, <1>4 DEF NodeAnswers, AnswerInv, NumberInv, WireNumbered
<1>6. PendingNumbered' /\ UnusedSilent' /\ RightAnswer'
  BY <1>3 DEF NodeAnswers, AnswerInv, NumberInv, PendingNumbered, UnusedSilent, RightAnswer
<1>7. AnswerNotDropped'
  BY <1>3 DEF NodeAnswers, AnswerInv, AnswerNotDropped
<1> QED
  BY <1>5, <1>6, <1>7 DEF AnswerInv, NumberInv

\* handleMessage gives the answer to the call that its number stands for, and
\* takes no other entry away.
LEMMA HandleMessageAnswer ==
    ConnInv /\ AnswerInv => \A m \in wire : HandleMessage(m) => AnswerInv'
<1> SUFFICES ASSUME ConnInv, AnswerInv, NEW m \in wire, HandleMessage(m) PROVE AnswerInv'
  OBVIOUS
<1>1. \A c \in Takers(m) : c = m.for
  BY DEF Takers, AnswerInv, NumberInv, PendingNumbered
<1>2. RightAnswer'
  BY <1>1 DEF HandleMessage, AnswerInv, RightAnswer
<1>3. \A c \in Calls : /\ call'[c] = "unused" => call[c] = "unused"
                       /\ call'[c] = "waiting" => call[c] = "waiting"
  BY DEF HandleMessage
<1>4. WireNumbered' /\ PendingNumbered' /\ UnusedSilent'
  BY <1>3 DEF HandleMessage, AnswerInv, NumberInv, WireNumbered, PendingNumbered, UnusedSilent
<1>5. \A n \in wire' : n \in wire /\ n.id # m.id
  BY DEF HandleMessage, AnswerInv, NumberInv, WireNumbered
<1>6. AnswerNotDropped'
  BY <1>3, <1>5 DEF HandleMessage, AnswerInv, AnswerNotDropped
<1> QED
  BY <1>2, <1>4, <1>6 DEF AnswerInv, NumberInv

-----------------------------------------------------------------------------
\* Connections come and go.

\* An error forgets all requests; what is still under way finds nobody.
LEMMA ErrorsAnswer == ConnInv /\ AnswerInv => \A s \in Sockets : Errors(s) => AnswerInv'
<1> SUFFICES ASSUME ConnInv, AnswerInv, NEW s \in Sockets, Errors(s) PROVE AnswerInv'
  OBVIOUS
<1>1. s = ws /\ socket' = [socket EXCEPT ![ws] = "failing"] /\ pending' = {}
  BY DEF Errors, OnError, Disconnect, ConnInv, OneConnection, Alive
<1>2. socket'[ws] = "failing" /\ ws' = ws /\ wire' = wire
  BY <1>1 DEF Errors, ConnInv, TypeOK
<1> QED
  BY <1>1, <1>2 DEF Errors, AnswerInv, NumberInv, WireNumbered, PendingNumbered,
     UnusedSilent, AnswerNotDropped, RightAnswer

\* The node closes the connection: numbers and requests stay.
LEMMA PeerClosesAnswer == ConnInv /\ AnswerInv => \A s \in Sockets : PeerCloses(s) => AnswerInv'
<1> SUFFICES ASSUME ConnInv, AnswerInv, NEW s \in Sockets, PeerCloses(s) PROVE AnswerInv'
  OBVIOUS
<1>1. s = ws /\ socket[ws] = "open" /\ socket'[ws] = "closing" /\ ws' = ws /\ wire' = wire
  BY DEF PeerCloses, ConnInv, TypeOK, OneConnection, Alive
<1> QED
  BY <1>1 DEF PeerCloses, AnswerInv, NumberInv, WireNumbered, PendingNumbered,
     UnusedSilent, AnswerNotDropped, RightAnswer

\* The event 'close': the wire is empty, and stays so until a socket opens.
LEMMA ClosedAnswer == ConnInv /\ AnswerInv => \A s \in Sockets : Closed(s) => AnswerInv'
<1> SUFFICES ASSUME ConnInv, AnswerInv, NEW s \in Sockets, Closed(s) PROVE AnswerInv'
  OBVIOUS
<1>1. s = ws
  BY DEF Closed, ConnInv, OneConnection, Alive
<1>2. wire' = {}
  BY <1>1 DEF Closed, AnswerInv, NumberInv, WireNumbered
<1> QED
  BY <1>2 DEF Closed, AnswerInv, NumberInv, WireNumbered, PendingNumbered,
     UnusedSilent, AnswerNotDropped, RightAnswer

\* connect(): no socket is alive, so nothing is under way.
LEMMA TimerFiresAnswer == ConnInv /\ AnswerInv /\ TimerFires => AnswerInv'
<1> SUFFICES ASSUME ConnInv, AnswerInv, TimerFires PROVE AnswerInv'
  OBVIOUS
<1>1. ~Alive(ws)
  BY DEF TimerFires, ConnInv, OneConnection
<1>2. wire = {}
  BY <1>1, ConnectingSilent DEF Alive
<1> QED
  BY <1>2 DEF TimerFires, AnswerInv, NumberInv, WireNumbered, PendingNumbered,
     UnusedSilent, AnswerNotDropped, RightAnswer

\* Every step keeps AnswerInv.
LEMMA NextAnswer == ConnInv /\ AnswerInv /\ [Next]_vars => AnswerInv'
<1> SUFFICES ASSUME ConnInv, AnswerInv, [Next]_vars PROVE AnswerInv'
  OBVIOUS
<1>1. CASE UNCHANGED << socket, ws, counter, pending, wire, call, answer >>
  BY <1>1 DEF AnswerInv, NumberInv, WireNumbered, PendingNumbered, UnusedSilent,
     AnswerNotDropped, RightAnswer
<1>2. CASE Booting
  BY <1>1, <1>2, SubscribeAnswer DEF Booting, ModuleInitDone, ListenersRegistered, Bootstrap,
     BootstrapFails
<1>3. CASE Opens
  BY <1>3, OpensAnswer
<1>4. CASE TimerFires
  BY <1>4, TimerFiresAnswer
<1>5. CASE \E c \in Calls : Invoke(c) \/ InvokeRefused(c) \/ TimesOut(c)
  BY <1>5, InvokeAnswer, FailsAnswer
<1>6. CASE \E m \in wire : NodeAnswers(m) \/ HandleMessage(m)
  BY <1>6, NodeAnswersAnswer, HandleMessageAnswer
<1>7. CASE \E s \in Sockets : Errors(s) \/ PeerCloses(s) \/ Closed(s) \/ DisconnectTimesOut(s)
  BY <1>1, <1>7, ErrorsAnswer, PeerClosesAnswer, ClosedAnswer DEF DisconnectTimesOut
<1> QED
  BY <1>1, <1>2, <1>3, <1>4, <1>5, <1>6, <1>7 DEF Next, vars

\* RightAnswer: handleMessage never hands a call the answer to another request,
\* although numbers are used again after an error and late answers keep coming.
THEOREM RightAnswerHolds == Spec => []RightAnswer
<1>1. AnswerInv => RightAnswer
  BY DEF AnswerInv
<1> QED
  BY <1>1, InitConn, NextConn, InitAnswer, NextAnswer, PTL DEF Spec

\* AnswerNotDropped: over an open connection handleMessage finds every call
\* that still waits.
THEOREM AnswerNotDroppedHolds == Spec => []AnswerNotDropped
<1>1. AnswerInv => AnswerNotDropped
  BY DEF AnswerInv
<1> QED
  BY <1>1, InitConn, NextConn, InitAnswer, NextAnswer, PTL DEF Spec

-----------------------------------------------------------------------------
\* SubscribedWhenOpen: the bootstrap or the listener of OPEN subscribes every
\* connection, although the bootstrap's own retry never does.
THEOREM SubscribedWhenOpenHolds == Spec => []SubscribedWhenOpen
<1>1. Init => SubscribedWhenOpen
  BY DEF Init, SubscribedWhenOpen
<1>2. ConnInv /\ SubscribedWhenOpen /\ [Next]_vars => SubscribedWhenOpen'
  <2> SUFFICES ASSUME ConnInv, SubscribedWhenOpen, [Next]_vars PROVE SubscribedWhenOpen'
    OBVIOUS
  <2> USE DEF SubscribedWhenOpen, IsOpen
  <2>1. CASE UNCHANGED << socket, ws, subscribed, boot >>
    BY <2>1
  <2>2. CASE Booting
    BY <2>2 DEF Booting, ModuleInitDone, ListenersRegistered, Bootstrap, BootstrapFails, Subscribe
  <2>3. CASE Opens
    BY <2>3 DEF Opens, OnConnected, Subscribe
  <2>4. CASE TimerFires
    <3>1. ws' \in Sockets /\ socket'[ws'] = "connecting"
      BY <2>4, SocketsAssumption DEF TimerFires, ConnInv, TypeOK, Sockets
    <3> QED
      BY <3>1
  <2>5. CASE \E s \in Sockets : Errors(s) \/ PeerCloses(s) \/ Closed(s) \/ DisconnectTimesOut(s)
    BY <2>5 DEF Errors, PeerCloses, Closed, DisconnectTimesOut, ConnInv, TypeOK
  <2>6. CASE \E c \in Calls : Invoke(c) \/ InvokeRefused(c) \/ TimesOut(c)
    BY <2>1, <2>6 DEF Invoke, InvokeRefused, TimesOut
  <2>7. CASE \E m \in wire : NodeAnswers(m) \/ HandleMessage(m)
    BY <2>1, <2>7 DEF NodeAnswers, HandleMessage
  <2> QED
    BY <2>1, <2>2, <2>3, <2>4, <2>5, <2>6, <2>7 DEF Next, vars
<1> QED
  BY <1>1, <1>2, InitConn, NextConn, PTL DEF Spec
=============================================================================
