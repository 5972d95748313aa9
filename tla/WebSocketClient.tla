--------------------------- MODULE WebSocketClient ---------------------------
(***************************************************************************)
(* The gateway's only connection to the node: websocket.service.ts, with   *)
(* the part of node-api.service.ts that keeps it subscribed to new blocks. *)
(*                                                                         *)
(* A socket that closes is replaced CONNECTION_TIMEOUT later.  Requests    *)
(* carry a number; an answer is matched with its request by that number    *)
(* alone, and the numbers start again whenever the client disconnects.     *)
(***************************************************************************)
EXTENDS Naturals

CONSTANTS
  Calls,       \* invocations of invoke(), each made at most once
  MaxSockets   \* bound: the sockets ever created

ASSUME CallsAssumption == Calls \cap {"subscribe", "none"} = {}
ASSUME SocketsAssumption == MaxSockets \in Nat \ {0}

VARIABLES
  socket,      \* the sockets created so far, by their readyState
  ws,          \* the service's current socket
  timers,      \* pending timers of reconnect()
  counter,     \* requestCounter
  pending,     \* pendingRequests: which call waits for which number
  wire,        \* requests and answers between the gateway and the node
  call,        \* what the caller of each invocation has seen
  answer,      \* whose answer it was given
  subscribed,  \* sockets over which new blocks were asked for
  boot         \* how far the application has come up

vars == << socket, ws, timers, counter, pending, wire, call, answer, subscribed, boot >>

-----------------------------------------------------------------------------
Sockets == 1 .. MaxSockets

\* What a request, and so an answer, may be about.
Topics == Calls \cup {"subscribe"}

\* "failing" is CLOSING after an error, with disconnect() awaiting the close.
SocketStates == {"none", "connecting", "open", "closing", "failing", "closed"}

Messages == [socket : Sockets, id : Nat, for : Topics, kind : {"request", "answer"}]

Alive(s) == socket[s] \in {"connecting", "open", "closing", "failing"}

IsOpen == socket[ws] = "open"

Init ==
  /\ socket = [s \in Sockets |-> IF s = 1 THEN "connecting" ELSE "none"]
  /\ ws = 1
  /\ timers = 0
  /\ counter = 0
  /\ pending = {}
  /\ wire = {}
  /\ call = [c \in Calls |-> "unused"]
  /\ answer = [c \in Calls |-> "none"]
  /\ subscribed = {}
  /\ boot = "connecting"

-----------------------------------------------------------------------------
\* Requests.

Request(id, topic) == [socket |-> ws, id |-> id, for |-> topic, kind |-> "request"]

\* subscribe() over the current socket, which the caller found open.
Subscribe ==
  /\ wire' = wire \cup {Request(counter, "subscribe")}
  /\ counter' = counter + 1
  /\ subscribed' = subscribed \cup {ws}

\* invoke() refuses at once without an open socket.
InvokeRefused(c) ==
  /\ call[c] = "unused"
  /\ ~IsOpen
  /\ call' = [call EXCEPT ![c] = "failed"]
  /\ UNCHANGED << socket, ws, timers, counter, pending, wire, answer, subscribed, boot >>

\* Mutant: the counter is advanced before the entry is stored.
MutantWaits(c) == {p \in pending : p.id # counter + 1} \cup {[id |-> counter + 1, call |-> c]}

\* The entry is stored under the request's number, over whatever was there.
Waits(c) == {p \in pending : p.id # counter} \cup {[id |-> counter, call |-> c]}

Invoke(c) ==
  /\ call[c] = "unused"
  /\ IsOpen
  /\ wire' = wire \cup {Request(counter, c)}
  /\ pending' = Waits(c)
  /\ counter' = counter + 1
  /\ call' = [call EXCEPT ![c] = "waiting"]
  /\ UNCHANGED << socket, ws, timers, answer, subscribed, boot >>

\* promiseWithTimeout rejects; the entry stays behind in pendingRequests.
TimesOut(c) ==
  /\ call[c] = "waiting"
  /\ call' = [call EXCEPT ![c] = "failed"]
  /\ UNCHANGED << socket, ws, timers, counter, pending, wire, answer, subscribed, boot >>

\* The node answers each request it reads once, in any order.
NodeAnswers(m) ==
  /\ m.kind = "request"
  /\ wire' = (wire \ {m}) \cup {[m EXCEPT !.kind = "answer"]}
  /\ UNCHANGED << socket, ws, timers, counter, pending, call, answer, subscribed, boot >>

\* handleMessage: whoever waits for the number gets the answer, if it still
\* waits; without an entry the answer is dropped.
Takers(m) == {p.call : p \in {q \in pending : q.id = m.id}}

HandleMessage(m) ==
  /\ m.kind = "answer"
  /\ LET Settled == {c \in Takers(m) : call[c] = "waiting"} IN
       /\ call' = [c \in Calls |-> IF c \in Settled THEN "answered" ELSE call[c]]
       /\ answer' = [c \in Calls |-> IF c \in Settled THEN m.for ELSE answer[c]]
  /\ pending' = {p \in pending : p.id # m.id}
  /\ wire' = wire \ {m}
  /\ UNCHANGED << socket, ws, timers, counter, subscribed, boot >>

-----------------------------------------------------------------------------
\* Connections.

\* reconnect()
Reconnect == timers' = timers + 1

\* connect(), called by the timer.
TimerFires ==
  /\ timers > 0
  /\ ws < MaxSockets
  /\ timers' = timers - 1
  /\ ws' = ws + 1
  /\ socket' = [socket EXCEPT ![ws + 1] = "connecting"]
  /\ UNCHANGED << counter, pending, wire, call, answer, subscribed, boot >>

\* Mutant: a new connection is not subscribed again.
MutantOnConnected == UNCHANGED << wire, counter, subscribed >>

\* onConnected: nobody listens to OPEN before the listeners are registered.
OnConnected ==
  IF boot \in {"listening", "booted"}
    THEN Subscribe
    ELSE UNCHANGED << wire, counter, subscribed >>

Opens ==
  /\ socket[ws] = "connecting"
  /\ socket' = [socket EXCEPT ![ws] = "open"]
  /\ OnConnected
  /\ UNCHANGED << ws, timers, pending, call, answer, boot >>

\* Mutant: the numbers start again, the requests stay.
MutantDisconnect ==
  /\ counter' = 0
  /\ pending' = pending

\* disconnect() up to its await: every request is forgotten, the numbers
\* start again.
Disconnect ==
  /\ counter' = 0
  /\ pending' = {}

\* Mutant: the error handler reconnects by itself.
MutantOnError ==
  /\ Disconnect
  /\ Reconnect

\* The error handler; the event 'close' follows, and only it reconnects.
OnError ==
  /\ Disconnect
  /\ UNCHANGED timers

Errors(s) ==
  /\ socket[s] \in {"connecting", "open"}
  /\ socket' = [socket EXCEPT ![s] = "failing"]
  /\ OnError
  /\ UNCHANGED << ws, wire, call, answer, subscribed, boot >>

\* The node closes the connection.
PeerCloses(s) ==
  /\ socket[s] = "open"
  /\ socket' = [socket EXCEPT ![s] = "closing"]
  /\ UNCHANGED << ws, timers, counter, pending, wire, call, answer, subscribed, boot >>

\* The event 'close'; what was still under way is lost.
Closed(s) ==
  /\ socket[s] \in {"closing", "failing"}
  /\ socket' = [socket EXCEPT ![s] = "closed"]
  /\ wire' = {m \in wire : m.socket # s}
  /\ Reconnect
  /\ UNCHANGED << ws, counter, pending, call, answer, subscribed, boot >>

-----------------------------------------------------------------------------
\* The application around it.

\* disconnect() gives up on the event 'close'; nobody handles its rejection.
DisconnectTimesOut(s) ==
  /\ socket[s] = "failing"
  /\ boot' = "exited"
  /\ UNCHANGED << socket, ws, timers, counter, pending, wire, call, answer, subscribed >>

\* onModuleInit sees the socket open, at one of its polls.
ModuleInitDone ==
  /\ boot = "connecting"
  /\ IsOpen
  /\ boot' = "initialised"
  /\ UNCHANGED << socket, ws, timers, counter, pending, wire, call, answer, subscribed >>

\* The framework registers the @OnEvent methods before the other services'
\* onApplicationBootstrap.
ListenersRegistered ==
  /\ boot = "initialised"
  /\ boot' = "listening"
  /\ UNCHANGED << socket, ws, timers, counter, pending, wire, call, answer, subscribed >>

\* onApplicationBootstrap subscribes once the schemas are there.  When that
\* fails it starts a timer whose callback names the method and calls nothing.
Bootstrap ==
  /\ boot = "listening"
  /\ boot' = "booted"
  /\ IF IsOpen THEN Subscribe ELSE UNCHANGED << wire, counter, subscribed >>
  /\ UNCHANGED << socket, ws, timers, pending, call, answer >>

\* A schema request fails, and the application does not start.
BootstrapFails ==
  /\ boot = "listening"
  /\ boot' = "exited"
  /\ UNCHANGED << socket, ws, timers, counter, pending, wire, call, answer, subscribed >>

Booting == ModuleInitDone \/ ListenersRegistered \/ Bootstrap \/ BootstrapFails

Next ==
  /\ boot # "exited"
  /\ \/ Booting
     \/ Opens
     \/ TimerFires
     \/ \E c \in Calls : Invoke(c) \/ InvokeRefused(c) \/ TimesOut(c)
     \/ \E m \in wire : NodeAnswers(m) \/ HandleMessage(m)
     \/ \E s \in Sockets : Errors(s) \/ PeerCloses(s) \/ Closed(s) \/ DisconnectTimesOut(s)

Spec == Init /\ [][Next]_vars

-----------------------------------------------------------------------------
\* Properties.

\* Every variable keeps its type; at most one reconnection is scheduled.
TypeOK ==
  /\ socket \in [Sockets -> SocketStates]
  /\ ws \in Sockets
  /\ timers \in {0, 1}
  /\ counter \in Nat
  /\ pending \subseteq [id : Nat, call : Calls]
  /\ wire \subseteq Messages
  /\ call \in [Calls -> {"unused", "waiting", "answered", "failed"}]
  /\ answer \in [Calls -> Topics \cup {"none"}]
  /\ subscribed \subseteq Sockets
  /\ boot \in {"connecting", "initialised", "listening", "booted", "exited"}

\* A caller is given the answer to its own request or none: not the late
\* answer to a call that timed out, not the answer to a subscription, not one
\* that an earlier connection left behind when the numbers started again.
RightAnswer == \A c \in Calls : answer[c] \in {c, "none"}

\* There is always exactly one connection, or the one timer that makes the
\* next: an error and the close that follows it do not reconnect twice, and
\* no path forgets to reconnect.
OneConnection ==
  /\ \A s \in Sockets : Alive(s) => s = ws
  /\ Alive(ws) <=> timers = 0

\* Once the application is up, no connection is open without a subscription
\* to new blocks, whenever it was lost during the boot or after it.
SubscribedWhenOpen == boot = "booted" /\ IsOpen => ws \in subscribed

\* An answer under way over the open connection to a call that still waits is
\* never dropped: handleMessage will find the call under the answer's number.
AnswerNotDropped ==
  \A m \in wire :
    /\ m.for \in Calls /\ call[m.for] = "waiting"
    /\ socket[m.socket] = "open"
    => [id |-> m.id, call |-> m.for] \in pending
=============================================================================
