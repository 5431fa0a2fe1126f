-------------------------- MODULE CarbonConnection --------------------------
(***************************************************************************)
(* Metrics::Carbon::Connection::Impl (src/Metrics/CarbonConnection.{h,     *)
(* cpp}): lines of text that the metrics reporter has queued are sent to a *)
(* Carbon server over a TCP connection, which is made again when it breaks.*)
(*                                                                         *)
(* One asio thread runs the handlers of operations that have completed, in *)
(* the order in which they did. A line is Bytes bytes, so that a connection*)
(* can break in the middle of one.                                         *)
(***************************************************************************)
EXTENDS Naturals, Sequences, SequencesExt, FiniteSets

CONSTANTS
  MaxMessageQueueSize,
  MessageAdditionLimit, \* a longer buffer is sent before a line is added to it
  Endpoints,            \* number of addresses of the server
  Bytes,                \* bytes of a line
  MaxErrors             \* bound on operations that fail

ASSUME CarbonAssumption ==
  /\ MaxMessageQueueSize \in Nat \ {0} /\ MessageAdditionLimit \in Nat
  /\ Endpoints \in Nat \ {0} /\ Bytes \in Nat \ {0} /\ MaxErrors \in Nat

VARIABLES
  Messages,      \* the queue of lines, numbered
  MessageBuffer, \* bytes that are not known to be sent, <<line, byte>>
  sent,          \* history: the bytes that were sent
  lines,         \* history: the number of lines accepted by the queue
  socket,        \* "closed" or "open"
  pending,       \* operations under way
  ready,         \* handlers of operations that have completed
  tried,         \* endpoints that were tried
  errors         \* operations that have failed

buffers == <<Messages, MessageBuffer, sent>>
network == <<socket, pending, ready, tried, errors>>
carbon == <<buffers, lines, network>>

Ok(op) == [op |-> op, ok |-> TRUE, bytes |-> 0]
Failed(op) == [op |-> op, ok |-> FALSE, bytes |-> 0]
Wait == Ok("waitForMessage")

\* The constructor: doAddressQuery.
CarbonInit ==
  /\ Messages = <<>> /\ MessageBuffer = <<>> /\ sent = <<>> /\ lines = 0
  /\ socket = "closed" /\ pending = {"resolve"} /\ ready = <<>>
  /\ tried = 0 /\ errors = 0

-----------------------------------------------------------------------------
\* try_enqueue of line lines + 1; the interface ignores that the queue is full.
sendMessage ==
  IF Len(Messages) < MaxMessageQueueSize
  THEN Messages' = Append(Messages, lines + 1) /\ lines' = lines + 1
  ELSE UNCHANGED <<Messages, lines>>

\* CarbonSink::isHealthy
isHealthy == Messages = <<>>

-----------------------------------------------------------------------------
(* What a handler does, with the handlers that are ready after it. A handler
   ends by starting at most one operation of the connecting loop, resolve,
   connect, receive and timer, and one of the sending loop, write and post. *)

doAddressQuery(rest) ==
  /\ pending' = pending \union {"resolve"} /\ ready' = rest
  /\ UNCHANGED <<buffers, socket, tried>>

\* async_connect opens the socket.
tryConnect(endpoint, rest) ==
  /\ tried' = endpoint /\ socket' = "open"
  /\ pending' = pending \union {"connect"} /\ ready' = rest
  /\ UNCHANGED buffers

\* Mutant: no new attempt is made.
AfterReconnect_Not(ops) == ops

\* reconnect, with either delay
AfterReconnect(ops) == ops \union {"timer"}

resolverHandler(ok, rest) ==
  \/ ok /\ tryConnect(1, rest)
  \/ /\ ~ok
     /\ pending' = AfterReconnect(pending) /\ ready' = rest
     /\ UNCHANGED <<buffers, socket, tried>>

Line(m) == [i \in 1..Bytes |-> <<m, i>>]

(* trySendMessage, on the buffer that a handler leaves: ops and rest are the
   operations under way and the handlers that are ready. *)
trySendMessage(buffer, ops, rest) ==
  IF socket = "closed"
  THEN MessageBuffer' = buffer /\ pending' = ops /\ ready' = rest /\ UNCHANGED Messages
  ELSE IF Len(buffer) <= MessageAdditionLimit /\ Messages # <<>>
  THEN /\ MessageBuffer' = buffer \o Line(Head(Messages)) /\ Messages' = Tail(Messages)
       /\ pending' = ops \union {"write"} /\ ready' = rest
  ELSE /\ MessageBuffer' = buffer /\ UNCHANGED Messages
       /\ IF buffer # <<>>
          THEN pending' = ops \union {"write"} /\ ready' = rest
          ELSE pending' = ops /\ ready' = Append(rest, Wait)

connectHandler(ok, rest) ==
  \/ /\ ok
     /\ trySendMessage(MessageBuffer, pending \union {"receive"}, rest)
     /\ UNCHANGED <<sent, socket, tried>>
  \/ /\ ~ok /\ tried < Endpoints
     /\ tryConnect(tried + 1, rest)
  \/ /\ ~ok /\ tried >= Endpoints
     /\ socket' = "closed"
     /\ pending' = AfterReconnect(pending) /\ ready' = rest
     /\ UNCHANGED <<buffers, tried>>

\* What an operation may have sent when it ends.
BytesOf(op) == IF op = "write" THEN 0..Len(MessageBuffer) ELSE {0}

\* Socket.close(): the operation of the other loop, if any, is aborted.
closeSocket(ops, rest) ==
  /\ socket' = "closed"
  /\ pending' = ops \ {"receive", "write"}
  /\ \/ /\ ops \intersect {"receive", "write"} = {}
        /\ ready' = rest
     \/ \E op \in ops \intersect {"receive", "write"} :
          \E n \in BytesOf(op) : ready' = Append(rest, [Failed(op) EXCEPT !.bytes = n])

receiveHandler(ok, rest) ==
  \/ /\ ok /\ socket = "open"
     /\ pending' = pending \union {"receive"} /\ ready' = rest
     /\ UNCHANGED <<buffers, socket, tried>>
  \/ /\ ok /\ socket = "closed"
     /\ ready' = Append(rest, Failed("receive"))
     /\ UNCHANGED <<buffers, socket, pending, tried>>
  \/ /\ ~ok
     /\ closeSocket(AfterReconnect(pending), rest)
     /\ UNCHANGED <<buffers, tried>>

\* Mutant: the whole buffer is taken for sent.
Unsent_Nothing(n) == <<>>

\* What is left of the buffer after n of its bytes were sent.
Unsent(n) == SubSeq(MessageBuffer, n + 1, Len(MessageBuffer))

sentMessageHandler(ok, n, rest) ==
  /\ sent' = sent \o SubSeq(MessageBuffer, 1, n)
  /\ \/ /\ ~ok
        /\ closeSocket(pending, rest)
        /\ MessageBuffer' = Unsent(n) /\ UNCHANGED Messages
     \/ /\ ok
        /\ trySendMessage(Unsent(n), pending, rest)
        /\ UNCHANGED socket
  /\ UNCHANGED tried

waitForMessage(rest) ==
  /\ \/ /\ socket = "closed"
        /\ ready' = rest
        /\ UNCHANGED <<Messages, MessageBuffer, pending>>
     \/ /\ socket = "open" /\ Messages # <<>>
        /\ trySendMessage(MessageBuffer, pending, rest)
     \/ /\ socket = "open" /\ Messages = <<>>
        /\ ready' = Append(rest, Wait)
        /\ UNCHANGED <<Messages, MessageBuffer, pending>>
  /\ UNCHANGED <<sent, socket, tried>>

\* The asio thread runs the next handler.
RunHandler ==
  /\ ready # <<>>
  /\ LET h == Head(ready)
         rest == Tail(ready)
     IN  \/ h.op = "timer" /\ doAddressQuery(rest)
         \/ h.op = "resolve" /\ resolverHandler(h.ok, rest)
         \/ h.op = "connect" /\ connectHandler(h.ok, rest)
         \/ h.op = "receive" /\ receiveHandler(h.ok, rest)
         \/ h.op = "write" /\ sentMessageHandler(h.ok, h.bytes, rest)
         \/ h.op = "waitForMessage" /\ waitForMessage(rest)
  /\ UNCHANGED <<lines, errors>>

-----------------------------------------------------------------------------
(* The network and the timer complete operations. *)

Completed(h) ==
  /\ pending' = pending \ {h.op} /\ ready' = Append(ready, h)
  /\ UNCHANGED <<buffers, lines, socket, tried>>

\* All bytes were written; an address, a connection, the end of the delay.
CompleteWell ==
  /\ \E op \in pending \ {"receive"} :
       Completed([Ok(op) EXCEPT !.bytes = IF op = "write" THEN Len(MessageBuffer) ELSE 0])
  /\ UNCHANGED errors

\* The server sends something, which is ignored.
ServerSends ==
  /\ "receive" \in pending /\ Completed(Ok("receive"))
  /\ UNCHANGED errors

\* An operation fails, a write after some bytes.
CompleteBadly ==
  /\ errors < MaxErrors /\ errors' = errors + 1
  /\ \E op \in pending \ {"timer"} :
       \E n \in BytesOf(op) :
         Completed([Failed(op) EXCEPT !.bytes = n])

CarbonNext == RunHandler \/ CompleteWell \/ ServerSends \/ CompleteBadly

-----------------------------------------------------------------------------
\* The operations of a loop that are under way or have a handler that is ready.
Outstanding(ops) ==
  Cardinality(pending \intersect ops)
    + Cardinality({i \in DOMAIN ready : ready[i].op \in ops})

(* Connections that break at any moment, in the middle of a line too, neither
   lose, repeat nor reorder a byte that was accepted: what was sent, what is in
   the buffer and what is queued are the accepted lines. There is always one
   operation that keeps up or restores the connection, and never more than one
   that sends. *)
SentInOrder ==
  /\ sent \o MessageBuffer \o FlattenSeq([i \in DOMAIN Messages |-> Line(Messages[i])])
       = FlattenSeq([m \in 1..lines |-> Line(m)])
  /\ Outstanding({"timer", "resolve", "connect", "receive"}) = 1
  /\ Outstanding({"write", "waitForMessage"}) <= 1

(* Every line that was accepted is sent, however often the connection broke
   before, unless it goes on breaking. *)
EventuallySent == <>[](Len(sent) = lines * Bytes)
=============================================================================
