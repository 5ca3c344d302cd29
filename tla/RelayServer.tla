----------------------------- MODULE RelayServer -----------------------------
(***************************************************************************)
(* The relay as the side that listens (src/src/client/serve.rs): the accept *)
(* thread, the reader and the writer thread of each connection, the fan-out *)
(* of a message to the peers whose patterns match it, the local threads     *)
(* that publish, and `close`.                                               *)
(*                                                                         *)
(* A connection is its own thread name: thread c in Conns is the reader of  *)
(* connection c.  The outbox of a peer is the bounded line of messages that *)
(* module Outbox describes in detail: a put waits for room, a shut loses    *)
(* what is in it, and a put into a shut outbox is refused.  One channel and *)
(* one pattern stand for all of them.                                       *)
(***************************************************************************)
EXTENDS Integers, Sequences, FiniteSets, SequencesExt

CONSTANTS
  Conns,          \* the connections that far ends make
  Publishers,     \* local threads that publish on the relay
  Closers,        \* local threads that close it
  BoxRoom,        \* the messages an outbox takes before a put waits
  HandlerCloses,  \* the threads on which the local handler may call close
  SystemRefuses,  \* whether the system may refuse a thread or an `accept`
  Requests,       \* the requests a far end sends
  MaxRequests,    \* bound: how many of them it sends
  MaxPublishes    \* bound: messages one local thread publishes

Locals == Publishers \cup Closers
Threads == Conns \cup Locals
Sources == Conns \cup Publishers

ASSUME RelayAssumption ==
  /\ Conns \cap Locals = {}
  /\ Publishers \cap Closers = {}
  /\ BoxRoom \in Nat \ {0}
  /\ HandlerCloses \subseteq Sources
  /\ SystemRefuses \in BOOLEAN
  /\ Requests \subseteq {"subscribe", "unsubscribe", "publish", "broken"}
  /\ MaxRequests \in Nat
  /\ MaxPublishes \in Nat

\* A message is the thread that published it and its place among the messages
\* of that thread.
NoMessage == [by |-> "nobody", nth |-> 0]
NoConn == "none"

VARIABLES
  running,    \* Served::running, which is Client::running
  writable,   \* Client::writable
  peers,      \* Served::peers
  threads,    \* Served::threads
  refused,    \* Served::refused
  accept,     \* where the accept thread is
  held,       \* whether Transport::Serve still holds its handle
  conn,       \* the connection start_peer works on
  backlog,    \* the connections the kernel holds for `accept`
  far,        \* the far end of each connection
  sent,       \* how many requests each far end sent
  inbox,      \* the requests on their way to the relay
  stream,     \* whether the relay's socket is open both ways
  subs,       \* Peer::subscriptions: how many times the pattern is in it
  open,       \* whether Peer::outbox is open
  box,        \* the messages in it
  hand,       \* the message the writer thread took
  got,        \* the messages the kernel took, in order (history)
  writer,     \* where each writer thread is
  at,         \* where each reader thread and each local thread is
  todo,       \* the peers a dispatch or a shut still visits, or the handles
              \* a close still joins
  msg,        \* the message a thread dispatches
  count,      \* how many messages each thread published
  due         \* by message: the peers that matched it when its dispatch began
              \* and were not refused it since (history)

lists    == <<peers, threads, refused>>
accepts  == <<accept, held, conn>>
farVars  == <<backlog, far, sent, inbox>>
boxVars  == <<open, box, got, writer, hand>>
jobVars  == <<todo, msg, count, due>>
flags    == <<running, writable>>
vars == <<flags, lists, accepts, farVars, stream, subs, boxVars, at, jobVars>>

Init ==
  /\ running = TRUE /\ writable = TRUE
  /\ peers = <<>> /\ threads = <<>> /\ refused = 0
  /\ accept = "listen" /\ held = TRUE /\ conn = NoConn
  /\ backlog = {}
  /\ far = [c \in Conns |-> "away"]
  /\ sent = [c \in Conns |-> 0]
  /\ inbox = [c \in Conns |-> <<>>]
  /\ stream = [c \in Conns |-> FALSE]
  /\ subs = [c \in Conns |-> 0]
  /\ open = [c \in Conns |-> FALSE]
  /\ box = [c \in Conns |-> <<>>]
  /\ hand = [c \in Conns |-> NoMessage]
  /\ got = [c \in Conns |-> <<>>]
  /\ writer = [c \in Conns |-> "none"]
  /\ at = [t \in Threads |-> IF t \in Conns THEN "none" ELSE "idle"]
  /\ todo = [t \in Threads |-> <<>>]
  /\ msg = [t \in Threads |-> NoMessage]
  /\ count = [t \in Threads |-> 0]
  /\ due = << >>

-----------------------------------------------------------------------------
(* The far ends, which are any LCM client.                                 *)

\* The listener goes with the accept thread.
Dial(c) ==
  /\ far[c] = "away" /\ accept # "gone"
  /\ far' = [far EXCEPT ![c] = "dialled"]
  /\ backlog' = backlog \cup {c}
  /\ UNCHANGED <<flags, lists, accepts, sent, inbox, stream, subs, boxVars, at,
                 jobVars>>

Ask(c) ==
  /\ far[c] = "greeted" /\ stream[c]
  /\ sent[c] < MaxRequests
  /\ \E request \in Requests : inbox' = [inbox EXCEPT ![c] = Append(@, request)]
  /\ sent' = [sent EXCEPT ![c] = @ + 1]
  /\ UNCHANGED <<flags, lists, accepts, backlog, far, stream, subs, boxVars, at,
                 jobVars>>

Leave(c) ==
  /\ far[c] \in {"dialled", "greeted"}
  /\ far' = [far EXCEPT ![c] = "left"]
  /\ UNCHANGED <<flags, lists, accepts, backlog, sent, inbox, stream, subs, boxVars, at,
                 jobVars>>

-----------------------------------------------------------------------------
(* The accept thread: accept_loop and start_peer.                          *)

acceptRest == <<flags, held, backlog, sent, inbox, subs, got, hand, jobVars>>

\* A loop looks at `running` and then blocks for its poll, and the load is
\* relaxed: a loop that reads the flag before it is cleared goes round once
\* more.  So here, in the readers and in the writers, a cleared flag lets the
\* loop end and does not forbid the step it is about to take.
AcceptEnds ==
  /\ accept = "listen" /\ ~running
  /\ accept' = "gone"
  /\ UNCHANGED <<acceptRest, lists, conn, far, stream, open, box, writer, at>>

\* Any error of `accept` but the two that ask for patience ends the thread,
\* and its listener with it.
AcceptFails ==
  /\ accept = "listen" /\ SystemRefuses
  /\ accept' = "gone"
  /\ UNCHANGED <<acceptRest, lists, conn, far, stream, open, box, writer, at>>

Accept ==
  /\ accept = "listen"
  /\ \E c \in backlog :
       /\ conn' = c
       /\ backlog' = backlog \ {c}
       /\ stream' = [stream EXCEPT ![c] = TRUE]
       /\ accept' = "greet"
  /\ UNCHANGED <<flags, held, sent, inbox, subs, got, hand, jobVars, lists, far,
                 open, box, writer, at>>

\* start_peer gives back an error, which costs the connection and no more.
RefusePeer ==
  /\ refused' = refused + 1
  /\ accept' = "listen"
  /\ UNCHANGED <<peers, threads, conn>>

\* The two handshakes.  GREETING_WAIT bounds the wait for eight bytes, and a
\* greeting can come from a far end that left behind it.
Greet ==
  /\ accept = "greet"
  /\ \/ /\ far' = [far EXCEPT ![conn] = IF @ = "left" THEN @ ELSE "greeted"]
        /\ accept' = "writer"
        /\ UNCHANGED <<lists, conn, stream>>
     \/ /\ RefusePeer
        /\ far' = [far EXCEPT ![conn] = "left"]
        /\ stream' = [stream EXCEPT ![conn] = FALSE]
  /\ UNCHANGED <<acceptRest, open, box, writer, at>>

\* A writer thread that does not start leaves nobody with the socket.
SpawnWriter ==
  /\ accept = "writer"
  /\ \/ /\ open' = [open EXCEPT ![conn] = TRUE]
        /\ writer' = [writer EXCEPT ![conn] = "take"]
        /\ accept' = "reader"
        /\ UNCHANGED <<lists, conn, far, stream>>
     \/ /\ SystemRefuses
        /\ RefusePeer
        /\ far' = [far EXCEPT ![conn] = "left"]
        /\ stream' = [stream EXCEPT ![conn] = FALSE]
        /\ UNCHANGED <<open, writer>>
  /\ UNCHANGED <<acceptRest, box, at>>

\* A reader thread that does not start leaves the writer with the socket.
SpawnReader ==
  /\ accept = "reader"
  /\ \/ /\ at' = [at EXCEPT ![conn] = "read"]
        /\ accept' = "push"
        /\ UNCHANGED <<lists, conn>>
     \/ SystemRefuses /\ RefusePeer /\ UNCHANGED at
  /\ UNCHANGED <<acceptRest, far, stream, open, box, writer>>

\* Mutant of PushPeer: the peer goes into the list twice.
PushTwice ==
  /\ accept = "push"
  /\ peers' = peers \o <<conn, conn>>
  /\ accept' = "record"
  /\ UNCHANGED <<acceptRest, threads, refused, conn, far, stream, open, box,
                 writer, at>>

PushPeer ==
  /\ accept = "push"
  /\ peers' = Append(peers, conn)
  /\ accept' = "record"
  /\ UNCHANGED <<acceptRest, threads, refused, conn, far, stream, open, box,
                 writer, at>>

RecordThreads ==
  /\ accept = "record"
  /\ threads' = threads \o << [role |-> "writer", conn |-> conn],
                              [role |-> "reader", conn |-> conn] >>
  /\ accept' = "listen"
  /\ UNCHANGED <<acceptRest, peers, refused, conn, far, stream, open, box,
                 writer, at>>

AcceptStep == AcceptEnds \/ AcceptFails \/ Accept \/ Greet \/ SpawnWriter
              \/ SpawnReader \/ PushPeer \/ RecordThreads

-----------------------------------------------------------------------------
(* The fan-out, on a reader thread or on a local one.                      *)

\* The messages in one peer's stream, in order.
StreamOf(c) ==
  got[c] \o (IF hand[c] = NoMessage THEN <<>> ELSE <<hand[c]>>) \o box[c]

\* dispatch takes a copy of the list of peers, and holds no lock after that.
BeginDispatch(t) ==
  LET m == [by |-> t, nth |-> count[t] + 1]
  IN /\ count' = [count EXCEPT ![t] = @ + 1]
     /\ msg' = [msg EXCEPT ![t] = m]
     /\ todo' = [todo EXCEPT ![t] = peers]
     /\ due' = [n \in DOMAIN due \cup {m} |->
                  IF n = m THEN {c \in ToSet(peers) : subs[c] > 0 /\ open[c]}
                  ELSE due[n]]
     /\ at' = [at EXCEPT ![t] = "dispatch"]

dispatchRest == <<flags, lists, accepts, farVars, stream, subs, got, writer,
                  hand, count>>

\* The peer at hand is done with: on to the next.
Skip(t) ==
  /\ todo' = [todo EXCEPT ![t] = Tail(@)]
  /\ at' = [at EXCEPT ![t] = "dispatch"]

\* The peer never gets this message, and no promise is broken.
Excuse(t) == due' = [due EXCEPT ![msg[t]] = @ \ {Head(todo[t])}]

Match(t) ==
  /\ at[t] = "dispatch" /\ todo[t] # <<>>
  /\ IF subs[Head(todo[t])] = 0
     THEN Skip(t) /\ Excuse(t)
     ELSE at' = [at EXCEPT ![t] = "put"] /\ UNCHANGED <<todo, due>>
  /\ UNCHANGED <<dispatchRest, msg, open, box>>

\* Mutant of Put: a put that waited does not look at `open` again.
PutBlind(t) ==
  /\ at[t] = "put"
  /\ LET c == Head(todo[t]) IN
       /\ Len(box[c]) < BoxRoom
       /\ box' = [box EXCEPT ![c] = Append(@, msg[t])]
       /\ UNCHANGED due
  /\ Skip(t)
  /\ UNCHANGED <<dispatchRest, msg, open>>

\* Outbox::put_message, once there is room or no outbox.
Put(t) ==
  /\ at[t] = "put"
  /\ LET c == Head(todo[t]) IN
       \/ /\ open[c] /\ Len(box[c]) < BoxRoom
          /\ box' = [box EXCEPT ![c] = Append(@, msg[t])]
          /\ UNCHANGED due
       \/ /\ ~open[c]
          /\ Excuse(t)
          /\ UNCHANGED box
  /\ Skip(t)
  /\ UNCHANGED <<dispatchRest, msg, open>>

\* Mutant of PutTooSlow: the slow peer costs the peers behind it the message.
PutStops(t) ==
  /\ at[t] = "put"
  /\ open[Head(todo[t])] /\ Len(box[Head(todo[t])]) >= BoxRoom
  /\ todo' = [todo EXCEPT ![t] = <<>>]
  /\ at' = [at EXCEPT ![t] = "dispatch"]
  /\ Excuse(t)
  /\ UNCHANGED <<dispatchRest, msg, open, box>>

\* LONGEST_WAIT passes, which costs that peer the message.
PutTooSlow(t) ==
  /\ at[t] = "put"
  /\ open[Head(todo[t])] /\ Len(box[Head(todo[t])]) >= BoxRoom
  /\ Skip(t)
  /\ Excuse(t)
  /\ UNCHANGED <<dispatchRest, msg, open, box>>

Home(t) == IF t \in Conns THEN "read" ELSE "idle"

\* The local participant: its set matches the message or does not, and the
\* handler runs on this thread and gives back, or calls `close` first.  A handler
\* that panics on a reader unwinds past drop_peer: the thread ends, and the peer
\* keeps its place in the list, its outbox and its socket.  On a local thread the
\* panic goes to the caller of publish, and the relay has changed nothing.
Hear(t) ==
  /\ at[t] = "dispatch" /\ todo[t] = <<>>
  /\ \/ at' = [at EXCEPT ![t] = Home(t)]
     \/ t \in HandlerCloses /\ at' = [at EXCEPT ![t] = "stop"]
     \/ t \in Conns /\ at' = [at EXCEPT ![t] = "gone"]
  /\ UNCHANGED <<dispatchRest, jobVars, open, box>>

DispatchStep(t) == Match(t) \/ Put(t) \/ PutTooSlow(t) \/ Hear(t)

-----------------------------------------------------------------------------
(* The reader thread of a connection: peer_reader, then drop_peer.         *)

readerRest == <<flags, threads, refused, accepts, backlog, far, sent, got, hand,
                writer>>

\* The end of the stream: the far end left or this end shut the socket, and
\* what arrived before that may be read first.
Ended(c) == far[c] = "left" \/ ~stream[c]

\* Mutant of ReaderEnds: only the end of the stream ends the loop.
ReaderEndsAtEof(c) ==
  /\ at[c] = "read" /\ ~running /\ Ended(c)
  /\ at' = [at EXCEPT ![c] = "drop"]
  /\ UNCHANGED <<readerRest, inbox, peers, stream, subs, open, box, jobVars>>

ReaderEnds(c) ==
  /\ at[c] = "read" /\ ~running
  /\ at' = [at EXCEPT ![c] = "drop"]
  /\ UNCHANGED <<readerRest, inbox, peers, stream, subs, open, box, jobVars>>

\* One request, or the end of the stream.  A READER_POLL that brings neither
\* changes nothing.
Read(c) ==
  /\ at[c] = "read"
  /\ \/ /\ inbox[c] # <<>>
        /\ inbox' = [inbox EXCEPT ![c] = Tail(@)]
        /\ CASE Head(inbox[c]) = "subscribe" ->
                  subs' = [subs EXCEPT ![c] = @ + 1] /\ UNCHANGED <<at, jobVars>>
             [] Head(inbox[c]) = "unsubscribe" ->
                  /\ subs' = [subs EXCEPT ![c] = IF @ = 0 THEN 0 ELSE @ - 1]
                  /\ UNCHANGED <<at, jobVars>>
             [] Head(inbox[c]) = "publish" -> BeginDispatch(c) /\ UNCHANGED subs
             [] Head(inbox[c]) = "broken" ->
                  at' = [at EXCEPT ![c] = "drop"] /\ UNCHANGED <<subs, jobVars>>
     \/ /\ Ended(c)
        /\ at' = [at EXCEPT ![c] = "drop"]
        /\ UNCHANGED <<inbox, subs, jobVars>>
  /\ UNCHANGED <<readerRest, peers, stream, open, box>>

\* Mutant of ShutBox: who waits for room in an outbox is not told it is shut.
ShutBoxInSilence(c) == UNCHANGED <<open, box>>

\* Outbox::shut, with the messages in it.
ShutBox(c) ==
  /\ open' = [open EXCEPT ![c] = FALSE]
  /\ box' = [box EXCEPT ![c] = <<>>]

\* drop_peer: out of the list under its lock.  A peer that is not there any
\* more, or not yet, is left alone.
RemovePeer(c) ==
  /\ at[c] = "drop"
  /\ \/ \E i \in 1..Len(peers) :
          /\ peers[i] = c /\ \A j \in 1..i - 1 : peers[j] # c
          /\ peers' = RemoveAt(peers, i)
          /\ at' = [at EXCEPT ![c] = "shut"]
     \/ /\ c \notin ToSet(peers)
        /\ at' = [at EXCEPT ![c] = "gone"]
        /\ UNCHANGED peers
  /\ UNCHANGED <<readerRest, inbox, stream, subs, open, box, jobVars>>

\* drop_peer: and then its outbox and its socket, out of the lock.
ShutPeer(c) ==
  /\ at[c] = "shut"
  /\ ShutBox(c)
  /\ stream' = [stream EXCEPT ![c] = FALSE]
  /\ at' = [at EXCEPT ![c] = "gone"]
  /\ UNCHANGED <<readerRest, inbox, peers, subs, jobVars>>

ReaderStep(c) == ReaderEnds(c) \/ Read(c) \/ RemovePeer(c) \/ ShutPeer(c)

-----------------------------------------------------------------------------
(* The writer thread of a connection: tcpq_writer, with the peer's outbox   *)
(* and the running flag of the whole relay.                                 *)

writerRest == <<flags, lists, accepts, farVars, subs, at, jobVars>>

WriterEnds(c) ==
  /\ writer[c] = "take" /\ ~running
  /\ writer' = [writer EXCEPT ![c] = "exit"]
  /\ UNCHANGED <<writerRest, stream, open, box, got, hand>>

\* A `take` that gives back nothing changes nothing, and the loop goes round:
\* after WRITE_POLL where the outbox is empty, at once where it is shut.
Take(c) ==
  /\ writer[c] = "take" /\ box[c] # <<>>
  /\ hand' = [hand EXCEPT ![c] = Head(box[c])]
  /\ box' = [box EXCEPT ![c] = Tail(@)]
  /\ writer' = [writer EXCEPT ![c] = "write"]
  /\ UNCHANGED <<writerRest, stream, open, got>>

\* The kernel took the whole message, or the write failed: an error, a relay
\* that stops, or STALL_TIMEOUT.  A write that failed takes the socket.
Write(c) ==
  /\ writer[c] = "write"
  /\ hand' = [hand EXCEPT ![c] = NoMessage]
  /\ \/ /\ stream[c]
        /\ got' = [got EXCEPT ![c] = Append(@, hand[c])]
        /\ writer' = [writer EXCEPT ![c] = "take"]
        /\ UNCHANGED stream
     \/ /\ stream' = [stream EXCEPT ![c] = FALSE]
        /\ writer' = [writer EXCEPT ![c] = "exit"]
        /\ UNCHANGED got
  /\ UNCHANGED <<writerRest, open, box>>

WriterExit(c) ==
  /\ writer[c] = "exit"
  /\ ShutBox(c)
  /\ writer' = [writer EXCEPT ![c] = "gone"]
  /\ UNCHANGED <<writerRest, stream, got, hand>>

WriterStep(c) == WriterEnds(c) \/ Take(c) \/ Write(c) \/ WriterExit(c)

-----------------------------------------------------------------------------
(* The local threads.                                                      *)

localRest == <<lists, accepts, farVars, stream, subs, boxVars>>

\* `write` looks at `writable` before it dispatches.
Publish(t) ==
  /\ at[t] = "idle" /\ t \in Publishers
  /\ count[t] < MaxPublishes
  /\ writable
  /\ at' = [at EXCEPT ![t] = "publish"]
  /\ UNCHANGED <<flags, localRest, jobVars>>

PublishLocal(t) ==
  /\ at[t] = "publish"
  /\ BeginDispatch(t)
  /\ UNCHANGED <<flags, localRest>>

BeginClose(t) ==
  /\ at[t] = "idle" /\ t \in Closers
  /\ at' = [at EXCEPT ![t] = "stop"]
  /\ UNCHANGED <<flags, localRest, jobVars>>

-----------------------------------------------------------------------------
(* Client::close on a relay, with Served::shut.                            *)

StopRunning(t) ==
  /\ at[t] = "stop"
  /\ running' = FALSE
  /\ at' = [at EXCEPT ![t] = "unwritable"]
  /\ UNCHANGED <<writable, localRest, jobVars>>

StopWritable(t) ==
  /\ at[t] = "unwritable"
  /\ writable' = FALSE
  /\ at' = [at EXCEPT ![t] = "peers"]
  /\ UNCHANGED <<running, localRest, jobVars>>

closeRest == <<flags, refused, accept, conn, farVars, subs, got, hand, writer,
               msg, count, due>>

TakePeers(t) ==
  /\ at[t] = "peers"
  /\ todo' = [todo EXCEPT ![t] = peers]
  /\ peers' = <<>>
  /\ at' = [at EXCEPT ![t] = "shutting"]
  /\ UNCHANGED <<closeRest, threads, held, stream, open, box>>

ShutNext(t) ==
  /\ at[t] = "shutting" /\ todo[t] # <<>>
  /\ ShutBox(Head(todo[t]))
  /\ stream' = [stream EXCEPT ![Head(todo[t])] = FALSE]
  /\ todo' = [todo EXCEPT ![t] = Tail(@)]
  /\ UNCHANGED <<closeRest, lists, held, at>>

TakeThreads(t) ==
  /\ at[t] = "shutting" /\ todo[t] = <<>>
  /\ todo' = [todo EXCEPT ![t] = threads]
  /\ threads' = <<>>
  /\ at' = [at EXCEPT ![t] = "join"]
  /\ UNCHANGED <<closeRest, peers, held, stream, open, box>>

Finished(handle) ==
  IF handle.role = "writer" THEN writer[handle.conn] = "gone"
                            ELSE at[handle.conn] = "gone"

\* A thread that joins itself panics, and goes down with its connection.
JoinsItself(t) ==
  /\ at[t] = "join" /\ todo[t] # <<>>
  /\ Head(todo[t]) = [role |-> "reader", conn |-> t]

Join(t) ==
  /\ at[t] = "join" /\ todo[t] # <<>>
  /\ \/ /\ JoinsItself(t)
        /\ at' = [at EXCEPT ![t] = "gone"]
        /\ todo' = [todo EXCEPT ![t] = <<>>]
     \/ /\ Finished(Head(todo[t]))
        /\ todo' = [todo EXCEPT ![t] = Tail(@)]
        /\ UNCHANGED at
  /\ UNCHANGED <<closeRest, lists, held, stream, open, box>>

\* `close` gives back, to the handler where that called it.
Closed(t) == IF t \in Closers THEN "closed" ELSE Home(t)

TakeAccept(t) ==
  /\ at[t] = "join" /\ todo[t] = <<>>
  /\ held' = FALSE
  /\ at' = [at EXCEPT ![t] = IF held THEN "accept" ELSE Closed(t)]
  /\ UNCHANGED <<closeRest, lists, stream, open, box, todo>>

JoinAccept(t) ==
  /\ at[t] = "accept" /\ accept = "gone"
  /\ at' = [at EXCEPT ![t] = Closed(t)]
  /\ UNCHANGED <<closeRest, lists, held, stream, open, box, todo>>

CloseStep(t) ==
  \/ StopRunning(t) \/ StopWritable(t) \/ TakePeers(t) \/ ShutNext(t)
  \/ TakeThreads(t) \/ Join(t) \/ TakeAccept(t) \/ JoinAccept(t)

-----------------------------------------------------------------------------
Next ==
  \/ \E c \in Conns : Dial(c) \/ Ask(c) \/ Leave(c) \/ ReaderStep(c) \/ WriterStep(c)
  \/ AcceptStep
  \/ \E t \in Threads : DispatchStep(t) \/ CloseStep(t)
  \/ \E t \in Locals : Publish(t) \/ PublishLocal(t) \/ BeginClose(t)

Spec == Init /\ [][Next]_vars

\* What the code's scheduling justifies.  Each thread runs on while it has a
\* step: a timeout bounds every call that blocks (GREETING_WAIT, READER_POLL,
\* WRITE_POLL and STALL_TIMEOUT), so the accept thread, the readers and the
\* writers always have one.  The handler gives back or panics.  LONGEST_WAIT is not
\* assumed to pass, a far end need not ever leave, and nobody need call close.
Fairness ==
  /\ WF_vars(AcceptStep)
  /\ \A c \in Conns : WF_vars(ReaderStep(c)) /\ WF_vars(WriterStep(c))
  /\ \A t \in Sources : WF_vars(Match(t) \/ Put(t) \/ Hear(t))
  /\ \A t \in Threads : WF_vars(CloseStep(t))
  /\ \A t \in Locals : WF_vars(PublishLocal(t))

FairSpec == Spec /\ Fairness

-----------------------------------------------------------------------------
(* Properties.                                                             *)

\* The stream of one peer has the messages of each publisher in the order that
\* publisher dispatched them, and none twice, whatever the other publishers
\* put between them and whoever comes and goes meanwhile.
InOrderOnce ==
  \A c \in Conns : LET s == StreamOf(c) IN
    \A i, j \in 1..Len(s) : i < j /\ s[i].by = s[j].by => s[i].nth < s[j].nth

\* Every client that matches gets the message: a peer that was in the list and
\* subscribed when a dispatch began has the message in its stream when the
\* dispatch is over, unless it unsubscribed, was too slow for LONGEST_WAIT, or
\* its connection went.  No other peer costs it the message.
EveryMatchGetsIt ==
  \A m \in DOMAIN due :
    (msg[m.by] # m \/ at[m.by] \notin {"dispatch", "put"}) =>
      \A c \in due[m] : open[c] /\ stream[c] => m \in ToSet(StreamOf(c))

\* A message goes only into the outbox of a peer that has a writer thread to
\* take it out: once the thread is gone or the peer was dropped, nothing goes
\* in that nobody would ever take.
NoMessageStranded ==
  \A c \in Conns : box[c] # <<>> =>
    open[c] /\ writer[c] \in {"take", "write", "exit"}

\* Nobody waits for ever in a fan-out: a reader that waits for room in the outbox
\* of its own peer, and reads nothing meanwhile, comes back, and so does a local
\* publisher that waits for that peer beside it, or for one whose reader is gone
\* and that is still in the list.  LONGEST_WAIT need not pass for that.
DispatchEnds ==
  \A t \in Sources : at[t] \in {"dispatch", "put"} ~>
                        at[t] \notin {"dispatch", "put"}

\* `close` gives back, whatever the readers, the writers, the accept thread
\* and the other publishers are in the middle of.
CloseReturns ==
  \A t \in Closers : at[t] = "stop" ~> at[t] = "closed"

-----------------------------------------------------------------------------
(* What the code's own words promise and the code does not keep.  Each has a *)
(* run in which TLC finds the way to break it.                              *)

\* tests/relay.rs: "A client that goes leaves no peer behind".  drop_peer takes
\* the peer out of the list and shuts its outbox, and the writer thread holds
\* the peer alive: the loop of tcpq_writer watches `running` alone, so `take`
\* gives back nothing at once, again and again, until the relay closes.
GoneLeavesNoWriter ==
  \A c \in Conns : at[c] = "shut" ~> writer[c] = "gone"

\* close: "The relay shuts each connection it holds, and waits for the threads
\* that read and write them."  A connection the accept thread is starting goes
\* into the lists after shut took them.
CloseLeavesNothing ==
  (\E t \in Closers : at[t] = "closed") =>
    \A c \in Conns :
      ~stream[c] /\ writer[c] \in {"none", "gone"} /\ at[c] \in {"none", "gone"}

\* close: "This waits for the reader thread, unless it runs on that thread: a
\* handler that closes its own client cannot wait for itself."  On a relay the
\* handler runs on the reader of a peer, whose handle shut joins.
NoSelfJoin == \A t \in Threads : ~JoinsItself(t)

=============================================================================
