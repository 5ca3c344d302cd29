----------------------------- MODULE TcpqClient -----------------------------
(***************************************************************************)
(* The life of a tcpq:// client (src/src/client/relay.rs and mod.rs):       *)
(* open_tcpq under its one deadline, the reader thread with its ReaderExit, *)
(* the writer thread with its WriterExit, `close` from any thread (the      *)
(* reader's own, through the handler, too), and what the handler is told    *)
(* about the end.  A client that only publishes has no reader thread.       *)
(*                                                                         *)
(* The outbox is a count of frames here; module Outbox has it in detail.    *)
(* The steps of one thread are the ones another thread can see: each load   *)
(* or store of a flag, each lock, each call on the socket.                  *)
(***************************************************************************)
EXTENDS Integers, FiniteSets

CONSTANTS
  Closers,    \* the threads that call `close`, beside the handler
  Addresses,  \* how many addresses the name of the relay gives
  MaxAsks,    \* bound: patterns a client opens with
  Room,       \* the frames the outbox takes
  MaxFrames,  \* bound: frames the relay sends
  MaxPuts     \* bound: frames that are published

ASSUME ClientAssumption ==
  /\ {Room, Addresses} \subseteq Nat \ {0}
  /\ {MaxFrames, MaxPuts, MaxAsks} \subseteq Nat
  /\ "reader" \notin Closers

\* The threads that can be inside `close`.
Threads == Closers \cup {"reader"}

NoCause == "none"

VARIABLES
  receives,  \* whether there is a handler
  opened,    \* how far open_tcpq is
  tries,     \* the addresses connect_within has left
  asks,      \* the opening subscriptions it has left
  late,      \* whether its deadline has passed
  reply,     \* what the relay answered to the handshake
  running,   \* Client::running
  writable,  \* Client::writable
  open,      \* whether the outbox is open
  queue,     \* how many frames it holds
  puts,      \* how many were published so far
  torn,      \* what the writer left for the reader
  sending,   \* whether the sending half of the socket is open
  reading,   \* whether the reading half is
  relay,     \* whether the relay has its end open
  frames,    \* how many frames of the relay wait to be read
  sent,      \* how many it sent so far
  writer,    \* where the writer thread is
  reader,    \* where the reader thread is
  cause,     \* ReaderExit::cause
  panicked,  \* whether the reader thread unwinds
  told,      \* the causes on_stop was given
  handles,   \* which of the two JoinHandles the client still has
  at         \* where each thread is in `close`

openVars == <<receives, tries, asks, late, reply>>
halves   == <<sending, reading>>
relayVars == <<relay, frames, sent>>
boxVars  == <<open, queue, puts>>
exitVars == <<cause, panicked, told>>
vars == <<openVars, opened, running, writable, boxVars, torn, halves, relayVars, writer,
          reader, exitVars, handles, at>>

Init ==
  /\ receives \in BOOLEAN
  /\ opened = "connect" /\ tries = Addresses /\ late = FALSE /\ reply = "none"
  /\ asks \in IF receives THEN 0..MaxAsks ELSE {0}
  /\ running = TRUE /\ writable = TRUE
  /\ open = TRUE /\ queue = 0 /\ puts = 0
  /\ torn = FALSE
  /\ sending = FALSE /\ reading = FALSE
  /\ relay = TRUE /\ frames = 0 /\ sent = 0
  /\ writer = "none" /\ reader = "none"
  /\ cause = NoCause /\ panicked = FALSE /\ told = {}
  /\ handles = {}
  /\ at = [t \in Threads |-> "out"]

-----------------------------------------------------------------------------
(* open_tcpq, up to the first thread.  Its loops poll, and each turn looks  *)
(* at the deadline before it touches the socket.                           *)

Opening == {"connect", "hello", "reply", "subscribe"}

dialRest == <<receives, running, writable, boxVars, torn, frames, sent, reader,
              exitVars, handles, at>>

\* The socket goes with the error.
OpenFails ==
  /\ opened' = "failed"
  /\ sending' = FALSE /\ reading' = FALSE
  /\ UNCHANGED <<dialRest, relay, writer, tries, asks, late, reply>>

\* connect_within: an address has its share of the time that is left, so each
\* one that refuses or says nothing leaves time for those behind it.
Connects ==
  /\ opened = "connect" /\ tries > 0 /\ ~late
  /\ opened' = "hello"
  /\ sending' = TRUE /\ reading' = TRUE
  /\ UNCHANGED <<dialRest, relay, writer, tries, asks, late, reply>>

NextAddress ==
  /\ opened = "connect" /\ tries > 0 /\ ~late
  /\ tries' = tries - 1
  /\ UNCHANGED <<dialRest, opened, relay, writer, halves, asks, late, reply>>

\* write_by and read_by, as the kernel and the relay let them.
Moves ==
  /\ ~late
  /\ \/ opened = "hello" /\ opened' = "reply" /\ UNCHANGED asks
     \/ opened = "reply" /\ reply = "good" /\ opened' = "subscribe" /\ UNCHANGED asks
     \/ opened = "subscribe" /\ asks > 0 /\ asks' = asks - 1 /\ UNCHANGED opened
  /\ UNCHANGED <<dialRest, relay, writer, halves, tries, late, reply>>

Waits == opened \in {"hello", "reply"} \/ (opened = "subscribe" /\ asks > 0)

\* Mutant of GivesUp: the loops wait for the relay alone.
GivesUpOnError ==
  /\ \/ opened = "connect" /\ (tries = 0 \/ late)
     \/ Waits /\ ~relay
     \/ opened = "reply" /\ reply = "bad"
  /\ OpenFails

\* No address is left, the connection ended, the answer is not a relay's, or
\* the deadline has passed.
GivesUp ==
  /\ \/ opened = "connect" /\ (tries = 0 \/ late)
     \/ Waits /\ (~relay \/ late)
     \/ opened = "reply" /\ reply = "bad"
  /\ OpenFails

\* The writer thread starts, or the open fails.  What only the steps above look
\* at is put back, since its life is over.
SpawnWriter ==
  /\ opened = "subscribe" /\ asks = 0
  /\ \/ OpenFails
     \/ /\ opened' = "spawn" /\ writer' = "take"
        /\ tries' = 0 /\ late' = FALSE /\ reply' = "none"
        /\ UNCHANGED <<dialRest, relay, halves, asks>>

Deadline ==
  /\ opened \in Opening /\ ~late
  /\ late' = TRUE
  /\ UNCHANGED <<dialRest, opened, relay, writer, halves, tries, asks, reply>>

\* The relay answers the handshake, or what listens there is no relay.
RelayAnswers ==
  /\ opened = "reply" /\ relay /\ reply = "none"
  /\ reply' \in {"good", "bad"}
  /\ UNCHANGED <<dialRest, opened, relay, writer, halves, tries, asks, late>>

-----------------------------------------------------------------------------
(* The end of open_tcpq.                                                   *)

openRest == <<openVars, writable, puts, torn, relayVars, writer, exitVars, at>>

\* The reader thread starts where there is a handler, and the caller has a client.
SpawnReader ==
  /\ opened = "spawn"
  /\ opened' = "open"
  /\ reader' = IF receives THEN "fill" ELSE "none"
  /\ handles' = IF receives THEN {"writer", "reader"} ELSE {"writer"}
  /\ UNCHANGED <<openRest, running, open, queue, halves>>

\* Or it does not, and the writer must not outlive the error.
SpawnFails ==
  /\ opened = "spawn" /\ receives
  /\ opened' = "undo"
  /\ running' = FALSE
  /\ UNCHANGED <<openRest, reader, handles, open, queue, halves>>

UndoOpen ==
  /\ opened = "undo"
  /\ opened' = "join"
  /\ open' = FALSE /\ queue' = 0
  /\ sending' = FALSE /\ reading' = FALSE
  /\ UNCHANGED <<openRest, running, reader, handles>>

JoinWriter ==
  /\ opened = "join" /\ writer = "gone"
  /\ opened' = "failed"
  /\ UNCHANGED <<openRest, running, reader, handles, open, queue, halves>>

OpenStep ==
  \/ NextAddress \/ GivesUp \/ SpawnWriter
  \/ SpawnReader \/ SpawnFails \/ UndoOpen \/ JoinWriter

-----------------------------------------------------------------------------
(* The relay, and the threads that publish.                                *)

RelaySends ==
  /\ relay /\ reading /\ opened \notin Opening /\ sent < MaxFrames
  /\ sent' = sent + 1 /\ frames' = frames + 1
  /\ UNCHANGED <<openVars, opened, running, writable, boxVars, torn, halves, relay, writer,
                 reader, exitVars, handles, at>>

RelayCloses ==
  /\ relay /\ opened \notin {"connect", "failed"}
  /\ relay' = FALSE
  /\ UNCHANGED <<openVars, opened, running, writable, boxVars, torn, halves, frames, sent,
                 writer, reader, exitVars, handles, at>>

\* A publish that found `writable` and has room.
Put ==
  /\ opened = "open" /\ puts < MaxPuts
  /\ writable /\ open /\ queue < Room
  /\ queue' = queue + 1 /\ puts' = puts + 1
  /\ UNCHANGED <<openVars, opened, running, writable, open, torn, halves, relayVars, writer,
                 reader, exitVars, handles, at>>

-----------------------------------------------------------------------------
(* The writer thread.                                                      *)

writerRest == <<openVars, opened, running, puts, relayVars, reader, exitVars, handles, at>>

\* `running` was cleared: the loop may go round once more on what it read.
WriterEnds ==
  /\ writer = "take" /\ ~running
  /\ writer' = "exit"
  /\ UNCHANGED <<writerRest, writable, open, queue, torn, halves>>

Take ==
  /\ writer = "take" /\ queue > 0
  /\ queue' = queue - 1
  /\ writer' = "write"
  /\ UNCHANGED <<writerRest, writable, open, torn, halves>>

\* The kernel takes the frame; or an error, a stall, or a client that stops;
\* or a panic, which unwinds to WriterExit.
Write ==
  /\ writer = "write"
  /\ \/ sending /\ writer' = "take" /\ UNCHANGED writable
     \/ writer' = "tear" /\ writable' = FALSE
     \/ writer' = "exit" /\ writable' = FALSE
  /\ UNCHANGED <<writerRest, open, queue, torn, halves>>

\* Mutant of Tear: the socket goes before the reader can find out why.
TearLate ==
  /\ writer = "tear"
  /\ sending' = FALSE /\ reading' = FALSE
  /\ writer' = "exit"
  /\ UNCHANGED <<writerRest, writable, open, queue, torn>>

\* What the write failed for goes where the reader finds it.
Tear ==
  /\ writer = "tear"
  /\ torn' = TRUE
  /\ writer' = "shutdown"
  /\ UNCHANGED <<writerRest, writable, open, queue, halves>>


\* And then the socket goes, both ways.
Shutdown ==
  /\ writer = "shutdown"
  /\ sending' = FALSE /\ reading' = FALSE
  /\ writer' = "exit"
  /\ UNCHANGED <<writerRest, writable, open, queue, torn>>

WriterExit ==
  /\ writer = "exit"
  /\ open' = FALSE /\ queue' = 0
  /\ writer' = "gone"
  /\ UNCHANGED <<writerRest, writable, torn, halves>>

WriterStep == WriterEnds \/ Take \/ Write \/ Tear \/ Shutdown \/ WriterExit

-----------------------------------------------------------------------------
(* The reader thread.                                                      *)

readerRest == <<openVars, opened, boxVars, halves, relay, sent, writer, handles>>

\* tcpq_reader gives back its cause, and None where `running` is cleared.
ReaderEnds ==
  /\ reader = "fill" /\ ~running
  /\ reader' = "exit"
  /\ cause' = NoCause
  /\ UNCHANGED <<readerRest, running, writable, torn, frames, panicked, told, at>>

\* The end of the stream: the relay closed, or the writer shut the socket.
AtEnd == frames = 0 /\ (~relay \/ ~reading)

Fill ==
  /\ reader = "fill"
  /\ \/ /\ frames > 0
        /\ frames' = frames - 1
        /\ reader' = "handler"
        /\ UNCHANGED <<torn, cause>>
     \/ /\ AtEnd
        /\ cause' = IF torn THEN "Io" ELSE "Closed"
        /\ torn' = FALSE
        /\ reader' = "exit"
        /\ UNCHANGED frames
     \/ /\ frames > 0
        /\ cause' = "Wire"
        /\ reader' = "exit"
        /\ UNCHANGED <<torn, frames>>
  /\ UNCHANGED <<readerRest, running, writable, panicked, told, at>>

\* on_delivery: it gives back, panics, or closes its own client first.
Handle ==
  /\ reader = "handler" /\ at["reader"] \in {"out", "closed"}
  /\ \/ reader' = "fill" /\ at' = [at EXCEPT !["reader"] = "out"]
        /\ UNCHANGED <<cause, panicked>>
     \/ reader' = "exit" /\ panicked' = TRUE /\ cause' = "Panicked"
        /\ UNCHANGED at
     \/ at["reader"] = "out" /\ at' = [at EXCEPT !["reader"] = "stop"]
        /\ UNCHANGED <<reader, cause, panicked>>
  /\ UNCHANGED <<readerRest, running, writable, torn, frames, told>>

\* ReaderExit: the sending half first.
ExitWritable ==
  /\ reader = "exit"
  /\ writable' = FALSE
  /\ reader' = "swap"
  /\ UNCHANGED <<readerRest, running, torn, frames, exitVars, at>>

\* Mutant of ExitSwap: every end is reported.
SwapTellsAll ==
  /\ reader = "swap"
  /\ running' = FALSE
  /\ told' = told \cup {cause}
  /\ reader' = "gone"
  /\ UNCHANGED <<readerRest, writable, torn, frames, cause, panicked, at>>

\* ReaderExit: the swap tells a stop `close` asked for from one it did not.
ExitSwap ==
  /\ reader = "swap"
  /\ running' = FALSE
  /\ told' = IF running \/ panicked
             THEN told \cup {IF cause = NoCause THEN "Panicked" ELSE cause}
             ELSE told
  /\ reader' = "gone"
  /\ UNCHANGED <<readerRest, writable, torn, frames, cause, panicked, at>>

ReaderStep == ReaderEnds \/ Fill \/ Handle \/ ExitWritable \/ ExitSwap

-----------------------------------------------------------------------------
(* Client::close.                                                          *)

closeRest == <<openVars, opened, puts, torn, relayVars, writer, reader, exitVars>>
Go(t, there) == at' = [at EXCEPT ![t] = there]

BeginClose(t) ==
  /\ t \in Closers /\ opened = "open"
  /\ at[t] = "out"
  /\ Go(t, "stop")
  /\ UNCHANGED <<closeRest, running, writable, open, queue, halves, handles>>

StopRunning(t) ==
  /\ at[t] = "stop"
  /\ running' = FALSE
  /\ Go(t, "unwritable")
  /\ UNCHANGED <<closeRest, writable, open, queue, halves, handles>>

StopWritable(t) ==
  /\ at[t] = "unwritable"
  /\ writable' = FALSE
  /\ Go(t, "shut")
  /\ UNCHANGED <<closeRest, running, open, queue, halves, handles>>

\* The outbox, then the sending half of the socket.
ShutBox(t) ==
  /\ at[t] = "shut"
  /\ open' = FALSE /\ queue' = 0
  /\ sending' = FALSE
  /\ Go(t, "writer")
  /\ UNCHANGED <<closeRest, running, writable, reading, handles>>

\* The handle of the writer goes to the first close that comes for it.
TakeWriter(t) ==
  /\ at[t] = "writer"
  /\ handles' = handles \ {"writer"}
  /\ Go(t, IF "writer" \in handles THEN "join writer" ELSE "drain")
  /\ UNCHANGED <<closeRest, running, writable, open, queue, halves>>

WaitWriter(t) ==
  /\ at[t] = "join writer" /\ writer = "gone"
  /\ Go(t, "drain")
  /\ UNCHANGED <<closeRest, running, writable, open, queue, halves, handles>>

\* What the relay sent is read and dropped, for LINGER at most; some of it the
\* reader thread reads at the same time.
Drain(t) ==
  /\ at[t] = "drain"
  /\ \E left \in 0..frames : frames' = left
  /\ Go(t, "reader")
  /\ UNCHANGED <<openVars, opened, puts, torn, relay, sent, writer, reader, exitVars, running,
                 writable, open, queue, halves, handles>>

\* Mutant of TakeReader: a handler that closes waits for itself.
TakeOwnReader(t) ==
  /\ at[t] = "reader"
  /\ IF "reader" \notin handles
     THEN Go(t, "closed") /\ UNCHANGED handles
     ELSE Go(t, "join reader") /\ handles' = handles \ {"reader"}
  /\ UNCHANGED <<closeRest, running, writable, open, queue, halves>>

\* Mutant of TakeReader: a handler that closes takes its own handle away.
TakeReaderAlways(t) ==
  /\ at[t] = "reader"
  /\ handles' = handles \ {"reader"}
  /\ Go(t, IF t # "reader" /\ "reader" \in handles THEN "join reader" ELSE "closed")
  /\ UNCHANGED <<closeRest, running, writable, open, queue, halves>>

\* The reader thread leaves its own handle for the close behind it.
TakeReader(t) ==
  /\ at[t] = "reader"
  /\ IF t = "reader" \/ "reader" \notin handles
     THEN Go(t, "closed") /\ UNCHANGED handles
     ELSE Go(t, "join reader") /\ handles' = handles \ {"reader"}
  /\ UNCHANGED <<closeRest, running, writable, open, queue, halves>>

WaitReader(t) ==
  /\ at[t] = "join reader" /\ reader = "gone"
  /\ Go(t, "closed")
  /\ UNCHANGED <<closeRest, running, writable, open, queue, halves, handles>>

CloseStep(t) ==
  \/ StopRunning(t) \/ StopWritable(t) \/ ShutBox(t) \/ TakeWriter(t)
  \/ WaitWriter(t) \/ Drain(t) \/ TakeReader(t) \/ WaitReader(t)

-----------------------------------------------------------------------------
Next ==
  \/ Connects \/ Moves \/ Deadline \/ RelayAnswers
  \/ OpenStep \/ RelaySends \/ RelayCloses \/ Put \/ WriterStep \/ ReaderStep
  \/ \E t \in Threads : BeginClose(t) \/ CloseStep(t)

Spec == Init /\ [][Next]_vars

\* The threads run on: WRITE_POLL, READER_POLL and STALL_TIMEOUT bound every
\* wait of the two loops, and the handler gives back.  While a client opens, the
\* polls give the thread back and the deadline passes, and connect_timeout gives
\* up on an address; no address need answer and no relay need take or send
\* anything.  Nobody need publish or close.
Fairness ==
  /\ WF_vars(Deadline) /\ WF_vars(OpenStep) /\ WF_vars(WriterStep) /\ WF_vars(ReaderStep)
  /\ \A t \in Threads : WF_vars(CloseStep(t))

FairSpec == Spec /\ Fairness

-----------------------------------------------------------------------------
(* Properties.                                                             *)

is_connected == running /\ writable

\* The handler can believe what it is told.  An end its own program asked for, by
\* a close that began before the reader ended, is not reported, except for a
\* panic; and "Closed" means that the relay closed: a socket that this client's
\* own writer shut, on a link that is too slow, is told as an error.
ToldTheTruth ==
  [][told' # told =>
       /\ panicked \/ \A t \in Threads : at[t] \in {"out", "stop"}
       /\ "Closed" \in told' => ~relay]_vars

\* No thread outlives what gave back.  An open that failed has ended its writer
\* and let its socket go.
\* When a close from outside gives back and no other is under way, both threads
\* are gone and the handler has run for the last time, so a caller may take down
\* what it reaches; the one of two closes at once that finds a handle taken does
\* not wait itself.
CloseWaits ==
  /\ opened = "failed" => writer \in {"none", "gone"} /\ ~sending /\ ~reading
  /\ (\E t \in Closers : at[t] = "closed")
       /\ (\A t \in Closers : at[t] \in {"out", "closed"})
       => reader \in {"none", "gone"} /\ writer = "gone"


\* An open gives back, whatever the relay does or leaves, and so does a `close`,
\* from whatever thread, whatever the others are doing.
CallsReturn ==
  /\ <>(opened \in {"open", "failed"})
  /\ \A t \in Threads : at[t] = "stop" ~> at[t] = "closed"

=============================================================================
