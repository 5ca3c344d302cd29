------------------------------ MODULE LogWriter ------------------------------
(***************************************************************************)
(* A log open to write: open_log in its two writing modes, the Log arms of  *)
(* Client::write, flush and close, and the process that goes.               *)
(*                                                                         *)
(* All that the lock of LogWriter covers is one step; what is outside of it *)
(* is the first test of `writable`.  BufWriter and the disk are external:   *)
(* a write can fail after any of its cells, and BufWriter keeps the rest.   *)
(***************************************************************************)
EXTENDS LogWire

CONSTANTS
  Threads,      \* the threads that publish
  Payloads,     \* what they publish
  Times,        \* the times they give to publish_at
  Capacity,     \* the cells that BufWriter holds
  MaxTime,      \* bound: the last time of the clock
  MaxEvents,    \* bound: publishes in all
  MaxSessions   \* bound: how often the log is opened

ASSUME LogWriterAssumption ==
  /\ Payloads \subseteq Seq(Nat) /\ Times \subseteq Nat
  /\ Capacity \in Nat \ {0} /\ {MaxTime, MaxEvents, MaxSessions} \subseteq Nat

VARIABLES
  file,       \* the log on the disk
  buffer,     \* the cells in BufWriter
  events,     \* LogWriter::events
  writable,   \* Client::writable
  clock,      \* now_micros
  job,        \* by thread: what it publishes, once past the first test
  session,    \* "none", "open", "closing", or how close gave back
  opened,     \* how often the log was opened
  published,  \* how many publishes began
  base,       \* the file as this session found it (history)
  taken,      \* the events this session took with Ok (history)
  saved,      \* how many of them a flush or close said are written (history)
  history     \* the whole events of earlier sessions, and tears (history)

\* publish, which gives no time.
NoTime == -1

NoJob == [payload |-> <<>>, timestamp |-> NoTime, plain |-> FALSE]
Tear == [NoEvent EXCEPT !.timestamp = NoTime]

disk == <<file, buffer>>
past == <<base, history>>
writerVars == <<disk, events, writable, clock, job, session, opened, published, past,
                taken, saved>>

WriterInit ==
  /\ file = <<>> /\ buffer = <<>> /\ events = 0 /\ writable = FALSE
  /\ clock = 0 /\ job = [t \in Threads |-> NoJob]
  /\ session = "none" /\ opened = 0 /\ published = 0
  /\ base = <<>> /\ taken = <<>> /\ saved = 0 /\ history = <<>>

-----------------------------------------------------------------------------
(* open_log.                                                               *)

Open(mode) ==
  /\ session = "none" /\ opened < MaxSessions
  /\ file' = IF mode = "write" THEN <<>> ELSE file
  /\ base' = file'
  /\ history' = IF mode = "write" THEN <<>> ELSE history
  /\ writable' = TRUE /\ events' = 0
  /\ session' = "open" /\ opened' = opened + 1
  /\ UNCHANGED <<buffer, clock, job, published, taken, saved>>

-----------------------------------------------------------------------------
(* Client::write.                                                          *)

\* Mutant of Publish: the clock is read in front of the lock.
PublishStamped(t) ==
  /\ session # "none" /\ job[t] = NoJob /\ published < MaxEvents
  /\ writable
  /\ published' = published + 1
  /\ \E payload \in Payloads, time \in Times \cup {NoTime} :
       job' = [job EXCEPT ![t] = [payload |-> payload, timestamp |-> IF time = NoTime THEN clock ELSE time,
                                  plain |-> time = NoTime]]
  /\ UNCHANGED <<disk, events, writable, clock, session, opened, past, taken, saved>>

\* The test in front of the lock.  publish_at brings its own time.
Publish(t) ==
  /\ session # "none" /\ job[t] = NoJob /\ published < MaxEvents
  /\ writable
  /\ published' = published + 1
  /\ \E payload \in Payloads, time \in Times \cup {NoTime} :
       job' = [job EXCEPT ![t] = [payload |-> payload, timestamp |-> time,
                                  plain |-> time = NoTime]]
  /\ UNCHANGED <<disk, events, writable, clock, session, opened, past, taken, saved>>

\* The cells of the buffer that a flush writes before it fails, or all.
BufferFailsAt(k) ==
  /\ k \in 0..(Len(buffer) - 1)
  /\ file' = file \o SubSeq(buffer, 1, k)
  /\ buffer' = SubSeq(buffer, k + 1, Len(buffer))

\* BufWriter::write_all: whether it empties the buffer first, and whether it
\* then hands the cells to the file and not to the buffer.
Spills(cells) == Len(cells) > Capacity - Len(buffer)
GoesBy(cells) == Len(cells) >= Capacity

WriteAll(cells) ==
  LET flushed == IF Spills(cells) THEN file \o buffer ELSE file
      kept == IF Spills(cells) THEN <<>> ELSE buffer
  IN /\ file' = IF GoesBy(cells) THEN flushed \o cells ELSE flushed
     /\ buffer' = IF GoesBy(cells) THEN kept ELSE kept \o cells

WriteFails(cells) ==
  \/ Spills(cells) /\ \E k \in 0..(Len(buffer) - 1) : BufferFailsAt(k)
  \/ /\ GoesBy(cells)
     /\ \E k \in 0..(Len(cells) - 1) : file' = file \o buffer \o SubSeq(cells, 1, k)
     /\ buffer' = <<>>

\* A time of its own comes from in the lock.
TimeOf(t) == IF job[t].timestamp = NoTime THEN clock ELSE job[t].timestamp

\* Mutant of MayWrite: the test behind the lock is left out.
MayWriteUntested == TRUE

\* The test of `writable` behind the lock.
MayWrite == writable

\* Mutant of Broken: a write that fails leaves the writer as it was.
BrokenUnmarked == UNCHANGED writable

\* A write that fails takes the writer with it.
Broken == writable' = FALSE

\* All that is done under the lock.
WriteEvent(t) ==
  /\ job[t] # NoJob
  /\ job' = [job EXCEPT ![t] = NoJob]
  /\ LET event == [number |-> events, timestamp |-> TimeOf(t),
                   payload |-> job[t].payload, plain |-> job[t].plain]
     IN \/ /\ ~MayWrite \/ ~Encodes(event)
           /\ UNCHANGED <<disk, events, writable, taken>>
        \/ /\ MayWrite /\ Encodes(event)
           /\ WriteAll(encode(event))
           /\ events' = events + 1
           /\ taken' = Append(taken, event)
           /\ UNCHANGED writable
        \/ /\ MayWrite /\ Encodes(event)
           /\ WriteFails(encode(event))
           /\ Broken
           /\ UNCHANGED <<events, taken>>
  /\ UNCHANGED <<clock, session, opened, published, past, saved>>

-----------------------------------------------------------------------------
(* Client::flush and close, and the end of the process.                    *)

\* BufWriter::flush that works, and says so to its caller.
Flushed ==
  /\ file' = file \o buffer /\ buffer' = <<>>
  /\ saved' = Len(taken)

Flush ==
  /\ session # "none"
  /\ \/ Flushed /\ UNCHANGED writable
     \/ /\ \E k \in 0..(Len(buffer) - 1) : BufferFailsAt(k)
        /\ writable' = FALSE
        /\ UNCHANGED saved
  /\ UNCHANGED <<events, clock, job, session, opened, published, past, taken>>

BeginClose ==
  /\ session = "open"
  /\ writable' = FALSE
  /\ session' = "closing"
  /\ UNCHANGED <<disk, events, clock, job, opened, published, past, taken, saved>>

CloseFlush ==
  /\ session = "closing"
  /\ \/ Flushed /\ session' = "ok"
     \/ /\ \E k \in 0..(Len(buffer) - 1) : BufferFailsAt(k)
        /\ session' = "failed"
        /\ UNCHANGED saved
  /\ UNCHANGED <<events, writable, clock, job, opened, published, past, taken>>

Cells(some) == FlattenSeq([i \in DOMAIN some |-> encode(some[i])])

\* How many events of this session the file has whole.
WholeIn(cells) ==
  Max({n \in 0..Len(taken) : IsPrefix(base \o Cells(SubSeq(taken, 1, n)), cells)})

\* The process ends: a drop of BufWriter writes what it can, a crash nothing.
\* The rest is what the file then is, for the next session and for a reader.
Gone ==
  /\ session # "none"
  /\ \E k \in 0..Len(buffer) : file' = file \o SubSeq(buffer, 1, k)
  /\ LET n == WholeIn(file')
     IN history' = history
          \o [i \in 1..n |-> [number |-> taken[i].number, timestamp |-> taken[i].timestamp,
                              payload |-> taken[i].payload]]
          \o (IF file' = base \o Cells(SubSeq(taken, 1, n)) THEN <<>> ELSE <<Tear>>)
  /\ base' = file' /\ taken' = <<>> /\ saved' = 0
  /\ buffer' = <<>> /\ events' = 0 /\ writable' = FALSE
  /\ job' = [t \in Threads |-> NoJob]
  /\ session' = "none"
  /\ UNCHANGED <<clock, opened, published>>

Tick ==
  /\ clock < MaxTime /\ session # "none"
  /\ clock' = clock + 1
  /\ UNCHANGED <<disk, events, writable, job, session, opened, published, past, taken, saved>>

WriterNext ==
  \/ \E mode \in {"write", "append"} : Open(mode)
  \/ \E t \in Threads : Publish(t) \/ WriteEvent(t)
  \/ Flush \/ BeginClose \/ CloseFlush \/ Gone \/ Tick

-----------------------------------------------------------------------------
(* Properties.                                                             *)

\* Nothing goes behind a part of an event.  The file and what waits for it are
\* the log as it was found, and the events taken since, numbered from zero
\* and with the times of plain publishes in sequence; behind them there is at
\* most one event in part, and then the log takes no more.
LogInOrder ==
  /\ \/ file \o buffer = base \o Cells(taken)
     \/ /\ ~writable /\ buffer = <<>>
        /\ IsStrictPrefix(base \o Cells(taken), file)
        /\ Len(file) - Len(base \o Cells(taken)) < HEADER_LEN + CHANNEL_MAX + MAX_MESSAGE_LEN
  /\ \A i \in 1..Len(taken) : taken[i].number = i - 1
  /\ \A i, j \in 1..Len(taken) :
       i < j /\ taken[i].plain /\ taken[j].plain => taken[i].timestamp <= taken[j].timestamp

\* A flush that gives back Ok has every event taken before it in the file, and
\* a close that does has every event of the session: no publisher that waited
\* for the lock puts one into a buffer that nobody will write.
AllTakenIsThere ==
  /\ IsPrefix(base \o Cells(SubSeq(taken, 1, saved)), file)
  /\ session = "ok" => saved = Len(taken)

=============================================================================
