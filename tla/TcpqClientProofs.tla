-------------------------- MODULE TcpqClientProofs --------------------------
(***************************************************************************)
(* Proofs about TcpqClient, for any number of threads that close, any       *)
(* addresses and any bounds.                                                *)
(*                                                                         *)
(* A close waits for the two threads through the two JoinHandles, which go   *)
(* to the first that comes.  What makes that enough is who can hold one      *)
(* (HandleInv); what the handler is told rests on when the socket can have   *)
(* gone (EndInv).                                                           *)
(***************************************************************************)
EXTENDS TcpqClient, TLAPS

\* Where a thread can be in `close`.
Places == {"out", "stop", "unwritable", "shut", "writer", "join writer", "drain",
           "reader", "join reader", "closed"}

\* What the steps of open_tcpq leave for each other.
OpenInv ==
  /\ at \in [Threads -> Places]
  /\ opened \in Opening => writer = "none"
  /\ opened \in {"hello", "reply", "subscribe", "spawn"} => reading
  /\ opened = "spawn" => writer = "take"
  /\ opened \in Opening \cup {"spawn"} => queue = 0 /\ running
  /\ opened \in {"join", "failed"} => ~sending /\ ~reading
  /\ opened = "failed" => writer \in {"none", "gone"}
  /\ opened = "open" => writer # "none"
  /\ reader # "none" => opened = "open"
  /\ opened = "open" => (reader = "none" <=> ~receives)
  /\ \A t \in Threads : at[t] # "out" => opened = "open"
  /\ opened \in Opening \cup {"spawn", "undo", "join", "failed", "open"}

\* Who holds the two handles: one that the client no longer has is with a close
\* that waits, or its thread is gone.  The handler's own close never takes the
\* reader's.
HandleInv ==
  /\ \A t \in Threads :
       at[t] \in {"join writer", "drain", "reader", "join reader", "closed"} =>
         "writer" \notin handles
  /\ opened = "open" /\ "writer" \notin handles =>
       writer = "gone" \/ \E t \in Threads : at[t] = "join writer"
  /\ \A t \in Closers : at[t] \in {"join reader", "closed"} => "reader" \notin handles
  /\ opened = "open" /\ "reader" \notin handles =>
       reader \in {"none", "gone"} \/ \E t \in Closers : at[t] = "join reader"
  /\ at["reader"] # "join reader"
  /\ at["reader"] \notin {"out", "closed"} => reader = "handler"

\* Who can have ended the connection: a close clears `running` first, and the
\* writer leaves its reason before it shuts the reading half.
EndInv ==
  /\ running => \A t \in Threads : at[t] \in {"out", "stop"}
  /\ writer = "shutdown" /\ reader \in {"fill", "handler"} => torn
  /\ ~reading /\ reader \in {"fill", "handler"} => torn
  /\ cause = "Closed" => ~relay
  /\ "Closed" \in told => ~relay

ClientInv == OpenInv /\ HandleInv /\ EndInv

\* open_tcpq keeps the invariant, up to the client it gives back.
LEMMA OpenKeeps ==
  ASSUME ClientInv, Connects \/ Moves \/ Deadline \/ RelayAnswers \/ OpenStep
  PROVE  ClientInv'
<1>1. CASE Connects \/ Moves \/ Deadline \/ RelayAnswers \/ NextAddress \/ GivesUp
           \/ SpawnWriter
  <2>1. /\ UNCHANGED <<at, handles, reader, receives, running, torn, cause, told, queue>>
        /\ UNCHANGED relay
        /\ opened \in Opening
    BY <1>1 DEF Connects, Moves, Deadline, RelayAnswers, NextAddress, GivesUp, OpenFails,
                SpawnWriter, dialRest, boxVars, exitVars, Opening, Waits, halves
  <2>2. reader = "none" /\ opened # "open" /\ opened' # "open"
    BY <1>1, <2>1 DEF ClientInv, OpenInv, Opening, Connects, Moves, Deadline, RelayAnswers,
                      NextAddress, GivesUp, OpenFails, SpawnWriter, dialRest
  <2>3. OpenInv'
    <3>1. CASE Connects
      BY <2>1, <2>2, <3>1 DEF ClientInv, OpenInv, Opening, Connects
    <3>2. CASE Moves
      BY <2>1, <2>2, <3>2 DEF ClientInv, OpenInv, Opening, Moves, halves
    <3>3. CASE Deadline \/ RelayAnswers \/ NextAddress
      BY <2>1, <2>2, <3>3 DEF ClientInv, OpenInv, Opening, Deadline, RelayAnswers,
                              NextAddress, halves
    <3>4. CASE OpenFails
      BY <2>1, <2>2, <3>4 DEF ClientInv, OpenInv, Opening, OpenFails
    <3>5. CASE SpawnWriter /\ ~OpenFails
      <4>1. opened = "subscribe" /\ opened' = "spawn" /\ writer' = "take" /\ UNCHANGED reading
        BY <3>5 DEF SpawnWriter, halves
      <4>2. queue = 0 /\ running /\ reading
        BY <4>1 DEF ClientInv, OpenInv, Opening
      <4>3. queue' = 0 /\ running' /\ reading'
        BY <2>1, <4>1, <4>2
      <4> QED BY <2>1, <2>2, <4>1, <4>3 DEF ClientInv, OpenInv, Opening
    <3> QED BY <1>1, <3>1, <3>2, <3>3, <3>4, <3>5 DEF GivesUp
  <2>4. HandleInv' /\ EndInv'
    BY <2>1, <2>2 DEF ClientInv, OpenInv, HandleInv, EndInv
  <2> QED BY <2>3, <2>4 DEF ClientInv
<1>2. CASE SpawnReader
  <2>1. /\ UNCHANGED <<at, receives, torn, cause, told, relay, writer, running, reading>>
        /\ opened = "spawn" /\ opened' = "open"
        /\ reader' = IF receives THEN "fill" ELSE "none"
        /\ handles' = IF receives THEN {"writer", "reader"} ELSE {"writer"}
    BY <1>2 DEF SpawnReader, openRest, openVars, relayVars, exitVars, halves
  <2>2. /\ \A t \in Threads : at[t] = "out"
        /\ reading /\ writer = "take"
        /\ "reader" \in Threads /\ Closers \subseteq Threads
    BY <2>1 DEF ClientInv, OpenInv, Threads
  <2>3. OpenInv'
    BY <2>1, <2>2 DEF ClientInv, OpenInv, Opening
  <2>4. HandleInv'
    BY <2>1, <2>2 DEF ClientInv, HandleInv
  <2>5. EndInv'
    BY <2>1, <2>2 DEF ClientInv, EndInv
  <2> QED BY <2>3, <2>4, <2>5 DEF ClientInv
<1>3. CASE SpawnFails \/ UndoOpen \/ JoinWriter
  <2>1. /\ UNCHANGED <<at, handles, reader, receives, torn, cause, told, relay, writer>>
        /\ opened \in {"spawn", "undo", "join"} /\ opened' \in {"undo", "join", "failed"}
        /\ running' => running
    BY <1>3 DEF SpawnFails, UndoOpen, JoinWriter, openRest, openVars, relayVars, exitVars
  <2>2. reader = "none" /\ \A t \in Threads : at[t] = "out"
    BY <2>1 DEF ClientInv, OpenInv
  <2>3. OpenInv'
    BY <1>3, <2>1, <2>2 DEF ClientInv, OpenInv, SpawnFails, UndoOpen, JoinWriter, halves,
                            Opening
  <2>4. HandleInv' /\ EndInv'
    BY <2>1, <2>2 DEF ClientInv, HandleInv, EndInv
  <2> QED BY <2>3, <2>4 DEF ClientInv
<1> QED BY <1>1, <1>2, <1>3 DEF OpenStep

\* The relay and the publishers keep the invariant.
LEMMA RelayKeeps ==
  ASSUME ClientInv, RelaySends \/ RelayCloses \/ Put PROVE ClientInv'
<1>1. /\ UNCHANGED <<opened, receives, running, torn, sending, reading, writer, reader,
                     cause, told, handles, at>>
      /\ relay' = relay \/ ~relay'
      /\ opened # "open" => queue' = queue
  <2>1. CASE RelaySends
    BY <2>1 DEF RelaySends, openVars, boxVars, exitVars, halves
  <2>2. CASE RelayCloses
    BY <2>2 DEF RelayCloses, openVars, boxVars, exitVars, halves
  <2>3. CASE Put
    BY <2>3 DEF Put, openVars, relayVars, exitVars, halves
  <2> QED BY <2>1, <2>2, <2>3
<1>2. OpenInv'
  BY <1>1 DEF ClientInv, OpenInv, Opening
<1>3. HandleInv'
  BY <1>1 DEF ClientInv, HandleInv
<1>4. EndInv'
  BY <1>1 DEF ClientInv, EndInv
<1> QED BY <1>2, <1>3, <1>4 DEF ClientInv

\* The writer thread keeps the invariant.
LEMMA WriterKeeps ==
  ASSUME ClientInv, WriterStep PROVE ClientInv'
<1>1. /\ UNCHANGED <<opened, receives, running, reader, cause, told, relay, handles, at>>
      /\ writer \notin {"none", "gone"} /\ writer' # "none"
  BY DEF WriterStep, WriterEnds, Take, Write, Tear, Shutdown, WriterExit, writerRest,
         openVars, relayVars, exitVars
<1>2. OpenInv'
  <2>1. opened # "spawn"
    BY DEF ClientInv, OpenInv, WriterStep, WriterEnds, Take, Write, Tear, Shutdown,
           WriterExit
  <2>2. /\ reading' # reading => ~reading' /\ writer = "shutdown"
        /\ sending' # sending => ~sending' /\ writer = "shutdown"
    BY DEF WriterStep, WriterEnds, Take, Write, Tear, Shutdown, WriterExit, halves
  <2> QED BY <1>1, <2>1, <2>2 DEF ClientInv, OpenInv, Opening
<1>3. HandleInv'
  BY <1>1 DEF ClientInv, HandleInv
<1>4. EndInv'
  BY <1>1 DEF ClientInv, EndInv, WriterStep, WriterEnds, Take, Write, Tear, Shutdown,
              WriterExit, halves
<1> QED BY <1>2, <1>3, <1>4 DEF ClientInv

\* The reader thread keeps the invariant.
LEMMA ReaderKeeps ==
  ASSUME ClientInv, ReaderStep PROVE ClientInv'
<1>1. /\ UNCHANGED <<opened, receives, queue, sending, reading, relay, writer, handles>>
      /\ reader \notin {"none", "gone"} /\ reader' # "none" /\ opened = "open"
      /\ "reader" \in Threads /\ "reader" \notin Closers
  BY ClientAssumption DEF ReaderStep, ReaderEnds, Fill, Handle, ExitWritable, ExitSwap,
         readerRest, openVars, boxVars, halves, ClientInv, OpenInv, Threads
<1>2. CASE Handle
  <2>1. /\ reader = "handler" /\ UNCHANGED <<running, torn, told>>
        /\ reader' \in {"fill", "exit", "handler"}
        /\ at["reader"] \in {"out", "closed"}
        /\ at' \in [Threads -> Places]
        /\ \A t \in Threads : t # "reader" => at'[t] = at[t]
        /\ \/ at'["reader"] = "out"
           \/ at'["reader"] = "stop" /\ reader' = "handler"
           \/ at'["reader"] = at["reader"] /\ reader' = "exit"
        /\ cause' \in {cause, "Panicked"}
    BY <1>1, <1>2 DEF Handle, ClientInv, OpenInv, Places
  <2>2. OpenInv'
    BY <1>1, <2>1 DEF ClientInv, OpenInv, Opening
  <2>3. \A t \in Closers : t \in Threads /\ t # "reader"
    BY <1>1 DEF Threads
  <2>4. HandleInv'
    <3>1. ASSUME NEW t \in Threads,
                 at'[t] \in {"join writer", "drain", "reader", "join reader", "closed"}
          PROVE  "writer" \notin handles
      BY <2>1, <3>1 DEF ClientInv, HandleInv
    <3>2. ASSUME NEW t \in Threads, at[t] = "join writer" PROVE at'[t] = "join writer"
      BY <2>1, <3>2
    <3>3. ASSUME NEW t \in Closers PROVE at'[t] = at[t]
      BY <2>1, <2>3
    <3>4. at'["reader"] # "join reader" /\ (at'["reader"] \notin {"out", "closed"} => reader' = "handler")
      BY <2>1 DEF ClientInv, HandleInv
    <3> QED BY <1>1, <2>1, <3>1, <3>2, <3>3, <3>4 DEF ClientInv, HandleInv
  <2>5. EndInv'
    BY <1>1, <2>1 DEF ClientInv, EndInv
  <2> QED BY <2>2, <2>4, <2>5 DEF ClientInv
<1>3. CASE ReaderEnds \/ Fill \/ ExitWritable \/ ExitSwap
  <2>1. UNCHANGED at /\ reader # "handler"
    BY <1>3 DEF ReaderEnds, Fill, ExitWritable, ExitSwap
  <2>2. at["reader"] \in {"out", "closed"}
    BY <2>1 DEF ClientInv, HandleInv
  <2>3. OpenInv' /\ HandleInv'
    BY <1>1, <2>1, <2>2 DEF ClientInv, OpenInv, HandleInv, Opening
  <2>4. EndInv'
    <3>1. CASE ReaderEnds
      BY <1>1, <2>1, <3>1 DEF ClientInv, EndInv, ReaderEnds, NoCause
    <3>2. CASE Fill
      <4>1. reader' \in {"handler", "exit"} /\ UNCHANGED <<running, told>> /\ reader = "fill"
        BY <3>2 DEF Fill
      <4>2. (torn' # torn => reader' = "exit") /\ (cause' = "Closed" => ~relay)
        BY <3>2 DEF Fill, AtEnd, ClientInv, EndInv
      <4> QED BY <1>1, <2>1, <4>1, <4>2 DEF ClientInv, EndInv
    <3>3. CASE ExitWritable
      BY <1>1, <2>1, <3>3 DEF ClientInv, EndInv, ExitWritable, exitVars
    <3>4. CASE ExitSwap
      <4>1. /\ ~running' /\ reader' = "gone" /\ UNCHANGED <<torn, cause>>
            /\ "Closed" \in told' => "Closed" \in told \/ cause = "Closed"
        BY <3>4 DEF ExitSwap
      <4> QED BY <1>1, <2>1, <4>1 DEF ClientInv, EndInv
    <3> QED BY <1>3, <3>1, <3>2, <3>3, <3>4
  <2> QED BY <2>3, <2>4 DEF ClientInv
<1> QED BY <1>2, <1>3 DEF ReaderStep

\* `close` keeps the invariant, from whatever thread.
LEMMA CloseKeeps ==
  ASSUME ClientInv, NEW t \in Threads, BeginClose(t) \/ CloseStep(t) PROVE ClientInv'
<1> USE DEF BeginClose, CloseStep, StopRunning, StopWritable, ShutBox, TakeWriter,
            WaitWriter, Drain, TakeReader, WaitReader
<1>0. at \in [Threads -> Places] /\ at[t] # "closed"
  BY DEF ClientInv, OpenInv
<1>1. /\ UNCHANGED <<opened, receives, torn, relay, writer, reader, cause, told>>
      /\ opened = "open"
      /\ running' = running \/ ~running'
      /\ reading' = reading
  <2>1. UNCHANGED <<opened, receives, torn, relay, writer, reader, cause, told>>
    BY DEF closeRest, openVars, relayVars, exitVars
  <2>2. opened = "open"
    BY DEF ClientInv, OpenInv
  <2>3. running' = running \/ ~running'
    OBVIOUS
  <2>4. reading' = reading
    BY DEF halves
  <2> QED BY <2>1, <2>2, <2>3, <2>4
<1>2. \E there \in Places : at' = [at EXCEPT ![t] = there]
  BY DEF Go, Places
<1> USE DEF Go
<1>3. /\ at' \in [Threads -> Places]
      /\ \A u \in Threads : u # t => at'[u] = at[u]
  BY <1>0, <1>2
<1>4. OpenInv'
  BY <1>1, <1>3 DEF ClientInv, OpenInv, Opening
<1>5. EndInv'
  <2>1. running' => at'[t] \in {"out", "stop"}
    BY <1>0 DEF ClientInv, EndInv
  <2>2. running' => \A u \in Threads : at'[u] \in {"out", "stop"}
    <3>1. SUFFICES ASSUME running' PROVE \A u \in Threads : at'[u] \in {"out", "stop"}
      OBVIOUS
    <3>2. running
      BY <1>1, <3>1
    <3> QED BY <1>3, <2>1, <3>1, <3>2 DEF ClientInv, EndInv
  <2> QED BY <1>1, <2>2 DEF ClientInv, EndInv
<1>6. HandleInv'
  <2>1. CASE TakeWriter(t)
    <3>1. /\ handles' = handles \ {"writer"} /\ at[t] = "writer"
          /\ at'[t] = IF "writer" \in handles THEN "join writer" ELSE "drain"
      BY <1>0, <2>1
    <3> QED BY <1>1, <1>3, <3>1 DEF ClientInv, HandleInv, Threads
  <2>2. CASE WaitWriter(t)
    <3>1. at[t] = "join writer" /\ writer = "gone" /\ at'[t] = "drain" /\ handles' = handles
      BY <1>0, <2>2
    <3> QED BY <1>1, <1>3, <3>1 DEF ClientInv, HandleInv, Threads
  <2>3. CASE TakeReader(t)
    <3>1. CASE t = "reader" \/ "reader" \notin handles
      <4>1. at[t] = "reader" /\ at'[t] = "closed" /\ handles' = handles
        BY <1>0, <2>3, <3>1
      <4> QED BY <1>1, <1>3, <3>1, <4>1, ClientAssumption DEF ClientInv, HandleInv, Threads
    <3>2. CASE t # "reader" /\ "reader" \in handles
      <4>1. /\ at[t] = "reader" /\ at'[t] = "join reader" /\ handles' = handles \ {"reader"}
            /\ t \in Closers
        BY <1>0, <2>3, <3>2 DEF Threads
      <4> QED BY <1>1, <1>3, <3>2, <4>1, ClientAssumption DEF ClientInv, HandleInv, Threads
    <3> QED BY <3>1, <3>2
  <2>4. CASE WaitReader(t)
    <3>1. at[t] = "join reader" /\ reader = "gone" /\ at'[t] = "closed" /\ handles' = handles
      BY <1>0, <2>4
    <3> QED BY <1>1, <1>3, <3>1 DEF ClientInv, HandleInv, Threads
  <2>5. CASE BeginClose(t) \/ StopRunning(t) \/ StopWritable(t) \/ ShutBox(t) \/ Drain(t)
    <3>1. /\ at[t] \in {"out", "stop", "unwritable", "shut", "drain"} /\ handles' = handles
          /\ at'[t] \in {"stop", "unwritable", "shut", "writer", "reader"}
          /\ at[t] = "out" => t \in Closers
          /\ at'[t] = "reader" => at[t] = "drain"
      BY <1>0, <2>5
    <3> QED BY <1>1, <1>3, <3>1, ClientAssumption DEF ClientInv, HandleInv, Threads
  <2> QED BY <2>1, <2>2, <2>3, <2>4, <2>5
<1> QED BY <1>4, <1>5, <1>6 DEF ClientInv

\* The inductive invariant of the client's threads.
THEOREM ClientCorrect == Spec => []ClientInv
<1>1. Init => ClientInv
  <2> SUFFICES ASSUME Init PROVE ClientInv
    OBVIOUS
  <2>1. \A t \in Threads : at[t] = "out"
    BY DEF Init
  <2>2. OpenInv
    BY <2>1 DEF Init, OpenInv, Opening, Places
  <2>3. HandleInv /\ EndInv
    BY <2>1 DEF Init, HandleInv, EndInv, Threads, NoCause
  <2> QED BY <2>2, <2>3 DEF ClientInv
<1>2. ClientInv /\ [Next]_vars => ClientInv'
  <2>1. ASSUME ClientInv, UNCHANGED vars PROVE ClientInv'
    <3>1. UNCHANGED <<opened, receives, running, torn, sending, reading, writer, reader,
                      cause, told, handles, at, relay, queue>>
      BY <2>1 DEF vars, openVars, boxVars, halves, relayVars, exitVars
    <3>2. OpenInv'
      BY <2>1, <3>1 DEF ClientInv, OpenInv, Opening
    <3>3. HandleInv' /\ EndInv'
      BY <2>1, <3>1 DEF ClientInv, HandleInv, EndInv
    <3> QED BY <3>2, <3>3 DEF ClientInv
  <2> QED BY <2>1, OpenKeeps, RelayKeeps, WriterKeeps, ReaderKeeps, CloseKeeps DEF Next
<1> QED BY <1>1, <1>2, PTL DEF Spec

\* An open that failed leaves no writer and no socket, and a close from outside
\* that gave back, with no other under way, leaves neither thread: the handler
\* has run for the last time.
THEOREM CloseWaitsHolds == Spec => []CloseWaits
<1>1. ClientInv => CloseWaits
  <2> SUFFICES ASSUME ClientInv PROVE CloseWaits
    OBVIOUS
  <2>1. opened = "failed" => writer \in {"none", "gone"} /\ ~sending /\ ~reading
    BY DEF ClientInv, OpenInv
  <2>2. ASSUME NEW t \in Closers, at[t] = "closed",
               \A u \in Closers : at[u] \in {"out", "closed"}
        PROVE  reader \in {"none", "gone"} /\ writer = "gone"
    <3>1. opened = "open" /\ "writer" \notin handles /\ "reader" \notin handles
      BY <2>2 DEF ClientInv, OpenInv, HandleInv, Threads
    <3>2. reader \in {"none", "gone"}
      BY <2>2, <3>1 DEF ClientInv, HandleInv
    <3>3. \A u \in Threads : at[u] # "join writer"
      BY <2>2, <3>2 DEF ClientInv, HandleInv, Threads
    <3> QED BY <3>1, <3>2, <3>3 DEF ClientInv, HandleInv
  <2> QED BY <2>1, <2>2 DEF CloseWaits
<1> QED BY <1>1, ClientCorrect, PTL

\* What the handler is told is so: no end that its own program asked for, and no
\* "Closed" while the relay has its end open.
THEOREM ToldTheTruthHolds == Spec => ToldTheTruth
<1>1. ClientInv /\ ClientInv' /\ [Next]_vars =>
        [told' # told =>
           /\ panicked \/ \A t \in Threads : at[t] \in {"out", "stop"}
           /\ "Closed" \in told' => ~relay]_vars
  <2> SUFFICES ASSUME ClientInv, ClientInv', Next, told' # told
               PROVE  /\ panicked \/ \A t \in Threads : at[t] \in {"out", "stop"}
                      /\ "Closed" \in told' => ~relay
    OBVIOUS
  <2>1. ExitSwap
    <3>1. ~(Connects \/ Moves \/ Deadline \/ RelayAnswers \/ OpenStep)
      BY DEF Connects, Moves, Deadline, RelayAnswers, OpenStep, NextAddress, GivesUp,
             SpawnWriter, OpenFails, SpawnReader, SpawnFails, UndoOpen, JoinWriter,
             dialRest, openRest, exitVars
    <3>2. ~(RelaySends \/ RelayCloses \/ Put \/ WriterStep)
      BY DEF RelaySends, RelayCloses, Put, WriterStep, WriterEnds, Take, Write, Tear,
             Shutdown, WriterExit, writerRest, exitVars
    <3>3. ASSUME NEW t \in Threads PROVE ~(BeginClose(t) \/ CloseStep(t))
      BY DEF BeginClose, CloseStep, StopRunning, StopWritable, ShutBox, TakeWriter,
             WaitWriter, Drain, TakeReader, WaitReader, closeRest, exitVars
    <3>4. ReaderStep
      BY <3>1, <3>2, <3>3 DEF Next
    <3> QED BY <3>4 DEF ReaderStep, ReaderEnds, Fill, Handle, ExitWritable, exitVars
  <2>2. relay' = relay
    BY <2>1 DEF ExitSwap, readerRest
  <2>3. running \/ panicked
    BY <2>1 DEF ExitSwap
  <2> QED BY <2>2, <2>3 DEF ClientInv, EndInv
<1> QED BY <1>1, ClientCorrect, PTL DEF Spec, ToldTheTruth
=============================================================================
