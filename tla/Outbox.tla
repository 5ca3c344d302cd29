------------------------------- MODULE Outbox -------------------------------
(***************************************************************************)
(* The outbox of a tcpq connection (src/src/client/relay.rs): two bounded   *)
(* lines of frames behind one mutex and two condition variables, the        *)
(* threads that put frames in or wait for them to reach the wire, and the   *)
(* writer thread that takes them out.                                       *)
(*                                                                         *)
(* The mutex makes every stretch between a lock (or a wake-up) and the next *)
(* wait or return one step.  A thread in `room` or `filled` sleeps on that  *)
(* condition variable and nobody has notified it yet.                       *)
(*                                                                         *)
(* The same module serves the two users of an outbox: the client, whose     *)
(* `close` clears `running` before it shuts the outbox, and the relay,      *)
(* which shuts the outbox of one peer while `running` stays set.            *)
(***************************************************************************)
EXTENDS Integers, Sequences, FiniteSets, SequencesExt

CONSTANTS
  Publishers,           \* threads that call put_message, through `write`
  Subscribers,          \* threads that call put_control, through `tell_relay`
  Flushers,             \* threads that call flushed, through `flush`
  OUTBOX_BYTES,         \* the line of messages takes a frame at or under this
  OUTBOX_CONTROL_BYTES, \* the same for the line of subscriptions
  FRAME_COST,           \* what a frame costs beside its bytes
  Lens,                 \* the lengths a frame can have
  MaxCalls              \* bound: calls made by one thread

Callers == Publishers \cup Subscribers \cup Flushers

ASSUME ThreadsAssumption ==
  /\ Publishers \cap Subscribers = {}
  /\ Publishers \cap Flushers = {}
  /\ Subscribers \cap Flushers = {}

ASSUME SizesAssumption ==
  /\ OUTBOX_BYTES \in Nat
  /\ OUTBOX_CONTROL_BYTES \in Nat
  /\ FRAME_COST \in Nat
  /\ MaxCalls \in Nat
  /\ Lens \subseteq Nat \ {0}
  /\ \E longest \in Lens : \A l \in Lens : l <= longest

Lane == {"message", "control"}
NoLane == "none"

\* The bytes at or under which a line takes one more frame.
Limit == [lane \in Lane |->
            IF lane = "message" THEN OUTBOX_BYTES ELSE OUTBOX_CONTROL_BYTES]

\* A frame is its lane, its place among the frames that lane let in, and its
\* length.  The writer holds NoFrame until its first take.
Frame == [lane : Lane, nth : Nat, len : Lens]
NoFrame == [lane |-> NoLane, nth |-> 0, len |-> 0]

\* Mutant of Cost: a take that gives back less than the put charged.
CostWithoutFrame(frame) == frame.len

Cost(frame) == frame.len + FRAME_COST

Refused == {"TooSlow", "Gone"}
Returned == {"idle", "Ok", "Closed"} \cup Refused

Zero == [lane \in Lane |-> 0]

VARIABLES
  open,       \* Queue::open
  frames,     \* Queue::messages and Queue::control, by lane
  waiting,    \* Queue::waiting and Queue::control_waiting, by lane
  in_hand,    \* Queue::in_hand
  line,       \* Queue::line: a ticket is the publisher that drew it
  taken,      \* Sent::taken of Queue::sent and Queue::control_sent, by lane
  wrote,      \* Sent::wrote of the two
  lost,       \* Sent::lost of the two
  room,       \* the callers asleep on Outbox::room
  filled,     \* whether the writer sleeps on Outbox::filled
  pc,         \* where each caller is, or what its last call gave back
  len,        \* the length of the frame each caller puts in
  late,       \* whether the deadline of the call has passed
  wanted,     \* flushed's (wanted, wanted_control), by lane
  calls,      \* how many calls each caller made
  writer,     \* where the writer thread is
  hand,       \* the frame the writer thread took
  rest,       \* how many bytes of it are still to go
  running,    \* Client::running, or Served::running
  writable,   \* Client::writable, or Peer::writable
  wire        \* by lane: the frames the kernel took whole (history)

sentVars   == <<taken, wrote, lost>>
queueVars  == <<open, frames, waiting, in_hand, line, sentVars>>
callerVars == <<pc, len, late, wanted, calls>>
writerVars == <<writer, hand, rest>>
flagVars   == <<running, writable>>
vars == <<queueVars, room, filled, callerVars, writerVars, flagVars, wire>>

Init ==
  /\ open = TRUE
  /\ frames = [lane \in Lane |-> <<>>]
  /\ waiting = Zero
  /\ in_hand = NoLane
  /\ line = <<>>
  /\ taken = Zero /\ wrote = Zero /\ lost = Zero
  /\ room = {}
  /\ filled = FALSE
  /\ pc = [t \in Callers |-> "idle"]
  /\ len = [t \in Callers |-> 0]
  /\ late = [t \in Callers |-> FALSE]
  /\ wanted = [t \in Callers |-> Zero]
  /\ calls = [t \in Callers |-> 0]
  /\ writer = "top"
  /\ hand = NoFrame
  /\ rest = 0
  /\ running = TRUE
  /\ writable = TRUE
  /\ wire = [lane \in Lane |-> <<>>]

-----------------------------------------------------------------------------
(* The callers.                                                            *)

\* `write`, `to_relay` and `tell_relay` look at `writable` before they take
\* the lock of the outbox, so what they read can be stale when they have it.
\* `flush` does not look.
Call(t) ==
  /\ pc[t] \in Returned
  /\ calls[t] < MaxCalls
  /\ calls' = [calls EXCEPT ![t] = @ + 1]
  /\ IF t \in Flushers
     THEN /\ pc' = [pc EXCEPT ![t] = "called"]
          /\ UNCHANGED len
     ELSE IF writable
     THEN /\ pc' = [pc EXCEPT ![t] = "called"]
          /\ \E l \in Lens : len' = [len EXCEPT ![t] = l]
     ELSE /\ pc' = [pc EXCEPT ![t] = "Closed"]
          /\ UNCHANGED len
  /\ UNCHANGED <<queueVars, room, filled, late, wanted, writerVars, flagVars,
                 wire>>

\* The deadline passes, and wakes the caller where it sleeps.
Deadline(t) ==
  /\ pc[t] \in {"called", "asleep"}
  /\ ~late[t]
  /\ late' = [late EXCEPT ![t] = TRUE]
  /\ room' = room \ {t}
  /\ UNCHANGED <<queueVars, filled, pc, len, wanted, calls, writerVars,
                 flagVars, wire>>

\* A condition variable may wake a thread for no reason.
Spurious(t) ==
  /\ t \in room
  /\ room' = room \ {t}
  /\ UNCHANGED <<queueVars, filled, callerVars, writerVars, flagVars, wire>>

Awake(t) == pc[t] = "called" \/ (pc[t] = "asleep" /\ t \notin room)

\* The call gives back, and its locals go with it.
Return(t, what) ==
  /\ pc' = [pc EXCEPT ![t] = what]
  /\ len' = [len EXCEPT ![t] = 0]
  /\ late' = [late EXCEPT ![t] = FALSE]

\* Mutant of NewFrame: the cost of the frame goes into its length.
CostlyFrame(t, lane) ==
  [lane |-> lane, nth |-> taken[lane] + 1, len |-> len[t] + FRAME_COST]

NewFrame(t, lane) == [lane |-> lane, nth |-> taken[lane] + 1, len |-> len[t]]

\* The frame goes into its line, and the writer hears of it.
Enter(t, lane) ==
  /\ waiting' = [waiting EXCEPT ![lane] = @ + len[t] + FRAME_COST]
  /\ frames' = [frames EXCEPT ![lane] = Append(@, NewFrame(t, lane))]
  /\ taken' = [taken EXCEPT ![lane] = @ + 1]
  /\ filled' = FALSE
  /\ Return(t, "Ok")

\* No frame goes in, and the call gives back `why`.
Refuse(t, why) ==
  /\ Return(t, why)
  /\ UNCHANGED <<frames, waiting, taken, filled>>

Sleep(t) ==
  /\ ~late[t]
  /\ room' = room \cup {t}
  /\ pc' = [pc EXCEPT ![t] = "asleep"]
  /\ UNCHANGED <<frames, waiting, taken, filled, len, late>>

callerRest == <<open, in_hand, wrote, lost, calls, writerVars, flagVars, wire>>

\* The line of tickets as the loop of put_message sees it: a call that starts
\* draws its ticket first.
LineOf(t) == IF pc[t] = "called" THEN Append(line, t) ELSE line

HasRoom(lane) == waiting[lane] <= Limit[lane]

\* put_message: whether the frame goes in now.
MayEnter(t) == HasRoom("message") /\ Head(LineOf(t)) = t

\* A publish that goes in gives up the front of the line.
LeaveFront(t) == line' = Tail(LineOf(t)) /\ room' = {}

\* Mutant of LeaveLine: the ticket stays behind.
KeepTicket(t) == line' = LineOf(t) /\ room' = {}

\* A refused publish takes its one ticket out of the line, and those behind it
\* look again.
LeaveLine(t) ==
  /\ \E i \in 1..Len(LineOf(t)) :
       /\ LineOf(t)[i] = t
       /\ line' = [j \in 1..Len(LineOf(t)) - 1 |->
                     LineOf(t)[IF j < i THEN j ELSE j + 1]]
  /\ room' = {}

PutMessage(t) ==
  /\ Awake(t)
  /\ \/ /\ open /\ MayEnter(t)
        /\ Enter(t, "message")
        /\ LeaveFront(t)
     \/ /\ open /\ ~MayEnter(t)
        /\ Sleep(t)
        /\ line' = LineOf(t)
     \/ /\ \/ ~open /\ Refuse(t, "Gone")
           \/ open /\ ~MayEnter(t) /\ late[t] /\ Refuse(t, "TooSlow")
        /\ LeaveLine(t)
  /\ UNCHANGED <<wanted, callerRest>>

PutControl(t) ==
  /\ Awake(t)
  /\ \/ /\ open /\ HasRoom("control")
        /\ Enter(t, "control")
        /\ UNCHANGED room
     \/ /\ open /\ ~HasRoom("control")
        /\ Sleep(t)
     \/ /\ \/ ~open /\ Refuse(t, "Gone")
           \/ open /\ ~HasRoom("control") /\ late[t] /\ Refuse(t, "TooSlow")
        /\ UNCHANGED room
  /\ UNCHANGED <<line, wanted, callerRest>>

\* flushed: the counts a call waits for are the ones it met when it came.
WantedBy(t) == IF pc[t] = "called"
               THEN [lane \in Lane |-> taken[lane]]
               ELSE wanted[t]

\* Mutant of Reached: one count answers for both lines.
ReachedMessages(t) == wrote["message"] >= WantedBy(t)["message"]

Reached(t) == \A lane \in Lane : wrote[lane] >= WantedBy(t)[lane]
NeverWill == (\E lane \in Lane : lost[lane] > 0) \/ ~open

Flushed(t) ==
  /\ Awake(t)
  /\ wanted' = [wanted EXCEPT ![t] = WantedBy(t)]
  /\ \/ Reached(t) /\ Refuse(t, "Ok") /\ UNCHANGED room
     \/ ~Reached(t) /\ NeverWill /\ Refuse(t, "Gone") /\ UNCHANGED room
     \/ ~Reached(t) /\ ~NeverWill /\ late[t] /\ Refuse(t, "TooSlow")
                    /\ UNCHANGED room
     \/ ~Reached(t) /\ ~NeverWill /\ Sleep(t)
  /\ UNCHANGED <<line, callerRest>>

-----------------------------------------------------------------------------
(* The writer thread.                                                      *)

takeRest == <<open, line, sentVars, callerVars, flagVars, wire>>

\* The lane `take` serves: control first.
NextLane == IF frames["control"] # <<>> THEN "control" ELSE "message"

\* Mutant of Top: the loop watches the outbox and not `running`.
TopWhileOpen ==
  /\ writer = "top"
  /\ writer' = IF open THEN "take" ELSE "exit"
  /\ UNCHANGED <<queueVars, room, filled, callerVars, hand, rest, flagVars, wire>>

Top ==
  /\ writer = "top"
  /\ writer' = IF running THEN "take" ELSE "exit"
  /\ UNCHANGED <<queueVars, room, filled, callerVars, hand, rest, flagVars, wire>>

Take ==
  /\ writer = "take"
  /\ ~filled
  /\ \/ LET frame == Head(frames[NextLane]) IN
        /\ frames[NextLane] # <<>>
        /\ frames' = [frames EXCEPT ![NextLane] = Tail(@)]
        /\ waiting' = [waiting EXCEPT ![NextLane] = @ - Cost(frame)]
        /\ in_hand' = NextLane
        /\ hand' = frame
        /\ rest' = frame.len
        /\ room' = {}
        /\ writer' = "check"
        /\ UNCHANGED filled
     \/ /\ frames[NextLane] = <<>> /\ ~open
        /\ writer' = "top"
        /\ UNCHANGED <<frames, waiting, in_hand, hand, rest, room, filled>>
     \/ /\ frames[NextLane] = <<>> /\ open
        /\ filled' = TRUE
        /\ UNCHANGED <<frames, waiting, in_hand, hand, rest, room, writer>>
  /\ UNCHANGED takeRest

\* The patience of `take` ends, and it gives back None whatever came since.
Patience ==
  /\ writer = "take"
  /\ filled
  /\ filled' = FALSE
  /\ writer' = "top"
  /\ UNCHANGED <<queueVars, room, callerVars, hand, rest, flagVars, wire>>

\* The head of the write loop.
Check ==
  /\ writer = "check"
  /\ writer' = IF rest = 0 THEN "wrote" ELSE IF running THEN "send" ELSE "failed"
  /\ UNCHANGED <<queueVars, room, filled, callerVars, hand, rest, flagVars, wire>>

\* The kernel takes some of the bytes.
Send ==
  /\ writer = "send"
  /\ \E bytes \in 1..rest :
       /\ rest' = rest - bytes
       /\ wire' = IF bytes = rest
                  THEN [wire EXCEPT ![hand.lane] = Append(@, hand)] ELSE wire
  /\ writer' = "check"
  /\ UNCHANGED <<queueVars, room, filled, callerVars, hand, flagVars>>

\* A write that waited WRITE_POLL and moved nothing.
Poll ==
  /\ writer = "send"
  /\ writer' = "check"
  /\ UNCHANGED <<queueVars, room, filled, callerVars, hand, rest, flagVars, wire>>

\* An error, a write of nothing, or STALL_TIMEOUT without a byte.
SendFails ==
  /\ writer = "send"
  /\ writer' = "failed"
  /\ UNCHANGED <<queueVars, room, filled, callerVars, hand, rest, flagVars, wire>>

\* Mutant of Done: the counts move and the flushes sleep on.
DoneQuietly(went) ==
  /\ in_hand' = NoLane
  /\ wrote' = [lane \in Lane |-> wrote[lane] + (IF in_hand = lane /\ went THEN 1 ELSE 0)]
  /\ lost' = [lane \in Lane |-> lost[lane] + (IF in_hand = lane /\ ~went THEN 1 ELSE 0)]
  /\ UNCHANGED <<open, frames, waiting, line, taken, room, filled, callerVars,
                 hand, rest, flagVars, wire>>

\* done(went).  The counts move, and what `abandon` took is not counted.
Done(went) ==
  /\ in_hand' = NoLane
  /\ IF in_hand = NoLane
     THEN UNCHANGED <<wrote, lost, room>>
     ELSE /\ wrote' = IF went THEN [wrote EXCEPT ![in_hand] = @ + 1] ELSE wrote
          /\ lost' = IF went THEN lost ELSE [lost EXCEPT ![in_hand] = @ + 1]
          /\ room' = {}
  /\ UNCHANGED <<open, frames, waiting, line, taken, filled, callerVars, hand,
                 rest, flagVars, wire>>

DoneWrote == writer = "wrote" /\ Done(TRUE) /\ writer' = "top"

\* Mutant of DoneLost: a failed write costs the frame and not the connection.
LoseAndGoOn == writer = "failed" /\ Done(FALSE) /\ writer' = "top"

DoneLost == writer = "failed" /\ Done(FALSE) /\ writer' = "torn"

\* A write that failed takes the sending half, and the thread ends.
Tear ==
  /\ writer = "torn"
  /\ writable' = FALSE
  /\ writer' = "exit"
  /\ UNCHANGED <<queueVars, room, filled, callerVars, hand, rest, running, wire>>

\* A panic in the middle of a write unwinds to WriterExit.
Panic ==
  /\ writer = "send"
  /\ writable' = FALSE
  /\ writer' = "exit"
  /\ UNCHANGED <<queueVars, room, filled, callerVars, hand, rest, running, wire>>

\* Mutants of LostInLine: the frame in hand is counted too; none is counted.
LostWithTheHand(lane) == Len(frames[lane]) + (IF in_hand = lane THEN 1 ELSE 0)
LostNothing(lane) == 0

LostInLine(lane) == Len(frames[lane])

\* Mutant of WakeAll: only the writer hears of the end.
WakeWriter == UNCHANGED room /\ filled' = FALSE

WakeAll == room' = {} /\ filled' = FALSE

\* Outbox::shut: the queue closes and what is in the lines is lost, but not
\* the frame the writer holds.
Shut ==
  /\ open' = FALSE
  /\ frames' = [lane \in Lane |-> <<>>]
  /\ waiting' = [lane \in Lane |-> 0]
  /\ lost' = [lane \in Lane |-> lost[lane] + LostInLine(lane)]
  /\ WakeAll
  /\ UNCHANGED <<in_hand, line, taken, wrote, callerVars, hand, rest, flagVars,
                 wire>>

\* Mutant of ExitShut: a writer that ends leaves the outbox open.
ExitOpen ==
  /\ writer = "exit"
  /\ writer' = "abandon"
  /\ UNCHANGED <<queueVars, room, filled, callerVars, hand, rest, flagVars, wire>>

\* WriterExit's first half.
ExitShut == writer = "exit" /\ Shut /\ writer' = "abandon"

\* WriterExit's second half, Outbox::abandon: the frame in hand, if `done`
\* did not take it.
Abandon ==
  /\ writer = "abandon"
  /\ in_hand' = NoLane
  /\ lost' = IF in_hand = NoLane THEN lost
             ELSE [lost EXCEPT ![in_hand] = @ + 1]
  /\ room' = {}
  /\ writer' = "gone"
  /\ UNCHANGED <<open, frames, waiting, line, taken, wrote, filled, callerVars,
                 hand, rest, flagVars, wire>>

-----------------------------------------------------------------------------
(* What the rest of the connection does to the outbox: a reader that ends   *)
(* and `close` clear the two flags, in two orders; `close` and `drop_peer`  *)
(* shut the outbox.                                                         *)

StopRunning ==
  /\ running
  /\ running' = FALSE
  /\ UNCHANGED <<queueVars, room, filled, callerVars, writerVars, writable, wire>>

StopWritable ==
  /\ writable
  /\ writable' = FALSE
  /\ UNCHANGED <<queueVars, room, filled, callerVars, writerVars, running, wire>>

CloseShut == open /\ Shut /\ UNCHANGED writer

Terminated ==
  /\ writer = "gone"
  /\ \A t \in Callers : pc[t] \in Returned /\ calls[t] = MaxCalls
  /\ UNCHANGED vars

WriterStep ==
  \/ Top \/ Take \/ Patience \/ Check \/ Send \/ Poll \/ SendFails
  \/ DoneWrote \/ DoneLost \/ Tear \/ Panic \/ ExitShut \/ Abandon

CallerStep(t) ==
  \/ t \in Publishers /\ PutMessage(t)
  \/ t \in Subscribers /\ PutControl(t)
  \/ t \in Flushers /\ Flushed(t)

Next ==
  \/ \E t \in Callers : Call(t) \/ Deadline(t) \/ Spurious(t) \/ CallerStep(t)
  \/ WriterStep
  \/ StopRunning \/ StopWritable \/ CloseShut
  \/ Terminated

Spec == Init /\ [][Next]_vars

\* What the code's scheduling justifies.  A thread that is not asleep runs on;
\* the mutex is free between any two steps.  WRITE_POLL bounds the patience of
\* `take`.  STALL_TIMEOUT bounds the polls that move nothing, so among
\* infinitely many sends one moves a byte or fails.  No deadline of a caller
\* is assumed to pass.
Fairness ==
  /\ \A t \in Callers : WF_vars(CallerStep(t))
  /\ WF_vars(WriterStep)
  /\ SF_vars(Send \/ SendFails)

FairSpec == Spec /\ Fairness

-----------------------------------------------------------------------------
(* Properties.                                                             *)

QueueType ==
  /\ open \in BOOLEAN
  /\ frames \in [Lane -> Seq(Frame)]
  /\ waiting \in [Lane -> Int]
  /\ in_hand \in Lane \cup {NoLane}
  /\ line \in Seq(Publishers)

SentType ==
  /\ taken \in [Lane -> Nat]
  /\ wrote \in [Lane -> Nat]
  /\ lost \in [Lane -> Nat]
  /\ wire \in [Lane -> Seq(Frame)]

CallerType ==
  /\ room \in SUBSET Callers
  /\ pc \in [Callers -> Returned \cup {"called", "asleep"}]
  /\ len \in [Callers -> Lens \cup {0}]
  /\ late \in [Callers -> BOOLEAN]
  /\ wanted \in [Callers -> [Lane -> Nat]]
  /\ calls \in [Callers -> Nat]
  /\ \A t \in Publishers \cup Subscribers :
       pc[t] \in {"called", "asleep"} => len[t] \in Lens

WriterType ==
  /\ writer \in {"top", "take", "check", "send", "wrote", "failed", "torn",
                 "exit", "abandon", "gone"}
  /\ hand \in Frame \cup {NoFrame}
  /\ rest \in Nat
  /\ filled \in BOOLEAN
  /\ running \in BOOLEAN
  /\ writable \in BOOLEAN

TypeOK == QueueType /\ SentType /\ CallerType /\ WriterType

InHand(lane) == IF in_hand = lane THEN 1 ELSE 0

\* Every frame let in is in exactly one place: written, lost, in its line, or
\* in the writer's hand.  `shut`, `done` and `abandon` run in any order on
\* three threads, and none of them counts a frame twice or forgets one.
CountedOnce ==
  \A lane \in Lane :
    taken[lane] = wrote[lane] + lost[lane]
                       + Len(frames[lane]) + InHand(lane)

\* What Stats::unsent and `flushed` may rely on: a frame counted as written is
\* on the wire, a frame the wire has in full is never counted as lost, and
\* once the writer thread is gone the two counts are exact.
UnsentExact ==
  \A lane \in Lane :
    /\ wrote[lane] <= Len(wire[lane])
    /\ lost[lane] + Len(wire[lane]) <= taken[lane]
    /\ writer = "gone" =>
         lost[lane] + Len(wire[lane]) = taken[lane]

\* A flush that gives back Ok: every frame that either line had let in when
\* the flush was called is on the wire, whatever the writer took first and
\* whoever shut the outbox meanwhile.
FlushHonest ==
  \A t \in Flushers : pc[t] = "Ok" =>
    \A lane \in Lane : wanted[t][lane] <= Len(wire[lane])

\* The bytes a line is charged are the bytes it holds, so the subtraction in
\* `take` never wraps; and the outbox holds at most its limit and two
\* messages, the one let in at the limit and the one in the writer's hand.
Bytes(queue) ==
  LET sum[i \in 0..Len(queue)] ==
        IF i = 0 THEN 0 ELSE sum[i - 1] + queue[i].len + FRAME_COST
  IN sum[Len(queue)]
ByteBudget ==
  \A lane \in Lane :
    LET longest == Max(Lens) + FRAME_COST
        held == IF in_hand = lane THEN Cost(hand) ELSE 0
    IN /\ waiting[lane] = Bytes(frames[lane])
       /\ waiting[lane] + held <= Limit[lane] + 2 * longest

\* No thread sleeps through what it waits for: a publisher in front of the
\* line with room, a subscription with room, a flush that is done or can never
\* be, the writer with a frame, and anyone after the outbox closed.
NoLostWakeup ==
  /\ \A t \in room :
       /\ open
       /\ t \in Publishers => ~(HasRoom("message") /\ Head(line) = t)
       /\ t \in Subscribers => ~HasRoom("control")
       /\ t \in Flushers => ~Reached(t) /\ ~NeverWill
  /\ filled => open /\ \A lane \in Lane : frames[lane] = <<>>

\* The line holds the publishers that wait, each once.  A ticket that outlives
\* its call would hold up every publish behind it for good.
LineIsTheWaiters ==
  /\ \A i, j \in 1..Len(line) : line[i] = line[j] => i = j
  /\ \A t \in Publishers :
       (pc[t] = "asleep") <=> (\E i \in 1..Len(line) : line[i] = t)

\* What makes the counts inductive: which frame the writer holds at each of
\* its steps, whether the kernel has all of it, and what a closed outbox holds.
HandInv ==
  /\ writer \in {"check", "send", "wrote", "failed"} =>
       hand \in Frame /\ in_hand = hand.lane
  /\ writer \in {"top", "take", "torn", "gone"} => in_hand = NoLane
  /\ writer = "wrote" => rest = 0
  /\ writer \in {"send", "failed"} => rest > 0
  /\ writer \in {"exit", "abandon"} /\ in_hand # NoLane => rest > 0
  /\ \A lane \in Lane : \A i \in 1..Len(frames[lane]) :
       frames[lane][i].lane = lane
  /\ ~open => frames = [lane \in Lane |-> <<>>]
  /\ writer \in {"abandon", "gone"} => ~open

\* The wire is one frame ahead of the count between the last byte and `done`.
Arrived ==
  \A lane \in Lane :
    Len(wire[lane]) =
      wrote[lane] + (IF in_hand = lane /\ rest = 0 THEN 1 ELSE 0)

FlushCounted ==
  \A t \in Flushers : pc[t] = "Ok" =>
    \A lane \in Lane : wanted[t][lane] <= wrote[lane]

CountInv == CountedOnce /\ HandInv /\ Arrived /\ FlushCounted

\* A new frame goes on the stream only behind a whole one: a frame begun and
\* given up is the last thing the stream carries.
NoFrameInsideAnother == [][hand' # hand => rest = 0]_vars

\* A frame is held from the put to the kernel's taking of its last byte or to
\* the count of it as lost, and nothing is sent any more once the writer leaves
\* its loop.
Begun(lane) == IF in_hand = lane /\ rest > 0 THEN <<hand>> ELSE <<>>
Held == [lane \in Lane |-> Begun(lane) \o frames[lane]]
Broken == writer \in {"torn", "exit", "abandon", "gone"}

\* The outbox implements the line of frames that its users rely on.
Promise == INSTANCE FrameLine WITH held <- Held, sent <- wire, broken <- Broken
KeepsPromise == Promise!Spec

\* Every put and every flush gives back, and no deadline is needed for it: the
\* writer either moves bytes or ends, and either one wakes the callers.
EveryCallReturns ==
  \A t \in Callers : pc[t] \in {"called", "asleep"} ~> pc[t] \in Returned

\* Every frame let in is in the end on the wire or counted as lost.
EveryFrameSettles ==
  \A lane \in Lane :
    []<>(taken[lane] = wrote[lane] + lost[lane])

\* A connection that stops takes its writer thread with it, also where nobody
\* shuts the outbox: a reader that ends only clears `running`.
WriterEnds == ~running ~> writer = "gone"

=============================================================================
