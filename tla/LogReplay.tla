------------------------------ MODULE LogReplay ------------------------------
(***************************************************************************)
(* A log that is replayed: seek_before and log_reader, over what the        *)
(* sessions of module LogWriter left in the file.                           *)
(*                                                                         *)
(* The reader's buffer is the cells from `pos` to `have`, which is what     *)
(* module ReadBuffer shows of it: LOG_EVENT_MAX is the most that decode     *)
(* asks for, so `reserve` never says no.  Pace holds a delivery back and    *)
(* changes none; a subscription drops some, and is left out.                *)
(***************************************************************************)
EXTENDS LogWriter

CONSTANT Starts  \* the start times a replay may be given, NoTime for none

VARIABLES
  reader,  \* "off", "walk", "read", or why it stopped
  start,   \* start_timestamp
  at,      \* seek_before: where the walk is
  from,    \* and where the reader is to start
  pos,     \* the cells the decoder took
  have,    \* the cells that were read
  given    \* the events that reached the handler, in order

readerVars == <<reader, start, at, from, pos, have, given>>
vars == <<writerVars, readerVars>>

Init ==
  /\ WriterInit
  /\ reader = "off" /\ start = NoTime
  /\ at = 0 /\ from = 0 /\ pos = 0 /\ have = 0 /\ given = <<>>

\* No session comes after a replay, so what only a session looks at is put back.
Replay ==
  /\ session = "none" /\ opened > 0 /\ reader = "off"
  /\ start' \in Starts
  /\ reader' = IF start' = NoTime THEN "read" ELSE "walk"
  /\ clock' = 0 /\ opened' = 0 /\ published' = 0
  /\ UNCHANGED <<at, from, pos, have, given>>
  /\ UNCHANGED <<disk, events, writable, job, session, past, taken, saved>>

-----------------------------------------------------------------------------
(* seek_before: one head of the walk.                                      *)

PeekedHead == SubSeq(file, at + 1, at + HEADER_LEN)

\* The walk ends, and the reader starts.
ReadFrom(place) ==
  /\ reader' = "read"
  /\ pos' = place /\ have' = place
  /\ at' = 0 /\ from' = 0

\* Mutant of Reached: the walk goes on over the first event at the start time.
ReachedLate(time) == time > start

Reached(time) == time >= start

\* It goes to the last head that read, and not to where a step went.
Walk ==
  /\ reader = "walk"
  /\ IF at + HEADER_LEN > Len(file) \/ ~HeadReads(PeekedHead)
     THEN ReadFrom(from)
     ELSE IF Reached(PeekedHead[4])
     THEN ReadFrom(at)
     ELSE /\ from' = at /\ at' = at + EventLen(PeekedHead)
          /\ UNCHANGED <<reader, pos, have>>
  /\ UNCHANGED <<start, given>>

-----------------------------------------------------------------------------
(* log_reader: one turn of its loop.                                       *)

Data == SubSeq(file, pos + 1, have)

\* The filter behind the walk, which may stop short.
Wanted(event) == start = NoTime \/ event.timestamp >= start

\* The reader ends, and its positions with it.
Stops(why) ==
  /\ reader' = why
  /\ at' = 0 /\ from' = 0 /\ pos' = 0 /\ have' = 0
  /\ UNCHANGED <<start, given>>

TakeItem(answer) ==
  /\ answer.answer = "item"
  /\ pos' = pos + answer.n
  /\ given' = IF Wanted(answer.event) THEN Append(given, answer.event) ELSE given
  /\ UNCHANGED <<reader, start, at, from, have>>

TakeSkip(answer) ==
  /\ answer.answer = "skip"
  /\ pos' = pos + answer.n
  /\ UNCHANGED <<reader, start, at, from, have, given>>

SlideOn(answer) ==
  /\ answer.answer = "error"
  /\ pos' = pos + Slide(Data)
  /\ UNCHANGED <<reader, start, at, from, have, given>>

Fill(answer) ==
  /\ answer.answer = "need"
  /\ \/ /\ \E n \in (have + 1)..Len(file) : have' = n
        /\ UNCHANGED <<reader, start, at, from, pos, given>>
     \/ /\ have = Len(file)
        /\ Stops(IF pos = have THEN "end of log" ELSE "torn log")

\* close, which the walk, the loop and a wait look for, or a read that fails.
StopReplay ==
  /\ reader \in {"walk", "read"}
  /\ Stops("stopped")

log_reader ==
  /\ reader = "read"
  /\ LET answer == decode(Data)
     IN TakeItem(answer) \/ TakeSkip(answer) \/ SlideOn(answer) \/ Fill(answer)

ReadStep == Walk \/ log_reader

Next ==
  \/ WriterNext /\ reader = "off" /\ UNCHANGED readerVars
  \/ Replay
  \/ (ReadStep \/ StopReplay) /\ UNCHANGED writerVars

Spec == Init /\ [][Next]_vars

\* The reader thread runs on, and reads of a file end.
FairSpec == Spec /\ WF_vars(ReadStep /\ UNCHANGED writerVars)

-----------------------------------------------------------------------------
(* Properties.                                                             *)

\* What the sessions left in front of the first tear.
FirstTear == SelectInSeq(history, LAMBDA e : e = Tear)
Whole == SubSeq(history, 1, IF FirstTear = 0 THEN Len(history) ELSE FirstTear - 1)

\* The events of `some` that a replay from `start` owes.
Owed(some) == FlattenSeq([i \in DOMAIN some |-> IF Wanted(some[i]) THEN <<some[i]>> ELSE <<>>])

\* A log with no tear, or with one that nothing was appended to: each whole event
\* once and in order, and the end says whether the log was torn.
AllIsGiven ==
  FirstTear \in {0, Len(history)} =>
    /\ IsPrefix(given, Owed(Whole))
    /\ reader \in {"end of log", "torn log"} => given = Owed(Whole)
    /\ reader = "end of log" => FirstTear = 0
    /\ reader = "torn log" => FirstTear # 0

\* The events that a tear cannot take with it, whatever was appended to it: all
\* that were in front of it where a sync word is left of the torn event, and else
\* all but the one that touches it.
Safe ==
  LET behind == SubSeq(file, Len(Cells(Whole)) + 1, Len(file))
  IN SubSeq(history, 1, IF IsPrefix(MAGIC, behind) THEN Len(Whole) ELSE Len(Whole) - 1)

\* A log that was torn, and appended to or not.
InFrontIsGiven ==
  FirstTear > 1 =>
    /\ IsPrefix(given, Owed(Safe)) \/ IsPrefix(Owed(Safe), given)
    /\ reader \in {"end of log", "torn log"} => IsPrefix(Owed(Safe), given)

\* A replay gives the log back as it was written: each event with its own
\* number, time and payload, whatever the reads cut and whatever bytes the
\* payloads hold; a start time takes away the earlier events and no other; and
\* a process that ended in the middle of an event costs none of the events in
\* front of it, whatever was appended since, but for the last of them where less
\* than a sync word was left of the torn event.
GivenAsWritten == reader # "off" => AllIsGiven /\ InFrontIsGiven

\* A reader that started ends, whatever is in the file.
ReplayEnds == reader \in {"walk", "read"} ~> reader \notin {"walk", "read"}

=============================================================================
