----------------------------- MODULE TcpqStream -----------------------------
(***************************************************************************)
(* The two readers of a tcpq:// connection, tcpq_reader of a client and     *)
(* peer_reader of a relay: the buffer of module ReadBuffer under the        *)
(* decoders of module TcpqWire, over a stream that the far end breaks off    *)
(* anywhere and the kernel cuts into any reads.                             *)
(***************************************************************************)
EXTENDS ReadBuffer, TcpqWire

CONSTANTS
  Frames,    \* the frames that the far end may write
  MaxFrames  \* bound: how many of them a stream holds or begins

\* What the wire can carry; only a publish frame has a payload.
ASSUME FramesAssumption ==
  /\ MaxFrames \in Nat
  /\ \A f \in Frames : /\ f \in [kind : Nat, name : Seq(Nat), payload : Seq(Nat)]
                       /\ f.kind # PUBLISH => f.payload = <<>>

\* TCPQ_FRAME_MAX and FRAME_MAX.
ASSUME FrameMaxAssumption ==
  Ceiling = HEAD + CHANNEL_READ_MAX + LENGTH + MAX_MESSAGE_LEN

VARIABLES
  reader,   \* which of the two reads
  written,  \* the frames the far end wrote, the last perhaps in part (history)
  given     \* the frames that reached the reader's own code, in order

far == <<reader, written>>
streamVars == <<vars, far, given>>

\* Where frame number `i` ends.
EndOf(frames, i) == Len(FlattenSeq([j \in 1..i |-> Cells(frames[j])]))

\* Every stream of `Stream` cells: the last frame holds the last cell.
StreamInit ==
  /\ Init
  /\ reader \in DOMAIN Reads
  /\ written \in {s \in UNION {[1..k -> Frames] : k \in 1..MaxFrames} :
                    /\ EndOf(s, Len(s)) >= Stream
                    /\ EndOf(s, Len(s) - 1) < Stream}
  /\ given = <<>>

\* The unread bytes, as a decoder sees them: `unread`.
Data ==
  LET cells == FlattenSeq([i \in DOMAIN written |-> Cells(written[i])])
  IN [i \in 1..Unread |-> cells[buffer[start + i - 1] + 1]]

Answer == decode(Data, Reads[reader])

Fill ==
  /\ FillNothing \/ \E n \in 1..Ceiling : FillBytes(n)
  /\ UNCHANGED <<far, given>>

TakeItem ==
  /\ at = "decode" /\ Answer.answer = "item"
  /\ Consume(Answer.n)
  /\ given' = Append(given, Answer.frame)
  /\ UNCHANGED far

TakeSkip ==
  /\ at = "decode" /\ Answer.answer = "skip"
  /\ Consume(Answer.n)
  /\ UNCHANGED <<far, given>>

AskForMore ==
  /\ at = "decode" /\ Answer.answer = "need"
  /\ IF Answer.n > Ceiling THEN TooLarge(Answer.n) ELSE Reserve(Answer.n)
  /\ UNCHANGED <<far, given>>

EndStream ==
  /\ at = "decode" /\ Answer.answer = "error"
  /\ Refuse
  /\ UNCHANGED <<far, given>>

StreamNext == Fill \/ TakeItem \/ TakeSkip \/ AskForMore \/ EndStream

StreamSpec == StreamInit /\ [][StreamNext]_streamVars

-----------------------------------------------------------------------------
(* Properties.                                                             *)

\* The decoders keep the contract that the buffer's theorems rest on: one that
\* needs more needs more than there is, so that a fill comes before the next
\* try, and no answer takes bytes that are not there or takes none.
DecoderKeepsContract ==
  at = "decode" =>
    /\ Answer.answer = "need" => Answer.n > Unread
    /\ Answer.answer \in {"item", "skip"} => Answer.n \in 1..Unread

\* A frame this side can find the end of.
Measured(f) ==
  /\ f.kind \in Reads[reader]
  /\ Len(f.name) <= CHANNEL_READ_MAX
  /\ f.kind = PUBLISH => Len(f.payload) <= MAX_MESSAGE_LEN

\* And one whose name an encoder here would write, or whose pattern is text.
Proper(f) ==
  /\ IsText(f.name)
  /\ f.kind = PUBLISH => check_channel(f.name, MAX_CHANNEL_LEN)

\* Those of the first n frames.
Kept(n) == FlattenSeq([i \in 1..n |-> IF Proper(written[i]) THEN <<written[i]>> ELSE <<>>])

\* What the far end wrote is what the reader gives on, whole and in order and
\* up to where the reader is: a frame it cannot use costs that frame alone,
\* and the reader stops for a frame only where it cannot tell its end, or
\* where the stream broke off inside it.
GivenAsSent ==
  \E n \in 0..Len(written) :
    /\ EndOf(written, n) = taken
    /\ \A i \in 1..n : Measured(written[i])
    /\ given = Kept(n)
    /\ at = "refused" => n < Len(written) /\ ~Measured(written[n + 1])
    /\ at = "closed" /\ n < Len(written) => EndOf(written, n + 1) > Stream
    /\ at # "too large"

=============================================================================
