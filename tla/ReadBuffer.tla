------------------------------ MODULE ReadBuffer ------------------------------
(***************************************************************************)
(* The buffer that a reader of a stream decodes out of (bus::ReadBuffer),   *)
(* under the loop that all its readers run: fill, decode until the decoder  *)
(* needs more, reserve what it needs, fill again (tcpq_reader, peer_reader, *)
(* log_reader).                                                             *)
(*                                                                         *)
(* A byte is its place in the stream, so that a byte lost, repeated or moved *)
(* can be told.  The decoder is any decoder that keeps its contract: it     *)
(* takes some of the unread bytes, or needs more than there are.            *)
(***************************************************************************)
EXTENDS Integers

CONSTANTS
  Floor,    \* the length to read into, and to come back to
  Ceiling,  \* the most the buffer will ever hold
  Stream,   \* how many bytes the far end sends before it closes
  Needs     \* the lengths a decoder can ask for

\* with_limits raises a floor of zero to one and a ceiling to the floor.
ASSUME BufferAssumption ==
  /\ Floor \in Nat \ {0}
  /\ Ceiling \in Nat /\ Ceiling >= Floor
  /\ Stream \in Nat
  /\ Needs \subseteq Nat

VARIABLES
  buffer,  \* ReadBuffer::buffer, by place
  cap,     \* its length
  start,   \* ReadBuffer::start
  end,     \* ReadBuffer::end
  wanted,  \* ReadBuffer::wanted
  taken,   \* the bytes the decoder took so far (history)
  peak,    \* the most bytes that were unread at one time (history)
  at       \* where the reader is, or why it stopped

vars == <<buffer, cap, start, end, wanted, taken, peak, at>>

\* What `vec![0; n]` and `resize` put there.
Blank == -1

Larger(a, b) == IF a > b THEN a ELSE b
Smaller(a, b) == IF a < b THEN a ELSE b

Unread == end - start

Init ==
  /\ cap = Floor
  /\ buffer = [i \in 0..(Floor - 1) |-> Blank]
  /\ start = 0 /\ end = 0 /\ wanted = 0
  /\ taken = 0 /\ peak = 0
  /\ at = "fill"

-----------------------------------------------------------------------------
(* make_room, where `want` is ReadBuffer::wanted.                          *)

\* Mutant of Moves: the unread bytes stay where they are.
NeverMoves == FALSE

\* The unread bytes move down to the start of the buffer.
Moves == start # end /\ (start * 2 >= cap \/ end = cap)

RoomStart == IF start = end \/ Moves THEN 0 ELSE start
RoomEnd == RoomStart + Unread

\* Mutant of Keep: an empty buffer stays as long as it is.
KeepAll(want) == cap

\* The length an empty buffer keeps.
Keep(want) == Smaller(cap, Larger(Floor, want))

\* Mutant of Grown: a buffer doubles past its ceiling.
GrownFreely == IF RoomEnd = cap THEN cap * 2 ELSE cap

\* A full buffer doubles, up to its ceiling.
Grown == IF RoomEnd = cap THEN Larger(cap, Smaller(cap * 2, Ceiling)) ELSE cap

RoomCap(want) == IF start = end THEN Keep(want) ELSE Grown

\* Mutant of Room: the indexes move and the bytes do not.
RoomUnmoved(i) == IF i < cap THEN buffer[i] ELSE Blank

\* The byte at one place of it.
Room(i) ==
  IF Moves /\ i < Unread THEN buffer[start + i]
  ELSE IF i < cap THEN buffer[i] ELSE Blank

-----------------------------------------------------------------------------
(* fill_from: the spare part, one read, and `filled`.                      *)

Spare == RoomCap(wanted) - RoomEnd

\* The read gives `n` bytes, the next ones of the stream.
FillBytes(n) ==
  /\ at = "fill" /\ n \in 1..Spare
  /\ taken + Unread + n <= Stream
  /\ cap' = RoomCap(wanted)
  /\ buffer' = [i \in 0..(RoomCap(wanted) - 1) |->
                  IF i \in RoomEnd..(RoomEnd + n - 1)
                  THEN taken + Unread + (i - RoomEnd) ELSE Room(i)]
  /\ start' = RoomStart
  /\ end' = RoomEnd + n
  /\ peak' = Larger(peak, Unread + n)
  /\ at' = "decode"
  /\ UNCHANGED <<wanted, taken>>

\* How a fill that brings no bytes ends.  With no spare part it is an error,
\* OutOfMemory, and no read; else the read's time is up, or the stream is over.
NoBytes ==
  IF Spare <= 0 THEN {"full"}
  ELSE {"fill"} \cup (IF taken + Unread = Stream THEN {"closed"} ELSE {})

FillNothing ==
  /\ at = "fill"
  /\ cap' = RoomCap(wanted)
  /\ buffer' = [i \in 0..(RoomCap(wanted) - 1) |-> Room(i)]
  /\ start' = RoomStart
  /\ end' = RoomEnd
  /\ at' \in NoBytes
  /\ UNCHANGED <<wanted, taken, peak>>

-----------------------------------------------------------------------------
(* What the reader does with the decoder's answer.                         *)

\* Item or Skip: the decoder took `n` bytes.
Consume(n) ==
  /\ at = "decode" /\ n \in 1..Unread
  /\ start' = start + n
  /\ taken' = taken + n
  /\ wanted' = 0
  /\ UNCHANGED <<buffer, cap, end, peak, at>>

\* Mutant of Reserve: room is taken for what a peer claims.
ReserveNow(n) ==
  /\ at = "decode" /\ n > Unread
  /\ n <= Ceiling
  /\ wanted' = n
  /\ cap' = Larger(RoomCap(n), n)
  /\ buffer' = [i \in 0..(cap' - 1) |-> Room(i)]
  /\ start' = RoomStart /\ end' = RoomEnd
  /\ at' = "fill"
  /\ UNCHANGED <<taken, peak>>

\* Need: `reserve` agrees.
Reserve(n) ==
  /\ at = "decode" /\ n > Unread
  /\ n <= Ceiling
  /\ wanted' = n
  /\ cap' = RoomCap(n)
  /\ buffer' = [i \in 0..(RoomCap(n) - 1) |-> Room(i)]
  /\ start' = RoomStart /\ end' = RoomEnd
  /\ at' = "fill"
  /\ UNCHANGED <<taken, peak>>

\* Need: `reserve` says no, and the reader ends the stream.
TooLarge(n) ==
  /\ at = "decode" /\ n > Unread
  /\ n > Ceiling
  /\ at' = "too large"
  /\ UNCHANGED <<buffer, cap, start, end, wanted, taken, peak>>

\* Err: a stream with no way to find its next frame ends here.  A log reader
\* does not stop; it takes bytes up to the next sync word, a Consume.
Refuse ==
  /\ at = "decode"
  /\ at' = "refused"
  /\ UNCHANGED <<buffer, cap, start, end, wanted, taken, peak>>

Next ==
  \/ \E n \in 1..Ceiling : FillBytes(n)
  \/ FillNothing
  \/ \E n \in 1..Ceiling : Consume(n)
  \/ \E n \in Needs : Reserve(n) \/ TooLarge(n)
  \/ Refuse

Spec == Init /\ [][Next]_vars

-----------------------------------------------------------------------------
(* Properties.                                                             *)

TypeOK ==
  /\ cap \in Nat /\ 1 <= cap /\ cap <= Ceiling
  /\ buffer \in [0..(cap - 1) -> Int]
  /\ start \in Nat /\ end \in Nat /\ start <= end /\ end <= cap
  /\ wanted \in Nat /\ wanted <= Ceiling
  /\ taken \in Nat /\ taken <= Stream
  /\ peak \in Nat /\ peak <= Ceiling
  /\ at \in {"fill", "decode", "closed", "full", "too large", "refused"}

\* The decoder reads the stream: the unread bytes are the next ones, each one
\* once and in order, however reads are cut and wherever the buffer moved.
UnreadIsNext == \A i \in start..(end - 1) : buffer[i] = taken + (i - start)

\* A buffer is never full for a frame it agreed to hold: fill_from does not
\* end a stream whose decoder asked for no more than the ceiling.
NeverFull == at # "full"

\* "Room is bought by what arrives": a length that a peer claims and does not
\* send makes the buffer no longer.
RoomIsBought == cap <= Larger(Floor, 2 * peak)

\* "A buffer that one large frame grew goes back to its floor when it
\* empties", before the reader waits for more.
GoesBack == at = "fill" /\ start = end => cap <= Larger(Floor, wanted)

=============================================================================
