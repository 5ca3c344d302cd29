-------------------------- MODULE TcpqStreamProofs --------------------------
(***************************************************************************)
(* For every floor, ceiling, stream and decoder: the properties of module   *)
(* ReadBuffer.  For every limit, buffer and stream of frames: those of      *)
(* module TcpqStream, and those of the buffer under its decoders.           *)
(*                                                                         *)
(* Those of the buffer hold together by one inductive invariant.             *)
(* UnreadIsNext, GoesBack and the type carry themselves.  NeverFull needs to *)
(* know that a reader that fills is owed more than it has (OwedMore),        *)
(* RoomIsBought that `peak` is a peak (PeakIsOne), and the type that no more *)
(* was read than sent.                                                      *)
(***************************************************************************)
EXTENDS TcpqStream, SequenceLemmas

-----------------------------------------------------------------------------
(* The read buffer.                                                        *)

OwedMore == at = "fill" => start = end \/ Unread < wanted

PeakIsOne == Unread <= peak

\* The reader has read no more than the far end sent.
ReadSoFar == taken + Unread <= Stream

BufferInv ==
  /\ TypeOK /\ UnreadIsNext /\ NeverFull /\ RoomIsBought /\ GoesBack
  /\ OwedMore /\ PeakIsOne /\ ReadSoFar

-----------------------------------------------------------------------------
(* What make_room does.                                                    *)

\* The indexes after make_room: the unread bytes are as many as before and
\* within the buffer, which keeps to its ceiling and grows only when they fill
\* it.
LEMMA RoomIndexes ==
  ASSUME TypeOK, NEW want \in 0..Ceiling
  PROVE  /\ RoomStart \in Nat /\ RoomEnd \in Nat
         /\ RoomEnd = RoomStart + Unread
         /\ RoomCap(want) \in 1..Ceiling
         /\ RoomEnd <= RoomCap(want)
         /\ start = end => RoomCap(want) <= Larger(Floor, want) /\ RoomCap(want) <= cap
         /\ start # end => RoomCap(want) <= cap \/ RoomCap(want) <= 2 * Unread
         /\ start = end \/ Unread < Ceiling => RoomEnd < RoomCap(want)
         /\ RoomStart = start \/ RoomStart = 0
<1>a. Ceiling \in Nat /\ Floor \in Nat /\ Floor >= 1 /\ Ceiling >= Floor
  BY BufferAssumption
<1>b. /\ start \in Nat /\ end \in Nat /\ cap \in Nat /\ cap >= 1 /\ cap <= Ceiling
      /\ start <= end /\ end <= cap
  BY <1>a DEF TypeOK
<1>1. /\ start \in Nat /\ end \in Nat /\ cap \in Nat /\ cap >= 1 /\ cap <= Ceiling
      /\ start <= end /\ end <= cap /\ want \in Nat
      /\ Ceiling \in Nat /\ Floor \in Nat /\ Floor >= 1 /\ Ceiling >= Floor
      /\ Unread = end - start
  BY <1>a, <1>b DEF Unread
<1>2. CASE start = end
  <2>1. RoomStart = 0 /\ RoomEnd = 0 /\ RoomCap(want) = Smaller(cap, Larger(Floor, want))
    BY <1>1, <1>2 DEF RoomStart, RoomEnd, RoomCap, Keep
  <2> QED BY <1>1, <1>2, <2>1 DEF Smaller, Larger
<1>3. CASE start # end /\ Moves
  <2>1. RoomStart = 0 /\ RoomEnd = end - start /\ RoomCap(want) = Grown
    BY <1>1, <1>3 DEF RoomStart, RoomEnd, RoomCap
  <2>2. CASE end - start = cap
    <3>1. RoomCap(want) = Larger(cap, Smaller(cap * 2, Ceiling))
      BY <2>1, <2>2 DEF Grown
    <3> QED BY <1>1, <1>3, <2>1, <2>2, <3>1 DEF Smaller, Larger
  <2>3. CASE end - start # cap
    <3>1. RoomCap(want) = cap
      BY <2>1, <2>3 DEF Grown
    <3> QED BY <1>1, <1>3, <2>1, <2>3, <3>1
  <2> QED BY <2>2, <2>3
<1>4. CASE start # end /\ ~Moves
  <2>1. RoomStart = start /\ RoomEnd = end /\ RoomCap(want) = cap /\ end < cap
    BY <1>1, <1>4 DEF RoomStart, RoomEnd, RoomCap, Moves, Grown
  <2> QED BY <1>1, <1>4, <2>1
<1> QED BY <1>2, <1>3, <1>4

\* The bytes after make_room: the unread ones, in order, from the new start.
LEMMA RoomBytes ==
  ASSUME TypeOK
  PROVE  /\ \A i \in Nat : Room(i) \in Int
         /\ \A i \in 0..(Unread - 1) : Room(RoomStart + i) = buffer[start + i]
<1>a. start \in Nat /\ end \in Nat /\ cap \in Nat /\ start <= end /\ end <= cap
  BY DEF TypeOK
<1>b. buffer \in [0..(cap - 1) -> Int]
  BY DEF TypeOK
<1>1. /\ start \in Nat /\ end \in Nat /\ cap \in Nat /\ start <= end /\ end <= cap
      /\ \A i \in Nat : i < cap => buffer[i] \in Int
  BY <1>a, <1>b
<1>2. ASSUME NEW i \in Nat PROVE Room(i) \in Int
  <2>1. CASE Moves /\ i < Unread
    BY <1>1, <2>1 DEF Room, Unread
  <2>2. CASE ~(Moves /\ i < Unread)
    BY <1>1, <2>2 DEF Room, Blank
  <2> QED BY <2>1, <2>2
<1>3. ASSUME NEW i \in 0..(Unread - 1) PROVE Room(RoomStart + i) = buffer[start + i]
  <2>1. start # end /\ i \in Nat /\ i < Unread /\ start + i < cap
    BY <1>1, <1>3 DEF Unread
  <2>2. CASE Moves
    BY <2>1, <2>2 DEF Room, RoomStart
  <2>3. CASE ~Moves
    BY <1>1, <2>1, <2>3 DEF Room, RoomStart
  <2> QED BY <2>2, <2>3
<1> QED BY <1>2, <1>3

\* What the arithmetic below needs of the type.
Sizes ==
  /\ start \in Nat /\ end \in Nat /\ cap \in Nat /\ Unread \in Nat
  /\ Unread = end - start /\ Unread <= peak
  /\ taken \in Nat /\ peak \in Nat /\ peak <= Ceiling /\ taken <= Stream
  /\ Ceiling \in Nat /\ Floor \in Nat /\ Stream \in Nat

\* And it is there.
LEMMA SizesHold == ASSUME TypeOK, PeakIsOne PROVE Sizes
<1>1. /\ start \in Nat /\ end \in Nat /\ cap \in Nat /\ start <= end
      /\ taken \in Nat /\ peak \in Nat /\ peak <= Ceiling /\ taken <= Stream
      /\ Ceiling \in Nat /\ Floor \in Nat /\ Stream \in Nat
  BY BufferAssumption DEF TypeOK
<1> QED BY <1>1 DEF Sizes, Unread, PeakIsOne

-----------------------------------------------------------------------------
\* Module ReadBuffer starts in its inductive invariant.
LEMMA InitInv == Init => BufferInv
BY BufferAssumption
   DEF Init, BufferInv, TypeOK, UnreadIsNext, NeverFull, RoomIsBought, GoesBack, OwedMore,
       PeakIsOne, ReadSoFar, Unread, Larger, Blank

\* A fill that brings bytes appends the next ones behind the unread ones.
LEMMA FillBytesInv == ASSUME BufferInv, NEW n \in 1..Ceiling, FillBytes(n) PROVE BufferInv'
<1>0. TypeOK BY DEF BufferInv
<1>a. wanted \in Nat /\ wanted <= Ceiling BY <1>0 DEF TypeOK
<1>1. TypeOK /\ wanted \in 0..Ceiling BY <1>0, <1>a, BufferAssumption
<1> DEFINE newCap == RoomCap(wanted)
<1>2. /\ RoomStart \in Nat /\ RoomEnd \in Nat /\ RoomEnd = RoomStart + Unread
      /\ newCap \in 1..Ceiling /\ RoomEnd <= newCap
      /\ start = end => newCap <= cap
      /\ start # end => newCap <= cap \/ newCap <= 2 * Unread
  BY <1>1, RoomIndexes
<1>3. /\ \A i \in Nat : Room(i) \in Int
      /\ \A i \in 0..(Unread - 1) : Room(RoomStart + i) = buffer[start + i]
  BY <1>1, RoomBytes
<1>4. /\ n \in Nat /\ n >= 1 /\ n <= newCap - RoomEnd
      /\ taken + Unread + n <= Stream
      /\ cap' = newCap /\ start' = RoomStart /\ end' = RoomEnd + n
      /\ wanted' = wanted /\ taken' = taken /\ at' = "decode"
      /\ peak' = Larger(peak, Unread + n)
  BY <1>2 DEF FillBytes, Spare
<1>5. buffer' = [i \in 0..(newCap - 1) |->
                   IF i \in RoomEnd..(RoomEnd + n - 1)
                   THEN taken + Unread + (i - RoomEnd) ELSE Room(i)]
  BY DEF FillBytes
<1>6. Sizes
  BY <1>1, SizesHold DEF BufferInv
<1> USE DEF Sizes
<1> HIDE DEF newCap
<1>7. TypeOK'
  <2>1. buffer' \in [0..(cap' - 1) -> Int]
    BY <1>2, <1>3, <1>4, <1>5, <1>6
  <2>2. peak' \in Nat /\ peak' <= Ceiling
    BY <1>2, <1>4, <1>6 DEF Larger
  <2>3. /\ cap' \in Nat /\ 1 <= cap' /\ cap' <= Ceiling
        /\ start' \in Nat /\ end' \in Nat /\ start' <= end' /\ end' <= cap'
    BY <1>2, <1>4, <1>6
  <2>4. /\ wanted' \in Nat /\ wanted' <= Ceiling /\ taken' \in Nat /\ taken' <= Stream
        /\ at' = "decode"
    BY <1>1, <1>4, <1>6
  <2> QED BY <2>1, <2>2, <2>3, <2>4 DEF TypeOK
<1>8. UnreadIsNext'
  <2> SUFFICES ASSUME NEW i \in start'..(end' - 1)
               PROVE  buffer'[i] = taken' + (i - start')
    BY DEF UnreadIsNext
  <2>0. i \in 0..(newCap - 1) /\ i \in Nat /\ i >= RoomStart
    BY <1>2, <1>4, <1>6
  <2>1. CASE i >= RoomEnd
    <3>1. buffer'[i] = taken + Unread + (i - RoomEnd)
      BY <1>2, <1>4, <1>5, <1>6, <2>0, <2>1
    <3> QED BY <1>2, <1>4, <1>6, <2>0, <3>1
  <2>2. CASE i < RoomEnd
    <3>1. buffer'[i] = Room(i)
      BY <1>2, <1>4, <1>5, <2>0, <2>2
    <3> DEFINE k == i - RoomStart
    <3>2. k \in 0..(Unread - 1) /\ i = RoomStart + k
      BY <1>2, <1>6, <2>0, <2>2
    <3> HIDE DEF k
    <3>3. Room(i) = buffer[start + k]
      BY <1>3, <3>2
    <3>4. start + k \in start..(end - 1)
      BY <1>6, <3>2
    <3>5. buffer[start + k] = taken + ((start + k) - start)
      BY <3>4 DEF BufferInv, UnreadIsNext
    <3>6. buffer'[i] = taken + k
      BY <1>6, <3>1, <3>2, <3>3, <3>5
    <3>7. k = i - RoomStart
      BY <1>2, <2>0, <3>2
    <3> QED BY <1>4, <3>6, <3>7
  <2> QED BY <1>2, <2>0, <2>1, <2>2
<1>9. RoomIsBought' /\ PeakIsOne'
  <2>1. cap <= Larger(Floor, 2 * peak) BY DEF BufferInv, RoomIsBought
  <2>2. Unread' = Unread + n BY <1>2, <1>4, <1>6 DEF Unread
  <2>3. peak' \in Nat /\ peak' >= peak /\ peak' >= Unread + n
    BY <1>4, <1>6 DEF Larger
  <2>4. CASE newCap <= cap
    BY <1>2, <1>4, <1>6, <2>1, <2>2, <2>3, <2>4 DEF Larger, RoomIsBought, PeakIsOne
  <2>5. CASE newCap <= 2 * Unread
    BY <1>2, <1>4, <1>6, <2>2, <2>3, <2>5 DEF Larger, RoomIsBought, PeakIsOne
  <2> QED BY <1>2, <2>4, <2>5
<1>10. NeverFull' /\ GoesBack' /\ OwedMore'
  BY <1>4 DEF NeverFull, GoesBack, OwedMore
<1>11. ReadSoFar'
  BY <1>2, <1>4, <1>6 DEF ReadSoFar, Unread
<1> QED BY <1>7, <1>8, <1>9, <1>10, <1>11 DEF BufferInv

\* Room is made and no byte comes: the unread bytes are where make_room put
\* them.  Both a fill that brings none and `reserve` do that.
LEMMA RoomOnlyInv ==
  ASSUME BufferInv, NEW want \in 0..Ceiling,
         cap' = RoomCap(want),
         buffer' = [i \in 0..(RoomCap(want) - 1) |-> Room(i)],
         start' = RoomStart, end' = RoomEnd,
         wanted' = want, taken' = taken, peak' = peak,
         at' \in {"fill", "closed"},
         start = end \/ Unread < want \/ at' # "fill"
  PROVE  BufferInv'
<1>1. TypeOK BY DEF BufferInv
<1> DEFINE newCap == RoomCap(want)
<1>2. /\ RoomStart \in Nat /\ RoomEnd \in Nat /\ RoomEnd = RoomStart + Unread
      /\ newCap \in 1..Ceiling /\ RoomEnd <= newCap
      /\ start = end => newCap <= cap /\ newCap <= Larger(Floor, want)
      /\ start # end => newCap <= cap \/ newCap <= 2 * Unread
  BY <1>1, RoomIndexes
<1>3. /\ \A i \in Nat : Room(i) \in Int
      /\ \A i \in 0..(Unread - 1) : Room(RoomStart + i) = buffer[start + i]
  BY <1>1, RoomBytes
<1>4. cap' = newCap /\ buffer' = [i \in 0..(newCap - 1) |-> Room(i)]
  OBVIOUS
<1>6. Sizes
  BY <1>1, SizesHold DEF BufferInv
<1> USE DEF Sizes
<1> HIDE DEF newCap
<1>7. TypeOK'
  <2>1. buffer' \in [0..(cap' - 1) -> Int]
    BY <1>2, <1>3, <1>4
  <2>2. /\ cap' \in Nat /\ 1 <= cap' /\ cap' <= Ceiling
        /\ start' \in Nat /\ end' \in Nat /\ start' <= end' /\ end' <= cap'
    BY <1>2, <1>4, <1>6
  <2>3. /\ wanted' \in Nat /\ wanted' <= Ceiling /\ taken' \in Nat /\ taken' <= Stream
        /\ peak' \in Nat /\ peak' <= Ceiling
    BY <1>6
  <2> QED BY <2>1, <2>2, <2>3 DEF TypeOK
<1>8. UnreadIsNext'
  <2> SUFFICES ASSUME NEW i \in start'..(end' - 1)
               PROVE  buffer'[i] = taken' + (i - start')
    BY DEF UnreadIsNext
  <2> DEFINE k == i - RoomStart
  <2>1. i \in 0..(newCap - 1) /\ i \in Nat /\ k \in 0..(Unread - 1) /\ i = RoomStart + k
    BY <1>2, <1>6
  <2> HIDE DEF k
  <2>2. buffer'[i] = buffer[start + k]
    BY <1>3, <1>4, <2>1
  <2>3. start + k \in start..(end - 1)
    BY <1>6, <2>1
  <2>4. buffer[start + k] = taken + ((start + k) - start)
    BY <2>3 DEF BufferInv, UnreadIsNext
  <2> QED BY <1>2, <1>6, <2>1, <2>2, <2>4
<1>9. RoomIsBought' /\ PeakIsOne'
  <2>1. cap <= Larger(Floor, 2 * peak) BY DEF BufferInv, RoomIsBought
  <2>2. Unread' = Unread BY <1>2, <1>6 DEF Unread
  <2> QED BY <1>2, <1>4, <1>6, <2>1, <2>2 DEF Larger, RoomIsBought, PeakIsOne
<1>10. NeverFull' /\ OwedMore'
  <2>1. Unread' = Unread /\ (start' = end' <=> start = end)
    BY <1>2, <1>6 DEF Unread
  <2> QED BY <2>1 DEF NeverFull, OwedMore
<1>11. GoesBack'
  BY <1>2, <1>4, <1>6 DEF GoesBack
<1>12. ReadSoFar'
  <2>1. Unread' = Unread BY <1>2, <1>6 DEF Unread
  <2> QED BY <2>1 DEF BufferInv, ReadSoFar
<1> QED BY <1>7, <1>8, <1>9, <1>10, <1>11, <1>12 DEF BufferInv

\* A reader that fills has a spare part to read into.
LEMMA SpareIsLeft == ASSUME BufferInv, at = "fill" PROVE Spare \in Nat /\ Spare > 0
<1>1. TypeOK /\ wanted \in 0..Ceiling /\ (start = end \/ Unread < wanted)
  BY BufferAssumption DEF BufferInv, TypeOK, OwedMore
<1>2. start = end \/ Unread < Ceiling
  BY <1>1, BufferAssumption DEF TypeOK, Unread
<1>3. RoomEnd \in Nat /\ RoomCap(wanted) \in 1..Ceiling /\ RoomEnd < RoomCap(wanted)
  BY <1>1, <1>2, RoomIndexes
<1> QED BY <1>3, BufferAssumption DEF Spare

\* Taking bytes out leaves the rest in order.
LEMMA ConsumeInv == ASSUME BufferInv, NEW n \in 1..Ceiling, Consume(n) PROVE BufferInv'
<1>1. /\ TypeOK /\ n \in 1..(end - start) /\ start' = start + n /\ taken' = taken + n
      /\ wanted' = 0 /\ buffer' = buffer /\ cap' = cap /\ end' = end /\ peak' = peak
      /\ at' = at /\ at = "decode" /\ end - start <= peak
  BY DEF BufferInv, Consume, Unread, PeakIsOne
<1>2. /\ start \in Nat /\ end \in Nat /\ cap \in Nat /\ end <= cap /\ taken \in Nat
      /\ peak \in Nat /\ Ceiling \in Nat /\ Stream \in Nat
  BY <1>1, BufferAssumption DEF TypeOK
<1>3. taken' <= Stream
  BY <1>1, <1>2, BufferAssumption DEF BufferInv, ReadSoFar, Unread
<1> QED
  BY <1>1, <1>2, <1>3
     DEF BufferInv, TypeOK, UnreadIsNext, NeverFull, RoomIsBought, GoesBack, OwedMore,
         PeakIsOne, ReadSoFar, Unread

\* Asking for room that is agreed to keeps it, whatever the decoder asks for.
LEMMA ReserveInv == ASSUME BufferInv, NEW n \in Nat, Reserve(n) PROVE BufferInv'
<1>1. n \in 0..Ceiling /\ Unread < n
  BY BufferAssumption DEF Reserve, BufferInv, TypeOK, Unread
<1> QED BY <1>1, RoomOnlyInv DEF Reserve

\* A fill that brings nothing keeps it, and there was room for more.
LEMMA FillNothingInv ==
  ASSUME BufferInv, FillNothing
  PROVE  BufferInv' /\ (at' = "fill" \/ (at' = "closed" /\ taken + Unread = Stream))
<1>1. Spare \in Nat /\ Spare > 0
  BY SpareIsLeft DEF FillNothing
<1>2. at' = "fill" \/ (at' = "closed" /\ taken + Unread = Stream)
  BY <1>1 DEF FillNothing, NoBytes
<1>3. wanted \in 0..Ceiling /\ (start = end \/ Unread < wanted)
  BY BufferAssumption DEF BufferInv, TypeOK, OwedMore, FillNothing
<1> QED BY <1>2, <1>3, RoomOnlyInv DEF FillNothing

\* A reader that ends the stream itself leaves the buffer as it is.
LEMMA RefuseInv == ASSUME BufferInv, Refuse PROVE BufferInv'
BY DEF Refuse, BufferInv, TypeOK, UnreadIsNext, NeverFull, RoomIsBought, GoesBack, OwedMore,
       PeakIsOne, ReadSoFar, Unread

\* Every step of a reader keeps the invariant.
LEMMA NextInv == BufferInv /\ [Next]_vars => BufferInv'
<1> SUFFICES ASSUME BufferInv, [Next]_vars PROVE BufferInv'
  OBVIOUS
<1>1. CASE \E n \in 1..Ceiling : FillBytes(n)
  BY <1>1, FillBytesInv
<1>2. CASE FillNothing
  BY <1>2, FillNothingInv
<1>3. CASE \E n \in 1..Ceiling : Consume(n)
  BY <1>3, ConsumeInv
<1>4. CASE \E n \in Needs : Reserve(n)
  BY <1>4, ReserveInv, BufferAssumption
<1>5. CASE \E n \in Needs : TooLarge(n)
  BY <1>5
     DEF TooLarge, BufferInv, TypeOK, UnreadIsNext, NeverFull, RoomIsBought, GoesBack,
         OwedMore, PeakIsOne, ReadSoFar, Unread
<1>6. CASE Refuse
  BY <1>6, RefuseInv
<1>7. CASE UNCHANGED vars
  BY <1>7
     DEF vars, BufferInv, TypeOK, UnreadIsNext, NeverFull, RoomIsBought, GoesBack,
         OwedMore, PeakIsOne, ReadSoFar, Unread
<1> QED BY <1>1, <1>2, <1>3, <1>4, <1>5, <1>6, <1>7 DEF Next

\* The invariant holds of every reader.
THEOREM BufferCorrect == Spec => []BufferInv
BY InitInv, NextInv, PTL DEF Spec

\* The indexes, the length and the history variables of the buffer keep their
\* types and its ceiling.
THEOREM TypeCorrect == Spec => []TypeOK
<1>1. BufferInv => TypeOK BY DEF BufferInv
<1> QED BY <1>1, BufferCorrect, PTL

\* Whatever the reads bring, the decoder sees the stream: no byte lost, twice
\* or out of place when make_room moves the unread bytes or the buffer grows.
THEOREM UnreadIsNextHolds == Spec => []UnreadIsNext
<1>1. BufferInv => UnreadIsNext BY DEF BufferInv
<1> QED BY <1>1, BufferCorrect, PTL

\* fill_from never ends a stream with OutOfMemory: a reader that asked for what
\* its decoder needs, and was not refused, always has a spare part.
THEOREM NeverFullHolds == Spec => []NeverFull
<1>1. BufferInv => NeverFull BY DEF BufferInv
<1> QED BY <1>1, BufferCorrect, PTL

\* The length of the buffer is bounded by what arrived and not by what a peer
\* claimed in a `reserve`.
THEOREM RoomIsBoughtHolds == Spec => []RoomIsBought
<1>1. BufferInv => RoomIsBought BY DEF BufferInv
<1> QED BY <1>1, BufferCorrect, PTL

\* An empty buffer that waits for more is back at its floor, or at what the
\* decoder asked for.
THEOREM GoesBackHolds == Spec => []GoesBack
<1>1. BufferInv => GoesBack BY DEF BufferInv
<1> QED BY <1>1, BufferCorrect, PTL

-----------------------------------------------------------------------------
(* The frames and their bytes.                                             *)

\* A frame of the wire.
WireFrame == [kind : Nat, name : Seq(Nat), payload : Seq(Nat)]

Limits ==
  /\ MAX_CHANNEL_LEN \in Nat /\ CHANNEL_READ_MAX \in Nat /\ MAX_MESSAGE_LEN \in Nat
  /\ Ceiling = 3 + CHANNEL_READ_MAX + MAX_MESSAGE_LEN

\* What the wire's own constants come to.
LEMMA LimitsHold == Limits
BY WireAssumption, FrameMaxAssumption DEF Limits, HEAD, LENGTH

-----------------------------------------------------------------------------
(* The frames.                                                             *)

\* The cells of a frame, place by place.
LEMMA CellsAre ==
  ASSUME NEW f \in WireFrame
  PROVE  LET n == Len(f.name)
             p == Len(f.payload)
         IN  /\ Cells(f) \in Seq(Nat) /\ n \in Nat /\ p \in Nat
             /\ Len(Cells(f)) = IF f.kind = PUBLISH THEN 3 + n + p ELSE 2 + n
             /\ Cells(f)[1] = f.kind /\ Cells(f)[2] = n
             /\ \A i \in 1..n : Cells(f)[2 + i] = f.name[i]
             /\ f.kind = PUBLISH => /\ Cells(f)[3 + n] = p
                                    /\ \A i \in 1..p : Cells(f)[3 + n + i] = f.payload[i]
<1> DEFINE name == f.name
           load == f.payload
           n == Len(name)
           p == Len(load)
           head == <<f.kind, n>>
           front == head \o name
           field == <<p>> \o load
<1>1. name \in Seq(Nat) /\ load \in Seq(Nat) /\ f.kind \in Nat
  BY DEF WireFrame
<1> HIDE DEF name, load
<1>2. n \in Nat /\ p \in Nat
  BY <1>1, LenProperties
<1> HIDE DEF n, p
<1>3. head \in Seq(Nat) /\ Len(head) = 2 /\ head[1] = f.kind /\ head[2] = n
  BY <1>1, <1>2
<1>4. <<p>> \in Seq(Nat) /\ Len(<<p>>) = 1 /\ <<p>>[1] = p
  BY <1>2
<1>5. Len(name) = n /\ Len(load) = p
  BY DEF n, p
<1> HIDE DEF head
<1>6. /\ front \in Seq(Nat) /\ Len(front) = 2 + n
      /\ \A i \in 1..2 : front[i] = head[i]
      /\ \A i \in 1..n : front[2 + i] = name[i]
  <2>0. head \in Seq(Nat)
    BY <1>3
  <2>1. /\ head \o name \in Seq(Nat) /\ Len(head \o name) = Len(head) + Len(name)
        /\ \A i \in 1..Len(head) : (head \o name)[i] = head[i]
        /\ \A i \in 1..Len(name) : (head \o name)[Len(head) + i] = name[i]
    BY <1>1, <2>0, Joined
  <2> QED BY <1>3, <1>5, <2>1
<1>7. /\ field \in Seq(Nat) /\ Len(field) = 1 + p
      /\ field[1] = p
      /\ \A i \in 1..p : field[1 + i] = load[i]
  <2> DEFINE one == <<p>>
  <2>1. one \in Seq(Nat) /\ Len(one) = 1 /\ one[1] = p
    BY <1>4
  <2> HIDE DEF one
  <2>0. one \in Seq(Nat)
    BY <2>1
  <2>2. /\ one \o load \in Seq(Nat) /\ Len(one \o load) = Len(one) + Len(load)
        /\ \A i \in 1..Len(one) : (one \o load)[i] = one[i]
        /\ \A i \in 1..Len(load) : (one \o load)[Len(one) + i] = load[i]
    BY <1>1, <2>0, Joined
  <2>3. /\ Len(one \o load) = 1 + p /\ (one \o load)[1] = p
        /\ \A i \in 1..p : (one \o load)[1 + i] = load[i]
    BY <1>5, <2>1, <2>2
  <2> QED BY <2>2, <2>3 DEF one
<1> HIDE DEF front, field
<1>8. CASE f.kind = PUBLISH
  <2>1. Cells(f) = front \o field
    BY <1>8 DEF Cells, front, field, head, name, load, n, p
  <2>2. /\ front \o field \in Seq(Nat) /\ Len(front \o field) = (2 + n) + (1 + p)
        /\ \A i \in 1..2 + n : (front \o field)[i] = front[i]
        /\ \A i \in 1..1 + p : (front \o field)[2 + n + i] = field[i]
    <3>0. front \in Seq(Nat) /\ field \in Seq(Nat)
      BY <1>6, <1>7
    <3>1. /\ front \o field \in Seq(Nat) /\ Len(front \o field) = Len(front) + Len(field)
          /\ \A i \in 1..Len(front) : (front \o field)[i] = front[i]
          /\ \A i \in 1..Len(field) : (front \o field)[Len(front) + i] = field[i]
      BY <3>0, Joined
    <3> QED BY <1>6, <1>7, <3>1
  <2> DEFINE c == front \o field
  <2>3. /\ c \in Seq(Nat) /\ Len(c) = (2 + n) + (1 + p) /\ Cells(f) = c
        /\ \A i \in 1..2 + n : c[i] = front[i]
        /\ \A i \in 1..1 + p : c[2 + n + i] = field[i]
    BY <2>1, <2>2
  <2> HIDE DEF c
  <2>4. c[1] = f.kind /\ c[2] = n
    BY <1>2, <1>3, <1>6, <2>3
  <2>5. ASSUME NEW i \in 1..n PROVE c[2 + i] = name[i]
    <3>1. 2 + i \in 1..2 + n
      BY <1>2
    <3> QED BY <1>6, <2>3, <3>1
  <2>6. c[3 + n] = p
    <3>1. 3 + n = 2 + n + 1 /\ 1 \in 1..1 + p
      BY <1>2
    <3> QED BY <1>7, <2>3, <3>1
  <2>7. ASSUME NEW i \in 1..p PROVE c[3 + n + i] = load[i]
    <3>1. 3 + n + i = 2 + n + (1 + i) /\ 1 + i \in 1..1 + p
      BY <1>2
    <3> QED BY <1>7, <2>3, <3>1
  <2>8. Len(c) = 3 + n + p
    BY <1>2, <2>3
  <2> QED BY <1>2, <1>8, <2>3, <2>4, <2>5, <2>6, <2>7, <2>8 DEF n, p, name, load
<1>9. CASE f.kind # PUBLISH
  <2>1. Cells(f) = front \o <<>>
    BY <1>9 DEF Cells, front, head, name, n
  <2>2. Cells(f) = front
    BY <1>6, <2>1, ConcatEmptySeq
  <2>3. front[1] = f.kind /\ front[2] = n
    BY <1>3, <1>6
  <2> QED BY <1>2, <1>6, <1>9, <2>2, <2>3 DEF n, p, name, load
<1> QED BY <1>8, <1>9

-----------------------------------------------------------------------------
(* The decoders.                                                           *)

\* What a decoder says of `size` bytes.
Sound(d, size) ==
  \/ d.answer = "error"
  \/ d.answer = "need" /\ d.n \in Nat /\ d.n > size /\ d.n <= Ceiling
  \/ d.answer \in {"item", "skip"} /\ d.n \in 1..size

\* A decoder that needs more needs more than there is and no more than the
\* buffer may hold, and one that answers takes some of what there is.
LEMMA DecodeAnswers ==
  ASSUME NEW data \in Seq(Nat), NEW kinds
  PROVE  Sound(decode(data, kinds), Len(data))
<1> DEFINE size == Len(data)
           d == decode(data, kinds)
<1> SUFFICES Sound(d, size)
  OBVIOUS
<1>1. size \in Nat /\ \A i \in 1..size : data[i] \in Nat
  BY LenProperties, ElementOfSeq
<1>2. Limits
  BY LimitsHold
<1>3. ASSUME NEW n \in Nat, size < n, n <= Ceiling PROVE Sound(Need(n), size)
  BY <1>3 DEF Sound, Need
<1>4. Sound(Err, size)
  BY DEF Sound, Err
<1>5. ASSUME NEW n \in Nat, ~(size < n), n >= 1, NEW f
      PROVE Sound(Skip(n), size) /\ Sound(Item(f, n), size)
  <2>1. n \in 1..size
    BY <1>1, <1>5
  <2> HIDE DEF size
  <2> QED BY <2>1 DEF Sound, Skip, Item
<1>6. CASE size < 2
  BY <1>1, <1>2, <1>3, <1>6 DEF decode, HEAD, Limits
<1>7. CASE size >= 2 /\ (data[1] \notin kinds \/ data[2] > CHANNEL_READ_MAX)
  BY <1>1, <1>4, <1>7 DEF decode, HEAD
<1>8. CASE size >= 2 /\ data[1] \in kinds /\ ~(data[2] > CHANNEL_READ_MAX) /\ data[1] # PUBLISH
  <2>1. d = decode_pattern(data)
    BY <1>1, <1>8 DEF decode, HEAD
  <2> DEFINE n == 2 + data[2]
  <2>2. n \in Nat /\ n <= Ceiling /\ n >= 1
    BY <1>1, <1>2, <1>8 DEF Limits
  <2> HIDE DEF d
  <2>3. CASE size < n
    <3>1. d = Need(n)
      BY <2>1, <2>3 DEF decode_pattern, HEAD
    <3> HIDE DEF n, size
    <3> QED BY <1>3, <2>2, <2>3, <3>1
  <2>4. CASE ~(size < n)
    <3>1. d = Skip(n) \/ \E f : d = Item(f, n)
      BY <2>1, <2>4 DEF decode_pattern, HEAD
    <3> HIDE DEF n, size
    <3> QED BY <1>5, <2>2, <2>4, <3>1
  <2> QED BY <2>3, <2>4 DEF d
<1>9. CASE size >= 2 /\ data[1] \in kinds /\ ~(data[2] > CHANNEL_READ_MAX) /\ data[1] = PUBLISH
  <2> DEFINE head == 2 + data[2] + 1
             frame == head + data[head]
  <2>1. d = decode_publish(data)
    BY <1>1, <1>9 DEF decode, HEAD
  <2>2. head \in Nat /\ head <= 3 + CHANNEL_READ_MAX /\ head <= Ceiling /\ head >= 1
    BY <1>1, <1>2, <1>9 DEF Limits
  <2> HIDE DEF d
  <2>3. CASE size < head
    <3>1. d = Need(head)
      BY <2>1, <2>3 DEF decode_publish, HEAD, LENGTH
    <3> HIDE DEF head, size
    <3> QED BY <1>3, <2>2, <2>3, <3>1
  <2>4. CASE ~(size < head) /\ data[head] > MAX_MESSAGE_LEN
    <3>1. d = Err
      BY <2>1, <2>4 DEF decode_publish, HEAD, LENGTH
    <3> QED BY <1>4, <3>1
  <2>5. CASE ~(size < head) /\ ~(data[head] > MAX_MESSAGE_LEN)
    <3>1. data[head] \in Nat
      <4>1. head \in 1..size
        BY <1>1, <2>2, <2>5
      <4> HIDE DEF head
      <4> QED BY <1>1, <4>1
    <3>2. frame \in Nat /\ frame <= Ceiling /\ frame >= 1
      <4>1. frame = head + data[head]
        OBVIOUS
      <4> HIDE DEF head, frame
      <4> QED BY <1>2, <2>2, <2>5, <3>1, <4>1 DEF Limits
    <3>3. CASE size < frame
      <4>1. d = Need(frame)
        BY <2>1, <2>5, <3>3 DEF decode_publish, HEAD, LENGTH
      <4> HIDE DEF frame, size
      <4> QED BY <1>3, <3>2, <3>3, <4>1
    <3>4. CASE ~(size < frame)
      <4>1. d = Skip(frame) \/ \E f : d = Item(f, frame)
        BY <2>1, <2>5, <3>4 DEF decode_publish, HEAD, LENGTH
      <4> HIDE DEF frame, size
      <4> QED BY <1>5, <3>2, <3>4, <4>1
    <3> QED BY <3>3, <3>4
  <2> QED BY <2>3, <2>4, <2>5 DEF d
<1>10. size < 2 \/ size >= 2
  BY <1>1
<1> QED BY <1>6, <1>7, <1>8, <1>9, <1>10

\* A frame that a decoder of these kinds finds the end of.
MeasuredBy(f, kinds) ==
  /\ f.kind \in kinds
  /\ Len(f.name) <= CHANNEL_READ_MAX
  /\ f.kind = PUBLISH => Len(f.payload) <= MAX_MESSAGE_LEN

\* A decoder that looks at a frame, or at the first part of it, gives that
\* frame, or steps over it, or waits for the rest, or cannot tell its end.
LEMMA DecodeFrame ==
  ASSUME NEW f \in WireFrame, f.kind # PUBLISH => f.payload = <<>>, NEW kinds,
         NEW data \in Seq(Nat),
         \A i \in 1..Len(data) : i <= Len(Cells(f)) => data[i] = Cells(f)[i]
  PROVE  LET d == decode(data, kinds)
             all == Len(Cells(f))
         IN  \/ d = Err /\ ~MeasuredBy(f, kinds)
             \/ Len(data) < all /\ \E n : d = Need(n)
             \/ /\ Len(data) >= all /\ MeasuredBy(f, kinds)
                /\ d = IF Proper(f) THEN Item(f, all) ELSE Skip(all)
<1> DEFINE d == decode(data, kinds)
           all == Len(Cells(f))
           size == Len(data)
           n == Len(f.name)
           p == Len(f.payload)
           Done == IF Proper(f) THEN Item(f, all) ELSE Skip(all)
<1> SUFFICES \/ d = Err /\ ~MeasuredBy(f, kinds)
             \/ size < all /\ \E k : d = Need(k)
             \/ size >= all /\ MeasuredBy(f, kinds) /\ d = Done
  OBVIOUS
<1>1. /\ n \in Nat /\ p \in Nat /\ size \in Nat /\ all \in Nat
      /\ all = IF f.kind = PUBLISH THEN 3 + n + p ELSE 2 + n
      /\ Cells(f)[1] = f.kind /\ Cells(f)[2] = n
      /\ \A i \in 1..n : Cells(f)[2 + i] = f.name[i]
      /\ f.kind = PUBLISH => /\ Cells(f)[3 + n] = p
                             /\ \A i \in 1..p : Cells(f)[3 + n + i] = f.payload[i]
  BY CellsAre, LenProperties
<1>2. \A i \in 1..size : i <= all => data[i] = Cells(f)[i]
  OBVIOUS
<1>3. f.name \in Seq(Nat) /\ f.payload \in Seq(Nat)
      /\ f = [kind |-> f.kind, name |-> f.name, payload |-> f.payload]
  BY DEF WireFrame
<1>4. MeasuredBy(f, kinds) <=> /\ f.kind \in kinds /\ n <= CHANNEL_READ_MAX
                               /\ f.kind = PUBLISH => p <= MAX_MESSAGE_LEN
  BY DEF MeasuredBy
<1>5. Limits
  BY LimitsHold
<1>6. d = decode(data, kinds) /\ size = Len(data) /\ n = Len(f.name) /\ p = Len(f.payload)
  OBVIOUS
<1>7. Done = IF Proper(f) THEN Item(f, all) ELSE Skip(all)
  OBVIOUS
<1> HIDE DEF d, all, size, n, p, Done
<1>8. CASE size < 2
  <2>1. d = Need(2)
    BY <1>6, <1>8 DEF decode, HEAD
  <2>2. all >= 2
    BY <1>1
  <2> QED BY <1>1, <1>8, <2>1, <2>2
<1>9. ASSUME ~(size < 2)
      PROVE  data[1] = f.kind /\ data[2] = n
  <2>1. 1 \in 1..size /\ 2 \in 1..size /\ 1 <= all /\ 2 <= all
    BY <1>1, <1>9
  <2> QED BY <1>1, <1>2, <2>1
<1>10. CASE ~(size < 2) /\ (f.kind \notin kinds \/ n > CHANNEL_READ_MAX)
  <2>1. d = Err
    BY <1>6, <1>9, <1>10 DEF decode, HEAD
  <2> QED BY <1>1, <1>4, <1>5, <1>10, <2>1 DEF Limits
<1>11. ASSUME ~(size < 2), 2 + n <= size PROVE SubSeq(data, HEAD + 1, HEAD + data[2]) = f.name
  <2>1. \A i \in 1..n : data[2 + i] = f.name[i]
    <3>1. ASSUME NEW i \in 1..n PROVE data[2 + i] = f.name[i]
      <4> DEFINE k == 2 + i
      <4>1. k \in 1..size /\ k <= all /\ Cells(f)[k] = f.name[i]
        BY <1>1, <1>11
      <4> HIDE DEF k
      <4>2. data[k] = f.name[i]
        BY <1>2, <4>1
      <4> QED BY <4>2 DEF k
    <3> QED BY <3>1
  <2>2. SubSeq(data, 2 + 1, 2 + Len(f.name)) = f.name
    BY <1>3, <1>6, <1>11, <2>1, PieceIs
  <2> QED BY <1>6, <1>9, <1>11, <2>2 DEF HEAD
<1>12. CASE ~(size < 2) /\ f.kind \in kinds /\ ~(n > CHANNEL_READ_MAX) /\ f.kind # PUBLISH
  <2>1. d = decode_pattern(data)
    BY <1>6, <1>9, <1>12 DEF decode, HEAD
  <2>2. all = 2 + n /\ MeasuredBy(f, kinds) /\ f.payload = <<>>
    BY <1>1, <1>4, <1>5, <1>12 DEF Limits
  <2>3. CASE size < all
    <3>1. d = Need(all)
      BY <1>6, <1>9, <1>12, <2>1, <2>2, <2>3 DEF decode_pattern, HEAD
    <3> QED BY <2>3, <3>1
  <2>4. CASE ~(size < all)
    <3>1. SubSeq(data, HEAD + 1, HEAD + data[2]) = f.name
      BY <1>1, <1>11, <1>12, <2>2, <2>4
    <3>2. Proper(f) <=> IsText(f.name)
      BY <1>12 DEF Proper
    <3>3. d = IF ~IsText(f.name) THEN Skip(all)
              ELSE Item([kind |-> f.kind, name |-> f.name, payload |-> <<>>], all)
      BY <1>6, <1>9, <1>12, <2>1, <2>2, <2>4, <3>1 DEF decode_pattern, HEAD
    <3>4. f = [kind |-> f.kind, name |-> f.name, payload |-> <<>>]
      BY <1>3, <2>2
    <3>5. d = Done
      BY <1>7, <3>2, <3>3, <3>4
    <3> QED BY <1>1, <2>2, <2>4, <3>5
  <2> QED BY <2>3, <2>4
<1>13. CASE ~(size < 2) /\ f.kind \in kinds /\ ~(n > CHANNEL_READ_MAX) /\ f.kind = PUBLISH
  <2>1. d = decode_publish(data)
    BY <1>6, <1>9, <1>13 DEF decode, HEAD
  <2> DEFINE head == 3 + n
  <2>2. all = head + p /\ head \in Nat /\ HEAD + data[2] + LENGTH = head
    BY <1>1, <1>9, <1>13 DEF HEAD, LENGTH
  <2> HIDE DEF head
  <2>3. CASE size < head
    <3>1. d = Need(head)
      BY <1>6, <2>1, <2>2, <2>3 DEF decode_publish
    <3> QED BY <1>1, <2>2, <2>3, <3>1
  <2>4. ASSUME ~(size < head) PROVE data[head] = p
    <3>1. head \in 1..size /\ head <= all /\ Cells(f)[head] = p
      BY <1>1, <1>13, <2>2, <2>4 DEF head
    <3> QED BY <1>2, <3>1
  <2>5. CASE ~(size < head) /\ p > MAX_MESSAGE_LEN
    <3>1. d = Err
      BY <2>1, <2>2, <2>4, <1>6, <2>5 DEF decode_publish
    <3> QED BY <1>1, <1>4, <1>5, <1>13, <2>5, <3>1 DEF Limits
  <2>6. CASE ~(size < head) /\ ~(p > MAX_MESSAGE_LEN) /\ size < all
    <3>1. d = Need(all)
      BY <2>1, <2>2, <2>4, <1>6, <2>6 DEF decode_publish
    <3> QED BY <2>6, <3>1
  <2>7. CASE ~(size < head) /\ ~(p > MAX_MESSAGE_LEN) /\ ~(size < all)
    <3>1. SubSeq(data, HEAD + 1, HEAD + data[2]) = f.name
      BY <1>1, <1>11, <1>13, <2>2, <2>7 DEF head
    <3>2. SubSeq(data, head + 1, all) = f.payload
      <4>1. ASSUME NEW i \in 1..p PROVE data[head + i] = f.payload[i]
        <5> DEFINE k == head + i
        <5>1. k \in 1..size /\ k <= all /\ Cells(f)[k] = f.payload[i]
          BY <1>1, <1>13, <2>2, <2>7 DEF head
        <5> HIDE DEF k
        <5>2. data[k] = f.payload[i]
          BY <1>2, <5>1
        <5> QED BY <5>2 DEF k
      <4>2. head + Len(f.payload) <= Len(data)
        <5>1. head + p <= size
          BY <1>1, <2>2, <2>7
        <5> QED BY <1>6, <5>1
      <4>3. SubSeq(data, head + 1, head + Len(f.payload)) = f.payload
        BY <1>3, <1>6, <2>2, <4>1, <4>2, PieceIs
      <4> QED BY <1>6, <2>2, <4>3
    <3>3. Proper(f) <=> IsText(f.name) /\ check_channel(f.name, MAX_CHANNEL_LEN)
      BY <1>13 DEF Proper
    <3>4. d = IF ~IsText(f.name) \/ ~check_channel(f.name, MAX_CHANNEL_LEN) THEN Skip(all)
              ELSE Item([kind |-> f.kind, name |-> f.name, payload |-> f.payload], all)
      <4> DEFINE channel == SubSeq(data, HEAD + 1, HEAD + data[2])
                 rest == SubSeq(data, head + 1, all)
      <4>1. channel = f.name /\ rest = f.payload
        BY <3>1, <3>2
      <4>2. d = IF ~IsText(channel) \/ ~check_channel(channel, MAX_CHANNEL_LEN) THEN Skip(all)
                ELSE Item([kind |-> PUBLISH, name |-> channel, payload |-> rest], all)
        BY <1>6, <2>1, <2>2, <2>4, <2>7 DEF decode_publish
      <4> HIDE DEF channel, rest
      <4> QED BY <1>13, <4>1, <4>2
    <3>5. d = Done
      BY <1>3, <1>7, <3>3, <3>4
    <3>6. MeasuredBy(f, kinds)
      BY <1>1, <1>4, <1>5, <1>13, <2>7 DEF Limits
    <3> QED BY <1>1, <2>7, <3>5, <3>6
  <2> QED BY <2>3, <2>5, <2>6, <2>7
<1> QED BY <1>8, <1>10, <1>12, <1>13

-----------------------------------------------------------------------------
(* A stream of frames.                                                     *)

\* What the first i frames put into a stream.
CellsOf(frames, i) == FlattenSeq([j \in 1..i |-> Cells(frames[j])])

\* It ends where they end, and the next frame is behind it.
LEMMA FramesCells ==
  ASSUME NEW k \in Nat, NEW frames \in [1..k -> WireFrame], NEW i \in 0..k
  PROVE  /\ CellsOf(frames, k) \in Seq(Nat)
         /\ EndOf(frames, i) \in Nat /\ EndOf(frames, i) <= EndOf(frames, k)
         /\ i = 0 => EndOf(frames, i) = 0
         /\ i < k =>
              LET next == Cells(frames[i + 1])
              IN  /\ next \in Seq(Nat) /\ Len(next) \in Nat /\ Len(next) >= 2
                  /\ EndOf(frames, i + 1) = EndOf(frames, i) + Len(next)
                  /\ \A m \in 1..Len(next) : CellsOf(frames, k)[EndOf(frames, i) + m] = next[m]
<1> DEFINE q == [j \in 1..k |-> Cells(frames[j])]
           F(m) == UpTo(q, m)
<1>1. \A j \in 1..k : frames[j] \in WireFrame /\ Cells(frames[j]) \in Seq(Nat)
  BY CellsAre
<1>2. q \in [1..k -> Seq(Nat)] /\ \A j \in 1..k : q[j] = Cells(frames[j])
  BY <1>1
<1>2a. q \in Seq(Seq(Nat)) /\ Len(q) = k
  <2>1. q \in Seq(Seq(Nat))
    BY <1>2, SeqDef
  <2>2. DOMAIN q = 1..k
    OBVIOUS
  <2> HIDE DEF q
  <2> QED BY <2>1, <2>2, LenIs
<1>3. \A m \in 0..k : F(m) = CellsOf(frames, m)
  <2>1. ASSUME NEW m \in 0..k PROVE F(m) = CellsOf(frames, m)
    <3>1. [j \in 1..m |-> q[j]] = [j \in 1..m |-> Cells(frames[j])]
      BY <1>2
    <3> QED BY <3>1 DEF CellsOf, UpTo
  <2> QED BY <2>1
<1>4. \A m \in 0..k : EndOf(frames, m) = Len(F(m))
  BY <1>3 DEF EndOf, CellsOf
<1> HIDE DEF q
<1>5. ASSUME NEW m \in 0..k
      PROVE  /\ F(m) \in Seq(Nat) /\ F(k) \in Seq(Nat)
             /\ Len(F(m)) <= Len(F(k))
             /\ \A c \in 1..Len(F(m)) : F(k)[c] = F(m)[c]
  <2>2. /\ UpTo(q, m) \in Seq(Nat) /\ UpTo(q, k) \in Seq(Nat)
        /\ Len(UpTo(q, m)) <= Len(UpTo(q, k))
        /\ \A c \in 1..Len(UpTo(q, m)) : UpTo(q, k)[c] = UpTo(q, m)[c]
    <3>1. q \in Seq(Seq(Nat)) /\ m \in 0..Len(q)
      BY <1>2a
    <3>2. LET all == UpTo(q, Len(q))
          IN  /\ UpTo(q, m) \in Seq(Nat) /\ all \in Seq(Nat)
              /\ Len(UpTo(q, m)) <= Len(all)
              /\ \A c \in 1..Len(UpTo(q, m)) : all[c] = UpTo(q, m)[c]
      BY <3>1, FlattenPrefix
    <3> QED BY <1>2a, <3>2
  <2> QED BY <2>2
<1>6. ASSUME i < k PROVE F(i + 1) = F(i) \o Cells(frames[i + 1])
  <2>1. i \in 0..k - 1 /\ i + 1 \in 1..k
    BY <1>6
  <2>2. F(i + 1) = F(i) \o q[i + 1]
    <3>1. q \in Seq(Seq(Nat)) /\ i \in Nat /\ i < Len(q)
      BY <1>2a, <1>6
    <3>2. UpTo(q, i + 1) = UpTo(q, i) \o q[i + 1]
      BY <3>1, FlattenNext
    <3> QED BY <3>2
  <2> QED BY <1>2, <2>1, <2>2
<1>7. i = 0 => F(i) = <<>>
  <2>1. ASSUME i = 0 PROVE F(i) = <<>>
    <3>1. [j \in 1..0 |-> q[j]] = <<>>
      OBVIOUS
    <3> QED BY <2>1, <3>1, FlattenEmpty DEF UpTo
  <2> QED BY <2>1
<1> HIDE DEF F
<1>8. k \in 0..k
  OBVIOUS
<1>9. Len(F(i)) \in Nat /\ Len(F(k)) \in Nat
  BY <1>5, LenProperties
<1>10. i = 0 => EndOf(frames, i) = 0
  BY <1>4, <1>7, EmptySeq
<1>11. ASSUME i < k
       PROVE  LET next == Cells(frames[i + 1])
              IN  /\ next \in Seq(Nat) /\ Len(next) \in Nat /\ Len(next) >= 2
                  /\ EndOf(frames, i + 1) = EndOf(frames, i) + Len(next)
                  /\ \A m \in 1..Len(next) : CellsOf(frames, k)[EndOf(frames, i) + m] = next[m]
  <2> DEFINE next == Cells(frames[i + 1])
             a == F(i)
             b == F(i + 1)
             e == Len(a)
             l == Len(next)
  <2>1. i + 1 \in 1..k /\ i + 1 \in 0..k
    BY <1>11
  <2>2. frames[i + 1] \in WireFrame
    BY <1>1, <2>1
  <2>3. next \in Seq(Nat) /\ l \in Nat /\ l >= 2
    <3>1. next \in Seq(Nat)
      BY <2>2, CellsAre
    <3> DEFINE f == frames[i + 1]
               n == Len(f.name)
               p == Len(f.payload)
    <3>2. n \in Nat /\ p \in Nat /\ l = IF f.kind = PUBLISH THEN 3 + n + p ELSE 2 + n
      BY <2>2, CellsAre
    <3> HIDE DEF l, n, p
    <3>3. l \in Nat /\ l >= 2
      BY <3>2
    <3> QED BY <3>1, <3>3
  <2>4. a \in Seq(Nat) /\ b = a \o next
    BY <1>5, <1>6, <1>11
  <2>5. /\ b \in Seq(Nat) /\ Len(b) <= Len(F(k))
        /\ \A c \in 1..Len(b) : F(k)[c] = b[c]
    BY <1>5, <2>1
  <2>6. e \in Nat
    BY <1>9
  <2> HIDE DEF next, a, b
  <2>7. /\ Len(a \o next) = Len(a) + Len(next)
        /\ \A m \in 1..Len(next) : (a \o next)[Len(a) + m] = next[m]
    <3>1. a \in Seq(Nat) /\ next \in Seq(Nat)
      BY <2>3, <2>4
    <3> QED BY <3>1, Joined
  <2>8. Len(b) = e + l /\ \A m \in 1..l : b[e + m] = next[m]
    BY <2>4, <2>7
  <2> HIDE DEF e, l
  <2>9. ASSUME NEW m \in 1..l PROVE F(k)[e + m] = next[m]
    <3> DEFINE c == e + m
    <3>1. c \in 1..Len(b) /\ b[c] = next[m]
      BY <2>3, <2>6, <2>8
    <3> HIDE DEF c
    <3>2. F(k)[c] = b[c]
      BY <2>5, <3>1
    <3> QED BY <3>1, <3>2 DEF c
  <2>10. EndOf(frames, i) = e /\ EndOf(frames, i + 1) = Len(b) /\ CellsOf(frames, k) = F(k)
    BY <1>3, <1>4, <1>8, <2>1 DEF e, a, b
  <2> QED BY <2>3, <2>8, <2>9, <2>10 DEF l, next
<1> QED BY <1>3, <1>4, <1>5, <1>8, <1>9, <1>10, <1>11

-----------------------------------------------------------------------------
(* The inductive invariant.                                                *)

\* What the stream is made of.
FarType ==
  /\ reader \in DOMAIN Reads
  /\ Len(written) \in Nat
  /\ written \in [1..Len(written) -> Frames]
  /\ EndOf(written, Len(written)) >= Stream

\* The reader is at the start of a frame.  Until it looks again it has less
\* than that frame, and it stops for one it has no end of, or for the end of
\* the stream.
AtFrame(n) ==
  /\ EndOf(written, n) = taken
  /\ \A i \in 1..n : Measured(written[i])
  /\ given = Kept(n)
  /\ at \in {"fill", "closed"} /\ n < Len(written) => EndOf(written, n + 1) > taken + Unread
  /\ at = "refused" => n < Len(written) /\ ~Measured(written[n + 1])

StreamInv ==
  /\ BufferInv
  /\ FarType
  /\ at = "closed" => taken + Unread = Stream
  /\ at # "too large"
  /\ \E n \in 0..Len(written) : AtFrame(n)

\* Frames are frames of the wire.
LEMMA WrittenIs ==
  ASSUME FarType
  PROVE  /\ written \in [1..Len(written) -> WireFrame]
         /\ \A i \in 1..Len(written) :
              written[i].kind # PUBLISH => written[i].payload = <<>>
BY FramesAssumption DEF FarType, WireFrame

\* The ceilings a frame is held to are those of its reader.
LEMMA MeasuredIs ==
  \A f : Measured(f) <=> MeasuredBy(f, Reads[reader])
BY DEF Measured, MeasuredBy

\* The decoder sees what was not taken, and from the start of a frame on it
\* sees that frame.
LEMMA DataIs ==
  ASSUME StreamInv, NEW n \in 0..Len(written), EndOf(written, n) = taken
  PROVE  /\ Data \in Seq(Nat) /\ Len(Data) = Unread /\ Unread \in Nat
         /\ n = Len(written) => Unread = 0
         /\ n < Len(written) =>
              LET next == Cells(written[n + 1])
              IN  \A i \in 1..Unread : i <= Len(next) => Data[i] = next[i]
<1> DEFINE k == Len(written)
           cells == CellsOf(written, k)
<1>1. k \in Nat /\ written \in [1..k -> WireFrame] /\ EndOf(written, k) >= Stream /\ n \in 0..k
  BY WrittenIs DEF StreamInv, FarType
<1>2. DOMAIN written = 1..k
  BY DEF StreamInv, FarType
<1>3. cells = FlattenSeq([i \in DOMAIN written |-> Cells(written[i])])
  BY <1>2 DEF CellsOf
<1> HIDE DEF k
<1>4. cells \in Seq(Nat) /\ EndOf(written, k) \in Nat /\ Len(cells) = EndOf(written, k)
  <2>1. k \in 0..k
    BY <1>1
  <2>2. cells \in Seq(Nat) /\ EndOf(written, k) \in Nat
    BY <1>1, <2>1, FramesCells
  <2>3. Len(cells) = EndOf(written, k)
    BY DEF CellsOf, EndOf
  <2> QED BY <2>2, <2>3
<1>5. Data = [i \in 1..Unread |-> cells[buffer[start + i - 1] + 1]]
  BY <1>3 DEF Data
<1> HIDE DEF cells
<1>6. /\ start \in Nat /\ end \in Nat /\ start <= end /\ taken \in Nat /\ Stream \in Nat
      /\ Unread = end - start /\ taken + Unread <= Stream
      /\ \A i \in start..(end - 1) : buffer[i] = taken + (i - start)
  BY BufferAssumption DEF StreamInv, BufferInv, TypeOK, ReadSoFar, UnreadIsNext, Unread
<1>7. Unread \in Nat
  BY <1>6
<1>8. ASSUME NEW i \in 1..Unread
      PROVE  Data[i] = cells[taken + i] /\ taken + i \in 1..Len(cells)
  <2>1. start + i - 1 \in start..(end - 1) /\ taken + (start + i - 1 - start) + 1 = taken + i
    BY <1>6, <1>7
  <2>2. buffer[start + i - 1] = taken + (start + i - 1 - start)
    BY <1>6, <2>1
  <2>3. Data[i] = cells[taken + i]
    BY <1>5, <2>1, <2>2
  <2>4. taken + i <= Stream /\ taken + i \in Nat /\ taken + i >= 1
    BY <1>6, <1>7
  <2> QED BY <1>1, <1>4, <1>6, <2>3, <2>4
<1>9. Data \in [1..Unread -> Nat]
  <2>1. \A i \in 1..Unread : Data[i] \in Nat
    <3>1. \A c \in 1..Len(cells) : cells[c] \in Nat
      BY <1>4, ElementOfSeq
    <3> QED BY <1>8, <3>1
  <2>2. Data = [i \in 1..Unread |-> Data[i]]
    BY <1>5
  <2> QED BY <2>1, <2>2
<1>10. Data \in Seq(Nat)
  BY <1>7, <1>9, SeqDef
<1>11. Len(Data) = Unread
  <2>1. DOMAIN Data = 1..Unread
    BY <1>9
  <2> QED BY <1>7, <1>10, <2>1, LenIs
<1>12. n = k => Unread = 0
  BY <1>1, <1>4, <1>6, <1>7
<1>13. ASSUME n < k, NEW i \in 1..Unread, i <= Len(Cells(written[n + 1]))
       PROVE  Data[i] = Cells(written[n + 1])[i]
  <2> DEFINE next == Cells(written[n + 1])
  <2>1. Len(next) \in Nat /\ \A m \in 1..Len(next) : cells[EndOf(written, n) + m] = next[m]
    BY <1>1, <1>13, FramesCells DEF cells
  <2> HIDE DEF next
  <2>2. i \in 1..Len(next)
    BY <1>13, <2>1 DEF next
  <2>3. cells[taken + i] = next[i]
    BY <2>1, <2>2
  <2> QED BY <1>8, <2>3 DEF next
<1> QED BY <1>7, <1>10, <1>11, <1>12, <1>13 DEF k

\* One more frame is kept, or left out.
LEMMA KeptNext ==
  ASSUME FarType
  PROVE  /\ Kept(0) = <<>>
         /\ \A n \in 0..Len(written) - 1 :
              Kept(n + 1) = IF Proper(written[n + 1]) THEN Append(Kept(n), written[n + 1])
                            ELSE Kept(n)
<1> DEFINE k == Len(written)
           one(j) == IF Proper(written[j]) THEN <<written[j]>> ELSE <<>>
           q == [j \in 1..k |-> one(j)]
<1>1. k \in Nat /\ written \in [1..k -> Frames]
  BY DEF FarType
<1> HIDE DEF k
<1>2. ASSUME NEW j \in 1..k PROVE one(j) \in Seq(Frames) /\ q[j] = one(j)
  <2>1. written[j] \in Frames
    BY <1>1
  <2>2. <<>> \in Seq(Frames)
    BY EmptySeq
  <2>3. <<written[j]>> \in Seq(Frames)
    BY <2>1
  <2> QED BY <2>2, <2>3
<1>3. q \in Seq(Seq(Frames)) /\ Len(q) = k
  <2> HIDE DEF one
  <2>1. q \in [1..k -> Seq(Frames)]
    BY <1>2
  <2>2. q \in Seq(Seq(Frames))
    BY <1>1, <2>1, SeqDef
  <2>3. DOMAIN q = 1..k
    OBVIOUS
  <2> HIDE DEF q
  <2> QED BY <1>1, <2>2, <2>3, LenIs
<1> HIDE DEF one
<1>4. \A n \in 0..k : UpTo(q, n) = Kept(n)
  <2>1. ASSUME NEW n \in 0..k PROVE UpTo(q, n) = Kept(n)
    <3>1. [j \in 1..n |-> q[j]] = [j \in 1..n |-> one(j)]
      BY <1>1
    <3> QED BY <3>1 DEF UpTo, Kept, one
  <2> QED BY <2>1
<1> HIDE DEF q
<1>5. Kept(0) = <<>>
  <2>1. [j \in 1..0 |-> IF Proper(written[j]) THEN <<written[j]>> ELSE <<>>] = <<>>
    OBVIOUS
  <2> QED BY <2>1, FlattenEmpty DEF Kept
<1>6. ASSUME NEW n \in 0..k - 1
      PROVE  Kept(n + 1) = IF Proper(written[n + 1]) THEN Append(Kept(n), written[n + 1])
                           ELSE Kept(n)
  <2> DEFINE f == written[n + 1]
             before == Kept(n)
  <2>1. n \in Nat /\ n < Len(q) /\ n \in 0..k /\ n + 1 \in 0..k /\ n + 1 \in 1..k
    BY <1>1, <1>3
  <2>2. UpTo(q, n + 1) = UpTo(q, n) \o q[n + 1] /\ UpTo(q, n) \in Seq(Frames)
    BY <1>3, <2>1, FlattenNext
  <2>3. Kept(n + 1) = before \o one(n + 1) /\ before \in Seq(Frames) /\ f \in Frames
    BY <1>1, <1>2, <1>4, <2>1, <2>2
  <2> HIDE DEF before
  <2>4. CASE Proper(f)
    <3>1. one(n + 1) = <<f>>
      BY <2>4 DEF one
    <3> HIDE DEF f
    <3>2. Append(before, f) = before \o <<f>>
      BY <2>3, AppendIsConcat
    <3>3. Kept(n + 1) = Append(before, f)
      BY <2>3, <3>1, <3>2
    <3> QED BY <2>4, <3>3 DEF before, f
  <2>5. CASE ~Proper(f)
    <3>1. one(n + 1) = <<>>
      BY <2>5 DEF one
    <3>2. before \o <<>> = before
      BY <2>3, ConcatEmptySeq
    <3>3. Kept(n + 1) = before
      BY <2>3, <3>1, <3>2
    <3> QED BY <2>5, <3>3 DEF before
  <2> QED BY <2>4, <2>5
<1> QED BY <1>5, <1>6 DEF k

\* What the decoder answers at the start of a frame.
LEMMA AnswerIs ==
  ASSUME StreamInv, NEW n \in 0..Len(written), EndOf(written, n) = taken
  PROVE  /\ Sound(Answer, Unread)
         /\ n = Len(written) => Answer = Need(2)
         /\ n < Len(written) =>
              LET f == written[n + 1]
                  all == Len(Cells(f))
              IN  \/ Answer = Err /\ ~Measured(f)
                  \/ Unread < all /\ \E k : Answer = Need(k)
                  \/ /\ Unread >= all /\ Measured(f)
                     /\ Answer = IF Proper(f) THEN Item(f, all) ELSE Skip(all)
<1>1. /\ Data \in Seq(Nat) /\ Len(Data) = Unread /\ Unread \in Nat
      /\ n = Len(written) => Unread = 0
  BY DataIs
<1>2. Sound(Answer, Unread)
  BY <1>1, DecodeAnswers DEF Answer
<1>3. ASSUME n = Len(written) PROVE Answer = Need(2)
  BY <1>1, <1>3 DEF Answer, decode, HEAD
<1>4. ASSUME n < Len(written)
      PROVE  LET f == written[n + 1]
                 all == Len(Cells(f))
             IN  \/ Answer = Err /\ ~Measured(f)
                 \/ Unread < all /\ \E k : Answer = Need(k)
                 \/ /\ Unread >= all /\ Measured(f)
                    /\ Answer = IF Proper(f) THEN Item(f, all) ELSE Skip(all)
  <2> DEFINE f == written[n + 1]
             all == Len(Cells(f))
  <2>1. f \in WireFrame /\ (f.kind # PUBLISH => f.payload = <<>>)
    <3>1. Len(written) \in Nat /\ FarType
      BY DEF StreamInv, FarType
    <3>2. n + 1 \in 1..Len(written)
      BY <1>4, <3>1
    <3> QED BY <3>1, <3>2, WrittenIs
  <2>2. \A i \in 1..Len(Data) : i <= all => Data[i] = Cells(f)[i]
    BY <1>1, <1>4, DataIs
  <2> HIDE DEF f
  <2> DEFINE kinds == Reads[reader]
             d == decode(Data, kinds)
  <2> HIDE DEF kinds
  <2>3. \/ d = Err /\ ~MeasuredBy(f, kinds)
        \/ Len(Data) < all /\ \E k : d = Need(k)
        \/ /\ Len(Data) >= all /\ MeasuredBy(f, kinds)
           /\ d = IF Proper(f) THEN Item(f, all) ELSE Skip(all)
    BY <1>1, <2>1, <2>2, DecodeFrame
  <2>4. Answer = d /\ (Measured(f) <=> MeasuredBy(f, kinds))
    BY MeasuredIs DEF Answer, kinds
  <2> HIDE DEF d, all
  <2>5. \/ Answer = Err /\ ~Measured(f)
        \/ Unread < all /\ \E k : Answer = Need(k)
        \/ /\ Unread >= all /\ Measured(f)
           /\ Answer = IF Proper(f) THEN Item(f, all) ELSE Skip(all)
    BY <1>1, <2>3, <2>4
  <2> QED BY <2>5 DEF all, f
<1> QED BY <1>2, <1>3, <1>4

\* Every stream starts in the invariant.
LEMMA StreamInitInv == StreamInit => StreamInv
<1> SUFFICES ASSUME StreamInit PROVE StreamInv
  OBVIOUS
<1>1. BufferInv
  BY InitInv DEF StreamInit
<1>2. FarType
  <2>1. /\ reader \in DOMAIN Reads
        /\ EndOf(written, Len(written)) >= Stream
        /\ written \in UNION {[1..k -> Frames] : k \in 1..MaxFrames}
    BY DEF StreamInit
  <2>2. PICK k \in 1..MaxFrames : written \in [1..k -> Frames]
    BY <2>1
  <2>3. k \in Nat
    BY FramesAssumption
  <2>4. written \in Seq(Frames) /\ DOMAIN written = 1..k
    BY <2>2, <2>3, SeqDef
  <2>5. Len(written) = k
    BY <2>3, <2>4, LenIs
  <2> QED BY <2>1, <2>2, <2>3, <2>5 DEF FarType
<1>3. /\ at = "fill" /\ taken = 0 /\ Unread = 0 /\ given = <<>>
  BY DEF StreamInit, Init, Unread
<1>4. AtFrame(0)
  <2>1. Len(written) \in Nat /\ written \in [1..Len(written) -> WireFrame] /\ 0 \in 0..Len(written)
    BY <1>2, WrittenIs DEF FarType
  <2>2. /\ EndOf(written, 0) = 0
        /\ 0 < Len(written) => EndOf(written, 0 + 1) > 0
    <3>1. EndOf(written, 0) = 0
      BY <2>1, FramesCells
    <3>2. ASSUME 0 < Len(written) PROVE EndOf(written, 0 + 1) > 0
      <4> DEFINE l == Len(Cells(written[0 + 1]))
      <4>1. l \in Nat /\ l >= 2 /\ EndOf(written, 0 + 1) = EndOf(written, 0) + l
        BY <2>1, <3>2, FramesCells
      <4> HIDE DEF l
      <4> QED BY <3>1, <4>1
    <3> QED BY <3>1, <3>2
  <2>3. Kept(0) = <<>>
    BY <1>2, KeptNext
  <2> QED BY <1>3, <2>2, <2>3 DEF AtFrame
<1>5. 0 \in 0..Len(written)
  BY <1>2 DEF FarType
<1> QED BY <1>1, <1>2, <1>3, <1>4, <1>5 DEF StreamInv

\* A step that takes no bytes leaves the reader where it is.
LEMMA StaysAtFrame ==
  ASSUME StreamInv, UNCHANGED <<far, given>>, BufferInv', taken' = taken,
         at' \in {"fill", "closed"} => at \in {"fill", "closed"} /\ Unread' = Unread,
         at' = "closed" => taken + Unread = Stream, at' \notin {"refused", "too large"}
  PROVE  StreamInv'
<1>1. reader' = reader /\ written' = written /\ given' = given
  BY DEF far
<1>2. FarType'
  BY <1>1 DEF StreamInv, FarType, EndOf
<1>3. PICK n \in 0..Len(written) : AtFrame(n)
  BY DEF StreamInv
<1>4. Kept(n)' = Kept(n) /\ \A f : Measured(f)' <=> Measured(f)
  BY <1>1 DEF Kept, Measured
<1>5. AtFrame(n)'
  BY <1>1, <1>3, <1>4 DEF AtFrame, EndOf
<1>6. (at = "closed" => taken + Unread = Stream)'
  OBVIOUS
<1> QED BY <1>1, <1>2, <1>3, <1>5, <1>6 DEF StreamInv

\* A step that takes a frame goes to the next one.
LEMMA GoesToNext ==
  ASSUME StreamInv, UNCHANGED far, BufferInv', at' = "decode", NEW n \in 0..Len(written) - 1,
         AtFrame(n), Measured(written[n + 1]),
         taken' = taken + Len(Cells(written[n + 1])),
         given' = IF Proper(written[n + 1]) THEN Append(given, written[n + 1]) ELSE given
  PROVE  StreamInv'
<1>1. reader' = reader /\ written' = written
  BY DEF far
<1>2. FarType /\ FarType'
  BY <1>1 DEF StreamInv, FarType, EndOf
<1>3. Kept(n + 1)' = Kept(n + 1) /\ \A f : Measured(f)' <=> Measured(f)
  BY <1>1 DEF Kept, Measured
<1>4. /\ Len(written) \in Nat /\ written \in [1..Len(written) -> WireFrame] /\ n \in 0..Len(written)
      /\ n < Len(written) /\ n \in Nat /\ n + 1 \in 0..Len(written)
  BY <1>2, WrittenIs DEF FarType
<1>5. EndOf(written, n + 1) = taken'
  <2>1. EndOf(written, n + 1) = EndOf(written, n) + Len(Cells(written[n + 1]))
    BY <1>4, FramesCells
  <2> QED BY <2>1 DEF AtFrame
<1>6. given' = Kept(n + 1)
  <2>1. Kept(n + 1) = IF Proper(written[n + 1]) THEN Append(Kept(n), written[n + 1]) ELSE Kept(n)
    BY <1>2, KeptNext
  <2> QED BY <2>1 DEF AtFrame
<1>7. \A i \in 1..n + 1 : Measured(written[i])
  <2>1. \A i \in 1..n + 1 : i \in 1..n \/ i = n + 1
    BY <1>4
  <2> QED BY <2>1 DEF AtFrame
<1>8. AtFrame(n + 1)'
  BY <1>1, <1>3, <1>5, <1>6, <1>7 DEF AtFrame, EndOf
<1>9. n + 1 \in 0..Len(written')
  BY <1>1, <1>4
<1> QED BY <1>2, <1>8, <1>9 DEF StreamInv

\* Every step of a reader over its decoder keeps the invariant.
LEMMA StreamNextInv == StreamInv /\ [StreamNext]_streamVars => StreamInv'
<1> SUFFICES ASSUME StreamInv, [StreamNext]_streamVars PROVE StreamInv'
  OBVIOUS
<1>1. BufferInv /\ FarType
  BY DEF StreamInv
<1>2. PICK n \in 0..Len(written) : AtFrame(n)
  BY DEF StreamInv
<1>3. Len(written) \in Nat /\ written \in [1..Len(written) -> WireFrame] /\ n \in Nat
  BY <1>1, WrittenIs DEF FarType
<1>4. EndOf(written, n) = taken
  BY <1>2 DEF AtFrame
<1>5. /\ start \in Nat /\ end \in Nat /\ Unread = end - start /\ Unread \in Nat /\ Unread <= Ceiling
      /\ Ceiling \in Nat
  <2>1. /\ start \in Nat /\ end \in Nat /\ start <= end /\ end <= cap
        /\ cap \in Nat /\ cap <= Ceiling /\ Ceiling \in Nat
    BY <1>1, BufferAssumption DEF BufferInv, TypeOK
  <2> QED BY <2>1 DEF Unread
<1>6. CASE Fill
  <2>1. CASE \E c \in 1..Ceiling : FillBytes(c)
    <3>1. BufferInv'
      BY <1>1, <2>1, FillBytesInv
    <3>2. taken' = taken /\ at' = "decode"
      BY <2>1 DEF FillBytes
    <3> QED BY <1>6, <3>1, <3>2, StaysAtFrame DEF Fill
  <2>2. CASE FillNothing
    <3>1. BufferInv' /\ (at' = "fill" \/ (at' = "closed" /\ taken + Unread = Stream))
      BY <1>1, <2>2, FillNothingInv
    <3>2. RoomStart \in Nat /\ RoomEnd = RoomStart + Unread
      <4>1. TypeOK /\ 0 \in 0..Ceiling
        BY <1>1, <1>5 DEF BufferInv
      <4> QED BY <4>1, RoomIndexes
    <3>3. taken' = taken /\ at = "fill" /\ Unread' = Unread
      BY <1>5, <2>2, <3>2 DEF FillNothing, Unread
    <3> QED BY <1>6, <3>1, <3>3, StaysAtFrame DEF Fill
  <2> QED BY <1>6, <2>1, <2>2 DEF Fill
<1>7. /\ Sound(Answer, Unread)
      /\ n = Len(written) => Answer = Need(2)
      /\ n < Len(written) =>
           LET f == written[n + 1]
               all == Len(Cells(f))
           IN  \/ Answer = Err /\ ~Measured(f)
               \/ Unread < all /\ \E k : Answer = Need(k)
               \/ /\ Unread >= all /\ Measured(f)
                  /\ Answer = IF Proper(f) THEN Item(f, all) ELSE Skip(all)
  BY <1>4, AnswerIs
<1>8. n < Len(written) \/ n = Len(written)
  <2> DEFINE k == Len(written)
  <2>1. k \in Nat /\ n \in 0..k
    BY <1>2, <1>3
  <2> HIDE DEF k
  <2>2. n < k \/ n = k
    BY <2>1
  <2> QED BY <2>2 DEF k
<1>9. CASE TakeItem
  <2>1. /\ at = "decode" /\ Answer.answer = "item" /\ Consume(Answer.n)
        /\ given' = Append(given, Answer.frame) /\ UNCHANGED far
    BY <1>9 DEF TakeItem
  <2>2. Answer.n \in 1..Ceiling
    BY <1>5, <1>7, <2>1 DEF Sound
  <2>3. BufferInv' /\ at' = "decode" /\ taken' = taken + Answer.n
    BY <1>1, <2>1, <2>2, ConsumeInv DEF Consume
  <2> DEFINE f == written[n + 1]
             all == Len(Cells(f))
  <2>4. n < Len(written) /\ Measured(f) /\ Proper(f) /\ Answer = Item(f, all)
    BY <1>7, <1>8, <2>1 DEF Need, Err, Skip
  <2>5. Answer.n = all /\ Answer.frame = f
    BY <2>4 DEF Item
  <2>6. n \in 0..Len(written) - 1
    BY <1>3, <2>4
  <2> QED BY <1>2, <2>1, <2>3, <2>4, <2>5, <2>6, GoesToNext
<1>10. CASE TakeSkip
  <2>1. /\ at = "decode" /\ Answer.answer = "skip" /\ Consume(Answer.n)
        /\ given' = given /\ UNCHANGED far
    BY <1>10 DEF TakeSkip
  <2>2. Answer.n \in 1..Ceiling
    BY <1>5, <1>7, <2>1 DEF Sound
  <2>3. BufferInv' /\ at' = "decode" /\ taken' = taken + Answer.n
    BY <1>1, <2>1, <2>2, ConsumeInv DEF Consume
  <2> DEFINE f == written[n + 1]
             all == Len(Cells(f))
  <2>4. n < Len(written) /\ Measured(f) /\ ~Proper(f) /\ Answer = Skip(all)
    BY <1>7, <1>8, <2>1 DEF Need, Err, Item
  <2>5. Answer.n = all
    BY <2>4 DEF Skip
  <2>6. n \in 0..Len(written) - 1
    BY <1>3, <2>4
  <2> QED BY <1>2, <2>1, <2>3, <2>4, <2>5, <2>6, GoesToNext
<1>11. CASE AskForMore
  <2>1. /\ at = "decode" /\ Answer.answer = "need"
        /\ IF Answer.n > Ceiling THEN TooLarge(Answer.n) ELSE Reserve(Answer.n)
        /\ UNCHANGED far /\ given' = given
    BY <1>11 DEF AskForMore
  <2>2. Answer.n \in Nat /\ ~(Answer.n > Ceiling) /\ Answer.n > Unread
    BY <1>5, <1>7, <2>1 DEF Sound
  <2>3. Reserve(Answer.n)
    BY <2>1, <2>2
  <2>4. BufferInv' /\ at' = "fill" /\ taken' = taken
    BY <1>1, <2>2, <2>3, ReserveInv DEF Reserve
  <2>5. Unread' = Unread
    <3>1. TypeOK /\ 0 \in 0..Ceiling
      BY <1>1, <1>5 DEF BufferInv
    <3>2. RoomStart \in Nat /\ RoomEnd = RoomStart + Unread
      BY <3>1, RoomIndexes
    <3> QED BY <1>5, <2>3, <3>2 DEF Reserve, Unread
  <2>6. n < Len(written) => EndOf(written, n + 1) > taken + Unread
    <3>1. ASSUME n < Len(written) PROVE EndOf(written, n + 1) > taken + Unread
      <4> DEFINE l == Len(Cells(written[n + 1]))
      <4>1. Unread < l
        BY <1>7, <2>1, <3>1 DEF Err, Item, Skip
      <4>2. l \in Nat /\ EndOf(written, n + 1) = EndOf(written, n) + l
            /\ EndOf(written, n) \in Nat
        BY <1>3, <3>1, FramesCells
      <4> HIDE DEF l
      <4> QED BY <1>4, <1>5, <4>1, <4>2
    <3> QED BY <3>1
  <2>7. reader' = reader /\ written' = written /\ given' = given
    BY <2>1 DEF far
  <2>8. Kept(n)' = Kept(n) /\ \A f : Measured(f)' <=> Measured(f)
    BY <2>7 DEF Kept, Measured
  <2>9. AtFrame(n)'
    BY <1>2, <2>4, <2>5, <2>6, <2>7, <2>8 DEF AtFrame, EndOf
  <2>10. FarType'
    BY <1>1, <2>7 DEF FarType, EndOf
  <2> QED BY <2>4, <2>7, <2>9, <2>10 DEF StreamInv
<1>12. CASE EndStream
  <2>1. /\ at = "decode" /\ Answer.answer = "error" /\ Refuse /\ UNCHANGED far /\ given' = given
    BY <1>12 DEF EndStream
  <2>2. BufferInv' /\ at' = "refused" /\ taken' = taken
    BY <1>1, <2>1, RefuseInv DEF Refuse
  <2>3. n < Len(written) /\ ~Measured(written[n + 1])
    BY <1>7, <1>8, <2>1 DEF Need, Item, Skip
  <2>4. reader' = reader /\ written' = written /\ given' = given
    BY <2>1 DEF far
  <2>5. Kept(n)' = Kept(n) /\ \A f : Measured(f)' <=> Measured(f)
    BY <2>4 DEF Kept, Measured
  <2>6. AtFrame(n)'
    BY <1>2, <2>2, <2>3, <2>4, <2>5 DEF AtFrame, EndOf
  <2>7. FarType'
    BY <1>1, <2>4 DEF FarType, EndOf
  <2> QED BY <2>2, <2>4, <2>6, <2>7 DEF StreamInv
<1>13. CASE UNCHANGED streamVars
  <2>1. UNCHANGED <<vars, far, given>>
    BY <1>13 DEF streamVars
  <2>2. BufferInv'
    BY <1>1, <2>1, NextInv
  <2>3. reader' = reader /\ written' = written /\ given' = given /\ taken' = taken /\ at' = at
        /\ Unread' = Unread
    BY <2>1 DEF far, vars, Unread
  <2>4. Kept(n)' = Kept(n) /\ \A f : Measured(f)' <=> Measured(f)
    BY <2>3 DEF Kept, Measured
  <2>5. AtFrame(n)'
    BY <1>2, <2>3, <2>4 DEF AtFrame, EndOf
  <2>6. FarType'
    BY <1>1, <2>3 DEF FarType, EndOf
  <2> QED BY <2>2, <2>3, <2>5, <2>6 DEF StreamInv
<1> QED BY <1>6, <1>9, <1>10, <1>11, <1>12, <1>13 DEF StreamNext

-----------------------------------------------------------------------------
(* The theorems.                                                           *)

\* The reader is always at the start of a frame, for every stream and however
\* the kernel cuts it.
THEOREM StreamCorrect == StreamSpec => []StreamInv
BY StreamInitInv, StreamNextInv, PTL DEF StreamSpec

\* What is shown above of any decoder holds of these two, who only need
\* what they may have: no byte of the stream is lost, twice or out of place.
THEOREM StreamBufferCorrect == StreamSpec => [](TypeOK /\ UnreadIsNext /\ NeverFull /\ RoomIsBought)
<1>1. StreamInv => TypeOK /\ UnreadIsNext /\ NeverFull /\ RoomIsBought
  BY DEF StreamInv, BufferInv
<1> QED BY <1>1, StreamCorrect, PTL

\* decode and decode_request keep the contract the buffer's loop lives on.
THEOREM DecoderKeepsContractHolds == StreamSpec => []DecoderKeepsContract
<1>1. ASSUME StreamInv PROVE DecoderKeepsContract
  <2>1. PICK n \in 0..Len(written) : AtFrame(n)
    BY <1>1 DEF StreamInv
  <2>2. EndOf(written, n) = taken
    BY <2>1 DEF AtFrame
  <2>3. Sound(Answer, Unread)
    BY <1>1, <2>2, AnswerIs
  <2> QED BY <2>3 DEF Sound, DecoderKeepsContract
<1> QED BY <1>1, StreamCorrect, PTL

\* tcpq_reader and peer_reader give on what the far end wrote, whole and in
\* order, and stop only where they cannot tell the end of a frame or where the
\* stream broke off.
THEOREM GivenAsSentHolds == StreamSpec => []GivenAsSent
<1>1. ASSUME StreamInv PROVE GivenAsSent
  <2>1. PICK n \in 0..Len(written) : AtFrame(n)
    BY <1>1 DEF StreamInv
  <2>2. at = "closed" => taken + Unread = Stream
    BY <1>1 DEF StreamInv
  <2> QED BY <1>1, <2>1, <2>2 DEF StreamInv, AtFrame, GivenAsSent
<1> QED BY <1>1, StreamCorrect, PTL
=============================================================================
