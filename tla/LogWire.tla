------------------------------- MODULE LogWire -------------------------------
(***************************************************************************)
(* The events of a log: wire::log.  A log is a sequence of cells.  A number *)
(* of the head and a byte of a name or a payload is one cell, and the sync  *)
(* word is two, so that a log can break off inside it.                      *)
(***************************************************************************)
EXTENDS Integers, Sequences, SequencesExt, FiniteSetsExt

CONSTANTS
  CHANNEL_MAX,      \* the longest name
  MAX_MESSAGE_LEN   \* the longest payload

ASSUME LogWireAssumption == CHANNEL_MAX \in Nat \ {0} /\ MAX_MESSAGE_LEN \in Nat

\* The two halves of MAGIC, which no number or text of this model is.
S1 == 98
S2 == 99
MAGIC == <<S1, S2>>

\* The byte of the one channel name, and the one no name has.
Letter == 50
NUL == 0

\* The sync word, the number, the time and the two lengths.
HEADER_LEN == 6

\* Whether `encode` gives bytes and not an error.
Encodes(event) == Len(event.payload) <= MAX_MESSAGE_LEN

encode(event) ==
  MAGIC \o <<event.number, event.timestamp, 1, Len(event.payload)>>
    \o <<Letter>> \o event.payload

-----------------------------------------------------------------------------
NoEvent == [number |-> 0, timestamp |-> 0, payload |-> <<>>]

Item(event, n) == [answer |-> "item", n |-> n, event |-> event]
Skip(n) == [answer |-> "skip", n |-> n, event |-> NoEvent]
Need(n) == [answer |-> "need", n |-> n, event |-> NoEvent]
Err == [answer |-> "error", n |-> 0, event |-> NoEvent]

\* The tests of a head that `decode` and `peek` share.
HeadReads(data) ==
  /\ IsPrefix(MAGIC, data)
  /\ data[5] \in 1..CHANNEL_MAX
  /\ data[6] <= MAX_MESSAGE_LEN

\* The length that a head names: Peek::len.
EventLen(data) == HEADER_LEN + data[5] + data[6]

\* A name that is text and without a NUL.
NameReads(name) == \A i \in DOMAIN name : name[i] \notin {NUL, S1, S2}

\* Mutant of SyncBehind: what is behind an event must be a sync word, in part too.
SyncBehindStrict(behind) == behind = <<>> \/ IsPrefix(MAGIC, behind)

\* Mutant of SyncBehind: what is behind an event must read as the head of another.
SyncBehindHead(behind) == Len(behind) < HEADER_LEN \/ HeadReads(behind)

\* A sync word is behind the event, as far as this read can tell.
SyncBehind(behind) == Len(behind) < Len(MAGIC) \/ IsPrefix(MAGIC, behind)

decode(data) ==
  IF Len(data) < HEADER_LEN THEN Need(HEADER_LEN)
  ELSE IF ~HeadReads(data) THEN Err
  ELSE LET n == EventLen(data)
           name == SubSeq(data, HEADER_LEN + 1, HEADER_LEN + data[5])
       IN IF Len(data) < n THEN Need(n)
          ELSE IF ~SyncBehind(SubSeq(data, n + 1, Len(data))) THEN Err
          ELSE IF ~NameReads(name) THEN Skip(n)
          ELSE Item([number |-> data[3], timestamp |-> data[4],
                     payload |-> SubSeq(data, HEADER_LEN + data[5] + 1, n)], n)

\* resync: where the sync words of `data` start, from zero.
Syncs(data) == {i \in 0..(Len(data) - 2) : SubSeq(data, i + 1, i + 2) = MAGIC}

\* Mutant of Slide: the sync word that did not read is found again.
SlideNowhere(data) ==
  IF Syncs(data) # {} THEN Min(Syncs(data)) ELSE Max({Len(data) - 1, 0})

\* How far log_reader goes after an event that did not read: to the next sync
\* word, or to the last cells, which can hold the start of one.
Slide(data) ==
  IF Syncs(Tail(data)) # {} THEN 1 + Min(Syncs(Tail(data)))
  ELSE Max({Len(data) - (Len(MAGIC) - 1), 0})

=============================================================================
