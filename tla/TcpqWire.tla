------------------------------ MODULE TcpqWire ------------------------------
(***************************************************************************)
(* The frames of a tcpq:// connection: wire::tcpq.  A stream is a sequence  *)
(* of cells, where a number of the wire is one cell and a byte of a name or *)
(* of a payload is one cell, so that a read can stop at any of them.        *)
(***************************************************************************)
EXTENDS Integers, Sequences, SequencesExt

CONSTANTS
  MAX_CHANNEL_LEN,   \* the longest name an encoder writes
  CHANNEL_READ_MAX,  \* the longest name a decoder steps over
  MAX_MESSAGE_LEN    \* the longest payload

ASSUME WireAssumption ==
  /\ {MAX_CHANNEL_LEN, CHANNEL_READ_MAX, MAX_MESSAGE_LEN} \subseteq Nat
  /\ MAX_CHANNEL_LEN <= CHANNEL_READ_MAX

PUBLISH == 1
SUBSCRIBE == 2
UNSUBSCRIBE == 3

\* The kinds of frame each side reads: decode and decode_request.
Reads == [client |-> {PUBLISH}, relay |-> {PUBLISH, SUBSCRIBE, UNSUBSCRIBE}]

\* The type of a frame and the length of its first field, and the length of a
\* payload.
HEAD == 2
LENGTH == 1

\* A byte that is text and that no name has, and one that is not text.
NUL == 0
NotText == 9

\* publish, subscribe and unsubscribe, or another program that has no limits.
Cells(f) ==
  <<f.kind, Len(f.name)>> \o f.name
    \o (IF f.kind = PUBLISH THEN <<Len(f.payload)>> \o f.payload ELSE <<>>)

IsText(name) == ~Contains(name, NotText)

check_channel(name, max) == name # <<>> /\ ~Contains(name, NUL) /\ Len(name) <= max

-----------------------------------------------------------------------------
(* The answers of a decoder: Decoded, or a WireError.                      *)

NoFrame == [kind |-> 0, name |-> <<>>, payload |-> <<>>]

Item(f, n) == [answer |-> "item", n |-> n, frame |-> f]
Skip(n) == [answer |-> "skip", n |-> n, frame |-> NoFrame]
Need(n) == [answer |-> "need", n |-> n, frame |-> NoFrame]
Err == [answer |-> "error", n |-> 0, frame |-> NoFrame]

\* A frame of subscribe or unsubscribe, whose head is read.
decode_pattern(data) ==
  LET frame == HEAD + data[2]
      pattern == SubSeq(data, HEAD + 1, frame)
  IN IF Len(data) < frame THEN Need(frame)
     ELSE IF ~IsText(pattern) THEN Skip(frame)
     ELSE Item([kind |-> data[1], name |-> pattern, payload |-> <<>>], frame)

\* Mutant of decode_publish: the length of the payload is not asked for.
decode_publish_short(data) ==
  LET head == HEAD + data[2] + LENGTH
      channel == SubSeq(data, HEAD + 1, HEAD + data[2])
      frame == head + data[head]
  IN IF Len(data) < head THEN Need(head)
     ELSE IF data[head] > MAX_MESSAGE_LEN THEN Err
     ELSE IF Len(data) < frame THEN Need(head)
     ELSE IF ~IsText(channel) \/ ~check_channel(channel, MAX_CHANNEL_LEN) THEN Skip(frame)
     ELSE Item([kind |-> PUBLISH, name |-> channel, payload |-> SubSeq(data, head + 1, frame)],
               frame)

\* Mutant of decode_publish: a name that no encoder writes is stepped over, and
\* its payload is not.
decode_publish_steps(data) ==
  LET head == HEAD + data[2] + LENGTH
      channel == SubSeq(data, HEAD + 1, HEAD + data[2])
      frame == head + data[head]
  IN IF Len(data) < head THEN Need(head)
     ELSE IF data[head] > MAX_MESSAGE_LEN THEN Err
     ELSE IF Len(data) < frame THEN Need(frame)
     ELSE IF ~IsText(channel) \/ ~check_channel(channel, MAX_CHANNEL_LEN) THEN Skip(head)
     ELSE Item([kind |-> PUBLISH, name |-> channel, payload |-> SubSeq(data, head + 1, frame)],
               frame)

\* A publish frame, whose head is read.
decode_publish(data) ==
  LET head == HEAD + data[2] + LENGTH
      channel == SubSeq(data, HEAD + 1, HEAD + data[2])
      frame == head + data[head]
  IN IF Len(data) < head THEN Need(head)
     ELSE IF data[head] > MAX_MESSAGE_LEN THEN Err
     ELSE IF Len(data) < frame THEN Need(frame)
     ELSE IF ~IsText(channel) \/ ~check_channel(channel, MAX_CHANNEL_LEN) THEN Skip(frame)
     ELSE Item([kind |-> PUBLISH, name |-> channel, payload |-> SubSeq(data, head + 1, frame)],
               frame)

\* decode, where `kinds` is PUBLISH alone, and decode_request.
decode(data, kinds) ==
  IF Len(data) < HEAD THEN Need(HEAD)
  ELSE IF data[1] \notin kinds \/ data[2] > CHANNEL_READ_MAX THEN Err
  ELSE IF data[1] = PUBLISH THEN decode_publish(data)
  ELSE decode_pattern(data)

=============================================================================
