------------------------------ MODULE Fragments ------------------------------
(***************************************************************************)
(* How one message becomes datagrams on a udpm:// bus: the arithmetic of    *)
(* wire::udpm::fragments.  `name` is the bytes of the channel name and its  *)
(* NUL, `len` those of the payload, and `short` is `short_max`, what one    *)
(* datagram takes of the two beside a short header.                         *)
(***************************************************************************)
EXTENDS Integers

CONSTANTS
  HEADER_GAP,       \* how much longer the header of a fragment is
  MAX_CHANNEL_LEN,  \* the limit of LCM on a channel name, without its NUL
  MAX_MESSAGE_LEN,  \* the limit of the protocol on one message
  MAX_COUNT         \* u16::MAX: the most fragments a message can have

ASSUME LimitsAssumption ==
  /\ HEADER_GAP \in Nat
  /\ MAX_CHANNEL_LEN \in Nat
  /\ MAX_MESSAGE_LEN \in Nat
  /\ MAX_COUNT \in Nat \ {0}

\* Mutant of fragment_max: a fragment as long as a short message.
fragment_max_ungapped(short) == short

fragment_max(short) == IF short > HEADER_GAP THEN short - HEADER_GAP ELSE 1

\* The payload bytes of fragment zero, which shares with the name.
First(name, short) == fragment_max(short) - name

\* One datagram takes it all.
IsWhole(name, len, short) == name + len <= short

\* Mutant of Count: the name is not counted.
CountPayload(name, len, short) ==
  (len + fragment_max(short) - 1) \div fragment_max(short)

Count(name, len, short) ==
  (name + len + fragment_max(short) - 1) \div fragment_max(short)

\* check_channel: a name is there, and is not too long.  One with a NUL in it is
\* refused as an empty one is.
NameIsLegal(name) == name - 1 \in 1..MAX_CHANNEL_LEN

\* Whether `fragments` gives datagrams and not an error.
Encodes(name, len, short) ==
  /\ NameIsLegal(name)
  /\ len <= MAX_MESSAGE_LEN
  /\ \/ IsWhole(name, len, short)
     \/ /\ First(name, short) > 0
        /\ Count(name, len, short) <= MAX_COUNT

CountOf(name, len, short) ==
  IF IsWhole(name, len, short) THEN 1 ELSE Count(name, len, short)

\* Mutant of Start: fragment zero is taken for a full one.
StartFull(name, short, index) == index * fragment_max(short)

Start(name, short, index) ==
  IF index = 0 THEN 0
  ELSE First(name, short) + (index - 1) * fragment_max(short)

End(name, len, short, index) ==
  IF Start(name, short, index + 1) < len THEN Start(name, short, index + 1) ELSE len

=============================================================================
